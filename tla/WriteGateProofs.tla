---------------------------- MODULE WriteGateProofs ----------------------------
(* Proofs about one writegate pass, for every package and every map order. *)
EXTENDS WriteGate, TLAPS

USE ProgramsAssumption

\* The types of the parts of a program.
LEMMA ProgramParts ==
    ASSUME TypeOK
    PROVE  /\ prog \in Program
           /\ prog.calls \in [Body -> SUBSET Call]
           /\ prog.nested \in [Body -> SUBSET Lit]
           /\ prog.top \subseteq Lit
           /\ prog.assigns \in Seq([var : Var, rhs : Fn \cup Lit \cup {Opaque}])
           /\ prog.impl \subseteq (Decl \cup Iface) \X Iface
           /\ prog.facts \subseteq Imported \cup Foreign
           /\ prog.sig \in [Body -> Signature]
           /\ Len(prog.assigns) \in Nat
<1>1. prog \in Program
    BY DEF TypeOK
<1>2. prog.assigns \in Seq([var : Var, rhs : Fn \cup Lit \cup {Opaque}])
    BY <1>1 DEF Program
<1>3. Len(prog.assigns) \in Nat
    BY <1>2
<1> QED
    BY <1>1, <1>2, <1>3 DEF Program

\* One assignment is well typed.
LEMMA AssignType ==
    ASSUME TypeOK, NEW i \in 1..Len(prog.assigns)
    PROVE  /\ prog.assigns[i].var \in Var
           /\ prog.assigns[i].rhs \in Fn \cup Lit \cup {Opaque}
<1> DEFINE Assign == [var : Var, rhs : Fn \cup Lit \cup {Opaque}]
           s == prog.assigns
<1>1. s \in Seq(Assign) /\ i \in 1..Len(s)
    BY ProgramParts
<1>2. s[i] \in Assign
    <2> HIDE DEF Assign, s
    <2> QED BY <1>1
<1> QED
    BY <1>2

\* What a signature shows makes a frame.
LEMMA FrameTypes ==
    ASSUME TypeOK
    PROVE  /\ \A l \in Body : frameFromLit(l) \in Frame
           /\ \A d \in Body : frameFrom(d) \in Frame
           /\ \A b \in Body : topFrame(b) \in Frame
<1>1. \A b \in Body : prog.sig[b] \in Signature
    BY ProgramParts
<1>2. \A s \in Signature : /\ s.http \in BOOLEAN
                           /\ (s.handler \/ s.returnsHandler) \in BOOLEAN
                           /\ (s.http \/ s.server) \in BOOLEAN
    BY DEF Signature
<1>3. \A b \in Body : frameFromLit(b) \in Frame
    BY <1>1, <1>2 DEF frameFromLit, applySig, Frame
<1>4. \A b \in Body : frameFrom(b) \in Frame
    BY <1>1, <1>2 DEF frameFrom, applySig, Frame
<1> QED
    BY <1>3, <1>4 DEF topFrame

LEMMA InitTypeOK == Init => TypeOK
<1> SUFFICES ASSUME Init PROVE TypeOK
    OBVIOUS
<1>1. prog \in Program
    BY DEF Init
<1>2. Len(prog.assigns) \in Nat
    BY <1>1 DEF Program
<1> QED
    BY <1>2 DEF Init, TypeOK

\* A collection step keeps the types, with whatever marks it is given.
LEMMA CollectTypeOK ==
    ASSUME TypeOK, NEW local, CollectWith(local)
    PROVE  TypeOK'
<1> DEFINE a == prog.assigns[at]
<1>1. at \in 1..Len(prog.assigns)
    BY ProgramParts DEF TypeOK, CollectWith
<1>2. a.var \in Var
    BY <1>1, AssignType
<1>3. at' \in 1..(Len(prog.assigns) + 1)
    BY <1>1, ProgramParts DEF CollectWith
<1>4. funcValues' \in [Var -> Fn \cup {Opaque}]
    BY <1>2 DEF TypeOK, CollectWith
<1>5. varWrites' \subseteq Var
    BY <1>2 DEF TypeOK, CollectWith
<1> QED
    BY <1>3, <1>4, <1>5 DEF TypeOK, CollectWith, reporting

LEMMA WalkTypeOK ==
    ASSUME TypeOK, NEW e \in agenda, WalkBody(e)
    PROVE  TypeOK'
<1> DEFINE visible == {c \in prog.calls[e.body] : ~c.fun}
<1>1. e \in [body : Body, frame : Frame]
    BY DEF TypeOK
<1>2. e.body \in Body /\ e.frame \in Frame
    BY <1>1
<1>3. visible \subseteq Call
    BY <1>2, ProgramParts
<1>4. reported' \subseteq Body \X Call
  <2>1. reported' \subseteq reported \cup {<<e.body, c>> : c \in visible}
      BY DEF WalkBody
  <2> QED
      BY <2>1, <1>2, <1>3 DEF TypeOK
<1>5. \A l \in Lit : ArgFrame(l, e.frame) \in Frame
    BY <1>2, FrameTypes DEF ArgFrame, Frame, Body
<1>6. agenda' \subseteq [body : Body, frame : Frame]
  <2>1. prog.nested[e.body] \subseteq Lit
      BY <1>2, ProgramParts
  <2>2. \A l \in Lit : frameFromLit(l) \in Frame /\ l \in Body
      BY FrameTypes DEF Body
  <2> QED
      BY <2>1, <2>2, <1>5 DEF WalkBody, TypeOK
<1> QED
    BY <1>4, <1>6 DEF WalkBody, TypeOK, marking

LEMMA NextTypeOK == TypeOK /\ [Next]_vars => TypeOK'
<1> SUFFICES ASSUME TypeOK, [Next]_vars PROVE TypeOK'
    OBVIOUS
<1>1. CASE SkipPass
    BY <1>1 DEF SkipPass, TypeOK, marking, reporting
<1>2. CASE Collect
    BY <1>2, CollectTypeOK DEF Collect
<1>3. CASE EndCollect
    BY <1>3 DEF EndCollect, TypeOK, marking, reporting
<1>4. CASE MarkDirect
    BY <1>4 DEF MarkDirect, TypeOK, reporting
<1>5. ASSUME NEW d \in Decl, VisitDecl(d) PROVE TypeOK'
    BY <1>5 DEF VisitDecl, TypeOK, reporting
<1>6. CASE EndRange
    BY <1>6 DEF EndRange, TypeOK, reporting
<1>7. ASSUME NEW f \in Decl \cup Iface, VisitMark(f) PROVE TypeOK'
    BY <1>7 DEF VisitMark, TypeOK, reporting
<1>8. CASE EndInterfaces
  <2>1. at' \in 1..(Len(prog.assigns) + 1)
      BY <1>8, ProgramParts DEF EndInterfaces, TypeOK
  <2> QED
      BY <1>8, <2>1 DEF EndInterfaces, TypeOK, reporting
<1>9. CASE Recollect
    BY <1>9, CollectTypeOK DEF Recollect
<1>10. CASE EndRecollect
    BY <1>10 DEF EndRecollect, TypeOK, marking, reporting
<1>11. CASE ExportFacts
  <2>1. \A b \in Decl \cup prog.top : b \in Body /\ topFrame(b) \in Frame
      BY ProgramParts, FrameTypes DEF Body
  <2>2. agenda' \subseteq [body : Body, frame : Frame]
      BY <1>11, <2>1 DEF ExportFacts
  <2> QED
      BY <1>11, <2>2 DEF ExportFacts, TypeOK, marking
<1>12. ASSUME NEW e \in agenda, WalkBody(e) PROVE TypeOK'
    BY <1>12, WalkTypeOK
<1>13. CASE EndReport
    BY <1>13 DEF EndReport, TypeOK, marking, reporting
<1>14. CASE UNCHANGED vars
    BY <1>14 DEF vars, TypeOK, marking, reporting
<1> QED
    BY <1>1, <1>2, <1>3, <1>4, <1>5, <1>6, <1>7, <1>8, <1>9, <1>10, <1>11,
       <1>12, <1>13, <1>14 DEF Next

\* The pass never leaves its types, whatever package it is given.
THEOREM WriteGateTypeOK == Spec => []TypeOK
BY InitTypeOK, NextTypeOK, PTL DEF Spec
-----------------------------------------------------------------------------
(* Marks are never spurious. *)

Names == Fn \cup Var \cup Lit

\* A variable only ever holds a function that is assigned to it somewhere.
ValuesAssigned ==
    \A v \in Var : funcValues[v] \in Fn =>
        \E i \in 1..Len(prog.assigns) :
            prog.assigns[i].var = v /\ prog.assigns[i].rhs = funcValues[v]

\* The range of markInterfaceMethods only produces marked entries.
RangesOverMarks == phase = "interfaces" => todo \subseteq localWrites

JustInv == TypeOK /\ ValuesAssigned /\ MarksJustified /\ RangesOverMarks

\* The state in which a search starts, measured against a closed set.
Within(S, local) ==
    /\ S \in SUBSET Names
    /\ ReachClosed(S)
    /\ local \subseteq S
    /\ varWrites \subseteq S

\* What funcHasWrite and varHasWrite recognise lies in every closed set.
LEMMA FuncInside ==
    ASSUME NEW S, NEW local, Within(S, local), NEW f, funcHasWrite(f, local)
    PROVE  f \in S
BY DEF Within, funcHasWrite, ReachClosed

LEMMA VarInside ==
    ASSUME TypeOK, ValuesAssigned, NEW S, NEW local, Within(S, local),
           local \subseteq Decl \cup Iface,
           NEW v \in Var, varHasWrite(v, local)
    PROVE  v \in S
<1>1. CASE v \in varWrites
    BY <1>1 DEF Within
<1>2. CASE funcHasWrite(funcValues[v], local)
  <2>1. funcValues[v] \in S
      BY <1>2, FuncInside
  <2>2. funcValues[v] \in Fn
      BY <1>2, ProgramParts, ForeignAssumption DEF funcHasWrite, Fn
  <2>3. PICK i \in 1..Len(prog.assigns) :
            prog.assigns[i].var = v /\ prog.assigns[i].rhs = funcValues[v]
      BY <2>2 DEF ValuesAssigned
  <2> QED
      BY <2>1, <2>3 DEF Within, ReachClosed
<1> QED
    BY <1>1, <1>2 DEF varHasWrite

\* A call by which one body writes puts that body into every closed set.
LEMMA CallInside ==
    ASSUME TypeOK, ValuesAssigned, NEW S, NEW local, Within(S, local),
           local \subseteq Decl \cup Iface,
           NEW b \in Body, NEW c \in prog.calls[b],
           \/ isSQLWriteCall(c)
           \/ isInTxScopeCall(c) /\ inTxScopeWrites(c, local)
           \/ callWrites(c, local)
    PROVE  b \in S
<1> USE DEF Within
<1>1. CASE isSQLWriteCall(c)
    BY <1>1 DEF isSQLWriteCall, ReachClosed
<1>2. CASE callWrites(c, local)
  <2>1. c.callee \in S
      BY <1>2, FuncInside, VarInside DEF callWrites
  <2> QED
      BY <2>1 DEF ReachClosed
<1>3. CASE isInTxScopeCall(c) /\ inTxScopeWrites(c, local)
  <2>1. PICK x \in c.args : x \in S
      BY <1>3, FuncInside, VarInside DEF inTxScopeWrites
  <2> QED
      BY <1>3, <2>1 DEF ReachClosed
<1> QED
    BY <1>1, <1>2, <1>3

\* A body from which the search finds a write lies in every closed set: were it
\* outside, so would be every literal the search can reach.
LEMMA BodyInside ==
    ASSUME TypeOK, ValuesAssigned, NEW S, NEW local, Within(S, local),
           local \subseteq Decl \cup Iface,
           NEW b \in Body, bodyWrites(b, local)
    PROVE  b \in S
<1> SUFFICES ASSUME b \notin S PROVE FALSE
    OBVIOUS
<1> DEFINE T == Lit \ S
<1>1. ASSUME NEW x \in Body, x \notin S PROVE TxLits(x) \subseteq T
    BY <1>1 DEF TxLits, Within, ReachClosed
<1>2. TxLits(b) \subseteq T
    BY <1>1
<1>3. \A k \in T : TxLits(k) \subseteq T
    BY <1>1 DEF Body
<1>4. Searched(b) \subseteq {b} \cup T
  <2>1. T \in SUBSET Lit
      OBVIOUS
  <2> QED
      BY <2>1, <1>2, <1>3 DEF Searched
<1>5. PICK d \in Searched(b) : \E c \in prog.calls[d] :
            \/ isSQLWriteCall(c)
            \/ isInTxScopeCall(c) /\ inTxScopeWrites(c, local)
            \/ callWrites(c, local)
    BY DEF bodyWrites
<1>6. d \in Body /\ d \notin S
    BY <1>4, <1>5 DEF Body
<1> QED
    BY <1>5, <1>6, CallInside

LEMMA InitJust == Init => JustInv
<1> SUFFICES ASSUME Init PROVE JustInv
    OBVIOUS
<1>1. ValuesAssigned
    BY DisjointAssumption DEF Init, ValuesAssigned, Fn
<1> QED
    BY <1>1, InitTypeOK DEF Init, JustInv, MarksJustified, RangesOverMarks

\* A collection step records only assignments that are there, and marks only
\* variables whose closure is found to write.
LEMMA CollectJust ==
    ASSUME JustInv, NEW local, local \subseteq localWrites, CollectWith(local)
    PROVE  ValuesAssigned' /\ MarksJustified'
<1> DEFINE a == prog.assigns[at]
<1>1. at \in 1..Len(prog.assigns)
    BY ProgramParts DEF JustInv, TypeOK, CollectWith
<1>2. a.var \in Var
    BY <1>1, AssignType DEF JustInv
<1>3. prog' = prog /\ localWrites' = localWrites
    BY DEF CollectWith
<1>4. ValuesAssigned'
  <2> SUFFICES ASSUME NEW v \in Var, funcValues'[v] \in Fn
               PROVE  \E i \in 1..Len(prog.assigns) :
                        prog.assigns[i].var = v /\ prog.assigns[i].rhs = funcValues'[v]
      BY <1>3 DEF ValuesAssigned
  <2>1. CASE a.rhs \in Fn /\ v = a.var
      BY <1>1, <1>2, <2>1 DEF CollectWith, JustInv, TypeOK
  <2>2. CASE ~(a.rhs \in Fn /\ v = a.var)
    <3>1. funcValues'[v] = funcValues[v]
        BY <2>2 DEF CollectWith, JustInv, TypeOK
    <3> QED
        BY <3>1 DEF JustInv, ValuesAssigned
  <2> QED
      BY <2>1, <2>2
<1>5. MarksJustified'
  <2> SUFFICES ASSUME NEW S \in SUBSET Names, ReachClosed(S)'
               PROVE  localWrites \cup varWrites' \subseteq S
      BY <1>3 DEF MarksJustified, Names
  <2>1. ReachClosed(S)
      BY <1>3 DEF ReachClosed, isInTxScopeCall
  <2>2. localWrites \cup varWrites \subseteq S
      BY <2>1 DEF JustInv, MarksJustified, Names
  <2>3. Within(S, local) /\ local \subseteq Decl \cup Iface
      BY <2>1, <2>2 DEF Within, JustInv, TypeOK
  <2>4. CASE a.rhs \in Lit /\ bodyWrites(a.rhs, local)
    <3>1. a.rhs \in S
        BY <2>3, <2>4, BodyInside DEF JustInv, Body
    <3>2. a.var \in S
        BY <1>1, <2>1, <3>1 DEF ReachClosed
    <3> QED
        BY <2>2, <2>4, <3>2 DEF CollectWith
  <2>5. CASE ~(a.rhs \in Lit /\ bodyWrites(a.rhs, local))
      BY <2>2, <2>5 DEF CollectWith
  <2> QED
      BY <2>4, <2>5
<1> QED
    BY <1>4, <1>5

\* A step that leaves the program and the variables alone keeps the invariant if
\* the functions it marks lie in every closed set.
LEMMA MarkJust ==
    ASSUME JustInv, UNCHANGED <<prog, funcValues, varWrites>>,
           \A S \in SUBSET Names : Within(S, localWrites) => localWrites' \subseteq S
    PROVE  ValuesAssigned' /\ MarksJustified'
<1>1. ValuesAssigned'
    BY DEF JustInv, ValuesAssigned
<1>2. MarksJustified'
  <2> SUFFICES ASSUME NEW S \in SUBSET Names, ReachClosed(S)'
               PROVE  localWrites' \cup varWrites \subseteq S
      BY DEF MarksJustified, Names
  <2>1. ReachClosed(S)
      BY DEF ReachClosed, isInTxScopeCall
  <2>2. Within(S, localWrites)
      BY <2>1 DEF Within, JustInv, MarksJustified, Names
  <2> QED
      BY <2>2 DEF Within
<1> QED
    BY <1>1, <1>2

LEMMA NextRanges ==
    ASSUME RangesOverMarks, TypeOK, [Next]_vars
    PROVE  RangesOverMarks'
<1> USE DEF RangesOverMarks
<1>1. CASE SkipPass \/ EndCollect \/ MarkDirect \/ EndRecollect \/ ExportFacts \/ EndReport
    BY <1>1 DEF SkipPass, EndCollect, MarkDirect, EndRecollect, ExportFacts, EndReport
<1>2. CASE Collect \/ Recollect
    BY <1>2 DEF Collect, Recollect, CollectWith
<1>3. ASSUME NEW d \in Decl, VisitDecl(d) PROVE RangesOverMarks'
    BY <1>3 DEF VisitDecl
<1>4. CASE EndRange
    BY <1>4 DEF EndRange
<1>5. ASSUME NEW f \in Decl \cup Iface, VisitMark(f) PROVE RangesOverMarks'
    BY <1>5 DEF VisitMark
<1>6. CASE EndInterfaces
    BY <1>6 DEF EndInterfaces
<1>7. ASSUME NEW e \in agenda, WalkBody(e) PROVE RangesOverMarks'
    BY <1>7 DEF WalkBody, marking
<1>8. CASE UNCHANGED vars
    BY <1>8 DEF vars, marking
<1> QED
    BY <1>1, <1>2, <1>3, <1>4, <1>5, <1>6, <1>7, <1>8 DEF Next

LEMMA NextJust == JustInv /\ [Next]_vars => JustInv'
<1> SUFFICES ASSUME JustInv, [Next]_vars PROVE ValuesAssigned' /\ MarksJustified'
    BY NextTypeOK, NextRanges DEF JustInv
<1> DEFINE Still == UNCHANGED <<prog, funcValues, varWrites, localWrites>>
<1>1. CASE Still
  <2>1. \A S \in SUBSET Names : Within(S, localWrites) => localWrites' \subseteq S
      BY <1>1 DEF Within
  <2> QED
      BY <1>1, <2>1, MarkJust
<1>2. CASE Collect
    BY <1>2, CollectJust DEF Collect
<1>3. CASE Recollect
    BY <1>3, CollectJust DEF Recollect
<1>4. CASE MarkDirect
  <2>1. ASSUME NEW S \in SUBSET Names, Within(S, localWrites), NEW d \in localWrites'
        PROVE  d \in S
    <3>1. d \in Decl /\ bodyWrites(d, {})
        BY <1>4, <2>1 DEF MarkDirect
    <3>2. Within(S, {})
        BY <2>1 DEF Within
    <3> QED
        BY <3>1, <3>2, BodyInside DEF JustInv, Body
  <2> QED
      BY <1>4, <2>1, MarkJust DEF MarkDirect
<1>5. ASSUME NEW d \in Decl, VisitDecl(d) PROVE ValuesAssigned' /\ MarksJustified'
  <2>1. ASSUME NEW S \in SUBSET Names, Within(S, localWrites)
        PROVE  localWrites' \subseteq S
    <3>1. CASE bodyWrites(d, localWrites)
      <4>1. d \in S
          BY <2>1, <3>1, BodyInside DEF JustInv, TypeOK, Body
      <4> QED
          BY <1>5, <2>1, <4>1 DEF VisitDecl, Within
    <3>2. CASE ~bodyWrites(d, localWrites)
        BY <1>5, <2>1, <3>2 DEF VisitDecl, Within
    <3> QED
        BY <3>1, <3>2
  <2> QED
      BY <1>5, <2>1, MarkJust DEF VisitDecl
<1>6. ASSUME NEW f \in Decl \cup Iface, VisitMark(f)
      PROVE  ValuesAssigned' /\ MarksJustified'
  <2>1. ASSUME NEW S \in SUBSET Names, Within(S, localWrites), NEW i \in Iface,
               <<f, i>> \in prog.impl
        PROVE  i \in S
    <3>1. f \in S
        BY <1>6, <2>1 DEF VisitMark, JustInv, RangesOverMarks, Within
    <3>2. \A m \in prog.impl : m[1] \in S => m[2] \in S
        BY <2>1 DEF Within, ReachClosed
    <3> QED
        BY <2>1, <3>1, <3>2
  <2>2. localWrites' \subseteq localWrites \cup {i \in Iface : <<f, i>> \in prog.impl}
      BY <1>6 DEF VisitMark
  <2>3. ASSUME NEW S \in SUBSET Names, Within(S, localWrites)
        PROVE  localWrites' \subseteq S
      BY <2>1, <2>2, <2>3 DEF Within
  <2> QED
      BY <1>6, <2>3, MarkJust DEF VisitMark
<1>7. ASSUME NEW e \in agenda, WalkBody(e) PROVE Still
    BY <1>7 DEF WalkBody, marking
<1>8. CASE SkipPass \/ EndCollect \/ EndRange \/ EndInterfaces \/ EndRecollect
           \/ ExportFacts \/ EndReport \/ UNCHANGED vars
  <2>1. Still
      BY <1>8 DEF SkipPass, EndCollect, EndRange, EndInterfaces, EndRecollect,
                  ExportFacts, EndReport, vars, marking
  <2> QED
      BY <1>1, <2>1
<1> HIDE DEF Still
<1> QED
    BY <1>1, <1>2, <1>3, <1>4, <1>5, <1>6, <1>7, <1>8 DEF Next

\* No function or variable is ever marked as writing unless a write can be reached
\* from it, for every package, every map order and every literal structure.
THEOREM WriteGateMarksJustified == Spec => []MarksJustified
<1>1. JustInv => MarksJustified
    BY DEF JustInv
<1> QED
    BY <1>1, InitJust, NextJust, PTL DEF Spec
-----------------------------------------------------------------------------
(* The pass implements WriteMarking. *)

Node == Decl \cup Iface

\* Searching with more marks finds more, and what it finds needs at most one mark.
LEMMA SearchMonotone ==
    ASSUME NEW b, NEW L, NEW M, L \subseteq M, bodyWrites(b, L)
    PROVE  bodyWrites(b, M)
BY DEF bodyWrites, inTxScopeWrites, callWrites, varHasWrite, funcHasWrite

LEMMA SearchNeedsOne ==
    ASSUME NEW b, NEW M, bodyWrites(b, M)
    PROVE  bodyWrites(b, {}) \/ \E f \in M : bodyWrites(b, {f})
<1>0. PICK d \in Searched(b) : \E c \in prog.calls[d] :
            \/ isSQLWriteCall(c)
            \/ isInTxScopeCall(c) /\ inTxScopeWrites(c, M)
            \/ callWrites(c, M)
    BY DEF bodyWrites
<1>1. PICK c \in prog.calls[d] :
            \/ isSQLWriteCall(c)
            \/ isInTxScopeCall(c) /\ inTxScopeWrites(c, M)
            \/ callWrites(c, M)
    BY <1>0
<1> DEFINE Finds(L) == \/ isSQLWriteCall(c)
                       \/ isInTxScopeCall(c) /\ inTxScopeWrites(c, L)
                       \/ callWrites(c, L)
<1>2. \A L : Finds(L) => bodyWrites(b, L)
    BY <1>1 DEF bodyWrites
<1>3. \A x : funcHasWrite(x, M) => funcHasWrite(x, {}) \/ (x \in M /\ funcHasWrite(x, {x}))
    BY DEF funcHasWrite
<1>4. \A v : varHasWrite(v, M) => \/ varHasWrite(v, {})
                                  \/ \E f \in M : varHasWrite(v, {f})
    BY <1>3 DEF varHasWrite
<1>5. inTxScopeWrites(c, M) => \/ inTxScopeWrites(c, {})
                               \/ \E f \in M : inTxScopeWrites(c, {f})
    BY <1>3, <1>4 DEF inTxScopeWrites
<1>6. callWrites(c, M) => callWrites(c, {}) \/ \E f \in M : callWrites(c, {f})
    BY <1>3, <1>4 DEF callWrites
<1>7. Finds({}) \/ \E f \in M : Finds({f})
    BY <1>1, <1>5, <1>6
<1> QED
    BY <1>2, <1>7

\* The nodes the graph justifies are the ones the code would mark next.
LEMMA CallGraphJustifies ==
    ASSUME TypeOK, NEW M \in SUBSET Node
    PROVE  /\ \A n \in Marking!Justified(CallGraph, M) :
                \/ n \in Decl /\ bodyWrites(n, M)
                \/ n \in Iface /\ \E m \in M : <<m, n>> \in prog.impl
           /\ \A d \in Decl : bodyWrites(d, M) => d \in Marking!Justified(CallGraph, M)
           /\ \A i \in Iface, m \in M :
                <<m, i>> \in prog.impl => i \in Marking!Justified(CallGraph, M)
<1> DEFINE J == Marking!Justified(CallGraph, M)
<1>1. ASSUME NEW n \in J
      PROVE  \/ n \in Decl /\ bodyWrites(n, M)
             \/ n \in Iface /\ \E m \in M : <<m, n>> \in prog.impl
  <2>1. CASE n \in CallGraph.seeds
      BY <2>1, SearchMonotone DEF CallGraph
  <2>2. CASE \E m \in M : <<n, m>> \in CallGraph.edges
    <3>1. PICK m \in M : <<n, m>> \in CallGraph.edges
        BY <2>2
    <3>2. CASE n \in Decl /\ bodyWrites(n, {m})
        BY <3>2, SearchMonotone
    <3>3. CASE n \in Iface /\ <<m, n>> \in prog.impl
        BY <3>3
    <3> QED
        BY <3>1, <3>2, <3>3 DEF CallGraph
  <2> QED
      BY <2>1, <2>2 DEF Marking!Justified
<1>2. ASSUME NEW d \in Decl, bodyWrites(d, M) PROVE d \in J
  <2>1. CASE bodyWrites(d, {})
      BY <2>1 DEF CallGraph, Marking!Justified
  <2>2. CASE \E f \in M : bodyWrites(d, {f})
    <3>1. PICK f \in M : bodyWrites(d, {f})
        BY <2>2
    <3>2. <<d, f>> \in CallGraph.edges
        BY <3>1 DEF CallGraph, Node
    <3> QED
        BY <3>2 DEF Marking!Justified
  <2> QED
      BY <1>2, <2>1, <2>2, SearchNeedsOne
<1>3. ASSUME NEW i \in Iface, NEW m \in M, <<m, i>> \in prog.impl PROVE i \in J
  <2>1. <<i, m>> \in CallGraph.edges
      BY <1>3 DEF CallGraph, Node
  <2> QED
      BY <2>1 DEF Marking!Justified
<1> QED
    BY <1>1, <1>2, <1>3

LEMMA CallGraphType ==
    CallGraph \in Marking!Graph
BY DEF CallGraph, Marking!Graph

LEMMA CallGraphStill ==
    ASSUME UNCHANGED <<prog, funcValues, varWrites>>
    PROVE  CallGraph' = CallGraph
BY DEF CallGraph, bodyWrites, Searched, TxLits, inTxScopeWrites, callWrites,
       varHasWrite, funcHasWrite, isSQLWriteCall, isInTxScopeCall

\* What a range over the map has already settled, when nothing changed since.
DeclDone(d) == bodyWrites(d, localWrites) => d \in localWrites
ImplsDone(f) == \A i \in Iface : <<f, i>> \in prog.impl => i \in localWrites

FixInv ==
    /\ phase \in {"collect", "direct"} => localWrites = {}
    /\ phase = "range" /\ ~changed => \A d \in Decl \ todo : DeclDone(d)
    /\ phase = "interfaces" /\ ~changed /\ localWrites = before =>
         \A d \in Decl : DeclDone(d)
    /\ phase = "interfaces" => before \subseteq localWrites
    /\ phase = "interfaces" /\ localWrites = before =>
         \A f \in localWrites \ todo : ImplsDone(f)

LEMMA DoneStill ==
    ASSUME UNCHANGED <<prog, funcValues, varWrites, localWrites>>
    PROVE  /\ \A d : DeclDone(d)' <=> DeclDone(d)
           /\ \A f : ImplsDone(f)' <=> ImplsDone(f)
BY DEF DeclDone, ImplsDone, bodyWrites, Searched, TxLits, inTxScopeWrites,
       callWrites, varHasWrite, funcHasWrite, isSQLWriteCall, isInTxScopeCall

LEMMA InitFix == Init => FixInv
BY DEF Init, FixInv

LEMMA NextFix == TypeOK /\ FixInv /\ [Next]_vars => FixInv'
<1> SUFFICES ASSUME TypeOK, FixInv, [Next]_vars PROVE FixInv'
    OBVIOUS
<1>1. CASE SkipPass \/ EndCollect \/ EndRecollect \/ ExportFacts \/ EndReport
    BY <1>1 DEF SkipPass, EndCollect, EndRecollect, ExportFacts, EndReport, FixInv, marking
<1>2. CASE Collect \/ Recollect
    BY <1>2 DEF Collect, Recollect, CollectWith, FixInv
<1>3. CASE MarkDirect
    BY <1>3 DEF MarkDirect, FixInv
<1>4. ASSUME NEW d \in Decl, VisitDecl(d) PROVE FixInv'
  <2>1. CASE d \notin localWrites /\ bodyWrites(d, localWrites)
      BY <1>4, <2>1 DEF VisitDecl, FixInv
  <2>2. CASE ~(d \notin localWrites /\ bodyWrites(d, localWrites))
    <3>1. UNCHANGED <<prog, funcValues, varWrites, localWrites, changed, phase>>
        BY <1>4, <2>2 DEF VisitDecl
    <3>2. DeclDone(d)
        BY <2>2 DEF DeclDone
    <3>3. todo' = todo \ {d} /\ phase = "range"
        BY <1>4 DEF VisitDecl
    <3> QED
        BY <3>1, <3>2, <3>3, DoneStill DEF FixInv
  <2> QED
      BY <2>1, <2>2
<1>5. CASE EndRange
  <2>1. UNCHANGED <<prog, funcValues, varWrites, localWrites, changed>>
      BY <1>5 DEF EndRange
  <2>2. /\ phase = "range" /\ todo = {} /\ phase' = "interfaces"
        /\ before' = localWrites /\ todo' = localWrites
      BY <1>5 DEF EndRange
  <2> QED
      BY <2>1, <2>2, DoneStill DEF FixInv
<1>6. ASSUME NEW f \in Decl \cup Iface, VisitMark(f) PROVE FixInv'
  <2> DEFINE new == {i \in Iface : <<f, i>> \in prog.impl} \ localWrites
  <2>1. /\ UNCHANGED <<prog, phase, funcValues, varWrites, changed, before>>
        /\ phase = "interfaces"
        /\ localWrites' = localWrites \cup new
        /\ todo' \subseteq (todo \ {f}) \cup new /\ todo \ {f} \subseteq todo'
      BY <1>6 DEF VisitMark
  <2>2. before' \subseteq localWrites'
      BY <2>1 DEF FixInv
  <2>3. CASE localWrites' = before'
    <3>1. localWrites' = localWrites /\ new = {}
        BY <2>1, <2>3 DEF FixInv
    <3>2. ImplsDone(f)
        BY <3>1 DEF ImplsDone
    <3>3. UNCHANGED <<prog, funcValues, varWrites, localWrites>>
        BY <2>1, <3>1
    <3> QED
        BY <2>1, <2>2, <3>1, <3>2, <3>3, DoneStill DEF FixInv
  <2>4. CASE localWrites' /= before'
      BY <2>1, <2>2, <2>4 DEF FixInv
  <2> QED
      BY <2>3, <2>4
<1>7. CASE EndInterfaces
    BY <1>7 DEF EndInterfaces, FixInv
<1>8. ASSUME NEW e \in agenda, WalkBody(e) PROVE FixInv'
    BY <1>8 DEF WalkBody, FixInv, marking
<1>9. CASE UNCHANGED vars
  <2>1. UNCHANGED <<prog, funcValues, varWrites, localWrites, changed, before, phase, todo>>
      BY <1>9 DEF vars, marking
  <2> QED
      BY <2>1, DoneStill DEF FixInv
<1> QED
    BY <1>1, <1>2, <1>3, <1>4, <1>5, <1>6, <1>7, <1>8, <1>9 DEF Next

\* Leaving the loop, nothing is left that the graph justifies.
LEMMA ExitIsClosed ==
    ASSUME TypeOK, FixInv, EndInterfaces, phase' = "recollect"
    PROVE  Marking!Closed(CallGraph, localWrites)
<1>1. /\ phase = "interfaces" /\ todo = {} /\ ~changed /\ localWrites = before
    BY DEF EndInterfaces, TypeOK
<1>2. localWrites \in SUBSET Node
    BY DEF TypeOK, Node
<1>3. /\ \A d \in Decl : bodyWrites(d, localWrites) => d \in localWrites
      /\ \A f \in localWrites, i \in Iface : <<f, i>> \in prog.impl => i \in localWrites
    BY <1>1 DEF FixInv, DeclDone, ImplsDone
<1> QED
    BY <1>2, <1>3, CallGraphJustifies DEF Marking!Closed

\* Every step of the pass is a step of WriteMarking or leaves its state alone.
LEMMA StepImplements ==
    ASSUME TypeOK, FixInv, RangesOverMarks, [Next]_vars
    PROVE  [Marking!Next]_(Marking!vars)
<1>0. CallGraph' \in Marking!Graph
    BY DEF CallGraph, Marking!Graph, Node
<1> DEFINE Reads == /\ Stage = "reading" /\ Stage' \in {"reading", "marking"}
                    /\ localWrites' = localWrites
           Skips == /\ Stage = "reading" /\ Stage' = "done"
                    /\ localWrites' = localWrites
           Marks == /\ Stage = "marking" /\ Stage' = Stage /\ CallGraph' = CallGraph
                    /\ localWrites \subseteq localWrites'
                    /\ localWrites' \subseteq
                         localWrites \cup Marking!Justified(CallGraph, localWrites)
           Finishes == /\ Stage = "marking" /\ Stage' = "done"
                       /\ Marking!Closed(CallGraph, localWrites)
                       /\ localWrites' = localWrites
           Forgets == /\ Stage = "done" /\ Stage' = Stage /\ localWrites' = localWrites
           Idles == UNCHANGED <<CallGraph, localWrites, Stage>>
<1>1. Reads => Marking!Next
    BY <1>0 DEF Marking!Next, Marking!Read
<1>2. Skips => Marking!Next
    BY <1>0 DEF Marking!Next, Marking!Skip
<1>3. Marks => Marking!Next
    BY DEF Marking!Next, Marking!Mark
<1>4. Finishes => Marking!Next
    BY <1>0 DEF Marking!Next, Marking!Finish
<1>5. Forgets => Marking!Next
    BY <1>0 DEF Marking!Next, Marking!Forget
<1>6. Idles => UNCHANGED Marking!vars
    BY DEF Marking!vars
<1> SUFFICES Reads \/ Skips \/ Marks \/ Finishes \/ Forgets \/ Idles
    BY <1>1, <1>2, <1>3, <1>4, <1>5, <1>6
<1>7. CASE SkipPass
    BY <1>7 DEF SkipPass, marking, Stage
<1>8. CASE Collect \/ EndCollect
    BY <1>8 DEF Collect, CollectWith, EndCollect, marking, Stage
<1>9. CASE MarkDirect
  <2>1. localWrites = {} /\ {} \in SUBSET Node
      BY <1>9 DEF MarkDirect, FixInv
  <2>2. \A d \in localWrites' : d \in Marking!Justified(CallGraph, localWrites)
      BY <1>9, <2>1, CallGraphJustifies DEF MarkDirect
  <2>3. CallGraph' = CallGraph
      BY <1>9, CallGraphStill DEF MarkDirect
  <2> QED
      BY <1>9, <2>1, <2>2, <2>3 DEF MarkDirect, Stage
<1>10. ASSUME NEW d \in Decl, VisitDecl(d) PROVE Marks
  <2>1. CallGraph' = CallGraph
      BY <1>10, CallGraphStill DEF VisitDecl
  <2>2. bodyWrites(d, localWrites) => d \in Marking!Justified(CallGraph, localWrites)
      BY CallGraphJustifies DEF TypeOK, Node
  <2> QED
      BY <1>10, <2>1, <2>2 DEF VisitDecl, Stage
<1>11. ASSUME NEW f \in Decl \cup Iface, VisitMark(f) PROVE Marks \/ Idles
  <2>1. CallGraph' = CallGraph /\ Stage = "marking" /\ Stage' = Stage
      BY <1>11, CallGraphStill DEF VisitMark, Stage
  <2>2. localWrites' = localWrites
            \cup ({i \in Iface : <<f, i>> \in prog.impl} \ localWrites)
      BY <1>11 DEF VisitMark
  <2>3. f \in localWrites
      BY <1>11 DEF VisitMark, RangesOverMarks
  <2>4. \A i \in Iface : <<f, i>> \in prog.impl =>
            i \in Marking!Justified(CallGraph, localWrites)
      BY <2>3, CallGraphJustifies DEF TypeOK, Node
  <2> QED
      BY <2>1, <2>2, <2>4
<1>12. CASE EndRange
  <2>1. CallGraph' = CallGraph
      BY <1>12, CallGraphStill DEF EndRange
  <2> QED
      BY <1>12, <2>1 DEF EndRange, Stage
<1>13. CASE EndInterfaces
  <2>1. CallGraph' = CallGraph /\ localWrites' = localWrites
      BY <1>13, CallGraphStill DEF EndInterfaces
  <2>2. CASE phase' = "recollect"
      BY <1>13, <2>1, <2>2, ExitIsClosed DEF EndInterfaces, Stage
  <2>3. CASE phase' = "range"
      BY <1>13, <2>1, <2>3 DEF EndInterfaces, Stage
  <2> QED
      BY <1>13, <2>2, <2>3 DEF EndInterfaces
<1>14. CASE Recollect \/ EndRecollect \/ ExportFacts \/ EndReport
    BY <1>14 DEF Recollect, CollectWith, EndRecollect, ExportFacts, EndReport, marking, Stage
<1>15. ASSUME NEW e \in agenda, WalkBody(e) PROVE Forgets
    BY <1>15 DEF WalkBody, marking, Stage
<1>16. CASE UNCHANGED vars
  <2>1. CallGraph' = CallGraph
      BY <1>16, CallGraphStill DEF vars, marking
  <2> QED
      BY <1>16, <2>1 DEF vars, marking, Stage
<1> HIDE DEF Reads, Skips, Marks, Finishes, Forgets, Idles
<1> QED
    BY <1>7, <1>8, <1>9, <1>10, <1>11, <1>12, <1>13, <1>14, <1>15, <1>16 DEF Next

LEMMA InitImplements == Init => Marking!Init
BY CallGraphType DEF Init, Marking!Init, Stage

\* The pass implements the marking protocol: the call graph does not move while
\* it is marked, marks grow along it, and the loop is left only when it is closed.
THEOREM WriteGateImplementsMarking == Spec => ImplementsMarking
<1> DEFINE Inv == TypeOK /\ FixInv /\ RangesOverMarks
<1>1. Init => Inv
    BY InitTypeOK, InitFix DEF Init, RangesOverMarks
<1>2. Inv /\ [Next]_vars => Inv'
    BY NextTypeOK, NextFix, NextRanges
<1>3. Inv /\ [Next]_vars => [Marking!Next]_(Marking!vars)
    BY StepImplements
<1> QED
    BY <1>1, <1>2, <1>3, InitImplements, PTL DEF Spec, ImplementsMarking, Marking!Spec

\* WriteMarking's theorems, read through the refinement mapping.
Protocol == INSTANCE WriteMarkingProofs
              WITH Node <- Decl \cup Iface, graph <- CallGraph,
                   marks <- localWrites, stage <- Stage

\* The marks run ends up with are the least closed set of the package's call graph:
\* Go's map iteration order, which run depends on twice, does not show.
THEOREM WriteGateOrderIndependent == Spec => OrderIndependent
<1>1. Marking!Init => Protocol!Init
    BY DEF Marking!Init, Protocol!Init, Marking!Graph, Protocol!Graph
<1>2. [Marking!Next]_(Marking!vars) => [Protocol!Next]_(Protocol!vars)
    BY DEF Marking!Next, Marking!Read, Marking!Skip, Marking!Mark, Marking!Finish,
           Marking!Forget, Marking!vars, Marking!Graph, Marking!Closed,
           Marking!Justified,
           Protocol!Next, Protocol!Read, Protocol!Skip, Protocol!Mark, Protocol!Finish,
           Protocol!Forget, Protocol!vars, Protocol!Graph, Protocol!Closed,
           Protocol!Justified
<1>3. [Protocol!Ends]_(Protocol!vars) =>
        [(Stage = "marking" /\ Stage' = "done") =>
            /\ Marking!Closed(CallGraph, localWrites)
            /\ \A S \in SUBSET (Decl \cup Iface) :
                 Marking!Closed(CallGraph, S) => localWrites \subseteq S]_(Marking!vars)
    BY DEF Protocol!Ends, Protocol!vars, Marking!vars, Protocol!Closed, Marking!Closed,
           Protocol!Justified, Marking!Justified
<1> QED
    BY <1>1, <1>2, <1>3, WriteGateImplementsMarking, Protocol!InitIInv,
       Protocol!NextIInv, Protocol!NextEnds, PTL
       DEF ImplementsMarking, Marking!Spec, OrderIndependent, Marking!EndsWithLeast
-----------------------------------------------------------------------------
(* Reports are justified. *)

\* A frame says API only in API code, and says event in every body whose signature
\* consumes events.
FrameSays(e) ==
    /\ e.frame.api => e.body \in ApiBodies
    /\ ConsumesEvents(e.body) => e.frame.event

ReportInv ==
    /\ \A e \in agenda : FrameSays(e)
    /\ ReportsJustified

\* Served bodies are API bodies, and so are the literals they hand on.
LEMMA ApiBodiesClosed ==
    ASSUME TypeOK
    PROVE  /\ \A b \in Body : ServesApi(b) => b \in ApiBodies
           /\ \A b \in ApiBodies, l \in Lit : \A c \in prog.calls[b] :
                 l \in c.args /\ ~ConsumesEvents(l) => l \in ApiBodies
<1> DEFINE Served(S) == /\ \A x \in Body : ServesApi(x) => x \in S
                        /\ \A x \in S : \A c \in prog.calls[x] : \A l \in c.args \cap Lit :
                              ~ConsumesEvents(l) => l \in S
<1>1. \A b : b \in ApiBodies <=> b \in Body /\ \A S \in SUBSET Body : Served(S) => b \in S
    BY DEF ApiBodies
<1>2. \A S \in SUBSET Body : Served(S) => ApiBodies \subseteq S
    BY <1>1
<1>3. ASSUME NEW b \in Body, ServesApi(b) PROVE b \in ApiBodies
  <2>1. \A S \in SUBSET Body : Served(S) => b \in S
      BY <1>3
  <2> QED
      BY <1>1, <2>1
<1>4. ASSUME NEW b \in ApiBodies, NEW l \in Lit, NEW c \in prog.calls[b],
             l \in c.args, ~ConsumesEvents(l)
      PROVE  l \in ApiBodies
  <2>1. \A S \in SUBSET Body : Served(S) => l \in S
      BY <1>2, <1>4
  <2> QED
      BY <1>1, <2>1 DEF Body
<1> QED
    BY <1>3, <1>4

\* What the code derives of a body's frame, in the words of the signatures.
LEMMA FramesSay ==
    ASSUME TypeOK
    PROVE  /\ \A b \in Body : topFrame(b).api => ServesApi(b)
           /\ \A l \in Lit : frameFromLit(l).api => ServesApi(l)
           /\ \A l \in Lit, fr \in Frame : ArgFrame(l, fr).api =>
                 ServesApi(l) \/ (fr.api /\ ~ConsumesEvents(l))
           /\ \A d \in Decl : ServesApi(d) => topFrame(d).api
           /\ \A d \in Decl : topFrame(d).event => ConsumesEvents(d)
           /\ \A b \in Body : ConsumesEvents(b) => topFrame(b).event
           /\ \A l \in Lit : ConsumesEvents(l) => frameFromLit(l).event
           /\ \A l \in Lit, fr \in Frame : ConsumesEvents(l) => ArgFrame(l, fr).event
           /\ \A l \in Lit, fr \in Frame :
                 fr.api /\ ~ConsumesEvents(l) => ArgFrame(l, fr).api /\ ~ArgFrame(l, fr).event
<1>1. \A b \in Body : prog.sig[b] \in Signature
    BY ProgramParts
<1>2. \A s \in Signature : /\ s.http \in BOOLEAN /\ s.server \in BOOLEAN
                           /\ s.handler \in BOOLEAN /\ s.returnsHandler \in BOOLEAN
    BY DEF Signature
<1>3. \A b \in Body : /\ frameFromLit(b).api = prog.sig[b].http
                      /\ frameFromLit(b).event = (prog.sig[b].handler \/ prog.sig[b].returnsHandler)
    BY DEF frameFromLit, applySig
<1>4. \A b \in Body : /\ frameFrom(b).api = (prog.sig[b].http \/ prog.sig[b].server)
                      /\ frameFrom(b).event = (prog.sig[b].handler \/ prog.sig[b].returnsHandler)
    BY DEF frameFrom, applySig
<1>5. \A l \in Lit, fr \in Frame :
        /\ ArgFrame(l, fr).api = (prog.sig[l].http \/ (~frameFromLit(l).event /\ fr.api))
        /\ ArgFrame(l, fr).event = frameFromLit(l).event
    BY <1>3 DEF ArgFrame, frameFromLit, applySig, Body
<1>6. \A fr \in Frame : fr.api \in BOOLEAN
    BY DEF Frame
<1>7. \A b \in Body : topFrame(b).api => ServesApi(b)
    BY <1>1, <1>2, <1>3, <1>4 DEF topFrame, ServesApi, Body
<1>8. \A l \in Lit : frameFromLit(l).api => ServesApi(l)
    BY <1>1, <1>2, <1>3 DEF ServesApi, Body
<1>9. \A l \in Lit, fr \in Frame : ArgFrame(l, fr).api =>
         ServesApi(l) \/ (fr.api /\ ~ConsumesEvents(l))
    BY <1>1, <1>2, <1>3, <1>5, <1>6, Zenon DEF ServesApi, ConsumesEvents, Body
<1>10. \A d \in Decl : ServesApi(d) => topFrame(d).api
    BY <1>1, <1>2, <1>4 DEF topFrame, ServesApi, Body
<1>11. \A d \in Decl : topFrame(d).event => ConsumesEvents(d)
    BY <1>1, <1>2, <1>4 DEF topFrame, ConsumesEvents, Body
<1>12. \A l \in Lit, fr \in Frame :
          fr.api /\ ~ConsumesEvents(l) => ArgFrame(l, fr).api /\ ~ArgFrame(l, fr).event
    BY <1>1, <1>2, <1>3, <1>5, <1>6, Zenon DEF ConsumesEvents, Body
<1>13. \A b \in Body : ConsumesEvents(b) => topFrame(b).event
    BY <1>3, <1>4 DEF topFrame, ConsumesEvents
<1>14. \A l \in Lit : ConsumesEvents(l) => frameFromLit(l).event
    BY <1>3 DEF ConsumesEvents, Body
<1>15. \A l \in Lit, fr \in Frame : ConsumesEvents(l) => ArgFrame(l, fr).event
    BY <1>5, <1>14
<1> QED
    BY <1>7, <1>8, <1>9, <1>10, <1>11, <1>12, <1>13, <1>14, <1>15

\* A call that is reported is one through which a write can be reached.
LEMMA CallReaches ==
    ASSUME JustInv, NEW b \in Body, NEW c \in prog.calls[b],
           isSQLWriteCall(c) \/ callWrites(c, localWrites),
           NEW S \in SUBSET Names, ReachClosed(S)
    PROVE  c.callee \in S
<1>1. Within(S, localWrites) /\ localWrites \subseteq Decl \cup Iface
    BY DEF Within, JustInv, TypeOK, MarksJustified, Names
<1>2. CASE isSQLWriteCall(c)
    BY <1>2 DEF isSQLWriteCall, ReachClosed
<1>3. CASE callWrites(c, localWrites)
    BY <1>1, <1>3, FuncInside, VarInside DEF callWrites, JustInv
<1> QED
    BY <1>2, <1>3

LEMMA ReportStill ==
    ASSUME ReportInv, UNCHANGED <<prog, reported>>, agenda' = agenda
    PROVE  ReportInv'
BY DEF ReportInv, FrameSays, ReportsJustified, ApiBodies, ServesApi, ConsumesEvents,
       ReachClosed, isInTxScopeCall

\* The sets these properties speak of depend on the program alone.
LEMMA ProgramStill ==
    ASSUME prog' = prog
    PROVE  /\ ApiBodies' = ApiBodies
           /\ \A S : ReachClosed(S)' <=> ReachClosed(S)
           /\ \A b : ServesApi(b)' <=> ServesApi(b)
           /\ \A b : ConsumesEvents(b)' <=> ConsumesEvents(b)
           /\ \A b : Searched(b)' = Searched(b)
           /\ \A b : TxLits(b)' = TxLits(b)
BY DEF ApiBodies, ServesApi, ConsumesEvents, ReachClosed, isInTxScopeCall, Searched, TxLits

LEMMA WalkReport ==
    ASSUME JustInv, ReportInv, NEW e \in agenda, WalkBody(e)
    PROVE  ReportInv'
<1> DEFINE visible == {c \in prog.calls[e.body] : ~c.fun}
<1>1. /\ e.body \in Body /\ e.frame \in Frame /\ prog' = prog
      /\ prog.nested[e.body] \subseteq Lit /\ TypeOK
    BY ProgramParts DEF JustInv, TypeOK, WalkBody
<1>2. /\ reported' = reported \cup
           {<<e.body, c>> : c \in {x \in visible :
               /\ e.frame.api /\ ~e.frame.event
               /\ isSQLWriteCall(x) \/ callWrites(x, localWrites)}}
      /\ agenda' = (agenda \ {e})
           \cup {[body |-> l, frame |-> frameFromLit(l)] : l \in prog.nested[e.body]}
           \cup {[body |-> l, frame |-> ArgFrame(l, e.frame)] :
                    l \in Lit \cap UNION {c.args : c \in visible}}
    BY DEF WalkBody
<1>3. \A x \in agenda' : FrameSays(x)
  <2> SUFFICES ASSUME NEW x \in agenda' PROVE FrameSays(x)
      OBVIOUS
  <2>1. CASE x \in agenda
      BY <2>1 DEF ReportInv
  <2>2. CASE x \in {[body |-> l, frame |-> frameFromLit(l)] : l \in prog.nested[e.body]}
    <3>1. PICK l \in prog.nested[e.body] : x = [body |-> l, frame |-> frameFromLit(l)]
        BY <2>2
    <3>2. x.body = l /\ x.frame = frameFromLit(l) /\ l \in Lit
        BY <1>1, <3>1
    <3> QED
        BY <1>1, <3>2, FramesSay, ApiBodiesClosed DEF FrameSays, Body
  <2>3. CASE x \in {[body |-> l, frame |-> ArgFrame(l, e.frame)] :
                       l \in Lit \cap UNION {c.args : c \in visible}}
    <3>1. PICK l \in Lit \cap UNION {c.args : c \in visible} :
             x = [body |-> l, frame |-> ArgFrame(l, e.frame)]
        BY <2>3
    <3>2. x.body = l /\ x.frame = ArgFrame(l, e.frame)
        BY <3>1
    <3>3. PICK c \in prog.calls[e.body] : l \in c.args
        BY <3>1
    <3>4. CASE ServesApi(l)
        BY <1>1, <3>1, <3>2, <3>4, FramesSay, ApiBodiesClosed DEF FrameSays, Body
    <3>5. CASE e.frame.api /\ ~ConsumesEvents(l)
      <4>1. e.body \in ApiBodies
          BY <3>5 DEF ReportInv, FrameSays
      <4> QED
          BY <1>1, <3>1, <3>2, <3>3, <3>5, <4>1, ApiBodiesClosed DEF FrameSays
    <3>6. CASE ~ArgFrame(l, e.frame).api
        BY <1>1, <3>1, <3>2, <3>6, FramesSay DEF FrameSays
    <3> QED
        BY <1>1, <3>1, <3>4, <3>5, <3>6, FramesSay
  <2> QED
      BY <1>2, <2>1, <2>2, <2>3
<1>4. ASSUME NEW r \in reported'
      PROVE  /\ r[1] \in ApiBodies /\ ~ConsumesEvents(r[1])
             /\ \A S \in SUBSET Names : ReachClosed(S) => r[2].callee \in S
  <2>1. CASE r \in reported
      BY <2>1 DEF ReportInv, ReportsJustified, Names
  <2>2. CASE r \notin reported
    <3>1. PICK c \in visible : /\ r = <<e.body, c>>
                               /\ e.frame.api /\ ~e.frame.event
                               /\ isSQLWriteCall(c) \/ callWrites(c, localWrites)
        BY <1>2, <1>4, <2>2
    <3>2. r[1] = e.body /\ r[2] = c
        BY <3>1
    <3>3. e.body \in ApiBodies /\ ~ConsumesEvents(e.body)
        BY <3>1 DEF ReportInv, FrameSays
    <3> QED
        BY <1>1, <3>1, <3>2, <3>3, CallReaches
  <2> QED
      BY <2>1, <2>2
<1> QED
    BY <1>1, <1>3, <1>4, ProgramStill DEF ReportInv, FrameSays, ReportsJustified, Names

LEMMA InitReport == Init => ReportInv
BY DEF Init, ReportInv, ReportsJustified

LEMMA NextReport ==
    ASSUME JustInv, ReportInv, [Next]_vars
    PROVE  ReportInv'
<1>1. CASE ExportFacts
  <2>1. /\ agenda' = {[body |-> b, frame |-> topFrame(b)] : b \in Decl \cup prog.top}
        /\ UNCHANGED <<prog, reported>>
      BY <1>1 DEF ExportFacts
  <2>2. TypeOK /\ Decl \cup prog.top \subseteq Body
      BY ProgramParts DEF JustInv, Body
  <2>3. \A x \in agenda' : FrameSays(x)
    <3> SUFFICES ASSUME NEW x \in agenda' PROVE FrameSays(x)
        OBVIOUS
    <3>1. PICK b \in Decl \cup prog.top : x = [body |-> b, frame |-> topFrame(b)]
        BY <2>1
    <3>2. x.body = b /\ x.frame = topFrame(b) /\ b \in Body
        BY <2>2, <3>1
    <3> QED
        BY <2>2, <3>2, FramesSay, ApiBodiesClosed DEF FrameSays
  <2> QED
      BY <2>1, <2>3, ProgramStill DEF ReportInv, FrameSays, ReportsJustified
<1>2. ASSUME NEW e \in agenda, WalkBody(e) PROVE ReportInv'
    BY <1>2, WalkReport
<1>3. CASE UNCHANGED <<prog, reported, agenda>>
    BY <1>3, ReportStill
<1>4. SkipPass \/ Collect \/ EndCollect \/ MarkDirect \/ (\E d \in Decl : VisitDecl(d)) \/ EndRange
      \/ (\E f \in Decl \cup Iface : VisitMark(f)) \/ EndInterfaces \/ Recollect \/ EndRecollect
      \/ EndReport \/ UNCHANGED vars => UNCHANGED <<prog, reported, agenda>>
    BY DEF SkipPass, Collect, CollectWith, EndCollect, MarkDirect, VisitDecl, EndRange, VisitMark,
           EndInterfaces, Recollect, EndRecollect, EndReport, vars, reporting
<1> QED
    BY <1>1, <1>2, <1>3, <1>4 DEF Next

\* Only calls in API code through which a write can be reached are reported, none in the
\* body of an event handler, for every package and every map order (reportHTTPWrites).
THEOREM WriteGateReportsJustified == Spec => []ReportsJustified
<1>1. ReportInv => ReportsJustified
    BY DEF ReportInv
<1> QED
    BY <1>1, InitJust, NextJust, InitReport, NextReport, PTL DEF Spec
-----------------------------------------------------------------------------
(* Everything that reaches a write is exported. *)

\* After the loop nothing is left to mark, and that stays so: without assignments the
\* second collection changes no variable's function.
Settled == (\A d \in Decl : DeclDone(d)) /\ (\A f \in localWrites : ImplsDone(f))
ExportInv ==
    /\ /\ phase \in {"recollect", "export", "report", "done"}
       /\ prog.analyzed
       /\ prog.assigns = <<>>
       => Settled
    /\ phase \in {"report", "done"} /\ prog.analyzed => exported = localWrites \cap Own

LEMMA InitExport == Init => ExportInv
BY DEF Init, ExportInv

LEMMA ExitIsSettled ==
    ASSUME TypeOK, FixInv, EndInterfaces, phase' = "recollect"
    PROVE  Settled'
<1>1. /\ phase = "interfaces" /\ todo = {} /\ ~changed /\ localWrites = before
      /\ UNCHANGED <<prog, funcValues, varWrites, localWrites>>
    BY DEF EndInterfaces, TypeOK
<1>2. Settled
    BY <1>1 DEF FixInv, Settled
<1> QED
    BY <1>1, <1>2, DoneStill DEF Settled

LEMMA NextExport ==
    ASSUME TypeOK, FixInv, ExportInv, [Next]_vars
    PROVE  ExportInv'
<1>1. ASSUME UNCHANGED <<prog, funcValues, varWrites, localWrites>>
      PROVE  Settled => Settled'
    BY <1>1, DoneStill DEF Settled
<1>2. CASE SkipPass
    BY <1>2 DEF SkipPass, ExportInv
<1>3. CASE Collect \/ EndCollect \/ MarkDirect \/ (\E d \in Decl : VisitDecl(d)) \/ EndRange
           \/ (\E f \in Decl \cup Iface : VisitMark(f))
  <2>1. phase' \in {"collect", "direct", "range", "interfaces"}
      BY <1>3 DEF Collect, CollectWith, EndCollect, MarkDirect, VisitDecl, EndRange, VisitMark
  <2> QED
      BY <2>1 DEF ExportInv
<1>4. CASE EndInterfaces
  <2>1. phase' \in {"range", "recollect"}
      BY <1>4 DEF EndInterfaces
  <2> QED
      BY <1>4, <2>1, ExitIsSettled DEF ExportInv
<1>5. CASE Recollect
  <2>1. prog.assigns /= <<>>
    <3>1. at \in 1 .. Len(prog.assigns) + 1 /\ at <= Len(prog.assigns) /\ Len(prog.assigns) \in Nat
        BY <1>5, ProgramParts DEF TypeOK, Recollect, CollectWith
    <3>2. Len(prog.assigns) /= 0
        BY <3>1
    <3>3. Len(<<>>) = 0
        OBVIOUS
    <3> QED
        BY <3>2, <3>3
  <2>2. prog' = prog /\ phase' = "recollect"
      BY <1>5 DEF Recollect, CollectWith
  <2> QED
      BY <2>1, <2>2 DEF ExportInv
<1>6. CASE EndRecollect
  <2>1. /\ phase = "recollect" /\ phase' = "export"
        /\ UNCHANGED <<prog, funcValues, varWrites, localWrites, exported>>
      BY <1>6 DEF EndRecollect, marking, reporting
  <2> QED
      BY <1>1, <2>1 DEF ExportInv
<1>7. CASE ExportFacts
  <2>1. /\ phase = "export" /\ phase' = "report" /\ exported' = localWrites \cap Own
        /\ UNCHANGED <<prog, funcValues, varWrites, localWrites>>
      BY <1>7 DEF ExportFacts, marking
  <2> QED
      BY <1>1, <2>1 DEF ExportInv
<1>8. CASE (\E e \in agenda : WalkBody(e)) \/ EndReport
  <2>1. /\ phase = "report" /\ phase' \in {"report", "done"}
        /\ UNCHANGED <<prog, funcValues, varWrites, localWrites, exported>>
      BY <1>8 DEF WalkBody, EndReport, marking, reporting
  <2> QED
      BY <1>1, <2>1 DEF ExportInv
<1>9. CASE UNCHANGED vars
  <2>1. UNCHANGED <<prog, phase, funcValues, varWrites, localWrites, exported>>
      BY <1>9 DEF vars, marking, reporting
  <2> QED
      BY <1>1, <2>1 DEF ExportInv
<1> QED
    BY <1>2, <1>3, <1>4, <1>5, <1>6, <1>7, <1>8, <1>9 DEF Next

\* A search looks into what the literals it passes to InTxScope look into.
LEMMA SearchedNests ==
    ASSUME NEW b \in Body, NEW l \in TxLits(b)
    PROVE  Searched(l) \subseteq Searched(b)
<1> DEFINE Shut(S) == \A k \in S : TxLits(k) \subseteq S
<1>1. l \in Lit
    BY DEF TxLits
<1>2. ASSUME NEW k \in Searched(l), NEW S \in SUBSET Lit, TxLits(b) \subseteq S, Shut(S)
      PROVE  k \in S
  <2>1. l \in S /\ TxLits(l) \subseteq S
      BY <1>2
  <2> QED
      BY <1>2, <2>1 DEF Searched
<1>3. \A k \in Searched(l) : k \in Lit
    BY <1>1 DEF Searched
<1> QED
    BY <1>2, <1>3 DEF Searched

\* One thing found in one body is found by the search of it.
LEMMA FoundHere ==
    ASSUME NEW b \in Body, NEW local, NEW c \in prog.calls[b],
           \/ isSQLWriteCall(c)
           \/ isInTxScopeCall(c) /\ inTxScopeWrites(c, local)
           \/ callWrites(c, local)
    PROVE  bodyWrites(b, local)
<1>1. b \in Searched(b)
    BY DEF Searched
<1> QED
    BY <1>1 DEF bodyWrites

LEMMA FoundInLiteral ==
    ASSUME NEW b \in Body, NEW local, NEW l \in TxLits(b), bodyWrites(l, local)
    PROVE  bodyWrites(b, local)
BY SearchedNests DEF bodyWrites

\* The marks, with the writes of other packages and the literals that write.
Marked == SqlWrite \cup prog.facts \cup localWrites \cup {l \in Lit : bodyWrites(l, localWrites)}

LEMMA CallType ==
    ASSUME TypeOK, NEW b \in Body, NEW c \in prog.calls[b]
    PROVE  /\ c.callee \in Fn \cup Var \cup {Opaque}
           /\ c.args \subseteq Fn \cup Var \cup Lit
BY ProgramParts DEF Call

LEMMA MarkedIsClosed ==
    ASSUME TypeOK, Settled, prog.assigns = <<>>, \A m \in prog.impl : m[1] \notin prog.facts
    PROVE  Marked \in SUBSET Names /\ ReachClosed(Marked)
<1>1. Marked \in SUBSET Names
    BY ProgramParts, ExternalAssumption, ForeignAssumption DEF Marked, Names, Fn, TypeOK
<1>2. \A b \in Body : bodyWrites(b, localWrites) => b \in Marked
    BY DEF Body, Marked, Settled, DeclDone
<1>3. ASSUME NEW b \in Body, NEW c \in prog.calls[b],
             c.callee \in Marked \/ (isInTxScopeCall(c) /\ c.args \cap Marked /= {})
      PROVE  b \in Marked
  <2>1. CASE c.callee \in Marked
    <3>1. c.callee \in Fn
        BY <1>1, <2>1, CallType, DisjointAssumption, ProgramParts, ExternalAssumption, ForeignAssumption
        DEF Marked, Fn, TypeOK
    <3>2. CASE c.callee \in SqlWrite
        BY <1>2, <3>2, FoundHere DEF isSQLWriteCall
    <3>3. CASE c.callee \in prog.facts \cup localWrites
        BY <1>2, <3>1, <3>3, FoundHere DEF callWrites, funcHasWrite
    <3> QED
        BY <2>1, <3>1, <3>2, <3>3, DisjointAssumption DEF Marked
  <2>2. CASE isInTxScopeCall(c) /\ c.args \cap Marked /= {}
    <3>1. PICK x \in c.args : x \in Marked
        BY <2>2
    <3>2. x \notin SqlWrite
        BY <2>2, <3>1, TxArgsAssumption DEF isInTxScopeCall, TypeOK
    <3>3. CASE x \in prog.facts \cup localWrites
      <4>1. x \in Fn
          BY <3>3, ProgramParts, ForeignAssumption DEF Fn, TypeOK
      <4>2. inTxScopeWrites(c, localWrites)
          BY <3>1, <3>3, <4>1 DEF inTxScopeWrites, funcHasWrite
      <4> QED
          BY <1>2, <2>2, <4>2, FoundHere
    <3>4. CASE x \in Lit /\ bodyWrites(x, localWrites)
      <4>1. x \in TxLits(b)
          BY <2>2, <3>1, <3>4 DEF TxLits
      <4> QED
          BY <1>2, <3>4, <4>1, FoundInLiteral
    <3> QED
        BY <3>1, <3>2, <3>3, <3>4 DEF Marked
  <2> QED
      BY <1>3, <2>1, <2>2
<1>4. \A i \in 1 .. Len(prog.assigns) :
         prog.assigns[i].rhs \in Marked => prog.assigns[i].var \in Marked
    <2>1. Len(<<>>) = 0
        OBVIOUS
    <2>2. 1 .. Len(prog.assigns) = {}
        BY <2>1
    <2> QED
        BY <2>2
<1>5. ASSUME NEW m \in prog.impl, m[1] \in Marked PROVE m[2] \in Marked
  <2>1. m[1] \in Decl \cup Iface /\ m[2] \in Iface /\ m = <<m[1], m[2]>>
      BY ProgramParts
  <2>2. m[1] \notin SqlWrite /\ m[1] \notin Lit /\ m[1] \notin prog.facts
      BY <2>1, DisjointAssumption, ExternalAssumption DEF Fn
  <2>3. m[1] \in localWrites
      BY <1>5, <2>2 DEF Marked
  <2> QED
      BY <2>1, <2>3 DEF Settled, ImplsDone, Marked
<1> QED
    BY <1>1, <1>3, <1>4, <1>5 DEF ReachClosed, Marked

LEMMA Exports == TypeOK /\ ExportInv => ExportsComplete
<1> SUFFICES ASSUME TypeOK, ExportInv, phase \in {"report", "done"}, prog.analyzed, prog.assigns = <<>>,
                    \A m \in prog.impl : m[1] \notin prog.facts,
                    NEW f \in Own,
                    \A S \in SUBSET Names : ReachClosed(S) => f \in S
             PROVE  f \in exported
    BY DEF ExportsComplete, Names
<1>1. Settled /\ exported = localWrites \cap Own
    BY DEF ExportInv
<1>2. f \in Marked
    BY <1>1, MarkedIsClosed
<1>3. f \notin SqlWrite /\ f \notin prog.facts /\ f \notin Lit
    BY ProgramParts, DisjointAssumption, ExternalAssumption DEF Own, Fn
<1> QED
    BY <1>1, <1>2, <1>3 DEF Marked

\* Whatever calls, InTxScope and implementations lead from, every function of the
\* package that reaches a write has a fact, for every call graph and every map order.
THEOREM WriteGateExportsComplete == Spec => []ExportsComplete
<1> DEFINE Inv == TypeOK /\ FixInv /\ ExportInv
<1>1. Init => Inv
    BY InitTypeOK, InitFix, InitExport
<1>2. Inv /\ [Next]_vars => Inv'
    BY NextTypeOK, NextFix, NextExport
<1>3. Inv => ExportsComplete
    BY Exports
<1> QED
    BY <1>1, <1>2, <1>3, PTL DEF Spec
-----------------------------------------------------------------------------
(* Handlers that are marked are reported. *)

\* Of the first k assignments, f is the last function that v is given; v is given none.
Held(k, v, f) ==
    \E i \in 1 .. k : /\ prog.assigns[i].var = v /\ prog.assigns[i].rhs = f
                      /\ \A j \in i + 1 .. k : prog.assigns[j].var = v => prog.assigns[j].rhs \notin Fn
NoneHeld(k, v) == \A j \in 1 .. k : prog.assigns[j].var = v => prog.assigns[j].rhs \notin Fn
Final(v, f) == Held(Len(prog.assigns), v, f)

\* The marks are computed with the functions the variables end up with, and after the
\* second collection these are there again; in between the values are a mixture.
ValueInv ==
    \A v \in Var, f \in Fn :
        /\ phase = "collect" => (funcValues[v] = f <=> Held(at - 1, v, f))
        /\ phase \in {"direct", "range", "interfaces", "export", "report"} =>
              (funcValues[v] = f <=> Final(v, f))
        /\ phase = "recollect" =>
              (funcValues[v] = f <=> Held(at - 1, v, f) \/ (NoneHeld(at - 1, v) /\ Final(v, f)))

LEMMA HeldNext ==
    ASSUME NEW k \in Nat \ {0}, NEW v, NEW f \in Fn
    PROVE  /\ Held(k, v, f) <=>
                IF prog.assigns[k].var = v /\ prog.assigns[k].rhs \in Fn
                THEN prog.assigns[k].rhs = f ELSE Held(k - 1, v, f)
           /\ NoneHeld(k, v) <=>
                NoneHeld(k - 1, v) /\ ~(prog.assigns[k].var = v /\ prog.assigns[k].rhs \in Fn)
<1>1. \A j : j \in 1 .. k <=> j \in 1 .. k - 1 \/ j = k
    OBVIOUS
<1>2. NoneHeld(k, v) <=>
         NoneHeld(k - 1, v) /\ ~(prog.assigns[k].var = v /\ prog.assigns[k].rhs \in Fn)
    BY <1>1 DEF NoneHeld
<1>3. CASE prog.assigns[k].var = v /\ prog.assigns[k].rhs \in Fn
  <2>1. \A i \in 1 .. k - 1 : k \in i + 1 .. k
      OBVIOUS
  <2>2. \A i \in 1 .. k - 1 :
           ~ \A j \in i + 1 .. k : prog.assigns[j].var = v => prog.assigns[j].rhs \notin Fn
      BY <1>3, <2>1
  <2>3. \A j \in k + 1 .. k : FALSE
      OBVIOUS
  <2>4. k \in 1 .. k
      OBVIOUS
  <2>5. Held(k, v, f) <=> prog.assigns[k].rhs = f
      BY <1>1, <1>3, <2>2, <2>3, <2>4 DEF Held
  <2> QED
      BY <1>2, <1>3, <2>5
<1>4. CASE ~(prog.assigns[k].var = v /\ prog.assigns[k].rhs \in Fn)
  <2>1. \A i \in 1 .. k - 1 : \A j : j \in i + 1 .. k <=> j \in i + 1 .. k - 1 \/ j = k
      OBVIOUS
  <2>2. \A i \in 1 .. k - 1 :
           (\A j \in i + 1 .. k : prog.assigns[j].var = v => prog.assigns[j].rhs \notin Fn)
           <=> \A j \in i + 1 .. k - 1 : prog.assigns[j].var = v => prog.assigns[j].rhs \notin Fn
      BY <1>4, <2>1
  <2>3. ~(prog.assigns[k].var = v /\ prog.assigns[k].rhs = f)
      BY <1>4
  <2>4. Held(k, v, f) <=> Held(k - 1, v, f)
      BY <1>1, <2>2, <2>3 DEF Held
  <2> QED
      BY <1>2, <1>4, <2>4
<1> QED
    BY <1>3, <1>4

LEMMA HeldNot ==
    ASSUME NEW v, NEW f
    PROVE  ~Held(0, v, f) /\ NoneHeld(0, v)
BY DEF Held, NoneHeld

LEMMA HeldOrNone ==
    ASSUME NEW k \in Nat, NEW v, NEW f \in Fn, Held(k, v, f)
    PROVE  ~NoneHeld(k, v)
BY DEF Held, NoneHeld

LEMMA HeldStill ==
    ASSUME prog' = prog
    PROVE  \A k, v, f : /\ Held(k, v, f)' <=> Held(k, v, f)
                        /\ NoneHeld(k, v)' <=> NoneHeld(k, v)
                        /\ Final(v, f)' <=> Final(v, f)
BY DEF Held, NoneHeld, Final

LEMMA InitValue == Init => ValueInv
<1> SUFFICES ASSUME Init, NEW v \in Var, NEW f \in Fn
             PROVE  funcValues[v] = f <=> Held(at - 1, v, f)
    BY DEF Init, ValueInv
<1>1. funcValues[v] = Opaque /\ Opaque /= f /\ at - 1 = 0
    BY DisjointAssumption DEF Init
<1> QED
    BY <1>1, HeldNot

LEMMA CollectValue ==
    ASSUME TypeOK, ValueInv, phase \in {"collect", "recollect"}, NEW local, CollectWith(local)
    PROVE  ValueInv'
<1> DEFINE a == prog.assigns[at]
<1>1. /\ at \in Nat \ {0} /\ (at + 1) - 1 = at /\ at \in 1 .. Len(prog.assigns)
      /\ prog' = prog /\ phase' = phase /\ at' = at + 1
      /\ funcValues' = IF a.rhs \in Fn THEN [funcValues EXCEPT ![a.var] = a.rhs] ELSE funcValues
    BY ProgramParts DEF TypeOK, CollectWith
<1>2. a.var \in Var /\ funcValues \in [Var -> Fn \cup {Opaque}]
    BY <1>1, AssignType DEF TypeOK
<1>3. ASSUME NEW v \in Var
      PROVE  funcValues'[v] = IF a.var = v /\ a.rhs \in Fn THEN a.rhs ELSE funcValues[v]
    BY <1>1, <1>2
<1> SUFFICES ASSUME NEW v \in Var, NEW f \in Fn
             PROVE  /\ phase = "collect" => (funcValues'[v] = f <=> Held(at, v, f))
                    /\ phase = "recollect" =>
                          (funcValues'[v] = f <=> Held(at, v, f) \/ (NoneHeld(at, v) /\ Final(v, f)))
  <2>1. phase \notin {"direct", "range", "interfaces", "export", "report"}
      OBVIOUS
  <2> QED
      BY <1>1, <2>1, HeldStill DEF ValueInv
<1>4. /\ Held(at, v, f) <=> IF a.var = v /\ a.rhs \in Fn THEN a.rhs = f ELSE Held(at - 1, v, f)
      /\ NoneHeld(at, v) <=> NoneHeld(at - 1, v) /\ ~(a.var = v /\ a.rhs \in Fn)
    BY <1>1, HeldNext
<1>5. CASE a.var = v /\ a.rhs \in Fn
    BY <1>3, <1>4, <1>5
<1>6. CASE ~(a.var = v /\ a.rhs \in Fn)
  <2>1. funcValues'[v] = funcValues[v]
      BY <1>3, <1>6
  <2> QED
      BY <1>4, <1>6, <2>1 DEF ValueInv
<1> QED
    BY <1>5, <1>6

LEMMA NextValue ==
    ASSUME TypeOK, ValueInv, [Next]_vars
    PROVE  ValueInv'
<1>1. at \in Nat /\ Len(prog.assigns) \in Nat /\ at <= Len(prog.assigns) + 1 /\ at >= 1
    BY ProgramParts DEF TypeOK
<1>2. CASE Collect \/ Recollect
    BY <1>2, CollectValue DEF Collect, Recollect
<1>3. CASE EndCollect \/ EndRecollect
  <2>1. /\ UNCHANGED <<prog, funcValues>> /\ at > Len(prog.assigns)
        /\ \/ phase = "collect" /\ phase' = "direct"
           \/ phase = "recollect" /\ phase' = "export"
      BY <1>3 DEF EndCollect, EndRecollect, marking
  <2>2. at - 1 = Len(prog.assigns)
      BY <1>1, <2>1
  <2>3. ASSUME NEW v \in Var, NEW f \in Fn PROVE funcValues[v] = f <=> Final(v, f)
      BY <1>1, <2>1, <2>2, HeldOrNone DEF ValueInv, Final
  <2> QED
      BY <2>1, <2>3, HeldStill DEF ValueInv
<1>4. CASE EndInterfaces
  <2>1. /\ UNCHANGED <<prog, funcValues>> /\ phase = "interfaces"
        /\ \/ phase' = "range"
           \/ phase' = "recollect" /\ at' = 1
      BY <1>4 DEF EndInterfaces
  <2>2. \A v \in Var, f \in Fn : funcValues[v] = f <=> Final(v, f)
      BY <2>1 DEF ValueInv
  <2>3. CASE phase' = "range"
      BY <2>1, <2>2, <2>3, HeldStill DEF ValueInv
  <2>4. CASE phase' = "recollect" /\ at' = 1
    <3>1. at' - 1 = 0
        BY <2>4
    <3>2. ASSUME NEW v \in Var, NEW f \in Fn
          PROVE  funcValues[v] = f <=> Held(0, v, f) \/ (NoneHeld(0, v) /\ Final(v, f))
        BY <2>2, HeldNot
    <3> QED
        BY <2>1, <2>4, <3>1, <3>2, HeldStill DEF ValueInv
  <2> QED
      BY <2>1, <2>3, <2>4
<1>5. CASE MarkDirect \/ (\E d \in Decl : VisitDecl(d)) \/ EndRange
           \/ (\E f \in Decl \cup Iface : VisitMark(f)) \/ ExportFacts \/ (\E e \in agenda : WalkBody(e))
  <2>1. /\ UNCHANGED <<prog, funcValues>>
        /\ phase \in {"direct", "range", "interfaces", "export", "report"}
        /\ phase' \in {"direct", "range", "interfaces", "export", "report"}
      BY <1>5 DEF MarkDirect, VisitDecl, EndRange, VisitMark, ExportFacts, WalkBody, marking
  <2> QED
      BY <2>1, HeldStill DEF ValueInv
<1>6. CASE SkipPass \/ EndReport
  <2>1. phase' = "done"
      BY <1>6 DEF SkipPass, EndReport
  <2> QED
      BY <2>1 DEF ValueInv
<1>7. CASE UNCHANGED vars
    BY <1>7, HeldStill DEF vars, marking, ValueInv
<1> QED
    BY <1>2, <1>3, <1>4, <1>5, <1>6, <1>7 DEF Next

\* A call by which a search finds a write, with the variables' final functions.
Finds(c) ==
    \/ isSQLWriteCall(c)
    \/ isInTxScopeCall(c) /\ \E x \in c.args : x \in Fn \cup Var
    \/ c.callee \in Fn /\ funcHasWrite(c.callee, localWrites)
    \/ /\ c.callee \in Var
       /\ \/ c.callee \in varWrites
          \/ \E f \in Fn : Final(c.callee, f) /\ funcHasWrite(f, localWrites)
FindsIn(d) == \E b \in Searched(d) : \E c \in prog.calls[b] : Finds(c)

\* A marked declaration has such a call: marks and writing variables only ever grow,
\* and after the loop only the values of the variables are computed again.
WitnessInv == \A d \in Decl \cap localWrites : FindsIn(d)

LEMMA FindsMore ==
    ASSUME prog' = prog, localWrites \subseteq localWrites', varWrites \subseteq varWrites'
    PROVE  \A d : FindsIn(d) => FindsIn(d)'
<1>1. \A c : Finds(c) => Finds(c)'
    BY HeldStill DEF Finds, funcHasWrite, isSQLWriteCall, isInTxScopeCall
<1> QED
    BY <1>1, ProgramStill DEF FindsIn

\* While the marks are computed a search finds a write only by such a call.
LEMMA WritesFinds ==
    ASSUME TypeOK, ValueInv, phase \in {"direct", "range"},
           NEW local, local \subseteq localWrites, NEW d \in Decl, bodyWrites(d, local)
    PROVE  FindsIn(d)
<1>1. PICK b \in Searched(d) : \E c \in prog.calls[b] :
            \/ isSQLWriteCall(c)
            \/ isInTxScopeCall(c) /\ inTxScopeWrites(c, local)
            \/ callWrites(c, local)
    BY DEF bodyWrites
<1>2. PICK c \in prog.calls[b] :
            \/ isSQLWriteCall(c)
            \/ isInTxScopeCall(c) /\ inTxScopeWrites(c, local)
            \/ callWrites(c, local)
    BY <1>1
<1>3. \A f : funcHasWrite(f, local) => funcHasWrite(f, localWrites)
    BY DEF funcHasWrite
<1>4. ASSUME c.callee \in Var, funcHasWrite(funcValues[c.callee], local)
      PROVE  \E f \in Fn : Final(c.callee, f) /\ funcHasWrite(f, localWrites)
  <2>1. funcValues[c.callee] \in Fn
      BY <1>4, ProgramParts, ForeignAssumption DEF funcHasWrite, Fn, TypeOK
  <2>2. Final(c.callee, funcValues[c.callee])
      BY <1>4, <2>1 DEF ValueInv
  <2> QED
      BY <1>3, <1>4, <2>1, <2>2
<1>5. ASSUME isInTxScopeCall(c) /\ inTxScopeWrites(c, local) PROVE Finds(c)
    BY <1>5 DEF inTxScopeWrites, Finds
<1>6. ASSUME callWrites(c, local) PROVE Finds(c)
    BY <1>3, <1>4, <1>6 DEF callWrites, varHasWrite, Finds
<1>7. Finds(c)
    BY <1>2, <1>5, <1>6 DEF Finds
<1> QED
    BY <1>7 DEF FindsIn

LEMMA InitWitness == Init => WitnessInv
BY DEF Init, WitnessInv

LEMMA NextWitness ==
    ASSUME TypeOK, FixInv, ValueInv, WitnessInv, [Next]_vars
    PROVE  WitnessInv'
<1>1. ASSUME prog' = prog, localWrites' = localWrites, varWrites \subseteq varWrites'
      PROVE  WitnessInv'
    BY <1>1, FindsMore DEF WitnessInv
<1>2. CASE Collect \/ Recollect
  <2>1. prog' = prog /\ localWrites' = localWrites /\ varWrites \subseteq varWrites'
      BY <1>2 DEF Collect, Recollect, CollectWith
  <2> QED
      BY <1>1, <2>1
<1>3. CASE MarkDirect
  <2>1. /\ phase = "direct" /\ UNCHANGED <<prog, varWrites>> /\ localWrites = {}
        /\ localWrites' = {d \in Decl : bodyWrites(d, {})}
      BY <1>3 DEF MarkDirect, FixInv
  <2>2. ASSUME NEW d \in Decl \cap localWrites' PROVE FindsIn(d)'
    <3>1. FindsIn(d)
        BY <2>1, <2>2, WritesFinds
    <3> QED
        BY <2>1, <3>1, FindsMore
  <2> QED
      BY <2>2 DEF WitnessInv
<1>4. ASSUME NEW d \in Decl, VisitDecl(d) PROVE WitnessInv'
  <2>1. /\ phase = "range" /\ UNCHANGED <<prog, varWrites>> /\ localWrites \subseteq localWrites'
        /\ \A x \in localWrites' : x \in localWrites \/ (x = d /\ bodyWrites(d, localWrites))
      BY <1>4 DEF VisitDecl
  <2>2. ASSUME NEW x \in Decl \cap localWrites' PROVE FindsIn(x)
      BY <2>1, WritesFinds DEF WitnessInv
  <2> QED
      BY <2>1, <2>2, FindsMore DEF WitnessInv
<1>5. ASSUME NEW f \in Decl \cup Iface, VisitMark(f) PROVE WitnessInv'
  <2>1. /\ UNCHANGED <<prog, varWrites>> /\ localWrites \subseteq localWrites'
        /\ \A x \in localWrites' : x \in localWrites \/ x \in Iface
      BY <1>5 DEF VisitMark
  <2>2. \A x \in Decl \cap localWrites' : x \in localWrites
      BY <2>1, DisjointAssumption
  <2> QED
      BY <2>1, <2>2, FindsMore DEF WitnessInv
<1>6. SkipPass \/ EndCollect \/ EndRange \/ EndInterfaces \/ EndRecollect \/ ExportFacts
      \/ (\E e \in agenda : WalkBody(e)) \/ EndReport \/ UNCHANGED vars
      => UNCHANGED <<prog, localWrites, varWrites>>
    BY DEF SkipPass, EndCollect, EndRange, EndInterfaces, EndRecollect, ExportFacts, WalkBody,
           EndReport, vars, marking
<1> QED
    BY <1>1, <1>2, <1>3, <1>4, <1>5, <1>6 DEF Next

\* The handlers the property speaks of, and how far the report has got with one: some
\* bodies of its search are on the agenda in an API frame, or reported together with the
\* literals they hand to InTxScope.
Good(d) ==
    /\ ServesApi(d) /\ ~ConsumesEvents(d)
    /\ \A b \in Searched(d) : \A c \in prog.calls[b] :
          ~c.fun /\ (isInTxScopeCall(c) => c.args \subseteq Lit)
Pending(b) == \E e \in agenda : e.body = b /\ e.frame.api /\ ~e.frame.event
Reports(b) ==
    \A c \in prog.calls[b] :
        ~c.fun /\ (isSQLWriteCall(c) \/ callWrites(c, localWrites)) => <<b, c>> \in reported
Covered(d) ==
    \E K \in SUBSET Searched(d) :
        d \in K /\ \A b \in K : Pending(b) \/ (Reports(b) /\ TxLits(b) \subseteq K)
HandledInv ==
    /\ phase = "report" => \A d \in Decl : Good(d) => Covered(d)
    /\ HandlersReported

\* A search is closed under the literals handed to InTxScope, and is the least such set.
LEMMA SearchCloses ==
    ASSUME NEW d \in Body
    PROVE  /\ \A b \in Searched(d) : TxLits(b) \subseteq Searched(d)
           /\ \A K : d \in K /\ (\A b \in K : TxLits(b) \subseteq K) => Searched(d) \subseteq K
<1>1. ASSUME NEW b \in Searched(d), NEW l \in TxLits(b) PROVE l \in Searched(d)
  <2>1. l \in Lit
      BY <1>1 DEF TxLits
  <2> QED
      BY <1>1, <2>1 DEF Searched
<1>2. ASSUME NEW K, d \in K, \A b \in K : TxLits(b) \subseteq K
      PROVE  Searched(d) \subseteq K
  <2>1. K \cap Lit \in SUBSET Lit
      OBVIOUS
  <2>2. TxLits(d) \subseteq K \cap Lit /\ \A k \in K \cap Lit : TxLits(k) \subseteq K \cap Lit
      BY <1>2 DEF TxLits
  <2> QED
      BY <1>2, <2>1, <2>2 DEF Searched
<1> QED
    BY <1>1, <1>2

LEMMA GoodStill ==
    ASSUME prog' = prog
    PROVE  \A d : Good(d)' <=> Good(d)
BY ProgramStill DEF Good, isInTxScopeCall

\* Walking a body of an API handler reports its calls and puts the literals it hands to
\* InTxScope on the agenda, in an API frame.
LEMMA WalkCovers ==
    ASSUME TypeOK, NEW e \in agenda, WalkBody(e), NEW d \in Decl, Good(d), Covered(d)
    PROVE  Covered(d)'
<1> DEFINE visible == {c \in prog.calls[e.body] : ~c.fun}
           Api == e.frame.api /\ ~e.frame.event
<1>1. /\ e.body \in Body /\ e.frame \in Frame
      /\ UNCHANGED <<prog, localWrites, varWrites, funcValues>>
      /\ reported' = reported \cup
           {<<e.body, c>> : c \in {x \in visible :
               /\ e.frame.api /\ ~e.frame.event
               /\ isSQLWriteCall(x) \/ callWrites(x, localWrites)}}
      /\ agenda' = (agenda \ {e})
           \cup {[body |-> l, frame |-> frameFromLit(l)] : l \in prog.nested[e.body]}
           \cup {[body |-> l, frame |-> ArgFrame(l, e.frame)] :
                    l \in Lit \cap UNION {c.args : c \in visible}}
    BY DEF WalkBody, TypeOK, marking
<1>2. \A c : /\ isSQLWriteCall(c)' <=> isSQLWriteCall(c)
             /\ callWrites(c, localWrites)' <=> callWrites(c, localWrites)
    BY <1>1 DEF isSQLWriteCall, callWrites, varHasWrite, funcHasWrite
<1>3. \A b : Reports(b) => Reports(b)'
    BY <1>1, <1>2 DEF Reports
<1>4. \A b : Pending(b) => Pending(b)' \/ (b = e.body /\ Api)
  <2> SUFFICES ASSUME NEW b, NEW x \in agenda, x.body = b, x.frame.api, ~x.frame.event,
                      ~(b = e.body /\ Api)
               PROVE  Pending(b)'
      BY DEF Pending
  <2>1. x \in agenda'
      BY <1>1
  <2> QED
      BY <2>1 DEF Pending
<1>5. ASSUME Api PROVE Reports(e.body)'
    BY <1>1, <1>2, <1>5 DEF Reports
<1>6. PICK K \in SUBSET Searched(d) :
         d \in K /\ \A b \in K : Pending(b) \/ (Reports(b) /\ TxLits(b) \subseteq K)
    BY DEF Covered
<1>7. Searched(d)' = Searched(d) /\ \A b : TxLits(b)' = TxLits(b)
    BY <1>1, ProgramStill
<1>8. CASE Api /\ e.body \in K
  <2>1. ASSUME NEW l \in TxLits(e.body) PROVE Pending(l)'
    <3>1. PICK c \in prog.calls[e.body] : isInTxScopeCall(c) /\ l \in c.args /\ l \in Lit
        BY <2>1 DEF TxLits
    <3>2. c \in visible /\ ~ConsumesEvents(l)
        BY <1>6, <1>8, <1>1, <3>1, TxArgsAssumption DEF Good, isInTxScopeCall, ConsumesEvents, TypeOK
    <3>3. ArgFrame(l, e.frame).api /\ ~ArgFrame(l, e.frame).event
        BY <1>1, <1>8, <3>1, <3>2, FramesSay
    <3>4. [body |-> l, frame |-> ArgFrame(l, e.frame)] \in agenda'
      <4>1. l \in Lit \cap UNION {x.args : x \in visible}
          BY <3>1, <3>2
      <4> QED
          BY <1>1, <4>1
    <3> QED
        BY <3>3, <3>4 DEF Pending
  <2>2. TxLits(e.body) \subseteq Searched(d)
      BY <1>6, <1>8, SearchCloses DEF Body
  <2> DEFINE L == K \cup TxLits(e.body)
  <2>3. L \in SUBSET Searched(d) /\ d \in L
      BY <1>6, <2>2
  <2>4. ASSUME NEW b \in L PROVE Pending(b)' \/ (Reports(b)' /\ TxLits(b) \subseteq L)
      BY <1>3, <1>4, <1>5, <1>6, <1>8, <2>1
  <2> HIDE DEF L
  <2> QED
      BY <1>7, <2>3, <2>4 DEF Covered
<1>9. CASE ~(Api /\ e.body \in K)
  <2>1. ASSUME NEW b \in K PROVE Pending(b)' \/ (Reports(b)' /\ TxLits(b) \subseteq K)
      BY <1>3, <1>4, <1>6, <1>9
  <2> QED
      BY <1>6, <1>7, <2>1 DEF Covered
<1> QED
    BY <1>8, <1>9

\* With an empty agenda a covered handler is reported all through, its witness with it.
LEMMA CoveredIsReported ==
    ASSUME TypeOK, ValueInv, WitnessInv, phase = "report", agenda = {},
           NEW d \in Decl \cap localWrites, Good(d), Covered(d)
    PROVE  \E r \in reported : r[1] \in Searched(d)
<1>1. PICK K \in SUBSET Searched(d) :
         d \in K /\ \A b \in K : Pending(b) \/ (Reports(b) /\ TxLits(b) \subseteq K)
    BY DEF Covered
<1>2. \A b \in K : Reports(b) /\ TxLits(b) \subseteq K
    BY <1>1 DEF Pending
<1>3. Searched(d) \subseteq K
    BY <1>1, <1>2, SearchCloses DEF Body
<1>4. PICK b \in Searched(d) : \E c \in prog.calls[b] : Finds(c)
    BY DEF WitnessInv, FindsIn
<1>5. PICK c \in prog.calls[b] : Finds(c)
    BY <1>4
<1>6. ~c.fun /\ (isInTxScopeCall(c) => c.args \subseteq Lit)
    BY <1>4, <1>5 DEF Good
<1>7. isSQLWriteCall(c) \/ callWrites(c, localWrites)
  <2>1. CASE isInTxScopeCall(c) /\ \E x \in c.args : x \in Fn \cup Var
      BY <1>6, <2>1, DisjointAssumption
  <2>2. CASE /\ c.callee \in Var
             /\ \E f \in Fn : Final(c.callee, f) /\ funcHasWrite(f, localWrites)
    <3>1. PICK f \in Fn : Final(c.callee, f) /\ funcHasWrite(f, localWrites)
        BY <2>2
    <3>2. funcValues[c.callee] = f
        BY <2>2, <3>1 DEF ValueInv
    <3> QED
        BY <2>2, <3>1, <3>2 DEF callWrites, varHasWrite
  <2> QED
      BY <1>5, <2>1, <2>2 DEF Finds, callWrites, varHasWrite
<1>8. <<b, c>> \in reported
    BY <1>2, <1>3, <1>4, <1>5, <1>6, <1>7 DEF Reports
<1> QED
    BY <1>4, <1>8

LEMMA InitHandled == Init => HandledInv
BY DEF Init, HandledInv, HandlersReported

LEMMA NextHandled ==
    ASSUME TypeOK, FixInv, ValueInv, WitnessInv, HandledInv, [Next]_vars
    PROVE  HandledInv'
<1>1. CASE SkipPass
  <2>1. localWrites' = {} /\ phase' = "done"
      BY <1>1 DEF SkipPass, FixInv, marking
  <2> QED
      BY <2>1 DEF HandledInv, HandlersReported
<1>2. CASE ExportFacts
  <2>1. /\ agenda' = {[body |-> b, frame |-> topFrame(b)] : b \in Decl \cup prog.top}
        /\ prog' = prog /\ phase' = "report"
      BY <1>2 DEF ExportFacts
  <2>2. ASSUME NEW d \in Decl, Good(d) PROVE Covered(d)'
    <3>1. topFrame(d).api /\ ~topFrame(d).event
        BY <2>2, FramesSay DEF Good
    <3>2. [body |-> d, frame |-> topFrame(d)] \in agenda'
        BY <2>1
    <3>3. Pending(d)'
        BY <3>1, <3>2 DEF Pending
    <3>4. {d} \in SUBSET (Searched(d)')
        BY DEF Searched
    <3> QED
        BY <3>3, <3>4 DEF Covered
  <2> QED
      BY <2>1, <2>2, GoodStill DEF HandledInv, HandlersReported
<1>3. ASSUME NEW e \in agenda, WalkBody(e) PROVE HandledInv'
  <2>1. prog' = prog /\ phase = "report" /\ phase' = "report"
      BY <1>3 DEF WalkBody
  <2>2. \A d \in Decl : Good(d) => Covered(d)'
      BY <1>3, <2>1, WalkCovers DEF HandledInv
  <2> QED
      BY <2>1, <2>2, GoodStill DEF HandledInv, HandlersReported
<1>4. CASE EndReport
  <2>1. /\ UNCHANGED <<prog, localWrites, reported>>
        /\ phase = "report" /\ agenda = {} /\ phase' = "done"
      BY <1>4 DEF EndReport, marking, reporting
  <2>2. ASSUME NEW d \in Decl \cap localWrites, Good(d)
        PROVE  \E r \in reported : r[1] \in Searched(d)
      BY <2>1, <2>2, CoveredIsReported DEF HandledInv
  <2>3. \A d : Good(d)' <=> Good(d)
      BY <2>1, GoodStill
  <2>4. \A d : Searched(d)' = Searched(d)
      BY <2>1, ProgramStill
  <2>5. ASSUME NEW d \in Decl \cap localWrites', Good(d)'
        PROVE  \E r \in reported' : r[1] \in Searched(d)'
      BY <2>1, <2>2, <2>3, <2>4, <2>5
  <2>6. HandlersReported'
      BY <2>5 DEF HandlersReported, Good
  <2> QED
      BY <2>1, <2>6 DEF HandledInv
<1>5. CASE Collect \/ EndCollect \/ MarkDirect \/ (\E d \in Decl : VisitDecl(d)) \/ EndRange
           \/ (\E f \in Decl \cup Iface : VisitMark(f)) \/ EndInterfaces \/ Recollect \/ EndRecollect
  <2>1. phase' \notin {"report", "done"}
      BY <1>5 DEF Collect, CollectWith, EndCollect, MarkDirect, VisitDecl, EndRange, VisitMark,
                  EndInterfaces, Recollect, EndRecollect
  <2> QED
      BY <2>1 DEF HandledInv, HandlersReported
<1>6. CASE UNCHANGED vars
  <2>1. UNCHANGED <<prog, phase, agenda, reported, localWrites, varWrites, funcValues>>
      BY <1>6 DEF vars, marking, reporting
  <2>2. /\ \A b : Searched(b)' = Searched(b) /\ TxLits(b)' = TxLits(b)
        /\ \A d : Good(d)' <=> Good(d)
      BY <2>1, ProgramStill, GoodStill
  <2>3. \A b : Pending(b)' <=> Pending(b)
      BY <2>1 DEF Pending
  <2>4. \A b : Reports(b)' <=> Reports(b)
      BY <2>1 DEF Reports, isSQLWriteCall, callWrites, varHasWrite, funcHasWrite
  <2>5. \A d : Covered(d)' <=> Covered(d)
      BY <2>2, <2>3, <2>4 DEF Covered
  <2>6. HandlersReported'
      BY <2>1, <2>2 DEF HandledInv, HandlersReported, Good
  <2> QED
      BY <2>1, <2>2, <2>5, <2>6 DEF HandledInv
<1> QED
    BY <1>1, <1>2, <1>3, <1>4, <1>5, <1>6 DEF Next

\* An API handler marked as reaching a write is reported, or a literal it hands to
\* InTxScope is, in whatever order the agenda is worked off (run, l. 112-130).
THEOREM WriteGateHandlersReported == Spec => []HandlersReported
<1> DEFINE Inv == TypeOK /\ FixInv /\ ValueInv /\ WitnessInv /\ HandledInv
<1>1. Init => Inv
    BY InitTypeOK, InitFix, InitValue, InitWitness, InitHandled
<1>2. Inv /\ [Next]_vars => Inv'
    BY NextTypeOK, NextFix, NextValue, NextWitness, NextHandled
<1>3. Inv => HandlersReported
    BY DEF HandledInv
<1> QED
    BY <1>1, <1>2, <1>3, PTL DEF Spec

\* The second collection ends with the functions the marks were computed with, however
\* often a variable is assigned: every function before the last one is overwritten again.
THEOREM WriteGateRecollectStable == Spec => RecollectStable
<1> DEFINE Inv == TypeOK /\ ValueInv
<1>1. Init => Inv
    BY InitTypeOK, InitValue
<1>2. Inv /\ [Next]_vars => Inv'
    BY NextTypeOK, NextValue
<1>3. Inv /\ [Next]_vars =>
         [phase = "recollect" /\ phase' = "export" =>
            \A v \in Var : \A i \in 1..Len(prog.assigns) :
               (/\ prog.assigns[i].var = v /\ prog.assigns[i].rhs \in Fn
                /\ \A j \in (i + 1)..Len(prog.assigns) :
                     prog.assigns[j].var = v => prog.assigns[j].rhs \notin Fn)
                  => funcValues[v] = prog.assigns[i].rhs]_vars
  <2> SUFFICES ASSUME Inv, Next, phase = "recollect", phase' = "export",
                      NEW v \in Var, NEW i \in 1 .. Len(prog.assigns),
                      prog.assigns[i].var = v, prog.assigns[i].rhs \in Fn,
                      \A j \in (i + 1) .. Len(prog.assigns) :
                          prog.assigns[j].var = v => prog.assigns[j].rhs \notin Fn
               PROVE  funcValues[v] = prog.assigns[i].rhs
      OBVIOUS
  <2>1. at > Len(prog.assigns)
      BY DEF Next, SkipPass, Collect, EndCollect, MarkDirect, VisitDecl, EndRange, VisitMark,
             EndInterfaces, Recollect, CollectWith, EndRecollect, ExportFacts, WalkBody, EndReport
  <2>2. at - 1 = Len(prog.assigns)
    <3>1. at \in 1 .. Len(prog.assigns) + 1
        BY DEF TypeOK
    <3>2. Len(prog.assigns) \in Nat
        BY ProgramParts
    <3> QED
        BY <2>1, <3>1, <3>2
  <2>3. Final(v, prog.assigns[i].rhs)
      BY DEF Final, Held
  <2> QED
      BY <2>2, <2>3 DEF ValueInv, Final
<1> QED
    BY <1>1, <1>2, <1>3, PTL DEF Spec, RecollectStable
=============================================================================
