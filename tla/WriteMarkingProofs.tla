-------------------------- MODULE WriteMarkingProofs --------------------------
(* Proofs of what WriteMarking promises, for every set of nodes. *)
EXTENDS WriteMarking, TLAPS

\* Marks only grow by justified steps, so they stay inside every closed set.
Inside(g, M) == \A S \in SUBSET Node : Closed(g, S) => M \subseteq S

IInv ==
    /\ TypeOK
    /\ stage = "reading" => marks = {}
    /\ stage = "marking" => Inside(graph, marks)

LEMMA JustifiedInside ==
    ASSUME NEW g \in Graph, NEW M \in SUBSET Node, Inside(g, M)
    PROVE  Inside(g, M \cup Justified(g, M))
<1> SUFFICES ASSUME NEW S \in SUBSET Node, Closed(g, S)
             PROVE  M \cup Justified(g, M) \subseteq S
    BY DEF Inside
<1>1. M \subseteq S
    BY DEF Inside
<1>2. Justified(g, M) \subseteq Justified(g, S)
    BY <1>1 DEF Justified
<1> QED
    BY <1>1, <1>2 DEF Closed

LEMMA JustifiedNodes ==
    ASSUME NEW g \in Graph, NEW M
    PROVE  Justified(g, M) \subseteq Node
BY DEF Justified, Graph

LEMMA InitIInv == Init => IInv
BY DEF Init, IInv, TypeOK

LEMMA NextIInv == IInv /\ [Next]_vars => IInv'
<1> SUFFICES ASSUME IInv, [Next]_vars PROVE IInv'
    OBVIOUS
<1> USE DEF IInv
<1>1. CASE Read
    BY <1>1 DEF Read, TypeOK, Inside
<1>2. CASE Skip
    BY <1>2 DEF Skip, TypeOK
<1>3. CASE Mark
  <2>1. /\ stage = "marking" /\ stage' = stage /\ graph' = graph
        /\ marks' \subseteq marks \cup Justified(graph, marks)
      BY <1>3 DEF Mark
  <2>2. Inside(graph, marks \cup Justified(graph, marks))
      BY <2>1, JustifiedInside DEF TypeOK
  <2>3. Inside(graph, marks')
      BY <2>1, <2>2 DEF Inside
  <2>4. TypeOK'
      BY <2>1, JustifiedNodes DEF TypeOK
  <2> QED
      BY <2>1, <2>3, <2>4
<1>4. CASE Finish
    BY <1>4 DEF Finish, TypeOK
<1>5. CASE Forget
    BY <1>5 DEF Forget, TypeOK
<1>6. CASE UNCHANGED vars
    BY <1>6 DEF vars, TypeOK, Inside, Closed, Justified
<1> QED
    BY <1>1, <1>2, <1>3, <1>4, <1>5, <1>6 DEF Next

\* The inductive invariant: types, and no mark outside a closed set.
THEOREM MarkingInvariant == Spec => []IInv
BY InitIInv, NextIInv, PTL DEF Spec

\* No marking that follows the protocol ever marks a node for no reason.
THEOREM MarkingNoSpuriousMark == Spec => []NoSpuriousMark
<1>1. IInv => NoSpuriousMark
    BY DEF IInv, NoSpuriousMark, Inside
<1> QED
    BY <1>1, MarkingInvariant, PTL

\* Leaving the marking stage, the marks are the least closed set.
Ends == (stage = "marking" /\ stage' = "done") =>
            /\ Closed(graph, marks)
            /\ \A S \in SUBSET Node : Closed(graph, S) => marks \subseteq S

LEMMA NextEnds == IInv /\ [Next]_vars => [Ends]_vars
<1> SUFFICES ASSUME IInv, Next, stage = "marking", stage' = "done"
             PROVE  Closed(graph, marks) /\ Inside(graph, marks)
    BY DEF Inside, Ends
<1>1. Finish
    BY DEF Next, Read, Skip, Mark, Finish, Forget
<1> QED
    BY <1>1 DEF Finish, IInv

\* Any two runs of the protocol over the same graph end with the same marks: the
\* least closed set.
THEOREM MarkingEndsWithLeast == Spec => EndsWithLeast
BY NextEnds, MarkingInvariant, PTL DEF Spec, EndsWithLeast, Ends
=============================================================================
