------------------------------ MODULE WriteGate ------------------------------
(***************************************************************************)
(* One pass of the writegate analyzer over one package                     *)
(* (analyzers/writegate/writegate.go, run).  The pass                      *)
(*   1. collects which variables hold functions or writing closures,       *)
(*   2. marks the declared functions that write, to a fixpoint over a Go   *)
(*      map whose iteration order is arbitrary, spreading marks to the     *)
(*      interface methods they implement,                                  *)
(*   3. collects again, now with the marks, and exports a fact for every   *)
(*      marked function of this package,                                   *)
(*   4. walks every body and reports writes made inside API handlers.      *)
(*                                                                         *)
(* The syntax tree is a record: which calls a body makes directly, which   *)
(* function literals it nests, in which order variables are assigned.      *)
(***************************************************************************)
EXTENDS Naturals, Sequences

CONSTANTS
    Decl,        \* functions and methods declared with a body
    Iface,       \* interface methods reachable from this package's interfaces
    Foreign,     \* those of them that belong to another package
    Imported,    \* functions of other packages
    SqlWrite,    \* observability SQL Exec, ExecContext, ExecContextRetryable
    TxScope,     \* observability SQL InTxScope
    Var,         \* variables
    Lit,         \* function literals
    Opaque,      \* an expression the analyzer does not resolve
    Programs     \* the packages considered

Fn == Decl \cup Iface \cup Imported
Own == (Decl \cup Iface) \ Foreign
Body == Decl \cup Lit

Frame == [api : BOOLEAN, event : BOOLEAN]

\* What the type of a function shows: it takes a ResponseWriter, is an event
\* handler, returns one, is a method of a type that embeds Unimplemented*Server.
Signature == [http : BOOLEAN, handler : BOOLEAN, returnsHandler : BOOLEAN, server : BOOLEAN]

\* fun: the call is part of the Fun operand of another call, as save() is in
\* save().Wait().  A call inside func() { .. }() is in a literal, and not of this body.
Call == [callee : Fn \cup Var \cup {Opaque},
         args   : SUBSET (Fn \cup Var \cup Lit),
         fun    : BOOLEAN]

Program ==
    [analyzed : BOOLEAN,                 \* enabled, and a service package
     calls    : [Body -> SUBSET Call],   \* calls outside nested literals
     nested   : [Body -> SUBSET Lit],    \* literals that are not arguments
     top      : SUBSET Lit,              \* literals in package-level values
     assigns  : Seq([var : Var, rhs : Fn \cup Lit \cup {Opaque}]),
     impl     : SUBSET ((Decl \cup Iface) \X Iface),
     facts    : SUBSET (Imported \cup Foreign),
     sig      : [Body -> Signature]]

ASSUME ForeignAssumption == Foreign \subseteq Iface
ASSUME ExternalAssumption == SqlWrite \subseteq Imported /\ TxScope \subseteq Imported
ASSUME DisjointAssumption ==
    /\ Decl \cap Iface = {} /\ (Decl \cup Iface) \cap Imported = {}
    /\ Fn \cap (Var \cup Lit \cup {Opaque}) = {}
    /\ Var \cap (Lit \cup {Opaque}) = {}
    /\ Opaque \notin Lit
ASSUME ProgramsAssumption == Programs \subseteq Program

\* InTxScope takes a function of a transaction, by its type: none of the SQL writes,
\* and no event handler.
ASSUME TxArgsAssumption ==
    \A p \in Programs : \A b \in Body : \A c \in p.calls[b] : c.callee \in TxScope =>
        /\ c.args \cap SqlWrite = {}
        /\ \A l \in c.args \cap Lit : ~p.sig[l].handler /\ ~p.sig[l].returnsHandler

VARIABLES
    prog,         \* the package under analysis
    phase,        \* which loop of run is executing
    at,           \* next assignment collectFuncValues visits
    funcValues,   \* variable -> the function last assigned to it
    varWrites,    \* variables holding a closure that writes
    localWrites,  \* the marked functions
    todo,         \* map entries the running range has still to produce
    changed,      \* the loop variable of the fixpoint
    before,       \* localWrites when markInterfaceMethods was called
    exported,     \* functions given a dbWriteFact by this pass
    agenda,       \* bodies reportHTTPWrites has still to walk, with frames
    reported      \* <<body, call>> diagnostics

marking == <<funcValues, varWrites, localWrites, changed, before>>
reporting == <<exported, agenda, reported>>
vars == <<prog, phase, at, todo, marking, reporting>>

TypeOK ==
    /\ prog \in Programs
    /\ phase \in {"collect", "direct", "range", "interfaces",
                  "recollect", "export", "report", "done"}
    /\ at \in 1..(Len(prog.assigns) + 1)
    /\ funcValues \in [Var -> Fn \cup {Opaque}]
    /\ varWrites \subseteq Var
    /\ localWrites \subseteq Decl \cup Iface
    /\ todo \subseteq Decl \cup Iface
    /\ changed \in BOOLEAN
    /\ before \subseteq Decl \cup Iface
    /\ exported \subseteq Own
    /\ agenda \subseteq [body : Body, frame : Frame]
    /\ reported \subseteq (Body \X Call)
-----------------------------------------------------------------------------
(* The predicates on calls and bodies. *)

isSQLWriteCall(c) == c.callee \in SqlWrite
isInTxScopeCall(c) == c.callee \in TxScope

funcHasWrite(f, local) == f \in local \cup prog.facts

\* A variable's writing closure, or the function last seen assigned to it.
varHasWrite(v, local) == v \in varWrites \/ funcHasWrite(funcValues[v], local)

callWrites(c, local) ==
    \/ c.callee \in Fn /\ funcHasWrite(c.callee, local)
    \/ c.callee \in Var /\ varHasWrite(c.callee, local)

\* Literals passed to InTxScope by the calls of a body.
TxLits(b) ==
    {l \in Lit : \E c \in prog.calls[b] : isInTxScopeCall(c) /\ l \in c.args}

\* The bodies a search of b looks into: b, and the literals it reaches through
\* InTxScope.  Every other function literal is skipped.
Searched(b) ==
    {b} \cup {l \in Lit :
        \A S \in SUBSET Lit :
            (TxLits(b) \subseteq S /\ \A k \in S : TxLits(k) \subseteq S) => l \in S}

inTxScopeWrites(c, local) ==
    \/ \E f \in c.args \cap Fn : funcHasWrite(f, local)
    \/ \E v \in c.args \cap Var : varHasWrite(v, local)

bodyWrites(b, local) ==
    \E d \in Searched(b) : \E c \in prog.calls[d] :
        \/ isSQLWriteCall(c)
        \/ isInTxScopeCall(c) /\ inTxScopeWrites(c, local)
        \/ callWrites(c, local)
-----------------------------------------------------------------------------
Init ==
    /\ prog \in Programs
    /\ phase = "collect"
    /\ at = 1
    /\ funcValues = [v \in Var |-> Opaque]
    /\ varWrites = {}
    /\ localWrites = {}
    /\ todo = {}
    /\ changed = TRUE
    /\ before = {}
    /\ exported = {}
    /\ agenda = {}
    /\ reported = {}

\* The analyzer is disabled, or this is not a service package.
SkipPass ==
    /\ phase = "collect"
    /\ ~prog.analyzed
    /\ phase' = "done"
    /\ UNCHANGED <<prog, at, todo, marking, reporting>>

\* Mutant of CollectWith: the first function assigned to a variable is kept.
CollectWithFirst(local) ==
    /\ at <= Len(prog.assigns)
    /\ LET a == prog.assigns[at] IN
         /\ funcValues' = IF a.rhs \in Fn /\ funcValues[a.var] = Opaque
                            THEN [funcValues EXCEPT ![a.var] = a.rhs] ELSE funcValues
         /\ varWrites' = IF a.rhs \in Lit /\ bodyWrites(a.rhs, local)
                           THEN varWrites \cup {a.var} ELSE varWrites
    /\ at' = at + 1
    /\ UNCHANGED <<prog, phase, localWrites, todo, changed, before, reporting>>

\* collectFuncValues meets its next assignment.
CollectWith(local) ==
    /\ at <= Len(prog.assigns)
    /\ LET a == prog.assigns[at] IN
         /\ funcValues' = IF a.rhs \in Fn THEN [funcValues EXCEPT ![a.var] = a.rhs]
                                          ELSE funcValues
         /\ varWrites' = IF a.rhs \in Lit /\ bodyWrites(a.rhs, local)
                           THEN varWrites \cup {a.var}
                           ELSE varWrites
    /\ at' = at + 1
    /\ UNCHANGED <<prog, phase, localWrites, todo, changed, before, reporting>>

\* The first collection, before anything is marked.
Collect == phase = "collect" /\ prog.analyzed /\ CollectWith({})

EndCollect ==
    /\ phase = "collect"
    /\ prog.analyzed
    /\ at > Len(prog.assigns)
    /\ phase' = "direct"
    /\ UNCHANGED <<prog, at, todo, marking, reporting>>

\* The loop over declarations; it asks with no local marks, so its order is moot.
MarkDirect ==
    /\ phase = "direct"
    /\ localWrites' = {d \in Decl : bodyWrites(d, {})}
    /\ phase' = "range"
    /\ todo' = Decl
    /\ changed' = FALSE
    /\ UNCHANGED <<prog, at, funcValues, varWrites, before, reporting>>

\* Mutant of VisitDecl: a new mark does not ask for another round.
VisitDeclOnce(d) ==
    /\ phase = "range"
    /\ d \in todo
    /\ todo' = todo \ {d}
    /\ localWrites' = IF bodyWrites(d, localWrites) THEN localWrites \cup {d} ELSE localWrites
    /\ UNCHANGED <<prog, phase, at, funcValues, varWrites, changed, before, reporting>>

\* The range over decls produces its next entry, in any order.
VisitDecl(d) ==
    /\ phase = "range"
    /\ d \in todo
    /\ todo' = todo \ {d}
    /\ IF d \notin localWrites /\ bodyWrites(d, localWrites)
         THEN localWrites' = localWrites \cup {d} /\ changed' = TRUE
         ELSE UNCHANGED <<localWrites, changed>>
    /\ UNCHANGED <<prog, phase, at, funcValues, varWrites, before, reporting>>

EndRange ==
    /\ phase = "range"
    /\ todo = {}
    /\ before' = localWrites
    /\ todo' = localWrites
    /\ phase' = "interfaces"
    /\ UNCHANGED <<prog, at, funcValues, varWrites, localWrites, changed, reporting>>

\* Mutant of VisitMark: the receiver is not checked to implement the interface.
VisitMarkAny(f) ==
    /\ phase = "interfaces"
    /\ f \in todo
    /\ LET new == Iface \ localWrites IN
         /\ localWrites' = localWrites \cup new
         /\ \E produced \in SUBSET new : todo' = (todo \ {f}) \cup produced
    /\ UNCHANGED <<prog, phase, at, funcValues, varWrites, changed, before, reporting>>

\* markInterfaceMethods ranges over the map it inserts into: an entry inserted
\* during the range may be produced by it or not.
VisitMark(f) ==
    /\ phase = "interfaces"
    /\ f \in todo
    /\ LET new == {i \in Iface : <<f, i>> \in prog.impl} \ localWrites IN
         /\ localWrites' = localWrites \cup new
         /\ \E produced \in SUBSET new : todo' = (todo \ {f}) \cup produced
    /\ UNCHANGED <<prog, phase, at, funcValues, varWrites, changed, before, reporting>>

\* Mutant of EndInterfaces: newly marked interface methods do not count as a change.
EndInterfacesDeclsOnly ==
    /\ phase = "interfaces"
    /\ todo = {}
    /\ IF changed
         THEN phase' = "range" /\ todo' = Decl /\ changed' = FALSE /\ UNCHANGED at
         ELSE phase' = "recollect" /\ at' = 1 /\ UNCHANGED <<todo, changed>>
    /\ UNCHANGED <<prog, funcValues, varWrites, localWrites, before, reporting>>

\* Mutant of EndInterfaces: one round over the declarations is taken to be enough.
EndInterfacesOneRound ==
    /\ phase = "interfaces"
    /\ todo = {}
    /\ phase' = "recollect"
    /\ at' = 1
    /\ UNCHANGED <<prog, todo, marking, reporting>>

\* Mutant of EndInterfaces: changed is not reset at the top of the loop.
EndInterfacesNoReset ==
    /\ phase = "interfaces"
    /\ todo = {}
    /\ IF changed \/ localWrites /= before
         THEN phase' = "range" /\ todo' = Decl /\ changed' = TRUE /\ UNCHANGED at
         ELSE phase' = "recollect" /\ at' = 1 /\ UNCHANGED <<todo, changed>>
    /\ UNCHANGED <<prog, funcValues, varWrites, localWrites, before, reporting>>

\* Go round again if a declaration or an interface method was newly marked.
EndInterfaces ==
    /\ phase = "interfaces"
    /\ todo = {}
    /\ IF changed \/ localWrites /= before
         THEN /\ phase' = "range"
              /\ todo' = Decl
              /\ changed' = FALSE
              /\ UNCHANGED at
         ELSE /\ phase' = "recollect"
              /\ at' = 1
              /\ UNCHANGED <<todo, changed>>
    /\ UNCHANGED <<prog, funcValues, varWrites, localWrites, before, reporting>>

\* The second collection, with the marks of the fixpoint.
Recollect == phase = "recollect" /\ CollectWith(localWrites)

EndRecollect ==
    /\ phase = "recollect"
    /\ at > Len(prog.assigns)
    /\ phase' = "export"
    /\ UNCHANGED <<prog, at, todo, marking, reporting>>

applySig(s) == [api |-> s.http, event |-> s.handler \/ s.returnsHandler]

frameFromLit(l) == applySig(prog.sig[l])

\* Mutant of frameFrom: the receiver is not asked for its embedded server.
frameFromUnembedded(d) == applySig(prog.sig[d])

\* Only a declaration has a receiver.
frameFrom(d) ==
    LET s == prog.sig[d] IN [applySig(s) EXCEPT !.api = s.http \/ s.server]

topFrame(b) == IF b \in Decl THEN frameFrom(b) ELSE frameFromLit(b)

ExportFacts ==
    /\ phase = "export"
    /\ exported' = localWrites \cap Own
    /\ agenda' = {[body |-> b, frame |-> topFrame(b)] : b \in Decl \cup prog.top}
    /\ phase' = "report"
    /\ UNCHANGED <<prog, at, todo, marking, reported>>

\* The frame of a literal passed to a call made under frame fr.
ArgFrame(l, fr) ==
    LET own == frameFromLit(l) IN
    [own EXCEPT !.api = own.api \/ (~own.event /\ fr.api)]

\* Mutant of WalkBody: writes in an event handler are reported like any others.
WalkBodyInEvents(e) ==
    LET visible == {c \in prog.calls[e.body] : ~c.fun} IN
    /\ phase = "report"
    /\ e \in agenda
    /\ reported' = reported \cup
         {<<e.body, c>> : c \in {x \in visible :
             e.frame.api /\ (isSQLWriteCall(x) \/ callWrites(x, localWrites))}}
    /\ agenda' = (agenda \ {e})
         \cup {[body |-> l, frame |-> frameFromLit(l)] : l \in prog.nested[e.body]}
         \cup {[body |-> l, frame |-> ArgFrame(l, e.frame)] :
                  l \in Lit \cap UNION {c.args : c \in visible}}
    /\ UNCHANGED <<prog, phase, at, todo, marking, exported>>

\* reportHTTPWrites walks one body: it never looks inside the Fun of a call.
WalkBody(e) ==
    LET visible == {c \in prog.calls[e.body] : ~c.fun} IN
    /\ phase = "report"
    /\ e \in agenda
    /\ reported' = reported \cup
         {<<e.body, c>> : c \in {x \in visible :
             /\ e.frame.api /\ ~e.frame.event
             /\ isSQLWriteCall(x) \/ callWrites(x, localWrites)}}
    /\ agenda' = (agenda \ {e})
         \cup {[body |-> l, frame |-> frameFromLit(l)] : l \in prog.nested[e.body]}
         \cup {[body |-> l, frame |-> ArgFrame(l, e.frame)] :
                  l \in Lit \cap UNION {c.args : c \in visible}}
    /\ UNCHANGED <<prog, phase, at, todo, marking, exported>>

EndReport ==
    /\ phase = "report"
    /\ agenda = {}
    /\ phase' = "done"
    /\ UNCHANGED <<prog, at, todo, marking, reporting>>

Next ==
    \/ SkipPass
    \/ Collect \/ EndCollect
    \/ MarkDirect
    \/ \E d \in Decl : VisitDecl(d)
    \/ EndRange
    \/ \E f \in Decl \cup Iface : VisitMark(f)
    \/ EndInterfaces
    \/ Recollect \/ EndRecollect
    \/ ExportFacts
    \/ \E e \in agenda : WalkBody(e)
    \/ EndReport

Spec == Init /\ [][Next]_vars

\* The pass is sequential code without blocking calls: it keeps running.
FairSpec == Spec /\ WF_vars(Next)
-----------------------------------------------------------------------------
(* What the marks mean. *)

\* S holds every function, variable and literal by which a write can be reached:
\* through a call, an argument of InTxScope, any assignment, an implementation.
ReachClosed(S) ==
    /\ SqlWrite \cup prog.facts \subseteq S
    /\ \A b \in Body : \A c \in prog.calls[b] :
         (c.callee \in S \/ (isInTxScopeCall(c) /\ c.args \cap S /= {})) => b \in S
    /\ \A i \in 1..Len(prog.assigns) :
         prog.assigns[i].rhs \in S => prog.assigns[i].var \in S
    /\ \A m \in prog.impl : m[1] \in S => m[2] \in S

\* A mark is never spurious: every marked function or variable lies in every set
\* that a write can be reached from, whatever order the maps were ranged in and
\* however often the assignments were collected (run, l. 55-132).
MarksJustified ==
    \A S \in SUBSET (Fn \cup Var \cup Lit) :
        ReachClosed(S) => localWrites \cup varWrites \subseteq S

\* Everything of this package a write can be reached from has a fact once facts
\* are exported: the README's "methods that reach them" (README.md l. 39).  Packages
\* with functions in variables are left out: varWrites is stale in the fixpoint (l. 116).
\* So are implementations that only a fact says write: markInterfaceMethods goes over
\* the marks of this package (l. 209).
ExportsComplete ==
    /\ phase \in {"report", "done"} /\ prog.analyzed /\ prog.assigns = <<>>
    /\ \A m \in prog.impl : m[1] \notin prog.facts
    => \A f \in Own :
            (\A S \in SUBSET (Fn \cup Var \cup Lit) : ReachClosed(S) => f \in S)
              => f \in exported

\* Code that serves an API or consumes events, by its own signature.
ServesApi(b) == prog.sig[b].http \/ (b \in Decl /\ prog.sig[b].server)
ConsumesEvents(b) == prog.sig[b].handler \/ prog.sig[b].returnsHandler

\* An API handler that is marked as reaching a write does not pass silently: some
\* call in it, or in a literal it hands to InTxScope, is reported (l. 125-130).
\* Writes it reaches by a function's name in InTxScope's arguments, or in the
\* operand of another call, are marked but not looked at by the report.
HandlersReported ==
    phase = "done" =>
        \A d \in Decl \cap localWrites :
            /\ ServesApi(d) /\ ~ConsumesEvents(d)
            /\ \A b \in Searched(d) : \A c \in prog.calls[b] :
                 ~c.fun /\ (isInTxScopeCall(c) => c.args \subseteq Lit)
            => \E r \in reported : r[1] \in Searched(d)

\* The bodies that belong to an API handler: one by its own signature, or an
\* argument literal that is no event handler inside such a body.
ApiBodies ==
    {b \in Body : \A S \in SUBSET Body :
        (/\ \A x \in Body : ServesApi(x) => x \in S
         /\ \A x \in S : \A c \in prog.calls[x] : \A l \in c.args \cap Lit :
               ~ConsumesEvents(l) => l \in S) => b \in S}

\* Only writes made in API code are reported, never those in the body of an event
\* handler itself, and only calls through which a write can be reached
\* (reportHTTPWrites, l. 308-363).  The context is that of the innermost function
\* (l. 421, 460): a plain literal handed on by a body that serves an API and consumes
\* events is API code.
ReportsJustified ==
    \A r \in reported :
        /\ r[1] \in ApiBodies /\ ~ConsumesEvents(r[1])
        /\ \A S \in SUBSET (Fn \cup Var \cup Lit) : ReachClosed(S) => r[2].callee \in S

\* Collecting a second time leaves every variable with the function it held when
\* the marks were computed, so the report agrees with the fixpoint (l. 112-117).
RecollectStable ==
    [][phase = "recollect" /\ phase' = "export" =>
         \A v \in Var : \A i \in 1..Len(prog.assigns) :
            (/\ prog.assigns[i].var = v /\ prog.assigns[i].rhs \in Fn
             /\ \A j \in (i + 1)..Len(prog.assigns) :
                  prog.assigns[j].var = v => prog.assigns[j].rhs \notin Fn)
               => funcValues[v] = prog.assigns[i].rhs]_vars

\* The pass ends: the fixpoint and both ranges run out of work (l. 93-110).
Termination == <>(phase = "done")
-----------------------------------------------------------------------------
(* The pass implements WriteMarking, with the package's call graph as graph. *)

Stage == CASE phase = "collect" -> "reading"
           [] phase \in {"direct", "range", "interfaces"} -> "marking"
           [] OTHER -> "done"

CallGraph ==
    [seeds |-> {d \in Decl : bodyWrites(d, {})},
     edges |-> {e \in Decl \X (Decl \cup Iface) : bodyWrites(e[1], {e[2]})}
               \cup {e \in Iface \X (Decl \cup Iface) : <<e[2], e[1]>> \in prog.impl}]

Marking == INSTANCE WriteMarking
             WITH Node <- Decl \cup Iface, graph <- CallGraph,
                  marks <- localWrites, stage <- Stage

\* The pass does what WriteMarking promises: the graph stands still while it is
\* marked, and run leaves the loop only when the marks are closed.
ImplementsMarking == Marking!Spec

\* The marks run ends up with do not depend on the order its maps were ranged in.
OrderIndependent == Marking!EndsWithLeast
=============================================================================
