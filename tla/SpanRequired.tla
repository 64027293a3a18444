----------------------------- MODULE SpanRequired -----------------------------
(***************************************************************************)
(* The spanrequired analyzer over one package                              *)
(* (analyzers/spanrequired/spanrequired.go).  Every exported method that   *)
(* takes a context is examined: unless it starts a span, summarizeWork     *)
(* counts the context-carrying calls it makes, following helpers and       *)
(* interface implementations of the package depth first, and the counts    *)
(* decide whether the method is exempt.  The implementations of an         *)
(* interface method come out of a Go map, in any order.                    *)
(***************************************************************************)
EXTENDS Integers, FiniteSets, SequencesExt

CONSTANTS
    Decl,         \* functions and methods with a body, test files left out
    IfaceMethod,  \* interface methods
    Library,      \* a call into an auto-instrumented package
    Plumbing,     \* a call into telemetry, a logger, or package context
    Opaque,       \* a call whose callee is not declared in this package
    Programs      \* the packages considered

\* A call under so many enclosing loops, passing a context or not.
Call == [target : Decl \cup IfaceMethod \cup {Library, Plumbing, Opaque},
         context : BOOLEAN, loops : Nat]

spanStarters == {"StartSpan", "StartLinkedRootSpan"}
ambientSpanAnnotators == {"SetAttributes", "AddEvent", "SpanFromContext"}

Program ==
    [calls     : [Decl -> Seq(Call)],
     telemetry : [Decl -> SUBSET (spanStarters \cup ambientSpanAnnotators \cup {"RecordError"})],
     impls     : [IfaceMethod -> SUBSET Decl],  \* methods of the package implementing it
     doubles   : SUBSET Decl,             \* methods of mocks, fakes and stubs
     exported  : SUBSET Decl]             \* exported service methods taking a context

ASSUME ProgramsAssumption == Programs \subseteq Program
ASSUME DeclAssumption == IsFiniteSet(Decl)
\* The package of a callee is auto-instrumented, of the telemetry, or the one analysed.
ASSUME CalleesDiffer == Library \notin Decl \cup IfaceMethod \cup {Plumbing}

Work == [instrumented : Nat, untraced : Nat]
noWork == [instrumented |-> 0, untraced |-> 0]
tracedCall == [instrumented |-> 1, untraced |-> 0]

larger(m, n) == IF m < n THEN n ELSE m

worstOf(v, w) == [instrumented |-> larger(v.instrumented, w.instrumented),
                  untraced     |-> larger(v.untraced, w.untraced)]

plus(v, w, weight) == [instrumented |-> v.instrumented + weight * w.instrumented,
                       untraced     |-> v.untraced + weight * w.untraced]

\* One activation of summarizeWork: its function, the call it is at, the sum so
\* far, the implementations of that call still to follow, the worst of them.
Frame == [fn : Decl, at : Nat \ {0}, sum : Work,
          following : BOOLEAN, left : SUBSET Decl, worst : Work]

VARIABLES prog, pending, stack, reported
spanVars == <<prog, pending, stack, reported>>

top == stack[Len(stack)]
visiting == {stack[i].fn : i \in 1..Len(stack)}

hasTelemetrySpanCall(d) == prog.telemetry[d] \cap spanStarters /= {}
annotatesAmbientSpan(d) == prog.telemetry[d] \cap ambientSpanAnnotators /= {}

\* Mutant of funcDecls: the methods of test doubles are followed as well.
funcDeclsAll == Decl

funcDecls == Decl \ prog.doubles

implementations(target) ==
    CASE target \in funcDecls -> {target}
      [] target \in IfaceMethod -> prog.impls[target] \cap funcDecls
      [] OTHER -> {}

frameFor(d) == [fn |-> d, at |-> 1, sum |-> noWork,
                following |-> FALSE, left |-> {}, worst |-> noWork]

replaceTop(f) == [stack EXCEPT ![Len(stack)] = f]

SpanInit ==
    /\ prog \in Programs
    /\ pending = prog.exported \ prog.doubles
    /\ stack = <<>>
    /\ reported = {}

\* run meets the next exported method; one that starts a span is left alone.
Examine(d) ==
    /\ stack = <<>>
    /\ d \in pending
    /\ pending' = pending \ {d}
    /\ stack' = IF hasTelemetrySpanCall(d) THEN <<>> ELSE <<frameFor(d)>>
    /\ UNCHANGED <<prog, reported>>

\* What a call counts for by itself.
unfollowed(c) ==
    CASE ~c.context \/ c.target = Plumbing -> noWork
      [] c.context /\ c.target = Library   -> tracedCall
      [] OTHER                             -> [noWork EXCEPT !.untraced = 1]

\* A call that is not followed: each enclosing loop doubles it.
CountCall ==
    LET c == prog.calls[top.fn][top.at] IN
    /\ stack /= <<>>
    /\ top.at <= Len(prog.calls[top.fn])
    /\ ~top.following
    /\ c.context => implementations(c.target) = {}
    /\ stack' = replaceTop([top EXCEPT !.at = @ + 1, !.sum = plus(@, unfollowed(c), 2 ^ c.loops)])
    /\ UNCHANGED <<prog, pending, reported>>

\* A call to a helper, or to an interface implemented in the package.
FollowCall ==
    LET c == prog.calls[top.fn][top.at] IN
    /\ stack /= <<>>
    /\ top.at <= Len(prog.calls[top.fn])
    /\ ~top.following
    /\ c.context
    /\ implementations(c.target) /= {}
    /\ stack' = replaceTop([top EXCEPT !.following = TRUE, !.worst = noWork,
                                       !.left = implementations(c.target)])
    /\ UNCHANGED <<prog, pending, reported>>

\* Mutant of EnterImpl: functions being visited are entered again (up to a depth).
EnterImplAgain(d) ==
    /\ stack /= <<>>
    /\ top.following
    /\ d \in top.left
    /\ LET here == [top EXCEPT !.left = @ \ {d}] IN
         stack' = IF hasTelemetrySpanCall(d)
                    THEN replaceTop([here EXCEPT !.worst = worstOf(@, tracedCall)])
                    ELSE Append(replaceTop(here), frameFor(d))
    /\ Len(stack) <= 4
    /\ UNCHANGED <<prog, pending, reported>>

\* The next implementation: one that starts a span counts as a traced call, one
\* that is being visited already adds nothing, any other is summarised.
EnterImpl(d) ==
    /\ stack /= <<>>
    /\ top.following
    /\ d \in top.left
    /\ LET here == [top EXCEPT !.left = @ \ {d}] IN
         stack' = CASE hasTelemetrySpanCall(d) ->
                         replaceTop([here EXCEPT !.worst = worstOf(@, tracedCall)])
                    [] ~hasTelemetrySpanCall(d) /\ d \in visiting -> replaceTop(here)
                    [] OTHER -> Append(replaceTop(here), frameFor(d))
    /\ UNCHANGED <<prog, pending, reported>>

\* Mutant of EndCall: the loops around a followed call are forgotten.
EndCallNoWeight ==
    /\ stack /= <<>>
    /\ top.following
    /\ top.left = {}
    /\ stack' = replaceTop([top EXCEPT !.following = FALSE, !.at = @ + 1,
                                       !.sum = plus(@, top.worst, 1)])
    /\ UNCHANGED <<prog, pending, reported>>

\* All implementations are followed: the call counts as the worst of them.
EndCall ==
    /\ stack /= <<>>
    /\ top.following
    /\ top.left = {}
    /\ LET weight == 2 ^ prog.calls[top.fn][top.at].loops IN
         stack' = replaceTop([top EXCEPT !.following = FALSE, !.at = @ + 1,
                                         !.sum = plus(@, top.worst, weight)])
    /\ UNCHANGED <<prog, pending, reported>>

Finished == stack /= <<>> /\ top.at > Len(prog.calls[top.fn])

\* Mutant of ReturnWork: the last summary replaces the worst so far.
ReturnLast ==
    /\ Finished
    /\ Len(stack) > 1
    /\ LET below == stack[Len(stack) - 1] IN
         stack' = [Front(stack) EXCEPT ![Len(stack) - 1] = [below EXCEPT !.worst = top.sum]]
    /\ UNCHANGED <<prog, pending, reported>>

\* summarizeWork returns to the activation that follows an implementation.
ReturnWork ==
    /\ Finished
    /\ Len(stack) > 1
    /\ stack' = [Front(stack) EXCEPT ![Len(stack) - 1].worst = worstOf(@, top.sum)]
    /\ UNCHANGED <<prog, pending, reported>>

wrapsOnlyAutoInstrumentedWork(w) == w.instrumented > 0 /\ w.untraced = 0
isThinWrapper(w) == w.instrumented = 0 /\ w.untraced = 1

\* The examined method is summarised: exempt or reported.
Verdict ==
    /\ Finished
    /\ Len(stack) = 1
    /\ stack' = <<>>
    /\ reported' = IF \/ wrapsOnlyAutoInstrumentedWork(top.sum)
                      \/ isThinWrapper(top.sum)
                      \/ annotatesAmbientSpan(top.fn)
                     THEN reported ELSE reported \cup {top.fn}
    /\ UNCHANGED <<prog, pending>>

SpanNext ==
    \/ \E d \in Decl : Examine(d)
    \/ CountCall
    \/ FollowCall
    \/ \E d \in Decl : EnterImpl(d)
    \/ EndCall
    \/ ReturnWork
    \/ Verdict

SpanSpec == SpanInit /\ [][SpanNext]_spanVars

\* The analysis is sequential code without blocking calls.
FairSpec == SpanSpec /\ WF_spanVars(SpanNext)
-----------------------------------------------------------------------------
(* The counts, defined without a stack or an order. *)

\* What a call counts for where the implementation i counts for work[i], unless it
\* starts a span.
counted(work, d) == IF hasTelemetrySpanCall(d) THEN tracedCall ELSE work[d]
workOf(work, c) ==
    LET subs == {counted(work, d) : d \in implementations(c.target)} IN
    IF c.context /\ subs /= {} THEN [instrumented |-> Max({w.instrumented : w \in subs}),
                                    untraced     |-> Max({w.untraced : w \in subs})]
                              ELSE unfollowed(c)

\* What the first n calls of d count for together.
sums(work, d) ==
    LET calls == prog.calls[d]
        sum[n \in 0 .. Len(calls)] ==
            IF n = 0 THEN noWork
            ELSE plus(sum[n - 1], workOf(work, calls[n]), 2 ^ calls[n].loops)
    IN  sum

\* summary[V][d]: the work of d while the functions of V are being visited.
summary[V \in SUBSET Decl] ==
    [d \in Decl |-> IF d \in V THEN noWork
                   ELSE sums(summary[V \cup {d}], d)[Len(prog.calls[d])]]

\* Functions that start a span of their own, and those that stand in for others.
Spanning == {d \in Decl : prog.telemetry[d] \cap {"StartSpan", "StartLinkedRootSpan"} /= {}}
Real == Decl \ prog.doubles
Callees(c) == CASE c.target \in Real -> {c.target}
                [] c.target \in IfaceMethod -> prog.impls[c.target] \cap Real
                [] OTHER -> {}

\* The functions whose bodies count towards d: helpers and implementations it
\* hands a context to, short of those that start a span of their own.
Reached(d) ==
    LET next(S) == {i \in Decl \ Spanning :
                      \E e \in S : \E k \in 1..Len(prog.calls[e]) :
                         prog.calls[e][k].context /\ i \in Callees(prog.calls[e][k])}
    IN  {x \in Decl : \A S \in SUBSET Decl : d \in S /\ next(S) \subseteq S => x \in S}

\* A context-carrying call that nothing shows to be traced.
Untraced(c) == c.context /\ c.target \notin {Library, Plumbing} /\ Callees(c) = {}

\* A call into a library that emits a span, or to a function that starts one.
Traced(c) == c.context /\ (c.target = Library \/ Callees(c) \cap Spanning /= {})

Calls(e) == {prog.calls[e][k] : k \in 1..Len(prog.calls[e])}

\* Some function d reaches can reach itself again.
Recursive(d) == \E e \in Reached(d) : \E c \in Calls(e) :
                   c.context /\ \E i \in Callees(c) \ Spanning : e \in Reached(i)
-----------------------------------------------------------------------------
(* Properties. *)

\* A method's count does not depend on the order in which the implementations of
\* an interface come out of the map of declarations, nor on what was visited
\* before (summarizeWork, l. 151-209).
CountsExactly ==
    Finished /\ Len(stack) = 1 => top.sum = summary[{}][top.fn]

\* The exemption for auto-instrumented work is given to exactly the methods that
\* reach traced work and nothing untraced, through any chain of helpers and
\* implementations (l. 211-221); cutting recursion hides nothing.
InstrumentedExactly ==
    Finished /\ Len(stack) = 1 =>
        (wrapsOnlyAutoInstrumentedWork(top.sum) <=>
            /\ \A e \in Reached(top.fn) : \A c \in Calls(e) : ~Untraced(c)
            /\ \E e \in Reached(top.fn) : \E c \in Calls(e) : Traced(c))

\* "Calls inside a loop count twice ... and so can never be a single delegated
\* call" (l. 149): a method that reaches an untraced call in a loop, its own or one
\* around a helper that leads to it, is not a thin wrapper.  A call that recursion
\* cuts short counts for nothing, so the second part is about methods without any.
LoopsAreNotThin ==
    Finished /\ Len(stack) = 1 /\ isThinWrapper(top.sum) =>
        \A e \in Reached(top.fn) : \A c \in Calls(e) : c.context /\ c.loops > 0 =>
            /\ ~Untraced(c)
            /\ ~Recursive(top.fn) =>
                  \A i \in Callees(c) \ Spanning : \A x \in Reached(i) :
                      \A k \in Calls(x) : ~Untraced(k)

\* Every exported method is examined and the analysis ends.
Termination == <>(pending = {} /\ stack = <<>>)
=============================================================================
