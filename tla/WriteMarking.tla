---------------------------- MODULE WriteMarking ----------------------------
(***************************************************************************)
(* What the writegate analyzer promises about its write marks, without     *)
(* saying how a package is walked: the marks grow from the functions that  *)
(* write directly, along the edges of a graph that does not change while   *)
(* it is being marked, and marking stops only when nothing is left to      *)
(* mark.  An edge <<n, m>> reads "n writes if m writes".                   *)
(***************************************************************************)
CONSTANT Node

Graph == [seeds : SUBSET Node, edges : SUBSET (Node \X Node)]

VARIABLES graph, marks, stage
vars == <<graph, marks, stage>>

TypeOK ==
    /\ graph \in Graph
    /\ marks \subseteq Node
    /\ stage \in {"reading", "marking", "done"}

Justified(g, M) == g.seeds \cup {n \in Node : \E m \in M : <<n, m>> \in g.edges}
Closed(g, M) == Justified(g, M) \subseteq M
-----------------------------------------------------------------------------
Init ==
    /\ graph \in Graph
    /\ marks = {}
    /\ stage = "reading"

\* The package is still being read: the graph is not settled.
Read ==
    /\ stage = "reading"
    /\ graph' \in Graph
    /\ stage' \in {"reading", "marking"}
    /\ UNCHANGED marks

\* A package the analyzer leaves alone gets no marks.
Skip ==
    /\ stage = "reading"
    /\ stage' = "done"
    /\ graph' \in Graph
    /\ UNCHANGED marks

Mark ==
    /\ stage = "marking"
    /\ marks \subseteq marks'
    /\ marks' \subseteq marks \cup Justified(graph, marks)
    /\ UNCHANGED <<graph, stage>>

Finish ==
    /\ stage = "marking"
    /\ Closed(graph, marks)
    /\ stage' = "done"
    /\ graph' \in Graph
    /\ UNCHANGED marks

\* Once the marks are settled the graph is no longer looked at.
Forget ==
    /\ stage = "done"
    /\ graph' \in Graph
    /\ UNCHANGED <<marks, stage>>

Next == Read \/ Skip \/ Mark \/ Finish \/ Forget

Spec == Init /\ [][Next]_vars
-----------------------------------------------------------------------------
(* What follows from the protocol alone. *)

\* While marking, no mark lies outside any closed set: marks are never spurious.
NoSpuriousMark ==
    stage = "marking" =>
        \A S \in SUBSET Node : Closed(graph, S) => marks \subseteq S

\* Marking ends with exactly the least closed set, whatever the order was.
EndsWithLeast ==
    [][(stage = "marking" /\ stage' = "done") =>
         /\ Closed(graph, marks)
         /\ \A S \in SUBSET Node : Closed(graph, S) => marks \subseteq S]_vars
=============================================================================
