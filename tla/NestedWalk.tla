------------------------------ MODULE NestedWalk ------------------------------
(* ast.Inspect inside ast.Inspect.  Most analyzers are one of these: an outer walk    *)
(* over a file stops at the nodes of one shape, an inner walk goes over what is below *)
(* such a node and reports, and the outer walk goes on below the same node, where it  *)
(* may find another one of that shape.                                                *)
EXTENDS Naturals

(* A job is a file as one analyzer sees it, its nodes numbered in the order in which  *)
(* ast.Inspect visits them.                                                           *)
(*   size      how many nodes                                                         *)
(*   end       for each node the first one after its subtree                          *)
(*   triggers  where the outer walk starts an inner one                               *)
(*   cut       where the inner walk returns false and does not go below               *)
(*   hits      what the inner walk of a trigger reports if it comes by; the trigger   *)
(*             itself is reported before the walk                                     *)
Nodes(size) == 1 .. size

IsJob(j) ==
    /\ j.size \in Nat
    /\ j.end \in [Nodes(j.size) -> Nat]
    /\ \A n \in Nodes(j.size) : n < j.end[n] /\ j.end[n] <= j.size + 1
    /\ \A n, m \in Nodes(j.size) : n < m /\ m < j.end[n] => j.end[m] <= j.end[n]
    /\ j.triggers \subseteq Nodes(j.size)
    /\ j.cut \subseteq Nodes(j.size)
    /\ j.hits \in [j.triggers -> SUBSET Nodes(j.size)]

VARIABLES
    job,        \* the file, as the analyzer sees it
    outer,      \* the node the outer walk is at
    inner,      \* the trigger whose inner walk runs, or 0
    at,         \* the node the inner walk is at
    reports     \* the diagnostics: <<trigger, node>>

walk == <<job, outer, inner, at, reports>>

\* The order of the diagnostics is left out: the drivers sort them by position.
WalkInit ==
    /\ IsJob(job)
    /\ outer = 1
    /\ inner = 0
    /\ at = 0
    /\ reports = {}

PassNode ==
    /\ inner = 0
    /\ outer \in Nodes(job.size)
    /\ outer \notin job.triggers
    /\ outer' = outer + 1
    /\ UNCHANGED <<job, inner, at, reports>>

EnterTrigger ==
    /\ inner = 0
    /\ outer \in job.triggers
    /\ inner' = outer
    /\ at' = outer + 1
    /\ reports' = reports \union ({outer} \X (job.hits[outer] \intersect {outer}))
    /\ UNCHANGED <<job, outer>>

InspectNode ==
    /\ inner /= 0
    /\ at < job.end[inner]
    /\ IF at \in job.cut
       THEN at' = job.end[at] /\ UNCHANGED reports
       ELSE /\ at' = at + 1
            /\ reports' = reports \union ({inner} \X (job.hits[inner] \intersect {at}))
    /\ UNCHANGED <<job, outer, inner>>

\* Mutant of LeaveTrigger: the outer walk does not go below a trigger.
LeaveSubtree ==
    /\ inner /= 0
    /\ at = job.end[inner]
    /\ inner' = 0
    /\ outer' = job.end[inner]
    /\ UNCHANGED <<job, at, reports>>

\* The callback of the outer walk returned true: it goes on below the trigger.
LeaveTrigger ==
    /\ inner /= 0
    /\ at = job.end[inner]
    /\ inner' = 0
    /\ outer' = outer + 1
    /\ UNCHANGED <<job, at, reports>>

WalkNext == PassNode \/ EnterTrigger \/ InspectNode \/ LeaveTrigger

WalkSpec == WalkInit /\ [][WalkNext]_walk

WalkDone == inner = 0 /\ outer = job.size + 1

-----------------------------------------------------------------------------
(* Properties *)

\* Nothing that is cut lies on the way from trigger t down to node m.
InSight(t, m) ==
    /\ t < m
    /\ m < job.end[t]
    /\ \A c \in job.cut : t < c /\ c <= m => job.end[c] <= m

\* Type invariant.
WalkTypeOK ==
    /\ IsJob(job)
    /\ outer \in 1 .. job.size + 1
    /\ inner \in job.triggers \union {0}
    /\ at \in 0 .. job.size + 1
    /\ reports \subseteq Nodes(job.size) \X Nodes(job.size)

\* When the walk is done every trigger has reported everything it has in sight and
\* nothing else: a node below several triggers is reported once for each of them, and
\* an inner walk that is cut somewhere still sees what comes after the cut.
EveryTriggerReports ==
    WalkDone =>
        reports = {r \in job.triggers \X Nodes(job.size) :
                     r[2] \in job.hits[r[1]] /\ (r[1] = r[2] \/ InSight(r[1], r[2]))}
=============================================================================
