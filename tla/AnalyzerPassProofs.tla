-------------------------- MODULE AnalyzerPassProofs --------------------------
(* What the analyzers report of any file and any program, in a run of the driver.     *)
EXTENDS AnalyzerPass, FiniteSetTheorems, TLAPS

-----------------------------------------------------------------------------
(* The inner walk: what it reports, for every file, with whatever triggers, cuts and   *)
(* hits.                                                                              *)

\* What trigger t reports of node m.
Sees(t, m) == m \in job.hits[t] /\ (t = m \/ InSight(t, m))

\* The inner walk is below its trigger, where the outer walk waits for it, and has left
\* what is cut behind it: without the last part a node could be met below a cut.
WalkPosition ==
    inner /= 0 =>
        /\ inner = outer
        /\ inner < at
        /\ at <= job.end[inner]
        /\ \A c \in job.cut : inner < c /\ c < at => job.end[c] <= at

\* The triggers the outer walk has passed have reported all they see, the one it is at
\* what lies before the inner walk.
ReportsSoFar ==
    /\ reports \subseteq job.triggers \X Nodes(job.size)
    /\ \A t \in job.triggers, m \in Nodes(job.size) :
          <<t, m>> \in reports <=>
              Sees(t, m) /\ (t < outer \/ (t = outer /\ inner /= 0 /\ m < at))

WalkInv == WalkTypeOK /\ WalkPosition /\ ReportsSoFar

LEMMA WalkInitInv == WalkInit => WalkInv
<1> SUFFICES ASSUME WalkInit PROVE WalkInv
  OBVIOUS
<1>1. IsJob(job) /\ outer = 1 /\ inner = 0 /\ at = 0 /\ reports = {}
  BY DEF WalkInit
<1>2. WalkTypeOK
  BY <1>1 DEF WalkTypeOK, IsJob
<1>3. ReportsSoFar
  BY <1>1 DEF ReportsSoFar, IsJob, Nodes
<1> QED BY <1>1, <1>2, <1>3 DEF WalkInv, WalkPosition

\* The numbers a step computes with.
LEMMA WalkNumbers ==
    ASSUME WalkTypeOK
    PROVE  /\ job.size \in Nat /\ outer \in Nat /\ inner \in Nat /\ at \in Nat
           /\ \A n \in Nodes(job.size) : n \in Nat /\ job.end[n] \in Nat /\ n < job.end[n] /\ job.end[n] <= job.size + 1
           /\ job.triggers \subseteq Nodes(job.size)
           /\ job.cut \subseteq Nodes(job.size)
<1>1. IsJob(job)
  BY DEF WalkTypeOK
<1>2. job.size \in Nat
  BY <1>1 DEF IsJob
<1>3. outer \in Nat /\ at \in Nat
  BY <1>2 DEF WalkTypeOK
<1>4. /\ job.triggers \subseteq Nodes(job.size)
      /\ job.cut \subseteq Nodes(job.size)
  BY <1>1 DEF IsJob
<1>5. inner \in Nat
  BY <1>4 DEF WalkTypeOK, Nodes
<1>6. \A n \in Nodes(job.size) : n \in Nat
  BY DEF Nodes
<1>7. \A n \in Nodes(job.size) : job.end[n] \in Nat /\ n < job.end[n] /\ job.end[n] <= job.size + 1
  BY <1>1 DEF IsJob
<1> QED BY <1>2, <1>3, <1>4, <1>5, <1>6, <1>7

\* Where the inner walk goes on, it is at a node of the file.
LEMMA AtNode ==
    ASSUME WalkTypeOK, WalkPosition, inner /= 0, at < job.end[inner]
    PROVE  at \in Nodes(job.size) /\ inner \in Nodes(job.size) /\ inner \in job.triggers
<1>1. inner \in job.triggers
  BY DEF WalkTypeOK
<1>2. inner \in Nodes(job.size)
  BY <1>1, WalkNumbers
<1> QED BY <1>1, <1>2, WalkNumbers DEF WalkPosition, Nodes

\* InSight and Sees look at the file only.
LEMMA SeesStays ==
    ASSUME job' = job
    PROVE  \A t, m : Sees(t, m)' <=> Sees(t, m)
BY DEF Sees, InSight

LEMMA PassNodeStep ==
    ASSUME WalkInv, PassNode
    PROVE  WalkInv'
<1>1. /\ inner = 0 /\ outer \in Nodes(job.size) /\ outer \notin job.triggers
      /\ outer' = outer + 1 /\ job' = job /\ inner' = inner /\ at' = at /\ reports' = reports
  BY DEF PassNode
<1>2. WalkTypeOK'
  BY <1>1, WalkNumbers DEF WalkInv, WalkTypeOK, Nodes
<1>3. WalkPosition'
  BY <1>1 DEF WalkPosition
<1>4. ReportsSoFar'
  <2>1. \A t \in job.triggers : t < outer + 1 <=> t < outer
    BY <1>1, WalkNumbers DEF WalkInv, Nodes
  <2> QED BY <1>1, <2>1, SeesStays DEF WalkInv, ReportsSoFar
<1> QED BY <1>2, <1>3, <1>4 DEF WalkInv

LEMMA EnterTriggerStep ==
    ASSUME WalkInv, EnterTrigger
    PROVE  WalkInv'
<1>1. /\ inner = 0 /\ outer \in job.triggers /\ inner' = outer /\ at' = outer + 1
      /\ reports' = reports \union ({outer} \X (job.hits[outer] \intersect {outer}))
      /\ job' = job /\ outer' = outer
  BY DEF EnterTrigger
<1>2. /\ outer \in Nodes(job.size) /\ outer \in Nat \ {0} /\ job.end[outer] \in Nat
      /\ outer < job.end[outer] /\ job.size \in Nat /\ outer + 1 \in 0 .. job.size + 1
  BY <1>1, WalkNumbers DEF WalkInv, Nodes
<1>3. WalkTypeOK'
  BY <1>1, <1>2 DEF WalkInv, WalkTypeOK
<1>4. WalkPosition'
  <2>1. \A c \in job.cut : ~(outer < c /\ c < outer + 1)
    BY <1>2, WalkNumbers DEF WalkInv, Nodes
  <2> QED BY <1>1, <1>2, <2>1 DEF WalkPosition
<1>5. ReportsSoFar'
  <2>1. reports' \subseteq job.triggers \X Nodes(job.size)
    BY <1>1, <1>2 DEF WalkInv, ReportsSoFar
  <2>2. ASSUME NEW t \in job.triggers, NEW m \in Nodes(job.size)
        PROVE  <<t, m>> \in reports' <=>
                   Sees(t, m) /\ (t < outer \/ (t = outer /\ outer /= 0 /\ m < outer + 1))
    <3>1. <<t, m>> \in reports <=> Sees(t, m) /\ t < outer
      BY <1>1 DEF WalkInv, ReportsSoFar
    <3>2. <<t, m>> \in reports' <=> <<t, m>> \in reports \/ (t = outer /\ m = outer /\ m \in job.hits[outer])
      BY <1>1
    <3>3. Sees(t, m) /\ t = outer /\ m < outer + 1 <=> t = outer /\ m = outer /\ m \in job.hits[outer]
      BY <1>2, WalkNumbers DEF WalkInv, Sees, InSight, Nodes
    <3> QED BY <1>2, <3>1, <3>2, <3>3
  <2> QED BY <1>1, <2>1, <2>2, SeesStays DEF ReportsSoFar
<1> QED BY <1>3, <1>4, <1>5 DEF WalkInv

\* A subtree that is cut holds nothing in sight.
LEMMA CutStep ==
    ASSUME WalkInv, InspectNode, at \in job.cut
    PROVE  WalkInv'
<1>1. /\ inner /= 0 /\ at < job.end[inner] /\ at' = job.end[at] /\ reports' = reports
      /\ job' = job /\ outer' = outer /\ inner' = inner
  BY DEF InspectNode
<1>2. /\ at \in Nodes(job.size) /\ inner \in Nodes(job.size) /\ inner \in job.triggers
      /\ inner < at /\ inner = outer
  BY <1>1, AtNode DEF WalkInv, WalkPosition
<1>3. /\ at \in Nat /\ inner \in Nat /\ job.end[at] \in Nat /\ at < job.end[at] /\ job.end[at] <= job.size + 1
      /\ job.end[inner] \in Nat /\ job.end[at] <= job.end[inner] /\ job.size \in Nat
  BY <1>1, <1>2, WalkNumbers DEF WalkInv, WalkTypeOK, IsJob
<1>4. WalkTypeOK'
  BY <1>1, <1>3 DEF WalkInv, WalkTypeOK
<1>5. WalkPosition'
  <2>1. ASSUME NEW c \in job.cut, inner < c, c < job.end[at]
        PROVE  job.end[c] <= job.end[at]
    <3>0. c \in Nodes(job.size) /\ c \in Nat /\ job.end[c] \in Nat
      BY WalkNumbers DEF WalkInv
    <3>1. CASE c < at
      BY <1>3, <2>1, <3>0, <3>1, <1>1 DEF WalkInv, WalkPosition
    <3>2. CASE c = at
      BY <1>3, <3>2
    <3>3. CASE at < c
      BY <1>2, <2>1, <3>0, <3>3 DEF WalkInv, WalkTypeOK, IsJob
    <3> QED BY <1>3, <3>0, <3>1, <3>2, <3>3
  <2> QED BY <1>1, <1>2, <1>3, <2>1 DEF WalkPosition
<1>6. ReportsSoFar'
  <2>1. ASSUME NEW m \in Nodes(job.size), Sees(inner, m)
        PROVE  m < job.end[at] <=> m < at
    <3>1. m \in Nat
      BY WalkNumbers DEF WalkInv
    <3>2. ASSUME at <= m, m < job.end[at] PROVE FALSE
      BY <1>2, <1>3, <2>1, <3>1, <3>2 DEF Sees, InSight
    <3> QED BY <1>3, <3>1, <3>2
  <2> QED BY <1>1, <1>2, <2>1, SeesStays DEF WalkInv, ReportsSoFar
<1> QED BY <1>4, <1>5, <1>6 DEF WalkInv

\* A node that is not cut is in sight: what is cut before it has ended.
LEMMA LookStep ==
    ASSUME WalkInv, InspectNode, at \notin job.cut
    PROVE  WalkInv'
<1>1. /\ inner /= 0 /\ at < job.end[inner] /\ at' = at + 1
      /\ reports' = reports \union ({inner} \X (job.hits[inner] \intersect {at}))
      /\ job' = job /\ outer' = outer /\ inner' = inner
  BY DEF InspectNode
<1>2. /\ at \in Nodes(job.size) /\ inner \in Nodes(job.size) /\ inner \in job.triggers
      /\ inner < at /\ inner = outer
      /\ \A c \in job.cut : inner < c /\ c < at => job.end[c] <= at
  BY <1>1, AtNode DEF WalkInv, WalkPosition
<1>3. /\ at \in Nat /\ inner \in Nat /\ job.end[inner] \in Nat /\ job.end[inner] <= job.size + 1 /\ job.size \in Nat
  BY <1>2, WalkNumbers DEF WalkInv
<1>4. WalkTypeOK'
  <2>1. at + 1 \in 0 .. job.size + 1
    BY <1>1, <1>3
  <2>2. reports' \subseteq Nodes(job.size) \X Nodes(job.size)
    BY <1>1, <1>2 DEF WalkInv, WalkTypeOK
  <2> QED BY <1>1, <2>1, <2>2 DEF WalkInv, WalkTypeOK
<1>5. WalkPosition'
  <2>1. ASSUME NEW c \in job.cut, inner < c, c < at + 1
        PROVE  job.end[c] <= at + 1
    <3>1. c \in Nat /\ job.end[c] \in Nat
      BY WalkNumbers DEF WalkInv
    <3>2. c /= at
      OBVIOUS
    <3>3. job.end[c] <= at
      BY <1>2, <1>3, <2>1, <3>1, <3>2
    <3> QED BY <1>3, <3>1, <3>3
  <2> QED BY <1>1, <1>2, <1>3, <2>1 DEF WalkPosition
<1>6. ReportsSoFar'
  <2>1. reports' \subseteq job.triggers \X Nodes(job.size)
    BY <1>1, <1>2 DEF WalkInv, ReportsSoFar
  <2>2. InSight(inner, at)
    <3>1. ASSUME NEW c \in job.cut, inner < c, c <= at
          PROVE  job.end[c] <= at
      <4>1. c \in Nat /\ c /= at
        BY WalkNumbers DEF WalkInv
      <4> QED BY <1>2, <1>3, <3>1, <4>1
    <3> QED BY <1>1, <1>2, <3>1 DEF InSight
  <2>3. ASSUME NEW t \in job.triggers, NEW m \in Nodes(job.size)
        PROVE  <<t, m>> \in reports' <=>
                   Sees(t, m) /\ (t < outer \/ (t = outer /\ inner /= 0 /\ m < at + 1))
    <3>1. <<t, m>> \in reports <=> Sees(t, m) /\ (t < outer \/ (t = outer /\ inner /= 0 /\ m < at))
      BY DEF WalkInv, ReportsSoFar
    <3>2. <<t, m>> \in reports' <=> <<t, m>> \in reports \/ (t = inner /\ m = at /\ m \in job.hits[inner])
      BY <1>1
    <3>3. m < at + 1 <=> m < at \/ m = at
      BY <1>3, WalkNumbers DEF WalkInv
    <3>4. Sees(inner, at) <=> at \in job.hits[inner]
      BY <2>2 DEF Sees
    <3> QED BY <1>1, <1>2, <3>1, <3>2, <3>3, <3>4
  <2> QED BY <1>1, <2>1, <2>3, SeesStays DEF ReportsSoFar
<1> QED BY <1>4, <1>5, <1>6 DEF WalkInv

LEMMA LeaveTriggerStep ==
    ASSUME WalkInv, LeaveTrigger
    PROVE  WalkInv'
<1>1. /\ inner /= 0 /\ at = job.end[inner] /\ inner' = 0 /\ outer' = outer + 1
      /\ job' = job /\ at' = at /\ reports' = reports
  BY DEF LeaveTrigger
<1>2. inner = outer /\ inner \in job.triggers /\ inner < at
  BY <1>1 DEF WalkInv, WalkPosition, WalkTypeOK
<1>3. outer \in Nodes(job.size) /\ outer \in Nat /\ job.size \in Nat
  BY <1>2, WalkNumbers DEF WalkInv
<1>4. WalkTypeOK'
  BY <1>1, <1>3 DEF WalkInv, WalkTypeOK, Nodes
<1>5. WalkPosition'
  BY <1>1 DEF WalkPosition
<1>6. ReportsSoFar'
  <2>1. ASSUME NEW t \in job.triggers PROVE t < outer + 1 <=> t < outer \/ t = outer
    BY <1>3, WalkNumbers DEF WalkInv
  <2>2. ASSUME NEW m \in Nodes(job.size), Sees(outer, m) PROVE m < at
    BY <1>1, <1>2, <2>2 DEF Sees, InSight
  <2> QED BY <1>1, <2>1, <2>2, SeesStays DEF WalkInv, ReportsSoFar
<1> QED BY <1>4, <1>5, <1>6 DEF WalkInv

LEMMA WalkStepInv == WalkInv /\ [WalkNext]_walk => WalkInv'
<1> SUFFICES ASSUME WalkInv, [WalkNext]_walk PROVE WalkInv'
  OBVIOUS
<1>1. CASE PassNode
  BY <1>1, PassNodeStep
<1>2. CASE EnterTrigger
  BY <1>2, EnterTriggerStep
<1>3. CASE InspectNode
  BY <1>3, CutStep, LookStep
<1>4. CASE LeaveTrigger
  BY <1>4, LeaveTriggerStep
<1>5. CASE UNCHANGED walk
  BY <1>5 DEF walk, WalkInv, WalkTypeOK, WalkPosition, ReportsSoFar, Sees, InSight
<1> QED BY <1>1, <1>2, <1>3, <1>4, <1>5 DEF WalkNext

\* At the end the outer walk has passed every trigger.
LEMMA InvReports == WalkInv => EveryTriggerReports
<1> SUFFICES ASSUME WalkInv, WalkDone
             PROVE  reports = {r \in job.triggers \X Nodes(job.size) :
                                 r[2] \in job.hits[r[1]] /\ (r[1] = r[2] \/ InSight(r[1], r[2]))}
  BY DEF EveryTriggerReports
<1>1. \A t \in job.triggers : t < outer
  BY WalkNumbers DEF WalkInv, WalkDone, Nodes
<1>2. \A t \in job.triggers, m \in Nodes(job.size) : <<t, m>> \in reports <=> Sees(t, m)
  BY <1>1 DEF WalkInv, ReportsSoFar
<1>3. reports \subseteq job.triggers \X Nodes(job.size)
  BY DEF WalkInv, ReportsSoFar
<1> QED BY <1>2, <1>3 DEF Sees

\* The walks stay in the file: an inner walk that jumps over what is cut never leaves
\* the subtree of its trigger (checkSubtestBody of subtestassert).
THEOREM WalkStaysInFile == WalkSpec => []WalkTypeOK
<1>1. WalkInv => WalkTypeOK
  BY DEF WalkInv
<1> QED BY WalkInitInv, WalkStepInv, <1>1, PTL DEF WalkSpec

\* Every trigger of every file reports all it has in sight and nothing else, though the
\* outer walk waits while the inner one runs and then goes below the same trigger (run
\* and checkClosureBody of requiregoroutine, run and checkSubtestBody of subtestassert).
THEOREM EveryTriggerReportsAlways == WalkSpec => []EveryTriggerReports
BY WalkInitInv, WalkStepInv, InvReports, PTL DEF WalkSpec

-----------------------------------------------------------------------------
(* Facts: none is spurious and none is missed, for every program, whatever it imports, *)
(* calls and implements, and whatever order the driver takes the packages in.         *)

\* Marks and facts name functions, and those of packages that are analysed only.
FactsTypeOK ==
    /\ program \in WholePrograms
    /\ analysed \subseteq Package
    /\ facts \subseteq Function
    /\ \A f \in facts : program.home[f] \in analysed \intersect program.service

FactsInv == FactsTypeOK /\ FactsJustified

LEMMA FactsInitInv == FactsInit => FactsInv
BY DEF FactsInit, FactsInv, FactsTypeOK, FactsJustified

\* Whatever holds all functions a write is reached from, and hence all facts so far, is
\* closed for every package; the marks of a pass are the least such set.
LEMMA ReachingClosed ==
    ASSUME FactsJustified, NEW p \in Package, NEW S \in SUBSET Function, Reaching(S)
    PROVE  MarksClosed(p, S)
<1>1. facts \subseteq S
  BY DEF FactsJustified
<1>2. own(p) \intersect program.writes \subseteq S
  BY DEF Reaching
<1>3. \A c \in program.calls : c[1] \in own(p) /\ c[2] \in S \union facts => c[1] \in S
  BY <1>1 DEF Reaching
<1>4. \A m \in program.impls[p] : m[1] \in S => m[2] \in S
  BY DEF Reaching
<1> QED BY <1>2, <1>3, <1>4 DEF MarksClosed

LEMMA MarksJustified ==
    ASSUME FactsJustified, NEW p \in Package, NEW S \in SUBSET Function, Reaching(S)
    PROVE  marksOf(p) \subseteq S
BY ReachingClosed DEF marksOf

\* A fact of a pass is a mark on a function of that very package.
LEMMA FactsOwn ==
    ASSUME NEW p \in Package
    PROVE  /\ factsOf(p) \subseteq marksOf(p)
           /\ \A f \in factsOf(p) : f \in Function /\ program.home[f] = p /\ p \in program.service
BY DEF factsOf, own

LEMMA AnalyseStep ==
    ASSUME FactsInv, NEW p \in Package, AnalysePackage(p)
    PROVE  FactsInv'
<1>1. /\ program' = program /\ analysed' = analysed \union {p} /\ facts' = facts \union factsOf(p)
  BY DEF AnalysePackage
<1>2. FactsTypeOK'
  BY <1>1, FactsOwn DEF FactsInv, FactsTypeOK
<1>3. FactsJustified'
  <2>1. \A S : Reaching(S)' <=> Reaching(S)
    BY <1>1 DEF Reaching
  <2>2. ASSUME NEW f \in facts', NEW S \in SUBSET Function, Reaching(S)
        PROVE  f \in S
    <3>1. CASE f \in facts
      BY <2>2, <3>1 DEF FactsInv, FactsJustified
    <3>2. CASE f \in factsOf(p)
      BY <2>2, <3>2, FactsOwn, MarksJustified DEF FactsInv
    <3> QED BY <1>1, <3>1, <3>2
  <2> QED BY <2>1, <2>2 DEF FactsJustified
<1> QED BY <1>2, <1>3 DEF FactsInv

LEMMA FactsStepInv == FactsInv /\ [FactsNext]_driver => FactsInv'
<1> SUFFICES ASSUME FactsInv, [FactsNext]_driver PROVE FactsInv'
  OBVIOUS
<1>1. CASE FactsNext
  BY <1>1, AnalyseStep DEF FactsNext
<1>2. CASE UNCHANGED driver
  BY <1>2 DEF driver, FactsInv, FactsTypeOK, FactsJustified, Reaching
<1> QED BY <1>1, <1>2

\* A fact belongs to a function of a package that was analysed and is not left alone:
\* the pass over one package never speaks for another (pass.ExportObjectFact).
THEOREM FactsOfAnalysedPackages == FactsSpec => []FactsTypeOK
<1>1. FactsInv => FactsTypeOK
  BY DEF FactsInv
<1> QED BY FactsInitInv, FactsStepInv, <1>1, PTL DEF FactsSpec

\* However many packages a fact has come through, the function it is on reaches a write
\* in the whole program (run of writegate: the facts it imports, marks and exports).
THEOREM FactsAlwaysJustified == FactsSpec => []FactsJustified
<1>1. FactsInv => FactsJustified
  BY DEF FactsInv
<1> QED BY FactsInitInv, FactsStepInv, <1>1, PTL DEF FactsSpec

-----------------------------------------------------------------------------
(* The order of the packages *)

\* What a pass over p can mark.
reach(p) == own(p) \union {i \in Function : \E m \in program.impls[p] : m[2] = i}

\* A pass over p would mark nothing else any more: its marks are closed under the facts
\* there are now, which are more than it was given.
Settled(p) ==
    \E M \in SUBSET reach(p) : MarksClosed(p, M) /\ M \intersect own(p) \subseteq facts

\* The packages before an analysed one are analysed, so no fact comes too late for it;
\* and every agreement holds the facts.
OrderInv ==
    /\ FactsTypeOK
    /\ \A p \in analysed : importsOf(p) \subseteq analysed
    /\ \A p \in analysed \intersect program.service : Settled(p)
    /\ \A S \in SUBSET markable : Agreed(S) => \A f \in facts : <<program.home[f], f>> \in S

LEMMA ProgramTyped ==
    ASSUME FactsTypeOK
    PROVE  /\ program.home \in [Function -> Package]
           /\ program.service \subseteq Package
           /\ program.writes \subseteq Function
           /\ program.calls \subseteq Function \X Function
           /\ program.impls \in [Package -> SUBSET (Function \X Function)]
           /\ \A c \in program.calls : \/ program.home[c[1]] = program.home[c[2]]
                                       \/ <<program.home[c[1]], program.home[c[2]]>> \in program.imports
BY WholeProgramsAssumption DEF FactsTypeOK, WholeProgram

\* The marks of a pass are closed themselves, and within reach.
LEMMA MarksLeast ==
    ASSUME FactsTypeOK, NEW p \in Package
    PROVE  MarksClosed(p, marksOf(p)) /\ marksOf(p) \subseteq reach(p)
<1>1. own(p) \intersect program.writes \subseteq marksOf(p)
  BY DEF marksOf, MarksClosed, own
<1>2. ASSUME NEW c \in program.calls, c[1] \in own(p), c[2] \in marksOf(p) \union facts
      PROVE  c[1] \in marksOf(p)
  BY <1>2 DEF marksOf, MarksClosed, own
<1>3. ASSUME NEW m \in program.impls[p], m[1] \in marksOf(p)
      PROVE  m[2] \in marksOf(p)
  <2>1. m[2] \in Function
    BY ProgramTyped
  <2> QED BY <1>3, <2>1 DEF marksOf, MarksClosed
<1>4. MarksClosed(p, reach(p))
  <2>1. \A m \in program.impls[p] : m[2] \in Function
    BY ProgramTyped
  <2> QED BY <2>1 DEF MarksClosed, reach
<1>5. reach(p) \in SUBSET Function
  BY DEF reach, own
<1>6. marksOf(p) \subseteq reach(p)
  BY <1>4, <1>5 DEF marksOf
<1> QED BY <1>1, <1>2, <1>3, <1>6 DEF MarksClosed

\* What an agreement marks in p is closed for a pass over p.
LEMMA AgreedClosed ==
    ASSUME OrderInv, NEW p \in program.service, NEW S \in SUBSET markable, Agreed(S)
    PROVE  MarksClosed(p, {f \in Function : <<p, f>> \in S})
<1> DEFINE M == {f \in Function : <<p, f>> \in S}
<1>1. p \in Package
  BY ProgramTyped DEF OrderInv
<1>2. own(p) \intersect program.writes \subseteq M
  BY DEF Agreed, own
<1>3. ASSUME NEW c \in program.calls, c[1] \in own(p), c[2] \in M \union facts
      PROVE  c[1] \in M
  <2>1. <<p, c[2]>> \in S \/ <<program.home[c[2]], c[2]>> \in S
    BY <1>3 DEF OrderInv
  <2> QED BY <1>3, <2>1 DEF Agreed, own
<1>4. ASSUME NEW m \in program.impls[p], m[1] \in M
      PROVE  m[2] \in M
  <2>1. m[2] \in Function
    BY <1>1, ProgramTyped DEF OrderInv
  <2>2. <<p, m[2]>> \in S
    BY <1>4 DEF Agreed
  <2> QED BY <2>1, <2>2
<1> QED BY <1>2, <1>3, <1>4 DEF MarksClosed

LEMMA OrderInit == FactsInit => OrderInv
BY FactsInitInv DEF FactsInit, OrderInv, FactsInv

LEMMA OrderStep ==
    ASSUME OrderInv, NEW p \in Package, AnalysePackage(p)
    PROVE  OrderInv'
<1>1. /\ p \notin analysed /\ importsOf(p) \subseteq analysed
      /\ program' = program /\ analysed' = analysed \union {p} /\ facts' = facts \union factsOf(p)
  BY DEF AnalysePackage
<1>2. FactsTypeOK'
  BY <1>1, FactsOwn DEF OrderInv, FactsTypeOK
<1>3. \A q : /\ importsOf(q)' = importsOf(q) /\ own(q)' = own(q) /\ reach(q)' = reach(q)
  BY <1>1 DEF importsOf, own, reach
<1>4. \A q \in analysed' : importsOf(q)' \subseteq analysed'
  BY <1>1, <1>3 DEF OrderInv
<1>5. ASSUME NEW q \in Package, NEW M \in SUBSET Function, MarksClosed(q, M),
             \A c \in program.calls : c[1] \in own(q) /\ c[2] \in factsOf(p) => c[1] \in M
      PROVE  MarksClosed(q, M)'
  BY <1>1, <1>3, <1>5 DEF MarksClosed
<1>6. ASSUME NEW q \in analysed' \intersect program'.service
      PROVE  Settled(q)'
  <2>0. q \in Package
    BY <1>1 DEF OrderInv, FactsTypeOK
  <2>1. CASE q = p
    <3>1. PICK M : M = marksOf(p)
      OBVIOUS
    <3>2. M \in SUBSET reach(p) /\ MarksClosed(p, M) /\ M \in SUBSET Function
      BY <3>1, MarksLeast DEF OrderInv, marksOf
    <3>3. factsOf(p) = M \intersect own(p)
      BY <1>1, <1>6, <2>1, <3>1 DEF factsOf
    <3>4. \A c \in program.calls : c[1] \in own(p) /\ c[2] \in factsOf(p) => c[1] \in M
      BY <3>2, <3>3 DEF MarksClosed
    <3>5. MarksClosed(p, M)'
      BY <1>5, <3>2, <3>4
    <3> QED BY <1>1, <1>3, <2>1, <3>2, <3>3, <3>5 DEF Settled
  <2>2. CASE q /= p
    <3>1. q \in analysed /\ Settled(q) /\ importsOf(q) \subseteq analysed
      BY <1>1, <1>6, <2>2 DEF OrderInv
    <3>2. PICK M \in SUBSET reach(q) : MarksClosed(q, M) /\ M \intersect own(q) \subseteq facts
      BY <3>1 DEF Settled
    <3>3. M \in SUBSET Function
      BY DEF reach, own
    <3>4. ASSUME NEW c \in program.calls, c[1] \in own(q), c[2] \in factsOf(p)
          PROVE  FALSE
      <4>1. program.home[c[1]] = q /\ program.home[c[2]] = p
        BY <3>4, FactsOwn DEF own
      <4>2. p \in importsOf(q)
        BY <2>2, <4>1, ProgramTyped DEF OrderInv, importsOf
      <4> QED BY <1>1, <3>1, <4>2
    <3>5. MarksClosed(q, M)'
      BY <1>5, <2>0, <3>2, <3>3, <3>4
    <3> QED BY <1>1, <1>3, <3>2, <3>5 DEF Settled
  <2> QED BY <2>1, <2>2
<1>7. ASSUME NEW S \in SUBSET markable, Agreed(S), NEW f \in facts'
      PROVE  <<program.home[f], f>> \in S
  <2>1. CASE f \in facts
    BY <1>7, <2>1 DEF OrderInv
  <2>2. CASE f \in factsOf(p)
    <3>1. p \in program.service /\ f \in marksOf(p) /\ program.home[f] = p
      BY <2>2, FactsOwn
    <3>2. MarksClosed(p, {g \in Function : <<p, g>> \in S})
      BY <1>7, <3>1, AgreedClosed
    <3> QED BY <3>1, <3>2 DEF marksOf
  <2> QED BY <1>1, <1>7, <2>1, <2>2
<1>8. markable' = markable /\ \A S : Agreed(S)' <=> Agreed(S)
  BY <1>1 DEF markable, Agreed, own
<1> QED BY <1>1, <1>2, <1>4, <1>6, <1>7, <1>8 DEF OrderInv

LEMMA OrderStepInv == OrderInv /\ [FactsNext]_driver => OrderInv'
<1> SUFFICES ASSUME OrderInv, [FactsNext]_driver PROVE OrderInv'
  OBVIOUS
<1>1. CASE FactsNext
  BY <1>1, OrderStep DEF FactsNext
<1>2. CASE UNCHANGED driver
  <2>1. program' = program /\ analysed' = analysed /\ facts' = facts
    BY <1>2 DEF driver
  <2>2. FactsTypeOK' /\ \A p : importsOf(p)' = importsOf(p)
    BY <2>1 DEF OrderInv, FactsTypeOK, importsOf
  <2>3. \A p : Settled(p) => Settled(p)'
    BY <2>1 DEF Settled, reach, own, MarksClosed
  <2>4. markable' = markable /\ \A S : Agreed(S)' <=> Agreed(S)
    BY <2>1 DEF markable, Agreed, own
  <2> QED BY <2>1, <2>2, <2>3, <2>4 DEF OrderInv
<1> QED BY <1>1, <1>2

\* When all packages are settled, what they marked is one of the agreements.
LEMMA OrderInvFacts == OrderInv => FactsWhateverOrder
<1> SUFFICES ASSUME OrderInv, analysed = Package
             PROVE  facts = {f \in Function : \A S \in SUBSET markable :
                                Agreed(S) => <<program.home[f], f>> \in S}
  BY DEF FactsWhateverOrder
<1>1. facts \subseteq Function
  BY DEF OrderInv, FactsTypeOK
<1>2. ASSUME NEW f \in Function,
             \A S \in SUBSET markable : Agreed(S) => <<program.home[f], f>> \in S
      PROVE  f \in facts
  <2> DEFINE Fits(p, M) == M \in SUBSET reach(p) /\ MarksClosed(p, M) /\ M \intersect own(p) \subseteq facts
             marks(p) == CHOOSE M : Fits(p, M)
             A == {m \in markable : m[1] \in program.service /\ m[2] \in marks(m[1])}
  <2>1. ASSUME NEW p \in program.service
        PROVE  Fits(p, marks(p))
    <3>1. p \in analysed
      BY ProgramTyped DEF OrderInv
    <3>2. \E M : Fits(p, M)
      BY <3>1 DEF OrderInv, Settled
    <3> QED BY <3>2
  <2> HIDE DEF marks
  <2>2. ASSUME NEW p \in program.service, NEW g \in Function
        PROVE  <<p, g>> \in A <=> g \in marks(p)
    <3>1. p \in Package
      BY ProgramTyped DEF OrderInv
    <3>2. g \in marks(p) => <<p, g>> \in markable
      BY <2>1, <3>1 DEF markable, reach
    <3> QED BY <3>2
  <2>3. ASSUME NEW g \in Function, <<program.home[g], g>> \in A
        PROVE  g \in facts
    <3>1. program.home[g] \in program.service /\ g \in marks(program.home[g])
      BY <2>3
    <3> QED BY <2>1, <3>1 DEF own
  <2>4. Agreed(A)
    <3>1. ASSUME NEW p \in program.service, NEW g \in own(p) \intersect program.writes
          PROVE  <<p, g>> \in A
      BY <2>1, <2>2, <3>1 DEF MarksClosed, own
    <3>2. ASSUME NEW p \in program.service, NEW c \in program.calls, c[1] \in own(p),
                 <<p, c[2]>> \in A \/ <<program.home[c[2]], c[2]>> \in A
          PROVE  <<p, c[1]>> \in A
      <4>1. c[1] \in Function /\ c[2] \in Function
        BY ProgramTyped DEF OrderInv
      <4>2. c[2] \in marks(p) \union facts
        BY <2>2, <2>3, <3>2, <4>1
      <4>3. c[1] \in marks(p)
        BY <2>1, <3>2, <4>2 DEF MarksClosed
      <4> QED BY <2>2, <4>1, <4>3
    <3>3. ASSUME NEW p \in program.service, NEW m \in program.impls[p], <<p, m[1]>> \in A
          PROVE  <<p, m[2]>> \in A
      <4>1. m[1] \in Function /\ m[2] \in Function
        BY ProgramTyped DEF OrderInv
      <4>2. m[2] \in marks(p)
        BY <2>1, <2>2, <3>3, <4>1 DEF MarksClosed
      <4> QED BY <2>2, <4>1, <4>2
    <3> HIDE DEF A
    <3> QED BY <3>1, <3>2, <3>3 DEF Agreed
  <2>5. A \in SUBSET markable
    OBVIOUS
  <2> QED BY <1>2, <2>3, <2>4, <2>5
<1>3. ASSUME NEW f \in facts, NEW S \in SUBSET markable, Agreed(S)
      PROVE  <<program.home[f], f>> \in S
  BY <1>3 DEF OrderInv
<1> QED BY <1>1, <1>2, <1>3

\* Whatever order the driver takes the packages in, as long as each comes after those it
\* imports, the facts are those of every agreement of the passes: none is missed because
\* a package came too early (run of writegate and the go/analysis driver).
THEOREM FactsOrderIrrelevant == FactsSpec => []FactsWhateverOrder
BY OrderInit, OrderStepInv, OrderInvFacts, PTL DEF FactsSpec

-----------------------------------------------------------------------------
(* The analyzers of the pass.                                                         *)
\* The walk is as far as it is (WalkInv), over the file the pass has.
PassInv ==
    /\ WalkInv
    /\ IsFile
    /\ job = jobOf(pass.analyzer)

\* The file does not change under an analyzer.
LEMMA FileStays ==
    ASSUME pass' = pass
    PROVE  /\ jobOf(pass.analyzer)' = jobOf(pass.analyzer)
           /\ IsFile' <=> IsFile
<1>1. jobOf(pass.analyzer)' = jobOf(pass.analyzer)
  BY DEF jobOf, requiregoroutine, subtestassert, contextcancel, spanlifecycle, spancontext, httpdecodeflag,
     repoerrorflags, grpcstatus, spanevents, spanerrors, validationflag, timeinject, enumcast,
     inspect, applies, IsServicePackage, IsMoovPackage, collectExemptFuncLits, hasTestingTParam,
     collectLocalDefs, findDeferred, managedElsewhere, isSpanFromContextVar, hasFlagInBody, hasContext,
     functions, around, returnsError, createsSpan, recordsError, funcHasSwitch, funcHasMapperMap,
     ofRole, ofKind, node, all, below, names
<1>2. IsFile' <=> IsFile
  BY DEF IsFile, binding, scopes, definitions, functions, around, ofRole, ofKind, node, all, below
<1> QED BY <1>1, <1>2

LEMMA PassInit == Init => PassInv
BY WalkInitInv DEF Init, PassInv

LEMMA PassStep == PassInv /\ [Next]_<<vars, attr, driver>> => PassInv'
<1> SUFFICES ASSUME PassInv, [Next]_<<vars, attr, driver>> PROVE PassInv'
  OBVIOUS
<1>1. pass' = pass /\ [WalkNext]_walk
  BY DEF Next, Walk, Attr, Facts, Finished, vars
<1>2. job' = job
  BY <1>1 DEF WalkNext, PassNode, EnterTrigger, InspectNode, LeaveTrigger, walk
<1> QED BY <1>1, <1>2, FileStays, WalkStepInv DEF PassInv

\* In a run of the driver too every trigger reports what it has in sight, whatever the
\* analyzer (run and the inner ast.Inspect of the thirteen that walk files).
THEOREM PassReportsWhatIsInSight == Spec => []EveryTriggerReports
<1>1. PassInv => EveryTriggerReports
  BY InvReports DEF PassInv
<1> QED BY PassInit, PassStep, <1>1, PTL DEF Spec

\* The driver takes packages in the runs of writegate only; in the others there is nothing
\* left to analyse.
DriverInv == (FactsInv /\ OrderInv) \/ FactsIdle

LEMMA DriverInit == Init => DriverInv
<1>1. CASE FactsInit
  BY <1>1, FactsInitInv, OrderInit DEF DriverInv
<1>2. CASE FactsIdle
  BY <1>2 DEF DriverInv
<1> QED BY <1>1, <1>2 DEF Init

LEMMA DriverStep == DriverInv /\ [Next]_<<vars, attr, driver>> => DriverInv'
<1> SUFFICES ASSUME DriverInv, [Next]_<<vars, attr, driver>> PROVE DriverInv'
  OBVIOUS
<1>1. [FactsNext]_driver
  BY DEF Next, Walk, Attr, Facts, Finished
<1>2. CASE FactsInv /\ OrderInv
  BY <1>1, <1>2, FactsStepInv, OrderStepInv DEF DriverInv
<1>3. CASE FactsIdle
  <2>1. ~FactsNext
    BY <1>3 DEF FactsIdle, FactsNext, AnalysePackage
  <2> QED BY <1>1, <1>3, <2>1 DEF driver, FactsIdle, DriverInv
<1> QED BY <1>2, <1>3 DEF DriverInv

\* In every run of the driver a fact is on a function that reaches a write (run of
\* writegate, the go/analysis driver).
THEOREM PassFactsJustified == Spec => []FactsJustified
<1>1. DriverInv => FactsJustified
  BY DEF DriverInv, FactsInv, FactsIdle, FactsJustified
<1> QED BY DriverInit, DriverStep, <1>1, PTL DEF Spec

\* In every run of the driver the facts do not depend on the order of the packages.
THEOREM PassFactsWhateverOrder == Spec => []FactsWhateverOrder
<1>1. ASSUME FactsIdle PROVE FactsWhateverOrder
  <2>1. Agreed({}) /\ {} \in SUBSET markable
    BY <1>1 DEF FactsIdle, Agreed
  <2>2. facts = {}
    BY <1>1 DEF FactsIdle
  <2> QED BY <2>1, <2>2 DEF FactsWhateverOrder
<1>2. DriverInv => FactsWhateverOrder
  BY <1>1, OrderInvFacts DEF DriverInv
<1> QED BY DriverInit, DriverStep, <1>2, PTL DEF Spec

-----------------------------------------------------------------------------
(* Files as trees *)

\* Whatever the analyzer, its job is the file: the nodes nest.
LEMMA FileIsTree ==
    ASSUME PassInv
    PROVE  /\ IsJob(job) /\ job.size = Len(pass.nodes) /\ job.end = [n \in all |-> node(n).end]
           /\ Len(pass.nodes) \in Nat
           /\ \A n \in all : n \in Nat /\ 0 < n /\ n <= Len(pass.nodes) /\ node(n).end \in Nat
                             /\ n < node(n).end /\ node(n).end <= Len(pass.nodes) + 1
           /\ \A n, m \in all : n < m /\ m < node(n).end => node(m).end <= node(n).end
<1>1. IsJob(job)
  BY DEF PassInv, WalkInv, WalkTypeOK
<1>2. job.size = Len(pass.nodes) /\ job.end = [n \in all |-> node(n).end]
  BY DEF PassInv, jobOf, requiregoroutine, subtestassert, contextcancel, spanlifecycle, spancontext,
     httpdecodeflag, repoerrorflags, grpcstatus, spanevents, spanerrors, validationflag, timeinject,
     enumcast, inspect
<1>3. all = Nodes(job.size) /\ all = 1 .. Len(pass.nodes) /\ Len(pass.nodes) \in Nat
  BY <1>1, <1>2 DEF all, IsJob, Nodes
<1>4. \A n \in all : job.end[n] = node(n).end
  BY <1>2
<1>5. \A n \in all : job.end[n] \in Nat /\ n < job.end[n] /\ job.end[n] <= job.size + 1
  BY <1>1, <1>3 DEF IsJob
<1>6. \A n, m \in all : n < m /\ m < job.end[n] => job.end[m] <= job.end[n]
  BY <1>1, <1>3 DEF IsJob
<1>7. \A n \in all : n \in Nat /\ 0 < n /\ n <= Len(pass.nodes)
  BY <1>3
<1>8. \A n \in all : node(n).end \in Nat /\ n < node(n).end /\ node(n).end <= Len(pass.nodes) + 1
  BY <1>2, <1>4, <1>5
<1>9. \A n, m \in all : n < m /\ m < node(n).end => node(m).end <= node(n).end
  BY <1>4, <1>6
<1> QED BY <1>1, <1>2, <1>3, <1>7, <1>8, <1>9

LEMMA BelowIs ==
    ASSUME PassInv, NEW n \in all
    PROVE  \A m : m \in below(n) <=> m \in all /\ n < m /\ m < node(n).end
BY FileIsTree DEF below, all, Nodes

\* Below what is below.
LEMMA BelowBelow ==
    ASSUME PassInv, NEW f \in all, NEW g \in below(f), NEW n \in below(g)
    PROVE  n \in below(f)
<1>1. g \in all /\ f < g /\ g < node(f).end
  BY BelowIs
<1>2. n \in all /\ g < n /\ n < node(g).end
  BY <1>1, BelowIs
<1>3. node(g).end <= node(f).end
  BY <1>1, FileIsTree
<1>4. f < n /\ n < node(f).end
  BY <1>1, <1>2, <1>3, FileIsTree
<1> QED BY <1>2, <1>4, BelowIs

\* Of two nodes around a third the later one is below the other.
LEMMA AroundNests ==
    ASSUME PassInv, NEW f \in all, NEW g \in all, f < g, NEW n \in below(f), n \in below(g)
    PROVE  g \in below(f)
<1>1. n \in all /\ n < node(f).end /\ g < n
  BY BelowIs
<1>2. g < node(f).end
  BY <1>1, FileIsTree
<1> QED BY <1>2, BelowIs

\* A set of numbers with a bound has a greatest one.
LEMMA MaxIsGreatest ==
    ASSUME NEW S \in SUBSET Nat, S /= {}, NEW k \in Nat, \A s \in S : s <= k
    PROVE  Max(S) \in S /\ \A s \in S : s <= Max(S)
<1> DEFINE above(x) == {s \in S : x < s}
           family == {above(x) : x \in S}
           R == StrictSubsetOrdering(S)
<1>1. IsFiniteSet(S)
  BY FS_BoundedSetOfNaturals
<1>2. family \subseteq FiniteSubsetsOf(S)
  <2>1. \A x \in S : IsFiniteSet(above(x)) /\ above(x) \in SUBSET S
    BY <1>1, FS_Subset
  <2> QED BY <2>1 DEF FiniteSubsetsOf
<1>3. IsWellFoundedOn(R, FiniteSubsetsOf(S))
  BY FS_StrictSubsetOrderingWellFounded
<1>4. family /= {}
  OBVIOUS
<1>5. \E T \in family : \A U \in family : ~ (<<U, T>> \in R)
  <2> HIDE DEF family, R
  <2> QED BY <1>2, <1>3, <1>4, WFMin
<1>6. PICK x \in S : \A U \in family : ~ (<<U, above(x)>> \in R)
  BY <1>5
<1>7. \A s \in S : s <= x
  <2> SUFFICES ASSUME NEW s \in S, ~ (s <= x) PROVE FALSE
    OBVIOUS
  <2>1. x \in Nat /\ s \in Nat /\ x < s
    OBVIOUS
  <2>2. above(s) \subseteq above(x) /\ s \in above(x) /\ s \notin above(s)
    <3>1. \A t \in S : (s < t => x < t) /\ ~ (s < s)
      BY <2>1
    <3>2. \A y, t : t \in above(y) <=> t \in S /\ y < t
      OBVIOUS
    <3> HIDE DEF above
    <3> QED BY <2>1, <3>1, <3>2, Zenon
  <2>3. <<above(s), above(x)>> \in R
    BY <2>2 DEF StrictSubsetOrdering
  <2> QED BY <1>6, <2>3
<1>8. \A y \in S : x >= y
  BY <1>7
<1>9. Max(S) \in S /\ \A y \in S : Max(S) >= y
  BY <1>8 DEF Max
<1>10. \A y \in S : y \in Nat
  OBVIOUS
<1> QED BY <1>9, <1>10

-----------------------------------------------------------------------------
(* What a pass reports *)

\* From t the inner walk comes by n.
met(t, n, cut) == t = n \/ (n \in below(t) /\ \A c \in cut : c \in below(t) => c /= n /\ n \notin below(c))

LEMMA WhatIsReported ==
    ASSUME PassInv, WalkDone, applies, NEW T, NEW C, NEW H, job = inspect(T, C, H)
    PROVE  /\ T \subseteq all /\ C \subseteq all
           /\ \A t, n : <<t, n>> \in reports <=> t \in T /\ n \in all /\ n \in H[t] /\ met(t, n, C)
           /\ \A n : n \in reported <=> \E t : <<t, n>> \in reports
           /\ \A r \in reports : r = <<r[1], r[2]>>
<1>1. /\ job.size = Len(pass.nodes) /\ job.end = [n \in all |-> node(n).end]
      /\ job.triggers = T /\ job.cut = C /\ job.hits = [t \in T |-> H[t]]
  BY DEF inspect
<1>2. T \subseteq all /\ C \subseteq all /\ all = Nodes(job.size)
  BY <1>1, FileIsTree DEF IsJob, all
<1>3. reports = {r \in T \X all : r[2] \in job.hits[r[1]] /\ (r[1] = r[2] \/ InSight(r[1], r[2]))}
  BY <1>1, <1>2, InvReports DEF PassInv, EveryTriggerReports
<1>4. ASSUME NEW t \in T, NEW n \in all
      PROVE  t = n \/ InSight(t, n) <=> met(t, n, C)
  <2>1. t \in all /\ job.end[t] = node(t).end /\ \A c \in C : c \in all /\ job.end[c] = node(c).end
    BY <1>1, <1>2
  <2>2. n \in below(t) <=> t < n /\ n < node(t).end
    BY <2>1, BelowIs
  <2>3. ASSUME NEW c \in C, n \in below(t)
        PROVE  (t < c /\ c <= n => job.end[c] <= n) <=> (c \in below(t) => c /= n /\ n \notin below(c))
    <3>1. /\ c \in below(t) <=> t < c /\ c < node(t).end
          /\ n \in below(c) <=> c < n /\ n < node(c).end
      BY <2>1, BelowIs
    <3>2. /\ t \in Nat /\ n \in Nat /\ c \in Nat /\ node(t).end \in Nat /\ node(c).end \in Nat
          /\ c < node(c).end /\ t < n /\ n < node(t).end
      BY <2>1, <2>2, <2>3, FileIsTree
    <3> QED BY <2>1, <3>1, <3>2
  <2>4. InSight(t, n) <=> n \in below(t) /\ \A c \in C : c \in below(t) => c /= n /\ n \notin below(c)
    BY <1>1, <2>1, <2>2, <2>3 DEF InSight
  <2> QED BY <2>4 DEF met
<1>5. \A t, n : <<t, n>> \in reports <=> t \in T /\ n \in all /\ n \in H[t] /\ met(t, n, C)
  <2> SUFFICES ASSUME NEW t, NEW n
               PROVE  <<t, n>> \in reports <=> t \in T /\ n \in all /\ n \in H[t] /\ met(t, n, C)
    OBVIOUS
  <2>1. t \in T => job.hits[t] = H[t]
    BY <1>1
  <2>2. <<t, n>> \in reports <=> t \in T /\ n \in all /\ n \in job.hits[t] /\ (t = n \/ InSight(t, n))
    BY <1>3
  <2> QED BY <1>4, <2>1, <2>2
<1>6. \A r \in reports : r = <<r[1], r[2]>>
  BY <1>3
<1>7. \A n : n \in reported <=> \E t : <<t, n>> \in reports
  BY <1>6 DEF reported
<1> QED BY <1>2, <1>5, <1>6, <1>7

LEMMA NothingCut == \A t, n : met(t, n, {}) <=> t = n \/ n \in below(t)
BY DEF met

\* Where no analyzer applies nothing is reported.
LEMMA NothingReported ==
    ASSUME PassInv, WalkDone, ~applies
    PROVE  reported = {}
<1>1. job.triggers = {}
  BY DEF PassInv, jobOf, requiregoroutine, subtestassert, contextcancel, spanlifecycle, spancontext,
     httpdecodeflag, repoerrorflags, grpcstatus, spanevents, spanerrors, validationflag, timeinject,
     enumcast, inspect
<1>2. reports = {}
  BY <1>1, InvReports DEF PassInv, EveryTriggerReports
<1> QED BY <1>2 DEF reported

-----------------------------------------------------------------------------
(* requiregoroutine, subtestassert *)

LEMMA Kinds ==
    /\ \A n, kind : n \in ofKind(kind) <=> n \in all /\ node(n).kind = kind
    /\ \A n, kind, roles : n \in ofRole(kind, roles) <=> n \in all /\ node(n).kind = kind /\ node(n).role \in roles
    /\ \A n, f : f \in around(n) <=> f \in all /\ node(f).kind \in {"func", "lit"} /\ n \in below(f)
    /\ functions \subseteq all /\ definitions \subseteq all
BY DEF ofKind, ofRole, around, functions, definitions

\* The innermost of some nodes around another.
LEMMA Innermost ==
    ASSUME PassInv, NEW S \in SUBSET all, S /= {}
    PROVE  Max(S) \in S /\ \A s \in S : s <= Max(S)
<1>1. S \in SUBSET Nat /\ Len(pass.nodes) \in Nat /\ \A s \in S : s <= Len(pass.nodes)
  BY FileIsTree
<1> QED BY <1>1, MaxIsGreatest

LEMMA OffGoroutine == PassInv => OffGoroutineReported
<1> SUFFICES ASSUME PassInv, finished("requiregoroutine")
             PROVE  /\ {n \in ofKind("fatal") : OffTestGoroutine(n)} \subseteq reported
                    /\ \A n \in reported : \E l \in around(n) : node(l).role \in {"plain", "ctx"}
  BY DEF OffGoroutineReported
<1> DEFINE T == (ofKind("lit") \ collectExemptFuncLits) \ hasTestingTParam
           H == [lit \in all |-> ofKind("fatal")]
<1>1. job = inspect(T, {}, H) /\ applies /\ WalkDone
  BY DEF finished, PassInv, jobOf, requiregoroutine
<1>2. \A l : l \in T <=> l \in all /\ node(l).kind = "lit" /\ node(l).role \in {"plain", "ctx"}
  <2>1. \A l : l \in T <=> /\ l \in all /\ node(l).kind = "lit"
                          /\ node(l).role \notin {"deferred", "cleanup"} /\ node(l).role \notin {"subtest", "T", "bench"}
    BY Kinds DEF collectExemptFuncLits, hasTestingTParam
  <2>2. \A l \in all : node(l).kind = "lit" =>
            node(l).role \in {"deferred", "cleanup", "subtest", "T", "bench", "ctx", "plain"}
    BY Kinds DEF PassInv, IsFile
  <2> QED BY <2>1, <2>2
<1>3. \A l \in T : H[l] = ofKind("fatal")
  BY <1>2
<1> HIDE DEF T, H
<1>4. /\ \A t, n : <<t, n>> \in reports <=> t \in T /\ n \in all /\ n \in H[t] /\ met(t, n, {})
      /\ \A n : n \in reported <=> \E t : <<t, n>> \in reports
  BY <1>1, WhatIsReported
<1>5. ASSUME NEW n \in ofKind("fatal"), OffTestGoroutine(n)
      PROVE  n \in reported
  <2> DEFINE closures == (around(n) \intersect ofKind("lit")) \ ofRole("lit", {"deferred"})
  <2>1. closures /= {} /\ node(Max(closures)).role \in {"plain", "ctx"} /\ closures \in SUBSET all
    BY <1>5, Kinds DEF OffTestGoroutine
  <2>2. Max(closures) \in closures
    BY <2>1, Innermost
  <2>3. PICK l \in closures : node(l).role \in {"plain", "ctx"}
    BY <2>1, <2>2
  <2>4. l \in all /\ node(l).kind = "lit" /\ n \in below(l) /\ n \in all
    BY <1>5, Kinds
  <2>5. <<l, n>> \in reports
    BY <1>2, <1>3, <1>4, <1>5, <2>3, <2>4, NothingCut
  <2> QED BY <1>4, <2>5
<1>6. ASSUME NEW n \in reported
      PROVE  \E l \in around(n) : node(l).role \in {"plain", "ctx"}
  <2>1. PICK l : l \in T /\ n \in all /\ n \in H[l] /\ met(l, n, {})
    BY <1>4
  <2>2. node(n).kind = "fatal" /\ node(l).kind = "lit"
    BY <1>2, <1>3, <2>1, Kinds
  <2>3. n \in below(l)
    BY <2>1, <2>2, NothingCut
  <2> QED BY <1>2, <2>1, <2>3, Kinds
<1> QED BY <1>5, <1>6

\* A fatal call off the test goroutine is reported in every test file, however its
\* closures are nested, and no other call outside closures (requiregoroutine).
THEOREM OffGoroutineAlwaysReported == Spec => []OffGoroutineReported
BY PassInit, PassStep, OffGoroutine, PTL DEF Spec

\* A name that means something means a definition before it, in scopes around it.
LEMMA BindingIs ==
    ASSUME PassInv, NEW n \in all
    PROVE  /\ binding(n) \in Nat
           /\ binding(n) /= 0 =>
                 /\ binding(n) \in definitions /\ binding(n) \in all /\ binding(n) < n
                 /\ node(binding(n)).name = node(n).name
                 /\ scopes(binding(n)) \subseteq scopes(n)
<1> DEFINE S == {0} \union {d \in definitions : /\ d < n
                                               /\ node(d).name = node(n).name
                                               /\ scopes(d) \subseteq scopes(n)}
<1>1. S \in SUBSET Nat /\ S /= {} /\ Len(pass.nodes) \in Nat /\ \A s \in S : s <= Len(pass.nodes)
  BY FileIsTree, Kinds
<1>2. binding(n) = Max(S)
  BY DEF binding
<1> HIDE DEF S
<1>3. binding(n) \in S
  BY <1>1, <1>2, MaxIsGreatest
<1> QED BY <1>1, <1>3, Kinds DEF S

\* However many subtests are around a use, it is met from the innermost one alone.
LEMMA MetFromSubtest ==
    ASSUME PassInv, NEW u \in ofKind("use"), NEW l \in ofRole("lit", {"subtest", "T"})
    PROVE  met(l, u, ofRole("lit", {"subtest", "T"})) <=> l = subtestOf(u)
<1> DEFINE C == ofRole("lit", {"subtest", "T"})
           S == {0} \union (around(u) \intersect C)
<1>1. \A c \in C : c \in all /\ node(c).kind = "lit"
  BY Kinds
<1>2. u \in all /\ node(u).kind = "use" /\ \A c \in C : c /= u
  BY <1>1, Kinds
<1>3. S \in SUBSET Nat /\ S /= {} /\ Len(pass.nodes) \in Nat /\ \A s \in S : s <= Len(pass.nodes)
  BY <1>1, FileIsTree
<1>4. subtestOf(u) = Max(S)
  BY DEF subtestOf
<1>5. \A c \in C : c \in S <=> u \in below(c)
  BY <1>1, FileIsTree, Kinds
<1>6. \A c \in C : c \in Nat /\ c /= 0
  BY <1>1, FileIsTree
<1> HIDE DEF S, C
<1>7. Max(S) \in S /\ Max(S) \in Nat /\ \A s \in S : s <= Max(S)
  BY <1>3, MaxIsGreatest
<1>8. Max(S) /= 0 => Max(S) \in C
  BY <1>7 DEF S
<1>9. ASSUME met(l, u, C) PROVE l = Max(S)
  <2>1. l \in C /\ l /= u
    BY <1>2 DEF C
  <2>2. u \in below(l) /\ \A c \in C : c \in below(l) => u \notin below(c)
    BY <1>9, <2>1 DEF met
  <2>3. l \in S /\ l <= Max(S) /\ l \in Nat /\ l /= 0
    BY <1>5, <1>6, <1>7, <2>1, <2>2
  <2>4. ASSUME l /= Max(S) PROVE FALSE
    <3>1. l < Max(S) /\ Max(S) \in C
      BY <1>7, <1>8, <2>3, <2>4
    <3>2. u \in below(Max(S))
      BY <1>5, <1>7, <3>1
    <3>3. Max(S) \in below(l)
      BY <1>1, <2>1, <2>2, <3>1, <3>2, AroundNests
    <3> QED BY <2>2, <3>1, <3>2, <3>3
  <2> QED BY <2>4
<1>10. ASSUME l = Max(S) PROVE met(l, u, C)
  <2>1. l \in C /\ l \in S /\ u \in below(l)
    BY <1>5, <1>7, <1>10 DEF C
  <2>2. ASSUME NEW c \in C, c \in below(l), u \in below(c) PROVE FALSE
    <3>1. c <= l /\ c \in Nat /\ l \in Nat
      BY <1>5, <1>6, <1>7, <1>10, <2>2
    <3>2. l < c
      BY <1>1, <2>1, <2>2, BelowIs
    <3> QED BY <3>1, <3>2
  <2> QED BY <1>2, <2>1, <2>2 DEF met
<1> QED BY <1>4, <1>9, <1>10 DEF C

LEMMA AtMostOnce ==
    ASSUME NEW n, NEW t, \A r \in reports : r[2] = n => r = <<t, n>>
    PROVE  timesReported(n) <= 1
<1>1. {r \in reports : r[2] = n} \in SUBSET {<<t, n>>}
  OBVIOUS
<1>2. IsFiniteSet({<<t, n>>}) /\ Cardinality({<<t, n>>}) = 1
  BY FS_Singleton
<1> QED BY <1>1, <1>2, FS_Subset DEF timesReported

LEMMA OuterAssertions == PassInv => OuterAssertionsReported
<1> SUFFICES ASSUME PassInv, finished("subtestassert"), NEW u \in ofKind("use"), NEW t, t = subtestOf(u)
             PROVE  LET inside == t /= 0 /\ node(t).role = "subtest"
                        namesake == \E d \in (ofKind("define") \union ofKind("assign")) \intersect below(t) :
                                       node(d).name = node(u).name
                        remade == \E a \in ofKind("assign") \intersect below(t) :
                                     node(a).name = node(u).name /\ binding(a) = binding(u)
                    IN  /\ timesReported(u) <= 1
                        /\ inside /\ binding(u) < t /\ ~namesake => u \in reported
                        /\ u \in reported => inside /\ ((binding(u) < t /\ ~remade) \/ node(u).role = "field")
  BY DEF OuterAssertionsReported
<1> DEFINE inside == t /= 0 /\ node(t).role = "subtest"
           namesake == \E d \in (ofKind("define") \union ofKind("assign")) \intersect below(t) :
                          node(d).name = node(u).name
           remade == \E a \in ofKind("assign") \intersect below(t) :
                        node(a).name = node(u).name /\ binding(a) = binding(u)
           T == ofRole("lit", {"subtest"})
           C == ofRole("lit", {"subtest", "T"})
           H == [lit \in all |-> {v \in ofKind("use") :
                            node(v).role = "field" \/ node(v).name \notin collectLocalDefs(lit)}]
<1>1. job = inspect(T, C, H) /\ applies /\ WalkDone
  BY DEF finished, PassInv, jobOf, subtestassert
<1>2. T \subseteq C /\ \A l \in T : l \in all /\ node(l).role = "subtest" /\ node(l).kind = "lit"
  BY Kinds
<1>3. u \in all /\ node(u).kind = "use"
  BY Kinds
<1>4. \A l \in T : u \in H[l] <=> node(u).role = "field" \/ node(u).name \notin collectLocalDefs(l)
  BY <1>2
<1>5. t /= 0 => t \in C /\ t \in all /\ t \in Nat /\ node(t).kind = "lit" /\ u \in below(t)
  <2>1. {0} \union (around(u) \intersect C) \in SUBSET Nat /\ Len(pass.nodes) \in Nat
        /\ \A s \in {0} \union (around(u) \intersect C) : s <= Len(pass.nodes)
    BY FileIsTree, Kinds
  <2>2. t \in {0} \union (around(u) \intersect C)
    BY <2>1, MaxIsGreatest DEF subtestOf
  <2> QED BY <2>2, FileIsTree, Kinds
<1>6. inside <=> t \in T
  <2>1. \A l \in T : l /= 0
    BY <1>2, FileIsTree
  <2> QED BY <1>2, <1>5, <2>1, Kinds
<1>7. /\ namesake <=> node(u).name \in collectLocalDefs(t)
      /\ remade => namesake
  BY DEF collectLocalDefs, names
<1> HIDE DEF H, T, C, inside, namesake, remade
<1>8. /\ \A l, n : <<l, n>> \in reports <=> l \in T /\ n \in all /\ n \in H[l] /\ met(l, n, C)
      /\ \A n : n \in reported <=> \E l : <<l, n>> \in reports
      /\ \A r \in reports : r = <<r[1], r[2]>>
  BY <1>1, WhatIsReported
<1>9. \A l \in C : met(l, u, C) <=> l = t
  BY MetFromSubtest DEF C
<1>10. \A l : <<l, u>> \in reports <=> l = t /\ t \in T /\ u \in H[t]
  BY <1>2, <1>3, <1>8, <1>9
<1>11. timesReported(u) <= 1
  BY <1>8, <1>10, AtMostOnce
<1>12. ASSUME inside, ~namesake PROVE u \in reported
  BY <1>4, <1>6, <1>7, <1>8, <1>10, <1>12
<1>13. ASSUME u \in reported PROVE inside /\ ((binding(u) < t /\ ~remade) \/ node(u).role = "field")
  <2>1. t \in T /\ u \in H[t] /\ inside
    BY <1>6, <1>8, <1>10, <1>13
  <2>2. t \in all /\ t \in Nat /\ u \in below(t) /\ node(t).kind = "lit" /\ t /= 0
    BY <1>5, <2>1 DEF inside
  <2>3. ASSUME ~ (binding(u) < t) PROVE node(u).role = "field"
    <3>1. binding(u) \in Nat /\ t <= binding(u) /\ binding(u) /= 0
      <4>1. binding(u) \in Nat
        BY <1>3, BindingIs
      <4> QED BY <2>2, <2>3, <4>1
    <3>2. /\ binding(u) \in definitions /\ binding(u) \in all /\ binding(u) < u
          /\ node(binding(u)).name = node(u).name
      BY <1>3, <3>1, BindingIs
    <3>3. u \in all \ definitions
      BY <1>3, Kinds DEF definitions
    <3>4. binding(u) \in ofKind("define")
      BY <1>3, <3>2, <3>3 DEF PassInv, IsFile, definitions
    <3>5. binding(u) /= t
      BY <2>2, <3>4, Kinds
    <3>6. t < binding(u) /\ u < node(t).end /\ u \in Nat /\ node(t).end \in Nat
      BY <1>3, <2>2, <3>1, <3>5, BelowIs, FileIsTree
    <3>7. binding(u) \in below(t)
      BY <2>2, <3>1, <3>2, <3>6, BelowIs
    <3>8. node(u).name \in collectLocalDefs(t)
      BY <3>2, <3>4, <3>7 DEF collectLocalDefs, names
    <3> QED BY <1>4, <2>1, <3>8
  <2>4. ASSUME remade PROVE node(u).role = "field"
    BY <1>4, <1>7, <2>1, <2>4
  <2> QED BY <2>1, <2>3, <2>4
<1> QED BY <1>11, <1>12, <1>13 DEF inside, namesake, remade

\* Every use is examined in its own subtest, once, however deep subtests are nested
\* (run, checkSubtestBody and collectLocalDefs of subtestassert).
THEOREM OuterAssertionsAlwaysReported == Spec => []OuterAssertionsReported
BY PassInit, PassStep, OuterAssertions, PTL DEF Spec

-----------------------------------------------------------------------------
(* contextcancel, spanlifecycle, spancontext, spanerrors *)

\* Whoever means a definition is in every function the definition is in.
LEMMA BoundInside ==
    ASSUME PassInv, NEW n \in all, NEW m \in definitions, binding(n) = m,
           NEW fn \in ofKind("func"), m \in below(fn)
    PROVE  n \in below(fn) /\ m < n /\ node(n).name = node(m).name
<1>1. m \in all /\ m /= 0
  BY FileIsTree, Kinds
<1>2. m < n /\ node(m).name = node(n).name /\ scopes(m) \subseteq scopes(n)
  BY <1>1, BindingIs
<1>3. fn \in scopes(m)
  BY DEF scopes, functions
<1> QED BY <1>2, <1>3 DEF scopes

\* The function a node is in is the only one.
LEMMA OneFunction ==
    ASSUME PassInv, NEW f \in ofKind("func"), NEW g \in ofKind("func"), NEW n \in below(f), n \in below(g)
    PROVE  f = g
<1>1. \A a, b \in ofKind("func") : n \in below(a) /\ n \in below(b) => ~ (a < b)
  <2> SUFFICES ASSUME NEW a \in ofKind("func"), NEW b \in ofKind("func"), n \in below(a), n \in below(b), a < b
               PROVE  FALSE
    OBVIOUS
  <2>1. a \in all /\ b \in all /\ node(a).kind = "func"
    BY Kinds
  <2>2. a \in around(b)
    BY <2>1, AroundNests, Kinds
  <2> QED BY <2>2 DEF PassInv, IsFile
<1>2. f \in Nat /\ g \in Nat
  BY FileIsTree, Kinds
<1> QED BY <1>1, <1>2

\* What is inside something that is in the function, or around it, is in the function.
LEMMA InsideFunction ==
    ASSUME PassInv, NEW fn \in ofKind("func"), NEW n \in below(fn), NEW g \in around(n)
    PROVE  g = fn \/ g \in below(fn)
<1>1. fn \in all /\ g \in all /\ n \in below(g) /\ node(g).kind \in {"func", "lit"} /\ fn \in Nat /\ g \in Nat
  BY FileIsTree, Kinds
<1>2. ASSUME g < fn PROVE FALSE
  <2>1. g \in around(fn)
    BY <1>1, <1>2, AroundNests, Kinds
  <2> QED BY <2>1 DEF PassInv, IsFile
<1>3. CASE fn < g
  BY <1>1, <1>3, AroundNests
<1> QED BY <1>1, <1>2, <1>3

\* A definition that something in a function means, is in the function itself.
LEMMA MeantInside ==
    ASSUME PassInv, NEW fn \in ofKind("func"), NEW n \in below(fn), binding(n) /= 0
    PROVE  binding(n) \in definitions /\ binding(n) \in below(fn) /\ node(binding(n)).name = node(n).name
<1>1. n \in all
  BY BelowIs, Kinds
<1> DEFINE d == binding(n)
<1>2. d \in definitions /\ d \in all /\ node(d).name = node(n).name /\ scopes(d) \subseteq scopes(n)
  BY <1>1, BindingIs
<1> HIDE DEF d
<1>3. PICK g \in around(d) : TRUE
  BY <1>2 DEF PassInv, IsFile
<1>4. g \in scopes(d) /\ d \in below(g) /\ g \in all
  BY <1>2, <1>3, Kinds DEF around, scopes
<1>5. g \in around(n)
  BY <1>2, <1>3, <1>4, Kinds DEF scopes
<1>6. g = fn \/ g \in below(fn)
  BY <1>5, InsideFunction
<1>7. d \in below(fn)
  BY <1>4, <1>6, BelowBelow, Kinds
<1> QED BY <1>2, <1>7 DEF d

LEMMA LostCancels == PassInv => LostCancelsReported
<1> SUFFICES ASSUME PassInv, finished("contextcancel"),
                    NEW fn \in ofKind("func"), NEW m \in ofKind("make") \intersect below(fn)
             PROVE  LET lost == unreleased(m, ofKind("call") \union ofKind("mention")) IN
                    /\ m \in reported => lost
                    /\ lost /\ onlyNamed(fn, m) => m \in reported
  BY DEF LostCancelsReported
<1> DEFINE lost == unreleased(m, ofKind("call") \union ofKind("mention"))
           T == ofKind("func")
           H == [f \in all |-> {k \in ofKind("make") : /\ node(k).name \notin findDeferred(f)
                                                       /\ ~managedElsewhere(f, k)}]
<1>1. job = inspect(T, {}, H) /\ applies /\ WalkDone
  BY DEF finished, PassInv, jobOf, contextcancel
<1>2. m \in all /\ m \in definitions /\ node(m).kind = "make" /\ T \subseteq all
  BY Kinds DEF definitions
<1>3. \A f \in T : m \in H[f] <=> node(m).name \notin findDeferred(f) /\ ~managedElsewhere(f, m)
  BY <1>2
<1> HIDE DEF H
<1>4. /\ \A l, n : <<l, n>> \in reports <=> l \in T /\ n \in all /\ n \in H[l] /\ met(l, n, {})
      /\ \A n : n \in reported <=> \E l : <<l, n>> \in reports
  BY <1>1, WhatIsReported
<1>5. \A f \in T : m \in below(f) => f = fn
  BY OneFunction
<1>6. \A f \in T : met(f, m, {}) <=> f = fn
  BY <1>2, <1>5, NothingCut, Kinds
<1>7. m \in reported <=> node(m).name \notin findDeferred(fn) /\ ~managedElsewhere(fn, m)
  BY <1>2, <1>3, <1>4, <1>6
<1>8. ASSUME m \in reported PROVE lost
  <2> SUFFICES ASSUME NEW n \in ofKind("defer") \union (ofKind("call") \union ofKind("mention")), binding(n) = m
               PROVE  FALSE
    BY DEF unreleased
  <2>1. n \in all /\ node(n).kind \in {"defer", "call", "mention"}
    BY Kinds
  <2>2. n \in below(fn) /\ m < n /\ node(n).name = node(m).name
    BY <1>2, <2>1, BoundInside
  <2>3. n /= m /\ n \notin ofKind("discard")
    BY <1>2, <2>1, Kinds
  <2>4. managedElsewhere(fn, m)
    BY <2>2, <2>3 DEF managedElsewhere
  <2> QED BY <1>7, <1>8, <2>4
<1>9. ASSUME lost, onlyNamed(fn, m) PROVE m \in reported
  <2>1. ASSUME node(m).name \in findDeferred(fn) PROVE FALSE
    <3>1. PICK n \in ofKind("defer") \intersect below(fn) : node(n).name = node(m).name
      BY <2>1 DEF findDeferred, names
    <3>2. n /= m
      BY <1>2, Kinds
    <3>3. binding(n) = m
      BY <1>9, <3>1, <3>2 DEF onlyNamed
    <3> QED BY <1>9, <3>3 DEF unreleased
  <2>2. ASSUME managedElsewhere(fn, m) PROVE FALSE
    <3>1. PICK n \in below(fn) \ (ofKind("discard") \union {m}) : node(n).name = node(m).name
      BY <2>2 DEF managedElsewhere
    <3>2. n \in all /\ n \notin definitions /\ binding(n) = m
      BY <1>9, <3>1, BelowIs, Kinds DEF onlyNamed
    <3>3. node(n).kind \in {"call", "defer", "discard", "mention"}
      BY <3>2 DEF PassInv, IsFile
    <3>4. n \in ofKind("defer") \union (ofKind("call") \union ofKind("mention"))
      BY <3>1, <3>2, <3>3, Kinds
    <3> QED BY <1>9, <3>2, <3>4 DEF unreleased
  <2> QED BY <1>7, <2>1, <2>2
<1> QED BY <1>8, <1>9

\* A cancel function that nothing uses is reported, and none that something uses, however
\* often its name is taken in other scopes (run and managedElsewhere of contextcancel).
THEOREM LostCancelsAlwaysReported == Spec => []LostCancelsReported
BY PassInit, PassStep, LostCancels, PTL DEF Spec

\* For each of the three, what is reported of a function.
LEMMA SpanlifecycleReports ==
    ASSUME PassInv, finished("spanlifecycle"), NEW fn \in ofKind("func"), NEW m \in below(fn)
    PROVE  m \in reported <=> m \in ofKind("make") /\ node(m).name \notin findDeferred(fn)
<1> DEFINE T == ofKind("func")
           H == [f \in all |-> {k \in ofKind("make") : node(k).name \notin findDeferred(f)}]
<1>1. job = inspect(T, {}, H) /\ applies /\ WalkDone
  BY DEF finished, PassInv, jobOf, spanlifecycle
<1>2. T \subseteq all /\ m \in all
  BY BelowIs, Kinds
<1>3. m \in H[fn] <=> m \in ofKind("make") /\ node(m).name \notin findDeferred(fn)
  BY <1>2
<1>4. \A f \in T : m \in H[f] => m \notin T
  BY <1>2, Kinds
<1> HIDE DEF H
<1>5. /\ \A l, n : <<l, n>> \in reports <=> l \in T /\ n \in all /\ n \in H[l] /\ met(l, n, {})
      /\ \A n : n \in reported <=> \E l : <<l, n>> \in reports
  BY <1>1, WhatIsReported
<1>6. \A f \in T : m \in H[f] => (met(f, m, {}) <=> f = fn)
  BY <1>4, NothingCut, OneFunction
<1> QED BY <1>2, <1>3, <1>5, <1>6

LEMMA SpancontextReports ==
    ASSUME PassInv, finished("spancontext"), NEW fn \in ofKind("func"), NEW c \in below(fn)
    PROVE  c \in reported <=>
               /\ c \in ofKind("call") \union ofKind("defer")
               /\ node(c).name = "" \/ isSpanFromContextVar(fn, node(c).name)
<1> DEFINE T == ofKind("func")
           H == [f \in all |-> {k \in ofKind("call") \union ofKind("defer") :
                            node(k).name = "" \/ isSpanFromContextVar(f, node(k).name)}]
<1>1. job = inspect(T, {}, H) /\ applies /\ WalkDone
  BY DEF finished, PassInv, jobOf, spancontext
<1>2. T \subseteq all /\ c \in all
  BY BelowIs, Kinds
<1>3. c \in H[fn] <=> /\ c \in ofKind("call") \union ofKind("defer")
                      /\ node(c).name = "" \/ isSpanFromContextVar(fn, node(c).name)
  BY <1>2
<1>4. \A f \in T : c \in H[f] => c \notin T
  <2>1. \A f \in T : c \in H[f] => c \in ofKind("call") \union ofKind("defer")
    BY <1>2
  <2>2. c \in ofKind("call") \union ofKind("defer") => node(c).kind \in {"call", "defer"}
    BY Kinds
  <2>3. c \in T => node(c).kind = "func"
    BY Kinds
  <2> HIDE DEF T, H
  <2> QED BY <2>1, <2>2, <2>3
<1> HIDE DEF H
<1>5. /\ \A l, n : <<l, n>> \in reports <=> l \in T /\ n \in all /\ n \in H[l] /\ met(l, n, {})
      /\ \A n : n \in reported <=> \E l : <<l, n>> \in reports
  BY <1>1, WhatIsReported
<1>6. \A f \in T : c \in H[f] => (met(f, c, {}) <=> f = fn)
  BY <1>4, NothingCut, OneFunction
<1> QED BY <1>2, <1>3, <1>5, <1>6

LEMMA SpanerrorsReports ==
    ASSUME PassInv, finished("spanerrors"), NEW fn \in ofRole("func", {"error"})
    PROVE  fn \in reported <=> returnsError(fn) /\ createsSpan(fn) /\ ~recordsError(fn)
<1> DEFINE T == ofRole("func", {"error", "validate"})
           H == [f \in all |-> IF returnsError(f) /\ createsSpan(f) /\ ~recordsError(f) THEN {f} ELSE {}]
<1>1. job = inspect(T, {}, H) /\ applies /\ WalkDone
  BY DEF finished, PassInv, jobOf, spanerrors
<1>2. T \subseteq all /\ fn \in T
  BY Kinds
<1>3. \A f \in T : fn \in H[f] <=> f = fn /\ returnsError(fn) /\ createsSpan(fn) /\ ~recordsError(fn)
  BY <1>2
<1> HIDE DEF T, H
<1>4. /\ \A l, n : <<l, n>> \in reports <=> l \in T /\ n \in all /\ n \in H[l] /\ met(l, n, {})
      /\ \A n : n \in reported <=> \E l : <<l, n>> \in reports
  BY <1>1, WhatIsReported
<1> QED BY <1>2, <1>3, <1>4, NothingCut

\* Ended by a defer: no other thing has the span's name, or some defer means it.
LEMMA DeferredOrNot ==
    ASSUME PassInv, NEW fn \in ofKind("func"), NEW m \in ofKind("make") \intersect below(fn)
    PROVE  /\ ~unreleased(m, {}) => node(m).name \in findDeferred(fn)
           /\ unreleased(m, {}) /\ onlyNamed(fn, m) => node(m).name \notin findDeferred(fn)
<1>1. m \in definitions /\ node(m).kind = "make"
  BY Kinds DEF definitions
<1>2. ASSUME ~unreleased(m, {}) PROVE node(m).name \in findDeferred(fn)
  <2>1. PICK n \in ofKind("defer") : binding(n) = m
    BY <1>2 DEF unreleased
  <2>2. n \in below(fn) /\ node(n).name = node(m).name
    BY <1>1, <2>1, BoundInside, Kinds
  <2> QED BY <2>1, <2>2 DEF findDeferred, names
<1>3. ASSUME unreleased(m, {}), onlyNamed(fn, m), node(m).name \in findDeferred(fn) PROVE FALSE
  <2>1. PICK n \in ofKind("defer") \intersect below(fn) : node(n).name = node(m).name
    BY <1>3 DEF findDeferred, names
  <2>2. n /= m
    BY <1>1, <2>1, Kinds
  <2>3. binding(n) = m
    BY <1>3, <2>1, <2>2 DEF onlyNamed
  <2> QED BY <1>3, <2>1, <2>3 DEF unreleased
<1> QED BY <1>2, <1>3

LEMMA SpanFaults == PassInv => SpanFaultsReported
<1> SUFFICES ASSUME PassInv PROVE SpanFaultsReported
  OBVIOUS
<1>1. ASSUME finished("spanlifecycle"), NEW fn \in ofKind("func"), NEW m \in ofKind("make") \intersect below(fn)
      PROVE  /\ m \in reported => unreleased(m, {})
             /\ unreleased(m, {}) /\ onlyNamed(fn, m) => m \in reported
  BY <1>1, SpanlifecycleReports, DeferredOrNot
<1>2. ASSUME finished("spancontext"), NEW fn \in ofKind("func"),
             NEW c \in (ofKind("call") \union ofKind("defer")) \intersect below(fn),
             binding(c) \in ofKind("fromctx")
      PROVE  c \in reported
  <2>1. binding(c) /= 0
    BY <1>2, FileIsTree, Kinds
  <2>2. binding(c) \in below(fn) /\ node(binding(c)).name = node(c).name
    BY <1>2, <2>1, MeantInside
  <2>3. isSpanFromContextVar(fn, node(c).name)
    BY <1>2, <2>2 DEF isSpanFromContextVar, names
  <2> QED BY <1>2, <2>3, SpancontextReports
<1>3. ASSUME finished("spanerrors"), NEW fn \in ofRole("func", {"error"})
      PROVE  LET inside(kind) == ofKind(kind) \intersect below(fn)
                 errors == {r \in ofRole("return", {"bare"}) : leaves(r) = fn}
             IN  /\ inside("start") /= {} /\ errors /= {} /\ inside("record") = {} => fn \in reported
                 /\ fn \in reported => inside("record") = {} /\ inside("return") /= {}
  <2>1. ASSUME NEW r \in ofRole("return", {"bare"}), leaves(r) = fn PROVE returnsError(fn)
    <3>1. r \in ofKind("return") /\ around(r) \in SUBSET all
      BY Kinds
    <3>2. around(r) /= {}
      BY <3>1 DEF PassInv, IsFile
    <3>3. Max(around(r)) \in around(r)
      BY <3>1, <3>2, Innermost
    <3>4. r \in below(fn)
      BY <2>1, <3>3, Kinds DEF leaves
    <3> QED BY <3>4 DEF returnsError
  <2>2. returnsError(fn) => ofKind("return") \intersect below(fn) /= {}
    BY Kinds DEF returnsError
  <2> QED BY <1>3, <2>1, <2>2, SpanerrorsReports DEF createsSpan, recordsError
<1> QED BY <1>1, <1>2, <1>3 DEF SpanFaultsReported

\* Spans that no defer ends, spans of the context that are ended, and functions that
\* return an error without recording it are reported (spanlifecycle, spancontext,
\* spanerrors), whatever scopes and closures there are in the function.
THEOREM SpanFaultsAlwaysReported == Spec => []SpanFaultsReported
BY PassInit, PassStep, SpanFaults, PTL DEF Spec

\* Spans of different names are as many as their names only if no two share one.
LEMMA NamesApart ==
    ASSUME PassInv, NEW S \in SUBSET all, Cardinality(names(S)) = Cardinality(S),
           NEW a \in S, NEW b \in S, node(a).name = node(b).name
    PROVE  a = b
<1> DEFINE f == [n \in S |-> node(n).name]
<1>1. IsFiniteSet(S)
  <2>1. S \in SUBSET Nat /\ Len(pass.nodes) \in Nat /\ \A s \in S : s <= Len(pass.nodes)
    BY FileIsTree
  <2> QED BY <2>1, FS_BoundedSetOfNaturals
<1>2. f \in Surjection(S, names(S))
  BY DEF Surjection, names
<1>3. f \in Injection(S, names(S))
  BY <1>1, <1>2, FS_SurjSameCardinalityImpliesInj
<1>4. f[a] = f[b]
  OBVIOUS
<1> QED BY <1>3, <1>4 DEF Injection, IsInjective

LEMMA CorrectSilent == PassInv => CorrectFunctionSilent
<1> SUFFICES ASSUME PassInv, pass.analyzer \in {"spanlifecycle", "spancontext"}, WalkDone, NEW fn \in ofKind("func"),
                    \A m \in (definitions \intersect below(fn)) \intersect ofKind("make") : ~unreleased(m, {}),
                    \A e \in (ofKind("call") \union ofKind("defer")) \intersect below(fn) : binding(e) \in ofKind("make"),
                    Cardinality(names(definitions \intersect below(fn))) = Cardinality(definitions \intersect below(fn)),
                    NEW n \in reported \intersect below(fn)
             PROVE  FALSE
  BY DEF CorrectFunctionSilent
<1>1. applies
  BY NothingReported
<1>2. CASE pass.analyzer = "spanlifecycle"
  <2>1. n \in ofKind("make") /\ node(n).name \notin findDeferred(fn)
    BY <1>1, <1>2, SpanlifecycleReports DEF finished
  <2> QED BY <2>1, DeferredOrNot DEF definitions
<1>3. CASE pass.analyzer = "spancontext"
  <2>1. /\ n \in (ofKind("call") \union ofKind("defer")) \intersect below(fn)
        /\ node(n).name = "" \/ isSpanFromContextVar(fn, node(n).name)
    BY <1>1, <1>3, SpancontextReports DEF finished
  <2>2. binding(n) \in ofKind("make") /\ binding(n) /= 0
    <3>1. binding(n) \in ofKind("make")
      BY <2>1
    <3>2. 0 \notin all
      BY FileIsTree
    <3> QED BY <3>1, <3>2, Kinds
  <2>3. binding(n) \in definitions /\ binding(n) \in below(fn) /\ node(binding(n)).name = node(n).name
    BY <2>1, <2>2, MeantInside
  <2>4. isSpanFromContextVar(fn, node(n).name)
    BY <2>1, <2>3 DEF PassInv, IsFile
  <2>5. PICK d \in ofKind("fromctx") \intersect below(fn) : node(d).name = node(n).name
    BY <2>4 DEF isSpanFromContextVar, names
  <2>6. d = binding(n)
    BY <2>3, <2>5, NamesApart, Kinds DEF definitions
  <2> QED BY <2>2, <2>5, <2>6, Kinds
<1> QED BY <1>2, <1>3

\* A function that treats its spans as it should gets no report, whatever is done in the
\* functions beside it (findDeferredEnds of spanlifecycle, isSpanFromContextVar of
\* spancontext).
THEOREM CorrectFunctionAlwaysSilent == Spec => []CorrectFunctionSilent
BY PassInit, PassStep, CorrectSilent, PTL DEF Spec

-----------------------------------------------------------------------------
(* httpdecodeflag, grpcstatus, validationflag, repoerrorflags *)

\* A return leaves a function it is in.
LEMMA Leaves ==
    ASSUME PassInv, NEW r \in ofKind("return")
    PROVE  leaves(r) \in all /\ r \in below(leaves(r))
<1>1. around(r) \in SUBSET all /\ around(r) /= {}
  BY Kinds DEF PassInv, IsFile
<1>2. leaves(r) \in around(r)
  BY <1>1, Innermost DEF leaves
<1> QED BY <1>2, Kinds

LEMMA UnflaggedReturns == PassInv => UnflaggedReturnsReported
<1> SUFFICES ASSUME PassInv PROVE UnflaggedReturnsReported
  OBVIOUS
<1>1. ASSUME finished("httpdecodeflag"), NEW r \in ofRole("return", {"bare", "wrapped"}),
             NEW i \in ofRole("if", {"decode"}), r \in below(i)
      PROVE  r \in reported
  <2> DEFINE T == ofRole("if", {"decode"})
             H == [j \in all |-> ofKind("return") \ ofRole("return", {"flagged"})]
  <2>1. job = inspect(T, {}, H) /\ applies /\ WalkDone
    BY <1>1 DEF finished, PassInv, jobOf, httpdecodeflag
  <2>2. i \in all /\ r \in all /\ i \in T /\ r \in ofKind("return") /\ r \notin ofRole("return", {"flagged"})
    BY Kinds
  <2>3. r \in H[i]
    BY <2>2
  <2> HIDE DEF T, H
  <2>4. <<i, r>> \in reports
    BY <1>1, <2>1, <2>2, <2>3, WhatIsReported, NothingCut
  <2> QED BY <2>1, <2>4, WhatIsReported
<1>2. ASSUME finished("grpcstatus"), NEW r \in ofRole("return", {"bare", "flagged", "wrapped"}),
             node(leaves(r)).role = "grpc"
      PROVE  r \in reported
  <2> DEFINE T == ofRole("func", {"grpc"})
             H == [fn \in all |-> ofKind("return") \ ofRole("return", {"empty", "nil", "status"})]
             f == leaves(r)
  <2>1. job = inspect(T, {}, H) /\ applies /\ WalkDone
    BY <1>2 DEF finished, PassInv, jobOf, grpcstatus
  <2>2. r \in all /\ r \in ofKind("return") /\ r \notin ofRole("return", {"empty", "nil", "status"})
    BY Kinds
  <2>3. f \in all /\ r \in below(f)
    BY <2>2, Leaves
  <2>4. f \in T
    BY <1>2, <2>3, Kinds DEF PassInv, IsFile
  <2>5. r \in H[f]
    BY <2>2, <2>3
  <2> HIDE DEF T, H, f
  <2>6. <<f, r>> \in reports
    BY <2>1, <2>2, <2>3, <2>4, <2>5, WhatIsReported, NothingCut
  <2> QED BY <2>1, <2>6, WhatIsReported
<1>3. ASSUME finished("validationflag"), NEW r \in ofRole("return", {"struct"}),
             node(leaves(r)).role = "validate"
      PROVE  r \in reported
  <2> DEFINE T == ofRole("func", {"validate"})
             H == [fn \in all |-> ofRole("return", {"struct"})]
             f == leaves(r)
  <2>1. job = inspect(T, {}, H) /\ applies /\ WalkDone
    BY <1>3 DEF finished, PassInv, jobOf, validationflag
  <2>2. r \in all /\ r \in ofKind("return")
    BY Kinds
  <2>3. f \in all /\ r \in below(f)
    BY <2>2, Leaves
  <2>4. f \in T
    <3>1. node(f).kind = "func"
      BY <1>3, <2>3 DEF PassInv, IsFile
    <3> QED BY <1>3, <2>3, <3>1, Kinds
  <2>5. r \in H[f]
    BY <2>3
  <2> HIDE DEF T, H, f
  <2>6. <<f, r>> \in reports
    BY <2>1, <2>2, <2>3, <2>4, <2>5, WhatIsReported, NothingCut
  <2> QED BY <2>1, <2>6, WhatIsReported
<1>4. ASSUME finished("repoerrorflags"), NEW i \in ofRole("if", {"expected"}),
             \A r \in ofKind("return") : r \in below(i) => node(r).role = "bare"
      PROVE  i \in reported
  <2> DEFINE T == ofRole("if", {"expected"})
             H == [j \in all |-> IF hasFlagInBody(j) THEN {} ELSE {j}]
  <2>1. job = inspect(T, {}, H) /\ applies /\ WalkDone
    BY <1>4 DEF finished, PassInv, jobOf, repoerrorflags
  <2>2. ~hasFlagInBody(i)
    BY <1>4, Kinds DEF hasFlagInBody
  <2>3. i \in all /\ i \in T /\ i \in H[i]
    BY <2>2, Kinds
  <2> HIDE DEF T, H
  <2>4. <<i, i>> \in reports
    BY <2>1, <2>3, WhatIsReported, NothingCut
  <2> QED BY <2>1, <2>4, WhatIsReported
<1> QED BY <1>1, <1>2, <1>3, <1>4 DEF UnflaggedReturnsReported

\* No unflagged error leaves unreported from where it must be flagged, however deep in
\* branches and closures its return is (httpdecodeflag, grpcstatus, validationflag), and
\* no expected error goes without a flag (hasFlagInBody of repoerrorflags).
THEOREM UnflaggedReturnsAlwaysReported == Spec => []UnflaggedReturnsReported
BY PassInit, PassStep, UnflaggedReturns, PTL DEF Spec

-----------------------------------------------------------------------------
(* spanevents, timeinject, enumcast *)

\* One trigger that reports n, or none.
LEMMA OneReports ==
    ASSUME NEW n, NEW t, \A r \in reports : r = <<r[1], r[2]>>,
           \A s : <<s, n>> \in reports <=> s = t
    PROVE  timesReported(n) = 1
<1>1. {r \in reports : r[2] = n} = {<<t, n>>}
  OBVIOUS
<1> QED BY <1>1, FS_Singleton DEF timesReported

LEMMA NoneReports ==
    ASSUME NEW n, \A r \in reports : r = <<r[1], r[2]>>,
           \A s : <<s, n>> \notin reports
    PROVE  timesReported(n) = 0
<1>1. {r \in reports : r[2] = n} = {}
  OBVIOUS
<1> QED BY <1>1, FS_EmptySet DEF timesReported

\* A node that is in a function is in one only.
LEMMA TopIs ==
    ASSUME PassInv, NEW fn \in ofKind("func"), NEW n \in below(fn)
    PROVE  around(n) \intersect ofKind("func") = {fn}
<1>1. \A f \in around(n) \intersect ofKind("func") : f = fn
  BY OneFunction, Kinds
<1>2. fn \in around(n) \intersect ofKind("func")
  BY Kinds
<1> QED BY <1>1, <1>2

LEMMA LogsOnce ==
    ASSUME PassInv, finished("spanevents"), NEW n \in ofKind("log")
    PROVE  timesReported(n) =
             IF around(n) \intersect ofKind("func") /= {} /\ \E f \in around(n) : node(f).role = "ctx" THEN 1 ELSE 0
<1> DEFINE T == {f \in functions : (around(f) \union {f}) \intersect ofKind("func") /= {}}
           C == ofKind("lit")
           H == [f \in all |-> IF hasContext(f) THEN ofKind("log") ELSE {}]
           top == around(n) \intersect ofKind("func")
           g == Max(around(n))
           seen == top /= {} /\ \E f \in around(n) : node(f).role = "ctx"
<1>1. job = inspect(T, C, H) /\ applies /\ WalkDone
  BY DEF finished, PassInv, jobOf, spanevents
<1>2. n \in all /\ node(n).kind = "log"
  BY Kinds
<1>3. \A t \in T : t \in functions /\ t \in all /\ t /= n /\ (n \in H[t] <=> hasContext(t))
  BY <1>2, Kinds DEF functions
<1>4. \A t \in T : \E f \in (around(t) \union {t}) : f \in ofKind("func")
  OBVIOUS
<1>5. \A t \in functions, f \in ofKind("func") : f \in around(t) \union {t} => t \in T
  OBVIOUS
<1>6. \A t \in functions : n \in below(t) <=> t \in around(n)
  BY DEF around
<1>7. \A a, b \in functions : n \in below(a) /\ b \in around(a) => b \in around(n)
  BY BelowBelow, Kinds DEF around
<1>8. \A a, b \in functions : a \in around(n) /\ b \in around(n) /\ a < b => a \in around(b)
  BY AroundNests, Kinds DEF around
<1>9. \A f \in around(n) : f \in functions /\ f \in all
  BY Kinds DEF around
<1> HIDE DEF T, H
<1>10. /\ \A l, m : <<l, m>> \in reports <=> l \in T /\ m \in all /\ m \in H[l] /\ met(l, m, C)
       /\ \A r \in reports : r = <<r[1], r[2]>>
  BY <1>1, WhatIsReported
<1>11. CASE top = {}
  <2>1. ASSUME NEW t, <<t, n>> \in reports PROVE FALSE
    <3>1. t \in T /\ n \in below(t)
      BY <1>3, <1>10, <2>1 DEF met
    <3>2. PICK f \in around(t) \union {t} : f \in ofKind("func")
      BY <1>4, <3>1
    <3>3. f \in around(n)
      BY <1>3, <1>6, <1>7, <3>1, <3>2 DEF functions
    <3> QED BY <1>11, <3>2, <3>3
  <2> QED BY <1>10, <1>11, <2>1, NoneReports
<1>12. CASE top /= {}
  <2>1. g \in around(n) /\ \A f \in around(n) : f <= g
    <3>1. around(n) \in SUBSET all /\ around(n) /= {}
      BY <1>9, <1>12
    <3> QED BY <3>1, Innermost
  <2>2. \A f \in around(n) : f \in Nat /\ (f /= g => f \in around(g))
    <3>1. \A f \in around(n) : f \in Nat
      BY <1>9, FileIsTree
    <3>2. \A f \in around(n) : f /= g => f < g
      BY <2>1, <3>1
    <3> QED BY <1>8, <1>9, <2>1, <3>1, <3>2
  <2>3. g \in T /\ n \in below(g) /\ g \in functions /\ g \in all
    <3>1. PICK f \in around(n) : f \in ofKind("func")
      BY <1>12
    <3>2. f \in around(g) \union {g}
      BY <2>2, <3>1
    <3> QED BY <1>5, <1>6, <1>9, <2>1, <3>1, <3>2
  <2>4. met(g, n, C)
    <3>1. ASSUME NEW c \in C, c \in below(g), n \in below(c) PROVE FALSE
      <4>1. c \in around(n) /\ c \in all
        BY <1>6, <3>1, Kinds DEF functions
      <4>2. g < c /\ c <= g /\ c \in Nat /\ g \in Nat
        BY <2>1, <2>2, <2>3, <3>1, <4>1, BelowIs
      <4> QED BY <4>2
    <3>2. \A c \in C : c /= n
      BY <1>2, Kinds
    <3> QED BY <2>3, <3>1, <3>2 DEF met
  <2>5. ASSUME NEW t \in T, met(t, n, C), t /= g PROVE FALSE
    <3>1. n \in below(t) /\ \A c \in C : c \in below(t) => n \notin below(c)
      BY <1>3, <2>5 DEF met
    <3>2. t \in around(g) /\ g \in below(t)
      BY <1>3, <1>6, <2>2, <2>5, <3>1, Kinds
    <3>3. g \in C
      BY <2>3, <3>2 DEF functions, PassInv, IsFile
    <3> QED BY <2>3, <3>1, <3>2, <3>3
  <2>6. hasContext(g) <=> \E f \in around(n) : node(f).role = "ctx"
    <3>1. \A f : f \in around(n) <=> f \in around(g) \union {g}
      BY <1>7, <1>9, <2>1, <2>2, <2>3, Kinds DEF around
    <3> QED BY <3>1 DEF hasContext
  <2>7. \A t : <<t, n>> \in reports <=> t = g /\ seen
    BY <1>2, <1>3, <1>10, <1>12, <2>3, <2>4, <2>5, <2>6
  <2> HIDE DEF g
  <2> HIDE DEF seen
  <2>8. ASSUME seen PROVE timesReported(n) = 1
    <3>1. \A t : <<t, n>> \in reports <=> t = g
      BY <2>7, <2>8
    <3>2. \A r \in reports : r = <<r[1], r[2]>>
      BY <1>10
    <3>3. {r \in reports : r[2] = n} = {<<g, n>>}
      BY <3>1, <3>2
    <3> QED BY <3>3, FS_Singleton DEF timesReported
  <2>9. ~seen => timesReported(n) = 0
    BY <1>10, <2>7, NoneReports
  <2> QED BY <2>8, <2>9 DEF seen
<1> QED BY <1>11, <1>12

LEMMA ClocksOnce ==
    ASSUME PassInv, finished("timeinject"), NEW n \in ofKind("clock")
    PROVE  timesReported(n) =
             IF node(n).role = "value" \/ {node(f).role : f \in around(n) \intersect ofKind("func")} = {"clocked"}
             THEN 1 ELSE 0
<1> DEFINE T == ofRole("func", {"clocked"}) \union ofRole("clock", {"value"})
           H == [t \in all |-> IF t \in ofKind("clock") THEN {t} ELSE ofRole("clock", {"call"})]
           top == around(n) \intersect ofKind("func")
           seen == node(n).role = "value" \/ {node(f).role : f \in top} = {"clocked"}
<1>1. job = inspect(T, {}, H) /\ applies /\ WalkDone
  BY DEF finished, PassInv, jobOf, timeinject
<1>2. n \in all /\ node(n).kind = "clock" /\ node(n).role \in {"call", "value"}
  BY Kinds DEF PassInv, IsFile
<1>3. \A t \in T : /\ t \in all
                  /\ \/ node(t).kind = "func" /\ node(t).role = "clocked"
                     \/ node(t).kind = "clock" /\ node(t).role = "value"
  BY Kinds
<1>4. \A t \in T : n \in H[t] <=> IF node(t).kind = "clock" THEN n = t ELSE node(n).role = "call"
  BY <1>2, <1>3, Kinds
<1>5. node(n).role = "value" => n \in T
  BY <1>2, Kinds
<1>6. \A f \in top : node(f).role = "clocked" => f \in T
  BY Kinds
<1> HIDE DEF T, H
<1>7. /\ \A l, m : <<l, m>> \in reports <=> l \in T /\ m \in all /\ m \in H[l] /\ met(l, m, {})
      /\ \A r \in reports : r = <<r[1], r[2]>>
  BY <1>1, WhatIsReported
<1>8. CASE node(n).role = "value"
  <2>1. \A t : <<t, n>> \in reports <=> t = n
    BY <1>2, <1>3, <1>4, <1>5, <1>7, <1>8, NothingCut
  <2>2. timesReported(n) = 1
    BY <1>7, <2>1, OneReports
  <2> QED BY <1>8, <2>2
<1>9. CASE node(n).role = "call"
  <2>1. \A t : <<t, n>> \in reports <=> t \in T /\ node(t).kind = "func" /\ n \in below(t)
    BY <1>2, <1>3, <1>4, <1>7, <1>9, NothingCut
  <2>2. CASE \E t : <<t, n>> \in reports
    <3>1. PICK t : t \in T /\ t \in ofKind("func") /\ n \in below(t) /\ node(t).role = "clocked"
      BY <1>3, <2>1, <2>2, Kinds
    <3>2. top = {t}
      BY <3>1, TopIs
    <3>3. seen
      BY <3>1, <3>2
    <3>4. \A s : <<s, n>> \in reports <=> s = t
      BY <1>3, <2>1, <3>1, OneFunction, Kinds
    <3>5. \A r \in reports : r = <<r[1], r[2]>>
      BY <1>7
    <3>6. {r \in reports : r[2] = n} = {<<t, n>>}
      BY <3>4, <3>5
    <3>7. timesReported(n) = 1
      BY <3>6, FS_Singleton DEF timesReported
    <3> QED BY <3>3, <3>7
  <2>3. CASE ~ \E t : <<t, n>> \in reports
    <3>1. ~seen
      <4> SUFFICES ASSUME seen PROVE FALSE
        OBVIOUS
      <4>1. "clocked" \in {node(f).role : f \in top}
        BY <1>9
      <4>2. PICK f \in top : node(f).role = "clocked"
        BY <4>1
      <4>3. f \in T /\ node(f).kind = "func" /\ n \in below(f)
        BY <1>6, <4>2, Kinds
      <4> QED BY <2>1, <2>3, <4>3
    <3>2. timesReported(n) = 0
      BY <1>7, <2>3, NoneReports
    <3> QED BY <3>1, <3>2
  <2> QED BY <2>2, <2>3
<1> QED BY <1>2, <1>8, <1>9

LEMMA CastsOnce ==
    ASSUME PassInv, finished("enumcast"), NEW n \in ofKind("cast"),
           NEW top, top = [m \in all |-> around(m) \intersect ofKind("func")]
    PROVE  timesReported(n) =
             IF /\ node(n).role = "raw"
                /\ top[n] /= {}
                /\ {node(f).role : f \in top[n]} \intersect {"validate", "mapper"} = {}
                /\ {c \in ofKind("switch") \union ofKind("table") :
                      top[c] = top[n] /\ (node(c).kind = "switch" \/ node(c).name = node(n).name)} = {}
             THEN 1 ELSE 0
<1> DEFINE T == {fn \in ofKind("func") \ ofRole("func", {"validate", "mapper"}) : ~funcHasSwitch(fn)}
           H == [fn \in all |-> {c \in ofRole("cast", {"raw"}) : ~funcHasMapperMap(fn, node(c).name)}]
           checks == {c \in ofKind("switch") \union ofKind("table") :
                        top[c] = top[n] /\ (node(c).kind = "switch" \/ node(c).name = node(n).name)}
           seen == /\ node(n).role = "raw"
                   /\ top[n] /= {}
                   /\ {node(f).role : f \in top[n]} \intersect {"validate", "mapper"} = {}
                   /\ checks = {}
           reads(t) == /\ node(n).role = "raw" /\ n \in below(t)
                       /\ node(t).role \notin {"validate", "mapper"}
                       /\ ~funcHasSwitch(t) /\ ~funcHasMapperMap(t, node(n).name)
<1>1. job = inspect(T, {}, H) /\ applies /\ WalkDone
  BY DEF finished, PassInv, jobOf, enumcast
<1>2. n \in all /\ node(n).kind = "cast"
  BY Kinds
<1>3. \A t : t \in T <=> t \in ofKind("func") /\ node(t).role \notin {"validate", "mapper"} /\ ~funcHasSwitch(t)
  BY Kinds
<1>4. \A t \in T : t \in all /\ t /= n
             /\ (n \in H[t] <=> node(n).role = "raw" /\ ~funcHasMapperMap(t, node(n).name))
  BY <1>2, Kinds
<1> HIDE DEF T, H
<1>5. /\ \A l, m : <<l, m>> \in reports <=> l \in T /\ m \in all /\ m \in H[l] /\ met(l, m, {})
      /\ \A r \in reports : r = <<r[1], r[2]>>
  BY <1>1, WhatIsReported
<1>6. \A t : <<t, n>> \in reports <=> t \in ofKind("func") /\ reads(t)
  BY <1>2, <1>3, <1>4, <1>5, NothingCut
<1>7. ASSUME NEW t \in ofKind("func"), n \in below(t)
      PROVE  /\ top[n] = {t}
             /\ checks = {} <=> ~funcHasSwitch(t) /\ ~funcHasMapperMap(t, node(n).name)
  <2>1. top[n] = {t}
    BY <1>2, <1>7, TopIs
  <2>2. ASSUME NEW c \in all PROVE top[c] = {t} <=> c \in below(t)
    <3>1. c \in below(t) => top[c] = {t}
      BY TopIs
    <3>2. top[c] = {t} => t \in around(c)
      OBVIOUS
    <3> QED BY <3>1, <3>2, Kinds
  <2>3. funcHasSwitch(t) <=> \E c \in ofKind("switch") : top[c] = {t}
    BY <2>2, Kinds DEF funcHasSwitch
  <2>4. funcHasMapperMap(t, node(n).name) <=> \E c \in ofKind("table") : top[c] = {t} /\ node(c).name = node(n).name
    BY <2>2, Kinds DEF funcHasMapperMap
  <2>5. checks = {} <=> /\ ~ \E c \in ofKind("switch") : top[c] = {t}
                       /\ ~ \E c \in ofKind("table") : top[c] = {t} /\ node(c).name = node(n).name
    BY <2>1, Kinds
  <2> QED BY <2>1, <2>3, <2>4, <2>5
<1> HIDE DEF checks
<1>8. ASSUME NEW t \in ofKind("func"), n \in below(t)
      PROVE  seen <=> reads(t)
  <2>1. {node(f).role : f \in top[n]} = {node(t).role}
    BY <1>7, <1>8
  <2> QED BY <1>7, <1>8, <2>1
<1>9. CASE top[n] = {}
  <2>1. \A t \in ofKind("func") : n \notin below(t)
    BY <1>7, <1>9
  <2>2. \A t : ~ (<<t, n>> \in reports)
    BY <1>6, <2>1
  <2>3. timesReported(n) = 0
    BY <1>5, <2>2, NoneReports
  <2> QED BY <1>9, <2>3
<1>10. CASE top[n] /= {}
  <2>1. PICK t : t \in ofKind("func") /\ n \in below(t)
    BY <1>2, <1>10, Kinds
  <2>3. \A s : s \in ofKind("func") /\ n \in below(s) => s = t
    BY <2>1, OneFunction
  <2>4. \A s : <<s, n>> \in reports <=> s = t /\ seen
    BY <1>6, <1>8, <2>1, <2>3
  <2> HIDE DEF seen
  <2>5. ASSUME seen PROVE timesReported(n) = 1
    <3>1. \A s : <<s, n>> \in reports <=> s = t
      BY <2>4, <2>5
    <3>2. \A r \in reports : r = <<r[1], r[2]>>
      BY <1>5
    <3>3. {r \in reports : r[2] = n} = {<<t, n>>}
      BY <3>1, <3>2
    <3> QED BY <3>3, FS_Singleton DEF timesReported
  <2>6. ~seen => timesReported(n) = 0
    BY <1>5, <2>4, NoneReports
  <2> QED BY <2>5, <2>6 DEF seen, checks
<1> QED BY <1>9, <1>10

LEMMA CallsOnce == PassInv => CallsReportedOnce
<1> SUFFICES ASSUME PassInv PROVE CallsReportedOnce
  OBVIOUS
<1>1. ASSUME finished("enumcast"), NEW n \in ofKind("cast")
      PROVE  timesReported(n) =
               IF /\ node(n).role = "raw"
                  /\ around(n) \intersect ofKind("func") /= {}
                  /\ {node(f).role : f \in around(n) \intersect ofKind("func")} \intersect {"validate", "mapper"} = {}
                  /\ {c \in ofKind("switch") \union ofKind("table") :
                        /\ around(c) \intersect ofKind("func") = around(n) \intersect ofKind("func")
                        /\ node(c).kind = "switch" \/ node(c).name = node(n).name} = {}
               THEN 1 ELSE 0
  <2> DEFINE top == [m \in all |-> around(m) \intersect ofKind("func")]
  <2>2. top[n] = around(n) \intersect ofKind("func")
        /\ \A c \in ofKind("switch") \union ofKind("table") : top[c] = around(c) \intersect ofKind("func")
    BY Kinds
  <2>3. {c \in ofKind("switch") \union ofKind("table") :
            top[c] = top[n] /\ (node(c).kind = "switch" \/ node(c).name = node(n).name)} =
        {c \in ofKind("switch") \union ofKind("table") :
            /\ around(c) \intersect ofKind("func") = around(n) \intersect ofKind("func")
            /\ node(c).kind = "switch" \/ node(c).name = node(n).name}
    BY <2>2
  <2>4. timesReported(n) =
             IF /\ node(n).role = "raw"
                /\ top[n] /= {}
                /\ {node(f).role : f \in top[n]} \intersect {"validate", "mapper"} = {}
                /\ {c \in ofKind("switch") \union ofKind("table") :
                      top[c] = top[n] /\ (node(c).kind = "switch" \/ node(c).name = node(n).name)} = {}
             THEN 1 ELSE 0
    BY <1>1, CastsOnce
  <2> HIDE DEF top
  <2> QED BY <2>2, <2>3, <2>4
<1> QED BY <1>1, LogsOnce, ClocksOnce, Zenon DEF CallsReportedOnce

\* Log calls, clock reads and conversions are reported exactly where they should be and
\* never twice, however deep in closures they are (walk of spanevents, run of timeinject
\* and enumcast).
THEOREM CallsAlwaysReportedOnce == Spec => []CallsReportedOnce
BY PassInit, PassStep, CallsOnce, PTL DEF Spec
-----------------------------------------------------------------------------
(* The type of a field (oteltags): whatever leads back to what, the recursion counts   *)
(* lists twice only where they go in a circle.                                        *)

LEMMA FieldIs ==
    ASSUME field \in Fields
    PROVE  /\ field.tag \subseteq {"skip", "omitempty", "upper"}
           /\ IsFiniteSet(DOMAIN field.types)
           /\ field.type \in DOMAIN field.types
           /\ \A t \in DOMAIN field.types :
                 /\ kindOf(t) \in containers \union {"map", "struct", "alias", "basic"}
                 /\ kindOf(t) \in containers => elem(t) \in DOMAIN field.types
                 /\ has(t, "time") => kindOf(elem(t)) = "struct"
BY FieldsAssumption DEF kindOf, elem, has

\* What a type holds: itself, with any container what it is made of, and nothing else.
LEMMA HeldSelf ==
    ASSUME NEW t \in DOMAIN field.types
    PROVE  t \in heldBy(t)
BY DEF heldBy

LEMMA HeldTyped ==
    ASSUME NEW t
    PROVE  heldBy(t) \subseteq DOMAIN field.types
BY DEF heldBy

LEMMA HeldNext ==
    ASSUME field \in Fields, NEW t, NEW s \in heldBy(t), kindOf(s) \in containers
    PROVE  elem(s) \in heldBy(t)
<1>1. elem(s) \in DOMAIN field.types
  BY FieldIs, HeldTyped
<1> QED BY <1>1 DEF heldBy, closed

LEMMA HeldLeast ==
    ASSUME NEW t, NEW S \in SUBSET DOMAIN field.types, t \in S, closed(S)
    PROVE  heldBy(t) \subseteq S
BY DEF heldBy

LEMMA HeldWithin ==
    ASSUME field \in Fields, NEW t, NEW r \in heldBy(t)
    PROVE  heldBy(r) \subseteq heldBy(t)
<1>1. closed(heldBy(t))
  BY HeldNext DEF closed
<1> QED BY <1>1, HeldTyped, HeldLeast

LEMMA HeldEnd ==
    ASSUME NEW t \in DOMAIN field.types, kindOf(t) \notin containers
    PROVE  heldBy(t) = {t}
<1>1. closed({t})
  BY DEF closed
<1> QED BY <1>1, HeldSelf, HeldLeast

LEMMA HeldAfter ==
    ASSUME field \in Fields, NEW r \in DOMAIN field.types, NEW s \in heldBy(r), s /= r
    PROVE  kindOf(r) \in containers /\ s \in heldBy(elem(r))
<1>1. kindOf(r) \in containers
  BY HeldEnd
<1>2. elem(r) \in DOMAIN field.types
  BY <1>1, FieldIs
<1>3. closed({r} \union heldBy(elem(r)))
  BY <1>2, HeldNext, HeldSelf DEF closed
<1>4. {r} \union heldBy(elem(r)) \in SUBSET DOMAIN field.types
  BY HeldTyped
<1>5. heldBy(r) \subseteq {r} \union heldBy(elem(r))
  BY <1>3, <1>4, HeldLeast
<1> QED BY <1>1, <1>5

\* From a type on a circle everything leads back to it.
LEMMA CircleIsAll ==
    ASSUME field \in Fields, NEW s \in DOMAIN field.types, kindOf(s) \in containers,
           s \in heldBy(elem(s)), NEW r \in heldBy(s)
    PROVE  s \in heldBy(r)
<1> DEFINE C == {q \in DOMAIN field.types : s \in heldBy(q)}
<1>1. s \in C
  BY HeldSelf
<1>2. closed(C)
  <2> SUFFICES ASSUME NEW q \in C, kindOf(q) \in containers PROVE elem(q) \in C
    BY DEF closed
  <2>1. elem(q) \in DOMAIN field.types
    BY FieldIs
  <2>2. s \in heldBy(elem(q))
    BY HeldAfter
  <2> QED BY <2>1, <2>2
<1>3. C \in SUBSET DOMAIN field.types
  OBVIOUS
<1> HIDE DEF C
<1>4. heldBy(s) \subseteq C
  BY <1>1, <1>2, <1>3, HeldLeast
<1> QED BY <1>4 DEF C

\* The loop of isTimeType has taken pointers off only.
Stripped ==
    /\ type \in heldBy(field.type)
    /\ \E P \in SUBSET DOMAIN field.types :
          /\ \A p \in P : kindOf(p) = "pointer" /\ elem(p) \in P \union {type}
          /\ field.type \in P \union {type}

\* V is what the recursion has been at: nothing that decides, all of it leads to where
\* it is now.  The lists in it are counted, more than once only on a circle.
Visited(V) ==
    /\ \A v \in V : /\ kindOf(v) \in containers /\ ~isStruct(v)
                    /\ elem(v) \in V \union {type} /\ type \in heldBy(elem(v))
    /\ field.type \in V \union {type}
    /\ Cardinality(lists(field.type) \intersect V) <= depth
    /\ \/ depth <= Cardinality(lists(field.type) \intersect V)
       \/ cycle(field.type) \intersect lists(field.type) /= {}

Walked ==
    /\ type \in heldBy(field.type)
    /\ ~ownAttributes(field.type)
    /\ \E V \in SUBSET heldBy(field.type) : Visited(V)

AttrInv ==
    /\ phase \in {"idle", "strip", "walk", "done"}
    /\ phase \in {"strip", "walk"} => /\ field \in Fields /\ depth \in Nat
                                      /\ ~field.embedded /\ "skip" \notin field.tag
                                      /\ "type" \notin faults
    /\ phase = "strip" => Stripped /\ depth = 0
    /\ phase = "walk" => Walked
    /\ AttrVerdictExact

\* The field stays, and with it all that is said of its types.
LEMMA FieldStays ==
    ASSUME field' = field
    PROVE  /\ \A t : heldBy(t)' = heldBy(t) /\ lists(t)' = lists(t) /\ cycle(t)' = cycle(t)
           /\ \A t : kindOf(t)' = kindOf(t) /\ elem(t)' = elem(t) /\ (isStruct(t)' <=> isStruct(t))
           /\ \A t : (ownAttributes(t)' <=> ownAttributes(t)) /\ (unbounded(t)' <=> unbounded(t))
           /\ field'.type = field.type
<1>1. \A t : heldBy(t)' = heldBy(t)
  BY DEF heldBy, closed, kindOf, elem
<1>2. \A t : kindOf(t)' = kindOf(t) /\ elem(t)' = elem(t) /\ (isStruct(t)' <=> isStruct(t))
  BY DEF isStruct, kindOf, elem
<1>3. \A t : lists(t)' = lists(t)
  BY <1>1, <1>2 DEF lists
<1>4. \A t : cycle(t)' = cycle(t)
  BY <1>1, <1>2 DEF cycle
<1>5. \A t : ownAttributes(t)' <=> ownAttributes(t)
  BY <1>1, <1>2 DEF ownAttributes, has, pointsTo, kindOf, elem
<1>6. \A t : unbounded(t)' <=> unbounded(t)
  BY <1>1, <1>2, <1>3, <1>4 DEF unbounded
<1> QED BY <1>1, <1>2, <1>3, <1>4, <1>5, <1>6

LEMMA AttrInitInv == AttrInit \/ AttrIdle => AttrInv
<1>1. CASE AttrIdle
  BY <1>1 DEF AttrIdle, AttrInv, AttrVerdictExact
<1>2. CASE AttrInit
  <2>1. field \in Fields /\ depth = 0 /\ type = field.type /\ "type" \notin faults
    BY <1>2, FieldIs DEF AttrInit
  <2>2. phase = IF field.embedded \/ "skip" \in field.tag THEN "done" ELSE "strip"
    BY <1>2 DEF AttrInit
  <2>3. Stripped
    <3>1. type \in heldBy(field.type)
      BY <2>1, HeldSelf, FieldIs
    <3>2. {} \in SUBSET DOMAIN field.types /\ field.type \in {} \union {type}
      BY <2>1
    <3> QED BY <3>1, <3>2 DEF Stripped
  <2> QED BY <2>1, <2>2, <2>3 DEF AttrInv, AttrVerdictExact
<1> QED BY <1>1, <1>2

LEMMA StripStep ==
    ASSUME AttrInv, StripPointer
    PROVE  AttrInv'
<1>1. /\ phase = "strip" /\ field \in Fields /\ kindOf(type) = "pointer" /\ type' = elem(type)
      /\ Stripped /\ UNCHANGED <<field, phase, depth, faults>>
  BY DEF StripPointer, AttrInv
<1>2. elem(type) \in heldBy(field.type)
  BY <1>1, HeldNext DEF Stripped, containers
<1>3. PICK P \in SUBSET DOMAIN field.types :
         /\ \A p \in P : kindOf(p) = "pointer" /\ elem(p) \in P \union {type}
         /\ field.type \in P \union {type}
  BY <1>1 DEF Stripped
<1> DEFINE Q == P \union {type}
<1>4. Q \in SUBSET DOMAIN field.types
  BY <1>1, HeldTyped DEF Stripped
<1>5. \A p \in Q : kindOf(p) = "pointer" /\ elem(p) \in Q \union {type'}
  BY <1>1, <1>3
<1>6. field.type \in Q \union {type'}
  BY <1>3
<1>7. Stripped'
  <2> HIDE DEF Q
  <2> QED BY <1>1, <1>2, <1>4, <1>5, <1>6, FieldStays DEF Stripped
<1> QED BY <1>1, <1>7, FieldStays DEF AttrInv, AttrVerdictExact

\* What the loop ends at decides whether the field's type is time.Time behind pointers.
LEMMA StrippedIsTime ==
    ASSUME field \in Fields, Stripped, kindOf(type) /= "pointer"
    PROVE  LET t == field.type IN
           ownAttributes(t) <=>
              has(type, "time") \/ implementsScalar(t) \/ definesTraceAttributes(t)
<1> DEFINE t == field.type
<1>1. PICK P \in SUBSET DOMAIN field.types :
         /\ \A p \in P : kindOf(p) = "pointer" /\ elem(p) \in P \union {type}
         /\ t \in P \union {type}
  BY DEF Stripped
<1>2. type \in heldBy(t) /\ type \in DOMAIN field.types
  BY HeldTyped DEF Stripped
<1>3. heldBy(t) \subseteq P \union heldBy(type)
  <2>1. closed(P \union heldBy(type))
    BY <1>1, <1>2, HeldNext, HeldSelf DEF closed
  <2>2. P \union heldBy(type) \in SUBSET DOMAIN field.types /\ t \in P \union heldBy(type)
    BY <1>1, <1>2, HeldTyped, HeldSelf
  <2> QED BY <2>1, <2>2, HeldLeast
<1>4. ASSUME has(type, "time")
      PROVE  ownAttributes(t)
  <2>1. kindOf(type) = "named" /\ kindOf(elem(type)) = "struct" /\ elem(type) \in DOMAIN field.types
    BY <1>2, <1>4, FieldIs DEF has, containers
  <2>2. heldBy(elem(type)) = {elem(type)}
    BY <2>1, HeldEnd DEF containers
  <2>3. ASSUME NEW r \in heldBy(t), type \in heldBy(r), type /= r
        PROVE  kindOf(r) = "pointer"
    <3>1. CASE r \in P
      BY <1>1, <3>1
    <3>2. CASE r \in heldBy(type)
      <4>1. r \in heldBy(elem(type))
        BY <1>2, <2>3, <3>2, HeldAfter
      <4>2. r = elem(type)
        BY <2>2, <4>1
      <4> QED BY <2>1, <2>2, <2>3, <4>2
    <3> QED BY <1>3, <3>1, <3>2
  <2> QED BY <1>2, <1>4, <2>3 DEF ownAttributes
<1>5. ASSUME NEW s \in heldBy(t), has(s, "time"),
             \A r \in heldBy(t) : s \in heldBy(r) /\ s /= r => kindOf(r) = "pointer"
      PROVE  has(type, "time")
  <2>1. s \notin P
    BY <1>1, <1>5 DEF has
  <2>2. s \in heldBy(type)
    BY <1>3, <2>1
  <2> QED BY <1>2, <1>5, <2>2
<1>6. has(t, "time") \/ pointsTo(t, "time") => has(type, "time")
  <2>1. ASSUME has(t, "time") PROVE has(type, "time")
    BY <1>1, <2>1 DEF has
  <2>2. ASSUME pointsTo(t, "time") PROVE has(type, "time")
    <3>1. t \in P
      BY <1>1, <2>2 DEF pointsTo
    <3>2. elem(t) \in P \union {type} /\ kindOf(elem(t)) = "named"
      BY <1>1, <2>2, <3>1 DEF pointsTo, has
    <3> QED BY <1>1, <2>2, <3>2 DEF pointsTo
  <2> QED BY <2>1, <2>2
<1> HIDE DEF t
<1>7. ownAttributes(t) <=>
         has(type, "time") \/ implementsScalar(t) \/ definesTraceAttributes(t)
  <2>1. implementsScalar(t) <=> has(t, "value") \/ pointsTo(t, "value") \/ pointsTo(t, "pointer")
    BY DEF implementsScalar
  <2>2. definesTraceAttributes(t) <=>
           \/ has(t, "traces") \/ pointsTo(t, "traces")
           \/ kindOf(t) = "pointer" /\ (pointsTo(elem(t), "traces") \/ pointsTo(elem(t), "ptrTraces"))
    BY DEF definesTraceAttributes, LookupTraceAttributes, has, pointsTo
  <2>3. ASSUME implementsScalar(t) \/ definesTraceAttributes(t) PROVE ownAttributes(t)
    BY <2>1, <2>2, <2>3 DEF ownAttributes
  <2>4. ASSUME ownAttributes(t)
        PROVE  has(type, "time") \/ implementsScalar(t) \/ definesTraceAttributes(t)
    <3>1. CASE \E m \in {"time", "value", "traces"} : has(t, m) \/ pointsTo(t, m)
      BY <1>6, <2>1, <2>2, <3>1
    <3>2. CASE pointsTo(t, "pointer")
      BY <2>1, <3>2
    <3>3. CASE \E s \in heldBy(t) :
                  /\ has(s, "time")
                  /\ \A r \in heldBy(t) : s \in heldBy(r) /\ s /= r => kindOf(r) = "pointer"
      BY <1>5, <3>3
    <3>4. CASE kindOf(t) = "pointer" /\ \E m \in {"traces", "ptrTraces"} : pointsTo(elem(t), m)
      BY <2>2, <3>4
    <3> QED BY <2>4, <3>1, <3>2, <3>3, <3>4 DEF ownAttributes
  <2> QED BY <1>4, <2>3, <2>4
<1> QED BY <1>7 DEF t

LEMMA ExemptStep ==
    ASSUME AttrInv, ExemptOrWalk
    PROVE  AttrInv'
<1> DEFINE exempt == \/ has(type, "time") \/ implementsScalar(field.type)
                     \/ definesTraceAttributes(field.type)
<1>1. /\ phase = "strip" /\ field \in Fields /\ kindOf(type) /= "pointer" /\ type' = field.type
      /\ phase' = IF exempt THEN "done" ELSE "walk"
      /\ Stripped /\ depth = 0 /\ UNCHANGED <<field, depth, faults>>
      /\ ~field.embedded /\ "skip" \notin field.tag /\ "type" \notin faults
  BY DEF ExemptOrWalk, AttrInv
<1>2. ownAttributes(field.type) <=> exempt
  BY <1>1, StrippedIsTime
<1> HIDE DEF exempt
<1>3. CASE exempt
  BY <1>1, <1>2, <1>3, FieldStays DEF AttrInv, AttrVerdictExact
<1>4. CASE ~exempt
  <2>1. type' \in heldBy(field.type)
    BY <1>1, FieldIs, HeldSelf
  <2>2. {} \in SUBSET heldBy(field.type) /\ Visited({})'
    <3>1. lists(field.type) \intersect {} = {} /\ Cardinality({}) = 0
      BY FS_EmptySet
    <3> QED BY <1>1, <3>1, FieldStays DEF Visited
  <2>3. Walked'
    BY <1>1, <1>2, <1>4, <2>1, <2>2, FieldStays DEF Walked
  <2> QED BY <1>1, <1>4, <2>3 DEF AttrInv, AttrVerdictExact
<1> QED BY <1>3, <1>4

LEMMA ListsFinite ==
    ASSUME field \in Fields, NEW t, NEW S \in SUBSET lists(t)
    PROVE  /\ IsFiniteSet(S) /\ Cardinality(S) \in Nat
           /\ IsFiniteSet(lists(t)) /\ Cardinality(lists(t)) \in Nat
           /\ Cardinality(S) <= Cardinality(lists(t))
<1>1. lists(t) \subseteq DOMAIN field.types
  BY HeldTyped DEF lists
<1>2. IsFiniteSet(lists(t))
  BY <1>1, FieldIs, FS_Subset
<1> QED BY <1>2, FS_Subset, FS_CardinalityType

\* What is called bad can really not be recorded.
LEMMA BadIsUnbounded ==
    ASSUME field \in Fields, depth \in Nat, Walked, bad
    PROVE  unbounded(field.type)
<1>1. type \in heldBy(field.type)
  BY DEF Walked
<1>2. CASE depth > 2
  <2>1. PICK V \in SUBSET heldBy(field.type) : Visited(V)
    BY DEF Walked
  <2>2. CASE depth <= Cardinality(lists(field.type) \intersect V)
    <3> DEFINE S == lists(field.type) \intersect V
    <3>1. S \in SUBSET lists(field.type)
      OBVIOUS
    <3>2. /\ Cardinality(S) \in Nat /\ Cardinality(lists(field.type)) \in Nat
          /\ Cardinality(S) <= Cardinality(lists(field.type))
      BY <3>1, ListsFinite
    <3>3. depth <= Cardinality(S)
      BY <2>2
    <3> HIDE DEF S
    <3>4. Cardinality(lists(field.type)) > 2
      BY <1>2, <3>2, <3>3
    <3> QED BY <3>4 DEF unbounded
  <2>3. CASE cycle(field.type) \intersect lists(field.type) /= {}
    BY <2>3 DEF unbounded
  <2> QED BY <2>1, <2>2, <2>3 DEF Visited
<1>3. CASE isStruct(type) \/ kindOf(type) = "map"
  BY <1>1, <1>3 DEF unbounded
<1>4. CASE kindOf(type) = "pointer" /\ isStruct(elem(type))
  <2>1. elem(type) \in heldBy(field.type)
    BY <1>1, <1>4, HeldNext DEF containers
  <2> QED BY <1>4, <2>1 DEF unbounded
<1> QED BY <1>2, <1>3, <1>4 DEF bad

\* At a type that holds no other the recursion has been at all of them.
LEMMA GoodIsBounded ==
    ASSUME field \in Fields, depth \in Nat, Walked, good
    PROVE  ~unbounded(field.type)
<1>1. type \in heldBy(field.type) /\ type \in DOMAIN field.types
  BY HeldTyped DEF Walked
<1>2. PICK V \in SUBSET heldBy(field.type) : Visited(V)
  BY DEF Walked
<1>3. kindOf(type) \in {"basic", "struct", "alias"} /\ ~(depth > 2)
  BY DEF good, bad
<1>4. heldBy(field.type) \subseteq V \union {type}
  <2>1. closed(V \union {type})
    BY <1>2, <1>3 DEF closed, Visited, containers
  <2>2. V \union {type} \in SUBSET DOMAIN field.types /\ field.type \in V \union {type}
    BY <1>1, <1>2, HeldTyped DEF Visited
  <2> QED BY <2>1, <2>2, HeldLeast
<1>5. \A s \in heldBy(field.type) : kindOf(s) /= "map" /\ ~isStruct(s)
  BY <1>2, <1>3, <1>4 DEF Visited, containers, isStruct
<1>6. Cardinality(lists(field.type)) <= 2
  <2>1. lists(field.type) \intersect V = lists(field.type)
    BY <1>3, <1>4 DEF lists
  <2>2. Cardinality(lists(field.type)) <= depth
    BY <1>2, <2>1 DEF Visited
  <2>3. Cardinality(lists(field.type)) \in Nat
    BY ListsFinite
  <2> QED BY <1>3, <2>2, <2>3
<1>7. ASSUME NEW s \in cycle(field.type)
      PROVE  FALSE
  <2>1. s \in heldBy(field.type) /\ kindOf(s) \in containers /\ s \in heldBy(elem(s))
    BY <1>7 DEF cycle
  <2>2. s \in V /\ s \in DOMAIN field.types /\ s /= type
    BY <1>3, <1>4, <2>1, HeldTyped DEF containers
  <2>3. type \in heldBy(elem(s))
    BY <1>2, <2>2 DEF Visited
  <2>4. elem(s) \in heldBy(s)
    BY <2>1, <2>2, HeldSelf, HeldNext
  <2>5. type \in heldBy(s)
    BY <2>3, <2>4, HeldWithin
  <2>6. s \in heldBy(type)
    BY <2>1, <2>2, <2>5, CircleIsAll
  <2>7. heldBy(type) = {type}
    BY <1>1, <1>3, HeldEnd DEF containers
  <2> QED BY <2>2, <2>6, <2>7
<1>8. Cardinality(lists(field.type)) \in Nat
  BY ListsFinite
<1> QED BY <1>5, <1>6, <1>7, <1>8 DEF unbounded

LEMMA ConcludeStep ==
    ASSUME AttrInv, Conclude
    PROVE  AttrInv'
<1>1. /\ phase = "walk" /\ (bad \/ good) /\ phase' = "done"
      /\ faults' = faults \union (IF bad THEN {"type"} ELSE {})
      /\ field' = field
  BY DEF Conclude
<1>2. /\ field \in Fields /\ depth \in Nat /\ Walked /\ ~ownAttributes(field.type)
      /\ ~field.embedded /\ "skip" \notin field.tag /\ "type" \notin faults
  BY <1>1 DEF AttrInv, Walked
<1>3. "type" \in faults' <=> bad
  BY <1>1, <1>2
<1>4. bad <=> unbounded(field.type)
  BY <1>1, <1>2, BadIsUnbounded, GoodIsBounded
<1> QED BY <1>1, <1>2, <1>3, <1>4, FieldStays DEF AttrInv, AttrVerdictExact

\* One step down: a list met again is on a circle, a new one is counted.
LEMMA DescendStep ==
    ASSUME AttrInv, Descend
    PROVE  AttrInv'
<1> DEFINE t == field.type
           isList == kindOf(type) \in {"slice", "array"}
<1>1. /\ phase = "walk" /\ ~bad /\ ~good /\ type' = elem(type)
      /\ depth' = depth + (IF isList THEN 1 ELSE 0)
      /\ UNCHANGED <<field, phase, faults>>
      /\ field \in Fields /\ depth \in Nat /\ Walked
  BY DEF Descend, AttrInv
<1>2. type \in heldBy(t) /\ type \in DOMAIN field.types
  BY <1>1, HeldTyped DEF Walked
<1>3. kindOf(type) \in containers /\ ~isStruct(type)
  BY <1>1, <1>2, FieldIs DEF bad, good
<1>4. elem(type) \in heldBy(t) /\ elem(type) \in DOMAIN field.types
  BY <1>1, <1>2, <1>3, HeldNext, HeldTyped
<1>5. PICK V \in SUBSET heldBy(t) : Visited(V)
  BY <1>1 DEF Walked
<1>6. PICK W \in SUBSET heldBy(t) : W = V \union {type}
  BY <1>2, <1>5
<1>7. \A v \in W : /\ kindOf(v) \in containers /\ ~isStruct(v)
                   /\ elem(v) \in W \union {type'} /\ type' \in heldBy(elem(v))
  <2>1. ASSUME NEW v \in V
        PROVE  elem(type) \in heldBy(elem(v))
    <3>1. type \in heldBy(elem(v))
      BY <1>5 DEF Visited
    <3> QED BY <1>1, <1>3, <3>1, HeldNext
  <2>2. elem(type) \in heldBy(elem(type))
    BY <1>4, HeldSelf
  <2> QED BY <1>1, <1>3, <1>5, <1>6, <2>1, <2>2 DEF Visited
<1>8. t \in W \union {type'}
  BY <1>5, <1>6 DEF Visited
<1> DEFINE before == lists(t) \intersect V
           now    == lists(t) \intersect W
<1>9. /\ IsFiniteSet(before) /\ Cardinality(before) \in Nat
      /\ IsFiniteSet(now) /\ Cardinality(now) \in Nat
  BY <1>1, ListsFinite
<1>10. type \in lists(t) <=> isList
  BY <1>2 DEF lists
<1>11. /\ Cardinality(before) <= depth
       /\ depth <= Cardinality(before) \/ cycle(t) \intersect lists(t) /= {}
  BY <1>5 DEF Visited
<1>12. /\ Cardinality(now) <= depth'
       /\ depth' <= Cardinality(now) \/ cycle(t) \intersect lists(t) /= {}
  <2>1. CASE ~isList
    <3>1. now = before
      BY <1>6, <1>10, <2>1
    <3>2. depth' = depth
      BY <1>1, <2>1
    <3> HIDE DEF now, before
    <3> QED BY <1>11, <3>1, <3>2
  <2>2. CASE isList /\ type \in V
    <3>1. now = before
      BY <1>6, <2>2
    <3>2. depth' = depth + 1
      BY <1>1, <2>2
    <3>3. type \in heldBy(elem(type))
      BY <1>5, <2>2 DEF Visited
    <3>4. type \in cycle(t) \intersect lists(t)
      BY <1>2, <1>3, <1>10, <2>2, <3>3 DEF cycle
    <3> HIDE DEF now, before
    <3> QED BY <1>1, <1>9, <1>11, <3>1, <3>2, <3>4
  <2>3. CASE isList /\ type \notin V
    <3>1. now = before \union {type} /\ type \notin before
      BY <1>6, <1>10, <2>3
    <3>2. depth' = depth + 1
      BY <1>1, <2>3
    <3> HIDE DEF now, before
    <3>3. Cardinality(now) = Cardinality(before) + 1
      BY <1>9, <3>1, FS_AddElement
    <3> QED BY <1>1, <1>9, <1>11, <3>2, <3>3
  <2> QED BY <2>1, <2>2, <2>3
<1> HIDE DEF t, now, before
<1>13. Visited(W)'
  <2>1. field'.type = t /\ (\A v : (isStruct(v)' <=> isStruct(v)) /\ kindOf(v)' = kindOf(v))
        /\ \A v : elem(v)' = elem(v) /\ heldBy(v)' = heldBy(v) /\ lists(v)' = lists(v) /\ cycle(v)' = cycle(v)
    BY <1>1, FieldStays DEF t
  <2>2. \A v \in W : /\ kindOf(v)' \in containers /\ ~isStruct(v)'
                     /\ elem(v)' \in W \union {type'} /\ type' \in heldBy(elem(v))'
    <3>1. \A v : heldBy(elem(v))' = heldBy(elem(v))
      BY <1>1 DEF heldBy, closed, kindOf, elem
    <3> QED BY <1>7, <2>1, <3>1
  <2>3. /\ (Cardinality(lists(field.type) \intersect W) <= depth)'
        /\ (\/ depth <= Cardinality(lists(field.type) \intersect W)
            \/ cycle(field.type) \intersect lists(field.type) /= {})'
    <3>1. lists(field.type)' = lists(t) /\ cycle(field.type)' = cycle(t)
      BY <1>1, <2>1 DEF t, lists, cycle, heldBy, closed, kindOf, elem
    <3> QED BY <1>12, <3>1 DEF now
  <2> QED BY <1>8, <2>1, <2>2, <2>3 DEF Visited
<1>14. Walked'
  <2>1. ~ownAttributes(t)
    BY <1>1 DEF Walked, t
  <2>2. heldBy(field.type)' = heldBy(t)
    BY <1>1 DEF t, heldBy, closed, kindOf, elem
  <2>3. ownAttributes(field.type)' <=> ownAttributes(t)
    BY <1>1, FieldStays DEF t
  <2> QED BY <1>1, <1>4, <1>6, <1>13, <2>1, <2>2, <2>3 DEF Walked
<1>15. depth' \in Nat
  BY <1>1
<1> QED BY <1>1, <1>14, <1>15, FieldStays DEF AttrInv, AttrVerdictExact

LEMMA AttrStepInv == AttrInv /\ [AttrNext]_attr => AttrInv'
<1> SUFFICES ASSUME AttrInv, [AttrNext]_attr PROVE AttrInv'
  OBVIOUS
<1>1. CASE UNCHANGED attr
  <2>1. UNCHANGED <<field, phase, type, depth, faults>>
    BY <1>1 DEF attr
  <2>2. \A V : Visited(V)' <=> Visited(V)
    BY <2>1, FieldStays DEF Visited
  <2>3. Walked' <=> Walked
    BY <2>1, <2>2, FieldStays DEF Walked
  <2>4. Stripped' <=> Stripped
    BY <2>1, FieldStays DEF Stripped
  <2>5. AttrVerdictExact'
    BY <2>1, FieldStays DEF AttrVerdictExact, AttrInv
  <2> QED BY <2>1, <2>3, <2>4, <2>5 DEF AttrInv
<1> QED BY <1>1, StripStep, ExemptStep, ConcludeStep, DescendStep DEF AttrNext

\* Whatever a field's type is made of, pointers, names, lists and circles, its type is
\* reported exactly if it makes no attribute (hasBadType and isBadAttrType of oteltags).
THEOREM AttrVerdictAlwaysExact == Spec => []AttrVerdictExact
<1>1. Init => AttrInv
  BY AttrInitInv DEF Init
<1>2. AttrInv /\ [Next]_<<vars, attr, driver>> => AttrInv'
  <2> SUFFICES ASSUME AttrInv, [Next]_<<vars, attr, driver>> PROVE AttrInv'
    OBVIOUS
  <2>1. [AttrNext]_attr
    BY DEF Next, Walk, Attr, Facts, Finished
  <2> QED BY <2>1, AttrStepInv
<1>3. AttrInv => AttrVerdictExact
  BY DEF AttrInv
<1> QED BY <1>1, <1>2, <1>3, PTL DEF Spec
=============================================================================
