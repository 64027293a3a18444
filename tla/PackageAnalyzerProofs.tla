------------------------ MODULE PackageAnalyzerProofs -------------------------
(***************************************************************************)
(* The analyzers that follow the declarations of a package, for every      *)
(* package: the doubles that mockcheck reports in any order of its map,    *)
(* and what the counts of spanrequired show.                               *)
(***************************************************************************)
EXTENDS SpanRequired, MockCheck, FiniteSetTheorems, WellFoundedInduction, TLAPS

(* mockcheck: the uses that count, the double being visited, the reports. *)

LEMMA AppendSet ==
    ASSUME NEW S, NEW s \in Seq(S), NEW x \in S
    PROVE  Append(s, x) \in Seq(S) /\ ToSet(Append(s, x)) = ToSet(s) \union {x}
<1>1. Len(s) \in Nat /\ DOMAIN s = 1 .. Len(s)
  OBVIOUS
<1>2. /\ Append(s, x) \in Seq(S)
      /\ DOMAIN Append(s, x) = 1 .. Len(s) + 1
      /\ \A k \in 1 .. Len(s) : Append(s, x)[k] = s[k]
      /\ Append(s, x)[Len(s) + 1] = x
  OBVIOUS
<1>3. \A k \in 1 .. Len(s) + 1 : k \in 1 .. Len(s) \/ k = Len(s) + 1
  BY <1>1
<1>4. \A k \in 1 .. Len(s) : k \in 1 .. Len(s) + 1
  BY <1>1
<1>5. Len(s) + 1 \in 1 .. Len(s) + 1
  BY <1>1
<1>6. ToSet(Append(s, x)) \subseteq ToSet(s) \union {x}
  BY <1>1, <1>2, <1>3 DEF ToSet
<1>7. ToSet(s) \union {x} \subseteq ToSet(Append(s, x))
  BY <1>1, <1>2, <1>4, <1>5 DEF ToSet
<1> QED BY <1>2, <1>6, <1>7

LEMMA Elements ==
    ASSUME NEW S, NEW s \in Seq(S)
    PROVE  /\ Len(s) \in Nat /\ DOMAIN s = 1 .. Len(s)
           /\ \A k \in 1 .. Len(s) : s[k] \in S
           /\ \A x \in ToSet(s) : x \in S
BY DEF ToSet

-----------------------------------------------------------------------------
(* What is to be reported, told without the loops. *)

\* Some place uses the double as an internal interface.
used(d) == \E k \in 1 .. Len(pkg.meets) : pkg.meets[k].double = d /\ counts(pkg.meets[k])
fits(d, f) == pkg.ifaces[f].methods /= {} /\ ~pkg.ifaces[f].allowed /\ implements(d, f)
due(d) == used(d) \/ (pkg.doubles[d].mock /\ \E f \in ifaces : fits(d, f))
named(d, f) == f \in DOMAIN pkg.ifaces /\ implements(d, f) /\ ~pkg.ifaces[f].allowed /\ inModule(f)

TypeInv ==
    /\ pkg \in Packages
    /\ pc \in {"uses", "types", "done"}
    /\ i \in Nat \ {0}
    /\ uses \in [Doubles -> Iface \union {None}]
    /\ left \subseteq ifaces
    /\ reports \in Seq([double : Doubles, iface : DOMAIN pkg.ifaces])

\* A double has an interface once a place that counts has been passed, and only then.
UsesInv ==
    /\ \A d \in Doubles : uses[d] /= None => used(d) /\ named(d, uses[d])
    /\ \A k \in 1 .. Len(pkg.meets) :
          counts(pkg.meets[k]) /\ (pc = "uses" => k < i) => uses[pkg.meets[k].double] /= None

\* The interfaces taken from the map did not fit; the doubles before this one have been
\* reported as due: the loop stops at an interface that fits, so the rest can be left.
RunInv ==
    /\ pc = "types" => \A f \in ifaces \ left : ~fits(i, f)
    /\ pc = "uses" => reports = <<>>
    /\ pc = "done" => i > Len(pkg.doubles)
    /\ \A r \in ToSet(reports) : r.double < i /\ due(r.double) /\ named(r.double, r.iface)
    /\ pc /= "uses" =>
          \A d \in Doubles : d < i /\ due(d) => \E r \in ToSet(reports) : r.double = d

Inv == TypeInv /\ UsesInv /\ RunInv

LEMMA ReportsTyped ==
    ASSUME TypeInv
    PROVE  \A r \in ToSet(reports) : r \in [double : Doubles, iface : DOMAIN pkg.ifaces]
<1> DEFINE R == [double : Doubles, iface : DOMAIN pkg.ifaces]
<1>1. reports \in Seq(R)
  BY DEF TypeInv
<1> HIDE DEF R
<1>2. \A r \in ToSet(reports) : r \in R
  BY <1>1, Elements
<1> QED BY <1>2 DEF R

\* What the package says does not change.
LEMMA Still ==
    ASSUME pkg' = pkg
    PROVE  /\ Doubles' = Doubles /\ ifaces' = ifaces
           /\ \A d : used(d)' <=> used(d)
           /\ \A d : due(d)' <=> due(d)
           /\ \A d, f : named(d, f)' <=> named(d, f)
           /\ \A d, f : fits(d, f)' <=> fits(d, f)
           /\ \A m : counts(m)' <=> counts(m)
BY DEF Doubles, ifaces, used, due, named, fits, counts, implements, methods, inModule,
       declaresInterfaceMethod

LEMMA InitInv == Init => Inv
<1> SUFFICES ASSUME Init PROVE Inv
  OBVIOUS
<1>1. ToSet(reports) = {}
  BY DEF Init, ToSet
<1>2. \A d \in Doubles : uses[d] = None
  BY DEF Init
<1>3. \A k \in 1 .. Len(pkg.meets) : ~(k < i)
  BY PackagesAssumption DEF Init
<1> QED BY <1>1, <1>2, <1>3 DEF Init, Inv, TypeInv, UsesInv, RunInv

\* A place that counts gives its double an interface of the module that it implements.
LEMMA PlaceCounts ==
    ASSUME TypeInv, NEW k \in 1 .. Len(pkg.meets)
    PROVE  LET m == pkg.meets[k] IN
           /\ m.double \in Doubles /\ m.iface \in DOMAIN pkg.ifaces /\ m.iface \in Iface
           /\ m.iface /= None
           /\ counts(m) => used(m.double) /\ named(m.double, m.iface)
<1> DEFINE m == pkg.meets[k]
           Meeting == [double : 1 .. Len(pkg.doubles), iface : DOMAIN pkg.ifaces]
<1>1. pkg.meets \in Seq(Meeting)
  BY PackagesAssumption DEF TypeInv
<1>2. /\ m \in Meeting
      /\ k \in DOMAIN pkg.meets
  <2> HIDE DEF Meeting
  <2> QED BY <1>1, Elements
<1>3. m \in ToSet(pkg.meets)
  BY <1>2 DEF ToSet
<1>4. m.double \in Doubles /\ m.iface \in DOMAIN pkg.ifaces /\ m.iface \in Iface /\ m.iface /= None
  BY <1>2, PackagesAssumption DEF TypeInv, Doubles
<1>5. implements(m.double, m.iface)
  BY <1>3, PackagesAssumption DEF TypeInv, implements, methods
<1> QED BY <1>4, <1>5 DEF counts, used, named

LEMMA CheckStep ==
    ASSUME Inv, Check
    PROVE  Inv'
<1> DEFINE m == pkg.meets[i]
<1>1. /\ pc = "uses" /\ pc' = "uses" /\ i <= Len(pkg.meets) /\ i' = i + 1 /\ i \in Nat \ {0}
      /\ UNCHANGED <<pkg, left, reports>>
      /\ uses' = IF counts(m) THEN [uses EXCEPT ![m.double] = m.iface] ELSE uses
      /\ uses \in [Doubles -> Iface \union {None}]
  BY DEF Check, Inv, TypeInv
<1>2. Len(pkg.meets) \in Nat /\ i \in 1 .. Len(pkg.meets)
  BY <1>1, PackagesAssumption DEF Inv, TypeInv
<1>3. /\ m.double \in Doubles /\ m.iface \in Iface /\ m.iface /= None
      /\ counts(m) => used(m.double) /\ named(m.double, m.iface)
  BY <1>2, PlaceCounts DEF Inv
<1> HIDE DEF m
<1>4. /\ uses' \in [Doubles -> Iface \union {None}]
      /\ \A d \in Doubles : uses'[d] = uses[d] \/ (d = m.double /\ counts(m) /\ uses'[d] = m.iface)
      /\ \A d \in Doubles : uses[d] /= None => uses'[d] /= None
      /\ counts(m) => uses'[m.double] /= None
  BY <1>1, <1>3
<1>5. TypeInv'
  BY <1>1, <1>4, Still DEF Inv, TypeInv
<1>6. UsesInv'
  <2>1. ASSUME NEW d \in Doubles, uses'[d] /= None PROVE used(d)' /\ named(d, uses[d])'
    <3>1. used(d) /\ named(d, uses'[d])
      BY <1>3, <1>4, <2>1 DEF Inv, UsesInv
    <3> QED BY <1>1, <3>1
        DEF used, named, counts, implements, methods, inModule, declaresInterfaceMethod
  <2>2. ASSUME NEW k \in 1 .. Len(pkg.meets), counts(pkg.meets[k]), k < i + 1
        PROVE  uses'[pkg.meets[k].double] /= None
    <3>1. CASE k = i
      BY <1>4, <2>2, <3>1 DEF m
    <3>2. CASE k < i
      <4>1. pkg.meets[k].double \in Doubles
        BY PlaceCounts DEF Inv
      <4> QED BY <1>4, <2>2, <3>2, <4>1 DEF Inv, UsesInv
    <3>3. k \in Int /\ i \in Int
      BY <1>1
    <3> QED BY <2>2, <3>1, <3>2, <3>3
  <2>3. \A k : pkg'.meets[k] = pkg.meets[k] /\ Len(pkg'.meets) = Len(pkg.meets)
    BY <1>1
  <2>4. \A k : counts(pkg.meets[k])' <=> counts(pkg.meets[k])
    BY <1>1 DEF counts, inModule, declaresInterfaceMethod
  <2> QED BY <1>1, <2>1, <2>2, <2>3, <2>4, Still DEF UsesInv
<1>7. RunInv'
  <2>1. ToSet(reports') = {}
    BY <1>1 DEF Inv, RunInv, ToSet
  <2> QED BY <1>1, <2>1 DEF Inv, RunInv
<1> QED BY <1>5, <1>6, <1>7 DEF Inv

\* What the doubles are used for is settled by what is known of them.
LEMMA UsesStill ==
    ASSUME Inv, UNCHANGED <<pkg, uses>>,
           \A k \in 1 .. Len(pkg.meets) : (pc' = "uses" => k < i') => (pc = "uses" => k < i)
    PROVE  UsesInv'
<1>1. \A k : pkg'.meets[k] = pkg.meets[k] /\ Len(pkg'.meets) = Len(pkg.meets)
  OBVIOUS
<1>2. \A k : counts(pkg.meets[k])' <=> counts(pkg.meets[k])
  BY DEF counts, inModule, declaresInterfaceMethod
<1>3. \A d : named(d, uses[d])' <=> named(d, uses[d])
  BY DEF named, implements, methods, inModule
<1>4. Doubles' = Doubles /\ \A d : used(d)' <=> used(d)
  BY Still
<1>5. \A d \in Doubles : uses[d] /= None => used(d) /\ named(d, uses[d])
  BY DEF Inv, UsesInv
<1>6. \A k \in 1 .. Len(pkg.meets) :
         counts(pkg.meets[k]) /\ (pc' = "uses" => k < i') => uses[pkg.meets[k].double] /= None
  BY DEF Inv, UsesInv
<1> QED BY <1>1, <1>2, <1>3, <1>4, <1>5, <1>6 DEF UsesInv

\* The places are all passed: a double has no interface exactly if none uses it.
LEMMA UsesKnown ==
    ASSUME Inv, pc /= "uses", NEW d \in Doubles
    PROVE  uses[d] /= None <=> used(d)
BY DEF Inv, UsesInv, used

LEMMA EndUsesStep ==
    ASSUME Inv, EndUses
    PROVE  Inv'
<1>1. /\ pc = "uses" /\ pc' = "types" /\ i > Len(pkg.meets) /\ i' = 1 /\ left' = ifaces
      /\ UNCHANGED <<pkg, uses, reports>>
  BY DEF EndUses
<1>2. TypeInv'
  BY <1>1, Still DEF Inv, TypeInv
<1>3. \A k \in 1 .. Len(pkg.meets) : k < i
  <2>1. i \in Int /\ Len(pkg.meets) \in Nat
    BY PackagesAssumption DEF Inv, TypeInv
  <2> QED BY <1>1, <2>1
<1>4. UsesInv'
  BY <1>1, <1>3, UsesStill
<1>5. RunInv'
  <2>1. ToSet(reports') = {}
    BY <1>1 DEF Inv, RunInv, ToSet
  <2>2. \A d \in Doubles : ~(d < 1)
    BY PackagesAssumption DEF Inv, TypeInv, Doubles
  <2>3. Doubles' = Doubles /\ ifaces' = ifaces
    BY <1>1, Still
  <2> QED BY <1>1, <2>1, <2>2, <2>3 DEF RunInv
<1> QED BY <1>2, <1>4, <1>5 DEF Inv

\* A step past a double keeps what is known if it reports the double exactly as due.
LEMMA PastDouble ==
    ASSUME Inv, atDouble, next, NEW f,
           \/ reports' = reports /\ ~due(i)
           \/ reports' = Append(reports, [double |-> i, iface |-> f]) /\ due(i) /\ named(i, f)
    PROVE  Inv'
<1> DEFINE r0 == [double |-> i, iface |-> f]
           R == [double : Doubles, iface : DOMAIN pkg.ifaces]
<1>1. /\ pc = "types" /\ pc' = "types" /\ i <= Len(pkg.doubles) /\ i' = i + 1 /\ i \in Nat \ {0}
      /\ left' = ifaces /\ UNCHANGED <<pkg, uses>>
  BY DEF Inv, TypeInv, atDouble, next
<1>2. i \in Doubles /\ i \in Int
  BY <1>1, PackagesAssumption DEF Inv, TypeInv, Doubles
<1>3. /\ reports' \in Seq(R)
      /\ \/ ToSet(reports') = ToSet(reports) /\ ~due(i)
         \/ ToSet(reports') = ToSet(reports) \union {r0} /\ due(i) /\ named(i, f)
  <2>1. named(i, f) => r0 \in R
    BY <1>2 DEF named
  <2>2. reports \in Seq(R)
    BY DEF Inv, TypeInv
  <2> HIDE DEF r0, R
  <2>3. CASE reports' = reports /\ ~due(i)
    BY <2>2, <2>3
  <2>4. CASE reports' = Append(reports, r0) /\ due(i) /\ named(i, f)
    BY <2>1, <2>2, <2>4, AppendSet
  <2> QED BY <2>3, <2>4 DEF r0, R
<1>4. r0.double = i /\ r0.iface = f
  OBVIOUS
<1> HIDE DEF r0
<1>5. TypeInv'
  BY <1>1, <1>3, Still DEF Inv, TypeInv
<1>6. UsesInv'
  BY <1>1, UsesStill
<1>7. RunInv'
  <2>1. ifaces' \ left' = {}
    BY <1>1, Still
  <2>2. \A r \in ToSet(reports') : r.double < i + 1 /\ due(r.double) /\ named(r.double, r.iface)
    <3> SUFFICES ASSUME NEW r \in ToSet(reports')
                 PROVE  r.double < i + 1 /\ due(r.double) /\ named(r.double, r.iface)
      OBVIOUS
    <3>1. CASE r = r0 /\ due(i) /\ named(i, f)
      BY <1>2, <1>4, <3>1
    <3>2. CASE r \in ToSet(reports)
      <4>1. r \in [double : Doubles, iface : DOMAIN pkg.ifaces]
        BY <3>2, ReportsTyped DEF Inv
      <4>2. r.double \in Int
        BY <4>1 DEF Doubles
      <4>3. r.double < i /\ due(r.double) /\ named(r.double, r.iface)
        BY <3>2 DEF Inv, RunInv
      <4> QED BY <1>2, <4>2, <4>3
    <3> QED BY <1>3, <3>1, <3>2
  <2>3. ASSUME NEW d \in Doubles, d < i + 1, due(d)
        PROVE  \E r \in ToSet(reports') : r.double = d
    <3>1. d \in Int
      BY DEF Doubles
    <3>2. CASE d = i
      BY <1>3, <1>4, <2>3, <3>2
    <3>3. CASE d < i
      BY <1>1, <1>3, <2>3, <3>3 DEF Inv, RunInv
    <3> QED BY <1>2, <2>3, <3>1, <3>2, <3>3
  <2>4. Doubles' = Doubles /\ \A d : due(d)' <=> due(d)
    BY <1>1, Still
  <2>5. \A d, g : named(d, g)' <=> named(d, g)
    BY <1>1, Still
  <2> QED BY <1>1, <2>1, <2>2, <2>3, <2>4, <2>5 DEF RunInv
<1> QED BY <1>5, <1>6, <1>7 DEF Inv

LEMMA InvStep == Inv /\ [Next]_vars => Inv'
<1> SUFFICES ASSUME Inv, [Next]_vars PROVE Inv'
  OBVIOUS
<1>1. CASE Check
  BY <1>1, CheckStep
<1>2. CASE EndUses
  BY <1>2, EndUsesStep
<1>3. ASSUME atDouble PROVE i \in Doubles
  BY <1>3, PackagesAssumption DEF Inv, TypeInv, atDouble, Doubles
<1>4. CASE ReportUse
  <2>1. /\ i \in Doubles /\ uses[i] /= None /\ atDouble /\ next
        /\ reports' = Append(reports, [double |-> i, iface |-> uses[i]])
    BY <1>3, <1>4 DEF ReportUse
  <2>2. used(i) /\ named(i, uses[i])
    BY <2>1 DEF Inv, UsesInv
  <2> QED BY <2>1, <2>2, PastDouble DEF due
<1>5. CASE PassOver
  <2>1. /\ i \in Doubles /\ uses[i] = None /\ atDouble /\ next /\ reports' = reports
        /\ ~pkg.doubles[i].mock \/ left = {}
    BY <1>3, <1>5 DEF PassOver
  <2>2. ~used(i)
    BY <2>1, UsesKnown DEF atDouble
  <2>3. left = {} => \A f \in ifaces : ~fits(i, f)
    BY <2>1 DEF Inv, RunInv, atDouble
  <2>4. ~due(i)
    BY <2>1, <2>2, <2>3 DEF due
  <2> QED BY <2>1, <2>4, PastDouble
<1>6. CASE ReportMock
  <2>1. i \in Doubles /\ atDouble /\ next /\ pkg.doubles[i].mock
    BY <1>3, <1>6 DEF ReportMock
  <2>2. PICK f \in left : matches(f) /\ reports' = Append(reports, [double |-> i, iface |-> f])
    BY <1>6 DEF ReportMock
  <2>3. f \in ifaces
    BY DEF Inv, TypeInv
  <2>4. fits(i, f)
    BY <2>2 DEF fits, matches
  <2>5. due(i)
    BY <2>1, <2>3, <2>4 DEF due
  <2>6. named(i, f)
    BY <2>3, <2>4 DEF named, fits, ifaces, inModule
  <2> QED BY <2>1, <2>2, <2>5, <2>6, PastDouble
<1>7. CASE SkipInterface
  <2>1. pc = "types" /\ UNCHANGED <<pkg, pc, i, uses, reports>>
    BY <1>7 DEF SkipInterface, atDouble
  <2>2. PICK f \in left : ~matches(f) /\ left' = left \ {f}
    BY <1>7 DEF SkipInterface
  <2>3. ~fits(i, f)
    BY <2>2 DEF fits, matches
  <2>4. left' \subseteq ifaces /\ \A g \in ifaces \ left' : ~fits(i, g)
    BY <2>1, <2>2, <2>3 DEF Inv, TypeInv, RunInv
  <2>5. TypeInv'
    BY <2>1, <2>4, Still DEF Inv, TypeInv
  <2>6. UsesInv'
    BY <2>1, UsesStill
  <2>7. RunInv'
    <3>1. \A g : fits(i, g)' <=> fits(i, g)
      BY <2>1 DEF fits, implements, methods
    <3>2. ToSet(reports') = ToSet(reports)
      BY <2>1
    <3> QED BY <2>1, <2>4, <3>1, <3>2, Still DEF Inv, RunInv
  <2> QED BY <2>5, <2>6, <2>7 DEF Inv
<1>8. CASE Return \/ UNCHANGED vars
  <2>1. /\ UNCHANGED <<pkg, i, uses, left, reports>>
        /\ \/ pc = "types" /\ pc' = "done" /\ i > Len(pkg.doubles)
           \/ pc' = pc
    BY <1>8 DEF Return, vars
  <2>2. TypeInv'
    BY <2>1, Still DEF Inv, TypeInv
  <2>3. UsesInv'
    BY <2>1, UsesStill
  <2>4. RunInv'
    <3>1. \A g : fits(i, g)' <=> fits(i, g)
      BY <2>1 DEF fits, implements, methods
    <3>2. ToSet(reports') = ToSet(reports)
      BY <2>1
    <3> QED BY <2>1, <3>1, <3>2, Still DEF Inv, RunInv
  <2> QED BY <2>2, <2>3, <2>4 DEF Inv
<1> QED BY <1>1, <1>2, <1>4, <1>5, <1>6, <1>7, <1>8 DEF Next, Terminated

\* In the end the doubles reported are those due, whatever the order of the map and of the
\* places, and the interface named is one of the module's that the double implements.
LEMMA InvReports == Inv => ReportedWhateverOrder
<1> SUFFICES ASSUME Inv PROVE ReportedWhateverOrder
  OBVIOUS
<1>1. \A d : due(d) <=>
         \/ \E p \in ToSet(pkg.meets) : p.double = d /\ counts(p)
         \/ /\ pkg.doubles[d].mock
            /\ \E f \in ifaces : /\ pkg.ifaces[f].methods /= {}
                                 /\ ~pkg.ifaces[f].allowed
                                 /\ implements(d, f)
  <2>1. DOMAIN pkg.meets = 1 .. Len(pkg.meets)
    BY PackagesAssumption DEF Inv, TypeInv
  <2> QED BY <2>1 DEF due, used, fits, ToSet
<1>2. \A r \in ToSet(reports) : r.double \in Doubles /\ due(r.double) /\ named(r.double, r.iface)
  <2>1. \A r \in ToSet(reports) : r \in [double : Doubles, iface : DOMAIN pkg.ifaces]
    BY ReportsTyped DEF Inv
  <2> QED BY <2>1 DEF Inv, RunInv
<1>3. pc = "done" => {r.double : r \in ToSet(reports)} = {d \in Doubles : due(d)}
  <2> SUFFICES ASSUME pc = "done" PROVE {r.double : r \in ToSet(reports)} = {d \in Doubles : due(d)}
    OBVIOUS
  <2>1. \A d \in Doubles : d < i
    BY PackagesAssumption DEF Inv, TypeInv, RunInv, Doubles
  <2>2. \A d \in Doubles : due(d) => \E r \in ToSet(reports) : r.double = d
    BY <2>1 DEF Inv, RunInv
  <2> QED BY <1>2, <2>2
<1> QED BY <1>1, <1>2, <1>3 DEF ReportedWhateverOrder, named

\* mockcheck's run and interfaceUses report the doubles due and no others, for every
\* package that compiles.
THEOREM MocksReportedWhateverOrder == Spec => []ReportedWhateverOrder
BY InitInv, InvStep, InvReports, PTL DEF Spec

-----------------------------------------------------------------------------
(* Numbers and finite sets. *)

LEMMA Least ==
    ASSUME NEW T \in SUBSET Nat, T /= {}
    PROVE  \E x \in T : \A y \in T : x <= y
<1>1. PICK x \in T : \A y \in T : <<y, x>> \notin OpToRel(<, Nat)
  BY NatLessThanWellFounded, WFMin
<1>2. \A y \in T : ~(y < x)
  BY <1>1 DEF OpToRel
<1>3. \A y \in T : y \in Int
  OBVIOUS
<1>4. \A y, z \in Int : ~(y < z) => z <= y
  OBVIOUS
<1>5. \A y \in T : x <= y
  BY <1>2, <1>3, <1>4
<1> QED BY <1>5

LEMMA SetInduction ==
    ASSUME NEW S, 0 \in S, \A n \in Nat : n \in S => n + 1 \in S
    PROVE  Nat \subseteq S
<1> DEFINE T == Nat \ S
<1> SUFFICES ASSUME T /= {} PROVE FALSE
  OBVIOUS
<1>1. PICK x \in T : \A y \in T : x <= y
  BY Least
<1>2. x /= 0
  BY <1>1
<1>3. x - 1 \in Nat /\ x - 1 \notin T
  BY <1>1, <1>2
<1>4. x - 1 \in S /\ (x - 1) + 1 = x
  BY <1>1, <1>3
<1> QED BY <1>1, <1>3, <1>4

\* A loop's weight.
LEMMA Weight ==
    ASSUME NEW n \in Nat
    PROVE  2 ^ n \in Nat /\ 2 ^ n >= 1 /\ (n > 0 => 2 ^ n >= 2)
<1>1. IsFiniteSet(1 .. n) /\ Cardinality(1 .. n) = n
  BY FS_Interval
<1> DEFINE P == SUBSET (1 .. n)
<1>2. IsFiniteSet(P) /\ Cardinality(P) = 2 ^ n
  BY <1>1, FS_SUBSET
<1>3. {} \in P /\ 1 .. n \in P
  OBVIOUS
<1> HIDE DEF P
<1>4. 2 ^ n \in Nat
  BY <1>2, FS_CardinalityType
<1>5. 2 ^ n /= 0
  BY <1>2, <1>3, FS_EmptySet
<1>6. ASSUME n > 0 PROVE 2 ^ n >= 2
  <2>1. 1 .. n /= {}
    BY <1>6
  <2> DEFINE pair == {{}, 1 .. n}
  <2>2. pair \subseteq P
    BY <1>3
  <2>3. Cardinality(pair) = 2
    <3>1. IsFiniteSet({1 .. n}) /\ Cardinality({1 .. n}) = 1
      BY FS_Singleton
    <3>2. {} \notin {1 .. n} /\ pair = {1 .. n} \union {{}}
      BY <2>1
    <3>3. Cardinality({1 .. n} \union {{}}) = 1 + 1
      BY <3>1, <3>2, FS_AddElement
    <3> QED BY <3>2, <3>3
  <2> HIDE DEF pair
  <2>4. Cardinality(pair) <= Cardinality(P)
    BY <1>2, <2>2, FS_Subset
  <2> QED BY <1>2, <2>3, <2>4
<1> QED BY <1>4, <1>5, <1>6

\* A finite set of numbers has a greatest.
LEMMA Greatest ==
    ASSUME NEW T \in SUBSET Nat, IsFiniteSet(T), T /= {}
    PROVE  Max(T) \in T /\ \A y \in T : y <= Max(T)
<1> DEFINE bounded(U) == \E x \in U : \A y \in U : y <= x
           S == {n \in Nat : \A U \in SUBSET Nat :
                    IsFiniteSet(U) /\ Cardinality(U) = n /\ U /= {} => bounded(U)}
<1>1. 0 \in S
  <2>1. \A U : IsFiniteSet(U) /\ Cardinality(U) = 0 => U = {}
    BY FS_EmptySet
  <2> QED BY <2>1
<1>2. ASSUME NEW n \in Nat, n \in S PROVE n + 1 \in S
  <2> SUFFICES ASSUME NEW U \in SUBSET Nat, IsFiniteSet(U), Cardinality(U) = n + 1, U /= {}
               PROVE  bounded(U)
    OBVIOUS
  <2>1. PICK x : x \in U
    OBVIOUS
  <2>2. IsFiniteSet(U \ {x}) /\ Cardinality(U \ {x}) = n
    <3>1. IsFiniteSet(U \ {x}) /\ Cardinality(U \ {x}) = Cardinality(U) - 1
      <4> HIDE DEF S
      <4> QED BY <2>1, FS_RemoveElement
    <3>2. (n + 1) - 1 = n
      OBVIOUS
    <3> QED BY <3>1, <3>2
  <2>3. CASE U \ {x} = {}
    <3>1. \A y \in U : y = x
      BY <2>3
    <3> QED BY <2>1, <3>1
  <2>4. CASE U \ {x} /= {}
    <3>1. PICK m \in U \ {x} : \A y \in U \ {x} : y <= m
      BY <1>2, <2>2, <2>4
    <3>2. CASE m <= x
      <4>1. \A y \in U : y <= x
        BY <2>1, <3>1, <3>2
      <4> QED BY <2>1, <4>1
    <3>3. CASE ~(m <= x)
      <4>1. \A y \in U : y <= m
        BY <2>1, <3>1, <3>3
      <4> QED BY <3>1, <4>1
    <3> QED BY <3>2, <3>3
  <2> QED BY <2>3, <2>4
<1> HIDE DEF S
<1>3. Nat \subseteq S
  BY <1>1, <1>2, SetInduction
<1>4. Cardinality(T) \in Nat
  BY FS_CardinalityType
<1>5. bounded(T)
  BY <1>3, <1>4 DEF S
<1>6. PICK x \in T : \A y \in T : x >= y
  BY <1>5
<1>7. Max(T) \in T /\ \A y \in T : Max(T) >= y
  BY <1>6 DEF Max
<1> QED BY <1>7

LEMMA ImageFinite ==
    ASSUME NEW S, IsFiniteSet(S), NEW f
    PROVE  IsFiniteSet({f[x] : x \in S})
<1> DEFINE T == {f[x] : x \in S}
           g == [x \in S |-> f[x]]
<1>1. g \in Surjection(S, T)
  <2>1. g \in [S -> T] /\ \A t \in T : \E x \in S : g[x] = t
    OBVIOUS
  <2> QED BY <2>1 DEF Surjection
<1> HIDE DEF g, T
<1>2. IsFiniteSet(T)
  BY <1>1, FS_Surjection
<1> QED BY <1>2 DEF T

-----------------------------------------------------------------------------
(* What calls count for. *)

LEMMA ProgramIs ==
    ASSUME prog \in Program
    PROVE  /\ \A d \in Decl : /\ prog.calls[d] \in Seq(Call)
                              /\ Len(prog.calls[d]) \in Nat
                              /\ \A k \in 1 .. Len(prog.calls[d]) : prog.calls[d][k] \in Call
           /\ \A t : implementations(t) \subseteq Decl
           /\ \A t : IsFiniteSet(implementations(t))
<1>1. \A d \in Decl : prog.calls[d] \in Seq(Call)
  BY DEF Program
<1>2. \A d \in Decl : /\ Len(prog.calls[d]) \in Nat
                     /\ \A k \in 1 .. Len(prog.calls[d]) : prog.calls[d][k] \in Call
  <2> HIDE DEF Call
  <2> QED BY <1>1
<1>3. \A t : implementations(t) \subseteq Decl
  BY DEF implementations, funcDecls
<1>4. \A t : IsFiniteSet(implementations(t))
  BY <1>3, DeclAssumption, FS_Subset
<1> QED BY <1>1, <1>2, <1>3, <1>4

LEMMA WorkIs ==
    ASSUME NEW w \in Work
    PROVE  w.instrumented \in Nat /\ w.untraced \in Nat
BY DEF Work

LEMMA UnfollowedIs ==
    ASSUME NEW c \in Call
    PROVE  unfollowed(c) \in Work
BY DEF unfollowed, tracedCall, noWork, Work, Call

LEMMA CountedIs ==
    ASSUME NEW work \in [Decl -> Work], NEW d \in Decl
    PROVE  counted(work, d) \in Work
BY DEF counted, tracedCall, Work

\* A call that is followed counts as the worst of what it can reach.
LEMMA WorkOfIs ==
    ASSUME prog \in Program, NEW work \in [Decl -> Work], NEW c \in Call
    PROVE  LET S == implementations(c.target)
               w == workOf(work, c) IN
           /\ w \in Work
           /\ ~c.context \/ S = {} => w = unfollowed(c)
           /\ c.context => \A d \in S : /\ counted(work, d).instrumented <= w.instrumented
                                        /\ counted(work, d).untraced <= w.untraced
           /\ c.context /\ S /= {} =>
                 /\ \E d \in S : counted(work, d).instrumented = w.instrumented
                 /\ \E d \in S : counted(work, d).untraced = w.untraced
<1> DEFINE S == implementations(c.target)
           subs == {counted(work, d) : d \in S}
           I == {v.instrumented : v \in subs}
           U == {v.untraced : v \in subs}
<1>1. S \subseteq Decl /\ IsFiniteSet(S)
  BY ProgramIs
<1>2. \A d \in S : /\ counted(work, d) \in Work
                   /\ counted(work, d).instrumented \in Nat /\ counted(work, d).untraced \in Nat
  BY <1>1, CountedIs, WorkIs
<1>3. IsFiniteSet(I) /\ IsFiniteSet(U)
  <2> DEFINE f == [d \in S |-> counted(work, d).instrumented]
             g == [d \in S |-> counted(work, d).untraced]
  <2>1. I = {f[d] : d \in S} /\ U = {g[d] : d \in S}
    OBVIOUS
  <2> HIDE DEF f, g, I, U, S
  <2> QED BY <1>1, <2>1, ImageFinite
<1>4. I \in SUBSET Nat /\ U \in SUBSET Nat /\ (S /= {} => I /= {} /\ U /= {} /\ subs /= {})
  BY <1>2
<1>5. CASE c.context /\ S /= {}
  <2>1. workOf(work, c) = [instrumented |-> Max(I), untraced |-> Max(U)]
    BY <1>4, <1>5 DEF workOf
  <2> HIDE DEF I, U
  <2>2. Max(I) \in I /\ (\A y \in I : y <= Max(I)) /\ Max(U) \in U /\ (\A y \in U : y <= Max(U))
    BY <1>3, <1>4, <1>5, Greatest
  <2>3. workOf(work, c) \in Work
    <3>1. Max(I) \in Nat /\ Max(U) \in Nat
      BY <1>4, <2>2
    <3> QED BY <2>1, <3>1 DEF Work
  <2>4. \A d \in S : counted(work, d).instrumented \in I /\ counted(work, d).untraced \in U
    BY DEF I, U
  <2>5. /\ \E d \in S : counted(work, d).instrumented = Max(I)
        /\ \E d \in S : counted(work, d).untraced = Max(U)
    BY <2>2 DEF I, U
  <2> QED BY <1>5, <2>1, <2>2, <2>3, <2>4, <2>5
<1>6. CASE ~c.context \/ S = {}
  <2>1. workOf(work, c) = unfollowed(c)
    BY <1>6 DEF workOf
  <2> QED BY <1>6, <2>1, UnfollowedIs
<1> QED BY <1>5, <1>6

-----------------------------------------------------------------------------
(* The sums and the summaries are what their definitions say. *)

\* g adds up the first n calls.
Adds(g, work, calls, n) ==
    g = [m \in 0 .. n |-> IF m = 0 THEN noWork
                          ELSE plus(g[m - 1], workOf(work, calls[m]), 2 ^ calls[m].loops)]

\* One call more can be added.
LEMMA AddOneMore ==
    ASSUME NEW work, NEW calls, NEW n \in Nat, NEW g, Adds(g, work, calls, n)
    PROVE  \E h : Adds(h, work, calls, n + 1)
<1> DEFINE oneMore(f, m) == plus(f[m - 1], workOf(work, calls[m]), 2 ^ calls[m].loops)
           h == [m \in 0 .. n + 1 |-> IF m = n + 1 THEN oneMore(g, m) ELSE g[m]]
<1>1. \A m \in 0 .. n : g[m] = IF m = 0 THEN noWork ELSE oneMore(g, m)
  BY DEF Adds
<1>2. ASSUME NEW m \in 0 .. n + 1
      PROVE  h[m] = IF m = 0 THEN noWork ELSE oneMore(h, m)
  <2>1. CASE m = n + 1
    <3>1. h[m] = oneMore(g, m) /\ m - 1 \in 0 .. n + 1 /\ m - 1 /= n + 1 /\ h[m - 1] = g[m - 1] /\ m /= 0
      BY <2>1
    <3> QED BY <3>1
  <2>2. CASE m = 0
    BY <1>1, <2>2
  <2>3. CASE m /= 0 /\ m /= n + 1
    <3>1. m \in 0 .. n /\ m - 1 \in 0 .. n + 1 /\ m - 1 /= n + 1
      BY <2>3
    <3>2. h[m] = g[m] /\ h[m - 1] = g[m - 1]
      BY <2>3, <3>1
    <3> QED BY <1>1, <2>3, <3>1, <3>2
  <2> QED BY <2>1, <2>2, <2>3
<1>3. h = [m \in 0 .. n + 1 |-> h[m]]
  OBVIOUS
<1> HIDE DEF h
<1>4. h = [m \in 0 .. n + 1 |-> IF m = 0 THEN noWork ELSE oneMore(h, m)]
  BY <1>2, <1>3
<1> QED BY <1>4 DEF Adds

LEMMA AddsExists ==
    ASSUME NEW work, NEW calls, NEW n \in Nat
    PROVE  \E g : Adds(g, work, calls, n)
<1> DEFINE S == {m \in Nat : \E g : Adds(g, work, calls, m)}
<1>1. 0 \in S
  <2>1. Adds([m \in 0 .. 0 |-> noWork], work, calls, 0)
    BY DEF Adds
  <2> QED BY <2>1
<1>2. \A m \in Nat : m \in S => m + 1 \in S
  BY AddOneMore
<1> HIDE DEF S
<1>3. Nat \subseteq S
  BY <1>1, <1>2, SetInduction
<1> QED BY <1>3 DEF S

\* A sum of work is work.
LEMMA PlusIs ==
    ASSUME NEW v \in Work, NEW w \in Work, NEW n \in Nat
    PROVE  plus(v, w, n) \in Work
<1>1. /\ v.instrumented \in Nat /\ v.untraced \in Nat
      /\ w.instrumented \in Nat /\ w.untraced \in Nat
  BY WorkIs
<1>2. \A a, b, c \in Nat : a + b * c \in Nat
  OBVIOUS
<1>3. v.instrumented + n * w.instrumented \in Nat /\ v.untraced + n * w.untraced \in Nat
  BY <1>1, <1>2
<1> QED BY <1>3 DEF plus, Work

LEMMA SumsAre ==
    ASSUME prog \in Program, NEW d \in Decl, NEW work
    PROVE  LET calls == prog.calls[d]
               sum == sums(work, d) IN
           /\ sum[0] = noWork
           /\ \A n \in 1 .. Len(calls) :
                 sum[n] = plus(sum[n - 1], workOf(work, calls[n]), 2 ^ calls[n].loops)
           /\ work \in [Decl -> Work] => \A n \in 0 .. Len(calls) : sum[n] \in Work
<1> DEFINE calls == prog.calls[d]
           sum == sums(work, d)
<1>1. Len(calls) \in Nat /\ \A k \in 1 .. Len(calls) : calls[k] \in Call
  BY ProgramIs
<1>2. Adds(sum, work, calls, Len(calls))
  <2>1. sum = CHOOSE g : Adds(g, work, calls, Len(calls))
    BY DEF sums, Adds
  <2> HIDE DEF calls, sum
  <2> QED BY <1>1, <2>1, AddsExists
<1> HIDE DEF sum, calls
<1>3. \A n \in 0 .. Len(calls) :
         sum[n] = IF n = 0 THEN noWork ELSE plus(sum[n - 1], workOf(work, calls[n]), 2 ^ calls[n].loops)
  BY <1>2 DEF Adds
<1>4. sum[0] = noWork
  BY <1>1, <1>3
<1>5. \A n \in 1 .. Len(calls) : sum[n] = plus(sum[n - 1], workOf(work, calls[n]), 2 ^ calls[n].loops)
  <2>1. \A n \in 1 .. Len(calls) : n \in 0 .. Len(calls) /\ n /= 0
    BY <1>1
  <2> QED BY <1>3, <2>1
<1>6. ASSUME work \in [Decl -> Work] PROVE \A n \in 0 .. Len(calls) : sum[n] \in Work
  <2> DEFINE S == {n \in Nat : n <= Len(calls) => sum[n] \in Work}
  <2>1. 0 \in S
    BY <1>4 DEF noWork, Work
  <2>2. ASSUME NEW n \in Nat, n \in S PROVE n + 1 \in S
    <3> SUFFICES ASSUME n + 1 <= Len(calls) PROVE sum[n + 1] \in Work
      OBVIOUS
    <3>1. n <= Len(calls) /\ n + 1 \in 1 .. Len(calls) /\ (n + 1) - 1 = n
      BY <1>1
    <3>2. sum[n + 1] = plus(sum[n], workOf(work, calls[n + 1]), 2 ^ calls[n + 1].loops)
      BY <1>5, <3>1
    <3>3. sum[n] \in Work /\ calls[n + 1] \in Call
      BY <1>1, <2>2, <3>1
    <3>4. calls[n + 1].loops \in Nat
      BY <3>3 DEF Call
    <3>5. workOf(work, calls[n + 1]) \in Work /\ 2 ^ calls[n + 1].loops \in Nat
      BY <1>6, <3>3, <3>4, WorkOfIs, Weight
    <3> QED BY <3>2, <3>3, <3>5, PlusIs
  <2> HIDE DEF S
  <2>3. Nat \subseteq S
    BY <2>1, <2>2, SetInduction
  <2> QED BY <1>1, <2>3 DEF S
<1> QED BY <1>4, <1>5, <1>6 DEF sum, calls

\* Visiting one function more leaves one fewer.
LEMMA OneFewer ==
    ASSUME NEW V \in SUBSET Decl
    PROVE  /\ Cardinality(Decl \ V) \in Nat
           /\ \A d \in Decl \ V : V \union {d} \in SUBSET Decl
                                  /\ Cardinality(Decl \ (V \union {d})) < Cardinality(Decl \ V)
<1>1. IsFiniteSet(Decl \ V)
  BY DeclAssumption, FS_Subset
<1>2. Cardinality(Decl \ V) \in Nat
  BY <1>1, FS_CardinalityType
<1>3. ASSUME NEW d \in Decl \ V PROVE Cardinality(Decl \ (V \union {d})) < Cardinality(Decl \ V)
  <2> DEFINE R == Decl \ V
  <2>1. Decl \ (V \union {d}) = R \ {d}
    OBVIOUS
  <2>2. d \in R /\ IsFiniteSet(R) /\ Cardinality(R) \in Nat
    BY <1>1, <1>2
  <2> HIDE DEF R
  <2>3. Cardinality(R \ {d}) = Cardinality(R) - 1
    BY <2>2, FS_RemoveElement
  <2>4. Cardinality(R \ {d}) < Cardinality(R)
    BY <2>2, <2>3
  <2> QED BY <2>1, <2>4 DEF R
<1> QED BY <1>2, <1>3

\* What holds of a set of visited functions if it holds of all with one more, holds.
LEMMA VisitedInduction ==
    ASSUME NEW S, \A V \in SUBSET Decl : (\A d \in Decl \ V : V \union {d} \in S) => V \in S
    PROVE  SUBSET Decl \subseteq S
<1> DEFINE T == {n \in Nat : \A V \in SUBSET Decl : Cardinality(Decl \ V) < n => V \in S}
<1>1. 0 \in T
  <2>1. ASSUME NEW V \in SUBSET Decl PROVE ~(Cardinality(Decl \ V) < 0)
    <3>1. Cardinality(Decl \ V) \in Nat
      BY OneFewer
    <3> QED BY <3>1
  <2> QED BY <2>1
<1>2. ASSUME NEW n \in Nat, n \in T PROVE n + 1 \in T
  <2> SUFFICES ASSUME NEW V \in SUBSET Decl, Cardinality(Decl \ V) < n + 1 PROVE V \in S
    OBVIOUS
  <2>1. ASSUME NEW d \in Decl \ V PROVE V \union {d} \in S
    <3>1. /\ Cardinality(Decl \ V) \in Nat /\ V \union {d} \in SUBSET Decl
          /\ Cardinality(Decl \ (V \union {d})) < Cardinality(Decl \ V)
          /\ Cardinality(Decl \ (V \union {d})) \in Nat
      BY OneFewer
    <3>2. Cardinality(Decl \ (V \union {d})) < n
      BY <3>1
    <3> QED BY <1>2, <3>1, <3>2
  <2> QED BY <2>1
<1> HIDE DEF T
<1>3. Nat \subseteq T
  BY <1>1, <1>2, SetInduction
<1>4. ASSUME NEW V \in SUBSET Decl PROVE V \in S
  <2>1. Cardinality(Decl \ V) \in Nat
    BY OneFewer
  <2>2. Cardinality(Decl \ V) + 1 \in T /\ Cardinality(Decl \ V) < Cardinality(Decl \ V) + 1
    BY <1>3, <2>1
  <2> QED BY <2>2 DEF T
<1> QED BY <1>4

\* g summarises the functions for the visited sets of D.
summarised(g, V) == [d \in Decl |-> IF d \in V THEN noWork ELSE sums(g[V \union {d}], d)[Len(prog.calls[d])]]
Summarises(g, D) == g = [V \in D |-> summarised(g, V)]
Few(n) == {V \in SUBSET Decl : Cardinality(Decl \ V) < n}

LEMMA SummariseOneMore ==
    ASSUME NEW n \in Nat, NEW g, Summarises(g, Few(n))
    PROVE  \E h : Summarises(h, Few(n + 1))
<1> DEFINE h == [V \in Few(n + 1) |-> IF V \in Few(n) THEN g[V] ELSE summarised(g, V)]
<1>1. \A V \in Few(n) : V \in Few(n + 1) /\ g[V] = summarised(g, V)
  <2>1. ASSUME NEW V \in Few(n) PROVE V \in Few(n + 1)
    <3>1. V \in SUBSET Decl /\ Cardinality(Decl \ V) < n
      BY DEF Few
    <3>2. Cardinality(Decl \ V) \in Nat
      BY <3>1, OneFewer
    <3>3. Cardinality(Decl \ V) < n + 1
      BY <3>1, <3>2
    <3> QED BY <3>1, <3>3 DEF Few
  <2> QED BY <2>1 DEF Summarises
<1>2. \A V \in Few(n + 1) : \A d \in Decl \ V : V \union {d} \in Few(n)
  <2>1. ASSUME NEW V \in Few(n + 1), NEW d \in Decl \ V PROVE V \union {d} \in Few(n)
    <3>1. V \in SUBSET Decl /\ Cardinality(Decl \ V) < n + 1
      BY DEF Few
    <3>2. /\ Cardinality(Decl \ V) \in Nat /\ V \union {d} \in SUBSET Decl
          /\ Cardinality(Decl \ (V \union {d})) < Cardinality(Decl \ V)
          /\ Cardinality(Decl \ (V \union {d})) \in Nat
      BY <3>1, OneFewer
    <3>3. Cardinality(Decl \ (V \union {d})) < n
      BY <3>1, <3>2
    <3> QED BY <3>2, <3>3 DEF Few
  <2> QED BY <2>1
<1>3. \A V \in Few(n) : h[V] = g[V]
  BY <1>1
<1>4. ASSUME NEW V \in Few(n + 1) PROVE h[V] = summarised(h, V)
  <2>1. h[V] = summarised(g, V)
    BY <1>1
  <2> HIDE DEF h
  <2>2. \A d \in Decl \ V : h[V \union {d}] = g[V \union {d}]
    BY <1>2, <1>3
  <2>3. \A d \in Decl : summarised(h, V)[d] = summarised(g, V)[d]
    BY <2>2 DEF summarised
  <2>4. summarised(h, V) = summarised(g, V)
    BY <2>3 DEF summarised
  <2> QED BY <2>1, <2>4
<1>5. h = [V \in Few(n + 1) |-> h[V]]
  OBVIOUS
<1> HIDE DEF h
<1>6. h = [V \in Few(n + 1) |-> summarised(h, V)]
  BY <1>4, <1>5
<1> QED BY <1>6 DEF Summarises

LEMMA SummaryIs ==
    ASSUME prog \in Program
    PROVE  \A V \in SUBSET Decl :
             /\ summary[V] \in [Decl -> Work]
             /\ \A d \in V : summary[V][d] = noWork
             /\ \A d \in Decl \ V : summary[V][d] = sums(summary[V \union {d}], d)[Len(prog.calls[d])]
<1>1. \E g : Summarises(g, SUBSET Decl)
  <2> DEFINE S == {n \in Nat : \E g : Summarises(g, Few(n))}
  <2>1. 0 \in S
    <3>1. Few(0) = {}
      <4>1. \A V \in SUBSET Decl : Cardinality(Decl \ V) \in Nat
        BY OneFewer
      <4> QED BY <4>1 DEF Few
    <3>2. Summarises([V \in {} |-> noWork], Few(0))
      BY <3>1 DEF Summarises
    <3> QED BY <3>2
  <2>2. \A n \in Nat : n \in S => n + 1 \in S
    BY SummariseOneMore
  <2> HIDE DEF S
  <2>3. Nat \subseteq S
    BY <2>1, <2>2, SetInduction
  <2> DEFINE N == Cardinality(Decl)
  <2>4. N \in Nat /\ N + 1 \in Nat
    BY DeclAssumption, FS_CardinalityType
  <2>5. Few(N + 1) = SUBSET Decl
    <3>1. ASSUME NEW V \in SUBSET Decl PROVE Cardinality(Decl \ V) < N + 1
      <4>1. Cardinality(Decl \ V) <= N /\ Cardinality(Decl \ V) \in Nat
        BY DeclAssumption, OneFewer, FS_Subset
      <4> QED BY <2>4, <4>1
    <3> QED BY <3>1 DEF Few
  <2>6. N + 1 \in S
    BY <2>3, <2>4
  <2> QED BY <2>5, <2>6 DEF S
<1>2. Summarises(summary, SUBSET Decl)
  <2>1. summary = CHOOSE g : Summarises(g, SUBSET Decl)
    BY DEF summary, Summarises, summarised
  <2> QED BY <1>1, <2>1
<1>3. \A V \in SUBSET Decl : summary[V] = summarised(summary, V)
  BY <1>2 DEF Summarises
<1>4. \A V \in SUBSET Decl :
         /\ \A d \in V : summary[V][d] = noWork
         /\ \A d \in Decl \ V : summary[V][d] = sums(summary[V \union {d}], d)[Len(prog.calls[d])]
         /\ summary[V] = [d \in Decl |-> summary[V][d]]
  BY <1>3 DEF summarised
<1> DEFINE S == {V \in SUBSET Decl : summary[V] \in [Decl -> Work]}
<1>5. ASSUME NEW V \in SUBSET Decl, \A d \in Decl \ V : V \union {d} \in S PROVE V \in S
  <2>1. ASSUME NEW d \in Decl PROVE summary[V][d] \in Work
    <3>1. CASE d \in V
      <4>1. noWork \in Work
        BY DEF noWork, Work
      <4>2. summary[V][d] = noWork
        BY <1>4, <3>1
      <4> QED BY <4>1, <4>2
    <3>2. CASE d \notin V
      <4>1. summary[V \union {d}] \in [Decl -> Work]
        BY <1>5, <3>2
      <4>2. Len(prog.calls[d]) \in Nat
        BY ProgramIs
      <4>3. sums(summary[V \union {d}], d)[Len(prog.calls[d])] \in Work
        <5> DEFINE work == summary[V \union {d}]
        <5> HIDE DEF work
        <5>1. work \in [Decl -> Work]
          BY <4>1 DEF work
        <5>2. \A n \in 0 .. Len(prog.calls[d]) : sums(work, d)[n] \in Work
          BY <5>1, SumsAre
        <5>3. Len(prog.calls[d]) \in 0 .. Len(prog.calls[d])
          BY <4>2
        <5> QED BY <5>2, <5>3 DEF work
      <4> QED BY <1>4, <3>2, <4>3
    <3> QED BY <3>1, <3>2
  <2>2. summary[V] = [d \in Decl |-> summary[V][d]]
    BY <1>4
  <2> QED BY <2>1, <2>2
<1> HIDE DEF S
<1>6. SUBSET Decl \subseteq S
  BY <1>5, VisitedInduction
<1> QED BY <1>4, <1>6 DEF S

-----------------------------------------------------------------------------
(* What the activations on the stack have counted. *)

\* summed[V][d][n]: the first n calls of d while the functions of V are being visited.
summed == [V \in SUBSET Decl |-> [d \in Decl |-> sums(summary[V], d)]]

LEMMA SummedIs ==
    ASSUME NEW V \in SUBSET Decl, NEW d \in Decl
    PROVE  summed[V][d] = sums(summary[V], d)
BY DEF summed

\* The package does not change.
LEMMA SameProgram ==
    ASSUME prog' = prog
    PROVE  /\ summary' = summary
           /\ summed' = summed
<1>1. summary' = summary
  BY DEF summary, sums, workOf, counted, implementations, unfollowed, hasTelemetrySpanCall, funcDecls
<1>2. summed' = summed
  BY DEF summed, summary, sums, workOf, counted, implementations, unfollowed, hasTelemetrySpanCall, funcDecls
<1> QED BY <1>1, <1>2

SpanTypeOK ==
    /\ prog \in Program
    /\ pending \subseteq Decl
    /\ stack \in Seq(Frame)
    /\ reported \subseteq Decl

\* w is the worst of what the functions of S count for.
WorstIs(work, S, w) ==
    /\ w \in Work
    /\ \A d \in S : /\ counted(work, d).instrumented \in 0 .. w.instrumented
                    /\ counted(work, d).untraced \in 0 .. w.untraced
    /\ w.instrumented = 0 \/ \E d \in S : counted(work, d).instrumented = w.instrumented
    /\ w.untraced = 0 \/ \E d \in S : counted(work, d).untraced = w.untraced

\* The activation f, with the functions of V visited before it and those of A above
\* it, has counted the calls up to the one it is at; of the implementations of that
\* one, those neither left nor above it.
Fits(f, V, A) ==
    LET work == summary[V \union {f.fn}]
        calls == prog.calls[f.fn]
        impls == implementations(calls[f.at].target) IN
    /\ f.fn \notin V
    /\ f.at <= Len(calls) + 1
    /\ f.sum = summed[V \union {f.fn}][f.fn][f.at - 1]
    /\ A /= {} => f.following
    /\ f.following =>
          /\ f.at <= Len(calls)
          /\ calls[f.at].context
          /\ impls /= {}
          /\ f.left \subseteq impls
          /\ A \subseteq impls \ f.left
          /\ WorstIs(work, impls \ (f.left \union A), f.worst)

visitedBefore(s, k) == {s[j].fn : j \in 1 .. k - 1}
above(s, k) == IF k < Len(s) THEN {s[k + 1].fn} ELSE {}

\* The activations with what was visited before and what is above them; none but the
\* first is of a function that starts a span.
layers(s) == {<<s[k], visitedBefore(s, k), above(s, k)>> : k \in 1 .. Len(s)}

StackOK(s) == \A l \in layers(s) : /\ Fits(l[1], l[2], l[3])
                                   /\ l[2] /= {} => ~hasTelemetrySpanCall(l[1].fn)

Followed(s, k) ==
    /\ Fits(s[k], visitedBefore(s, k), above(s, k))
    /\ visitedBefore(s, k) /= {} => ~hasTelemetrySpanCall(s[k].fn)

SpanInv == SpanTypeOK /\ StackOK(stack)

LEMMA StackOKIs ==
    ASSUME NEW s
    PROVE  StackOK(s) <=> \A k \in 1 .. Len(s) : Followed(s, k)
<1>1. ASSUME StackOK(s), NEW k \in 1 .. Len(s)
      PROVE  Followed(s, k)
  <2> DEFINE l == <<s[k], visitedBefore(s, k), above(s, k)>>
  <2>1. l \in layers(s) /\ l[1] = s[k] /\ l[2] = visitedBefore(s, k) /\ l[3] = above(s, k)
    BY DEF layers
  <2>2. Fits(l[1], l[2], l[3]) /\ (l[2] /= {} => ~hasTelemetrySpanCall(l[1].fn))
    BY <1>1, <2>1 DEF StackOK
  <2> QED BY <2>1, <2>2 DEF Followed
<1>2. ASSUME \A k \in 1 .. Len(s) : Followed(s, k), NEW l \in layers(s)
      PROVE  Fits(l[1], l[2], l[3]) /\ (l[2] /= {} => ~hasTelemetrySpanCall(l[1].fn))
  <2>1. PICK k \in 1 .. Len(s) : l = <<s[k], visitedBefore(s, k), above(s, k)>>
    BY DEF layers
  <2>2. l[1] = s[k] /\ l[2] = visitedBefore(s, k) /\ l[3] = above(s, k)
    BY <2>1
  <2> QED BY <1>2, <2>2 DEF Followed
<1> QED BY <1>1, <1>2 DEF StackOK

LEMMA StackIs ==
    ASSUME SpanTypeOK
    PROVE  /\ Len(stack) \in Nat
           /\ stack /= <<>> => Len(stack) \in 1 .. Len(stack) /\ Len(stack) > 0
           /\ \A k \in 1 .. Len(stack) : stack[k] \in Frame /\ stack[k].fn \in Decl
           /\ \A k \in 1 .. Len(stack) + 1 : visitedBefore(stack, k) \subseteq Decl
<1>1. stack \in Seq(Frame)
  BY DEF SpanTypeOK
<1>2. Len(stack) \in Nat /\ \A k \in 1 .. Len(stack) : stack[k] \in Frame
  <2> HIDE DEF Frame
  <2> QED BY <1>1
<1>3. \A k \in 1 .. Len(stack) : stack[k].fn \in Decl
  BY <1>2 DEF Frame
<1>4. stack /= <<>> => Len(stack) \in 1 .. Len(stack) /\ Len(stack) > 0
  <2> HIDE DEF Frame
  <2> QED BY <1>1, <1>2
<1>5. \A k \in 1 .. Len(stack) + 1 : visitedBefore(stack, k) \subseteq Decl
  <2>1. \A k \in 1 .. Len(stack) + 1 : \A j \in 1 .. k - 1 : j \in 1 .. Len(stack)
    BY <1>2
  <2> QED BY <1>3, <2>1 DEF visitedBefore
<1> QED BY <1>2, <1>3, <1>4, <1>5

\* The stack with another activation of its p-th function on top.
LEMMA TopChanged ==
    ASSUME SpanInv, NEW p \in 1 .. Len(stack), NEW s, Len(s) = p,
           \A j \in 1 .. p - 1 : s[j] = stack[j],
           s[p].fn = stack[p].fn,
           Fits(s[p], visitedBefore(stack, p), {})
    PROVE  StackOK(s)
<1>0. \A k \in 1 .. Len(stack) : Followed(stack, k)
  BY StackOKIs DEF SpanInv
<1>1. Len(stack) \in Nat /\ p \in Nat
  BY StackIs DEF SpanInv
<1>2. ASSUME NEW k \in 1 .. p PROVE visitedBefore(s, k) = visitedBefore(stack, k)
  <2>1. \A j \in 1 .. k - 1 : j \in 1 .. p - 1
    BY <1>1
  <2> QED BY <2>1 DEF visitedBefore
<1>3. ASSUME NEW k \in 1 .. p - 1 PROVE above(s, k) = above(stack, k)
  <2>1. k < Len(s) /\ k < Len(stack) /\ (k + 1 = p \/ k + 1 \in 1 .. p - 1)
    BY <1>1
  <2>2. s[k + 1].fn = stack[k + 1].fn
    BY <2>1
  <2> QED BY <2>1, <2>2 DEF above
<1>4. above(s, p) = {}
  BY <1>1 DEF above
<1>5. ASSUME NEW k \in 1 .. p
      PROVE  Followed(s, k)
  <2>1. k \in 1 .. Len(stack) /\ (k = p \/ k \in 1 .. p - 1)
    BY <1>1
  <2>2. CASE k = p
    BY <1>0, <1>1, <1>2, <1>4, <2>1, <2>2 DEF Followed
  <2>3. CASE k \in 1 .. p - 1
    BY <1>0, <1>2, <1>3, <2>1, <2>3 DEF Followed
  <2> QED BY <2>1, <2>2, <2>3
<1> QED BY <1>5, StackOKIs

\* The stack with its top replaced and an activation of another function above it.
LEMMA TopCovered ==
    ASSUME SpanInv, stack /= <<>>, NEW s, Len(s) = Len(stack) + 1,
           \A j \in 1 .. Len(stack) - 1 : s[j] = stack[j],
           s[Len(stack)].fn = top.fn,
           Fits(s[Len(stack)], visitedBefore(stack, Len(stack)), {s[Len(stack) + 1].fn}),
           Fits(s[Len(stack) + 1], visiting, {}),
           ~hasTelemetrySpanCall(s[Len(stack) + 1].fn)
    PROVE  StackOK(s)
<1> DEFINE p == Len(stack)
<1>0. \A k \in 1 .. Len(stack) : Followed(stack, k)
  BY StackOKIs DEF SpanInv
<1>1. p \in Nat /\ p \in 1 .. p
  BY StackIs DEF SpanInv
<1>2. ASSUME NEW k \in 1 .. p PROVE visitedBefore(s, k) = visitedBefore(stack, k)
  <2>1. \A j \in 1 .. k - 1 : j \in 1 .. p - 1
    BY <1>1
  <2> QED BY <2>1 DEF visitedBefore
<1>3. ASSUME NEW k \in 1 .. p - 1 PROVE above(s, k) = above(stack, k)
  <2>1. k < Len(s) /\ k < Len(stack) /\ (k + 1 = p \/ k + 1 \in 1 .. p - 1)
    BY <1>1
  <2>2. s[k + 1].fn = stack[k + 1].fn
    BY <2>1 DEF top
  <2> QED BY <2>1, <2>2 DEF above
<1>4. above(s, p) = {s[p + 1].fn} /\ above(s, p + 1) = {}
  BY <1>1 DEF above
<1>5. visitedBefore(s, p + 1) = visiting
  <2>1. (p + 1) - 1 = p /\ \A j \in 1 .. p : j = p \/ j \in 1 .. p - 1
    BY <1>1
  <2>2. \A j \in 1 .. p : s[j].fn = stack[j].fn
    BY <2>1 DEF top
  <2> QED BY <2>1, <2>2 DEF visitedBefore, visiting
<1>6. ASSUME NEW k \in 1 .. p + 1
      PROVE  Followed(s, k)
  <2>1. k = p + 1 \/ k = p \/ (k \in 1 .. p - 1 /\ k \in 1 .. p)
    BY <1>1
  <2>2. CASE k = p + 1
    BY <1>4, <1>5, <2>2 DEF Followed
  <2>3. CASE k = p
    BY <1>0, <1>1, <1>2, <1>4, <2>3 DEF Followed, top
  <2>4. CASE k \in 1 .. p - 1 /\ k \in 1 .. p
    BY <1>0, <1>2, <1>3, <2>4 DEF Followed
  <2> QED BY <2>1, <2>2, <2>3, <2>4
<1> QED BY <1>6, StackOKIs

-----------------------------------------------------------------------------
(* What happens at the top of the stack. *)

\* The worst of one function more.
LEMMA WorstOneMore ==
    ASSUME NEW work, NEW S, NEW w, WorstIs(work, S, w), NEW d, counted(work, d) \in Work
    PROVE  /\ WorstIs(work, S \union {d}, worstOf(w, counted(work, d)))
           /\ counted(work, d) = noWork => WorstIs(work, S \union {d}, w)
<1> DEFINE v == counted(work, d)
           u == worstOf(w, v)
<1>1. /\ w.instrumented \in Nat /\ w.untraced \in Nat
      /\ v.instrumented \in Nat /\ v.untraced \in Nat
  BY WorkIs DEF WorstIs
<1>2. /\ u.instrumented = larger(w.instrumented, v.instrumented)
      /\ u.untraced = larger(w.untraced, v.untraced)
  BY DEF worstOf
<1>3. \A a, b \in Nat : /\ larger(a, b) \in Nat /\ a \in 0 .. larger(a, b) /\ b \in 0 .. larger(a, b)
                        /\ larger(a, b) = a \/ larger(a, b) = b
                        /\ a = 0 => larger(a, b) = b
                        /\ b = 0 => larger(a, b) = a
                        /\ \A c \in 0 .. a : c \in 0 .. larger(a, b)
  BY DEF larger
<1>4. u \in Work
  BY <1>1, <1>3 DEF worstOf, Work
<1>5. /\ \A e \in S : /\ counted(work, e).instrumented \in 0 .. w.instrumented
                      /\ counted(work, e).untraced \in 0 .. w.untraced
      /\ w.instrumented = 0 \/ \E e \in S : counted(work, e).instrumented = w.instrumented
      /\ w.untraced = 0 \/ \E e \in S : counted(work, e).untraced = w.untraced
  BY DEF WorstIs
<1> HIDE DEF u
<1>6. ASSUME NEW e \in S \union {d}
      PROVE  /\ counted(work, e).instrumented \in 0 .. u.instrumented
             /\ counted(work, e).untraced \in 0 .. u.untraced
  <2>1. CASE e = d
    <3>1. counted(work, e) = v
      BY <2>1
    <3>2. /\ v.instrumented \in 0 .. larger(w.instrumented, v.instrumented)
          /\ v.untraced \in 0 .. larger(w.untraced, v.untraced)
      BY <1>1, <1>3
    <3> QED BY <1>2, <3>1, <3>2
  <2>2. CASE e \in S
    <3>1. counted(work, e).instrumented \in 0 .. larger(w.instrumented, v.instrumented)
      BY <1>1, <1>3, <1>5, <2>2
    <3>2. counted(work, e).untraced \in 0 .. larger(w.untraced, v.untraced)
      BY <1>1, <1>3, <1>5, <2>2
    <3> QED BY <1>2, <3>1, <3>2
  <2> QED BY <2>1, <2>2
<1>7. u.instrumented = 0 \/ \E e \in S \union {d} : counted(work, e).instrumented = u.instrumented
  <2>1. \/ u.instrumented = v.instrumented \/ u.instrumented = 0
        \/ u.instrumented = w.instrumented /\ w.instrumented /= 0
    BY <1>1, <1>2, <1>3
  <2> QED BY <1>5, <2>1
<1>8. u.untraced = 0 \/ \E e \in S \union {d} : counted(work, e).untraced = u.untraced
  <2>1. u.untraced = v.untraced \/ (u.untraced = w.untraced /\ w.untraced /= 0) \/ u.untraced = 0
    BY <1>1, <1>2, <1>3
  <2> QED BY <1>5, <2>1
<1>9. WorstIs(work, S \union {d}, u)
  BY <1>4, <1>6, <1>7, <1>8 DEF WorstIs
<1>10. ASSUME v = noWork PROVE u = w
  <2>1. v.instrumented = 0 /\ v.untraced = 0
    BY <1>10 DEF noWork
  <2>2. u.instrumented = w.instrumented /\ u.untraced = w.untraced
    BY <1>1, <1>2, <1>3, <2>1
  <2>3. w \in Work
    BY DEF WorstIs
  <2> QED BY <1>4, <2>2, <2>3 DEF Work
<1> QED BY <1>9, <1>10 DEF u

\* What holds of a stack holds of it in the next state too.
LEMMA FitsThen ==
    ASSUME prog' = prog, NEW f, NEW V, NEW A, Fits(f, V, A)
    PROVE  Fits(f, V, A)'
<1>1. /\ prog' = prog
      /\ summary' = summary
      /\ summed' = summed
  BY SameProgram
<1> QED BY <1>1 DEF Fits, WorstIs, counted, implementations, hasTelemetrySpanCall, funcDecls

LEMMA StackThen ==
    ASSUME prog' = prog, NEW s, StackOK(s), stack' = s
    PROVE  StackOK(stack)'
<1>1. ASSUME NEW l \in layers(s)
      PROVE  Fits(l[1], l[2], l[3])' /\ (l[2] /= {} => ~hasTelemetrySpanCall(l[1].fn)')
  <2>1. PICK f, V, A : f = l[1] /\ V = l[2] /\ A = l[3]
    OBVIOUS
  <2>2. Fits(f, V, A) /\ (V /= {} => ~hasTelemetrySpanCall(f.fn))
    BY <2>1 DEF StackOK
  <2>3. V /= {} => ~hasTelemetrySpanCall(f.fn)'
    BY <2>2 DEF hasTelemetrySpanCall
  <2> QED BY <2>1, <2>2, <2>3, FitsThen
<1>2. layers(stack)' = layers(s)
  BY DEF layers, visitedBefore, above
<1> QED BY <1>1, <1>2 DEF StackOK

LEMMA FrameIs ==
    ASSUME NEW f
    PROVE  /\ f \in Frame => /\ f.fn \in Decl /\ f.at \in Nat \ {0} /\ f.sum \in Work
                             /\ f.following \in BOOLEAN /\ f.left \subseteq Decl /\ f.worst \in Work
           /\ \A d \in Decl : frameFor(d) \in Frame
<1>1. noWork \in Work
  BY DEF noWork, Work
<1> QED BY <1>1 DEF Frame, frameFor

LEMMA TopIs ==
    ASSUME SpanInv, stack /= <<>>
    PROVE  LET V == visitedBefore(stack, Len(stack))
               calls == prog.calls[top.fn] IN
           /\ Len(stack) \in Nat /\ Len(stack) \in 1 .. Len(stack)
           /\ top \in Frame /\ top.fn \in Decl
           /\ V \subseteq Decl /\ visiting \subseteq Decl /\ visiting = V \union {top.fn}
           /\ Fits(top, V, {})
           /\ V /= {} => ~hasTelemetrySpanCall(top.fn)
           /\ summary[visiting] \in [Decl -> Work]
           /\ Len(calls) \in Nat
           /\ \A k \in 1 .. Len(calls) : calls[k] \in Call
           /\ summed[visiting][top.fn][0] = noWork
           /\ \A k \in 1 .. Len(calls) :
                 summed[visiting][top.fn][k] =
                   plus(summed[visiting][top.fn][k - 1], workOf(summary[visiting], calls[k]),
                        2 ^ calls[k].loops)
<1> DEFINE n == Len(stack)
           V == visitedBefore(stack, n)
           calls == prog.calls[top.fn]
<1>1. n \in Nat /\ n \in 1 .. n /\ n \in 1 .. n + 1
  BY StackIs DEF SpanInv
<1>2. top \in Frame /\ top.fn \in Decl
  BY <1>1, StackIs DEF SpanInv, top
<1>3. V \subseteq Decl
  BY <1>1, StackIs DEF SpanInv
<1>4. visiting = V \union {top.fn}
  <2>1. \A j \in 1 .. n : j = n \/ j \in 1 .. n - 1
    BY <1>1
  <2>2. \A j \in 1 .. n - 1 : j \in 1 .. n
    BY <1>1
  <2> QED BY <1>1, <2>1, <2>2 DEF visiting, visitedBefore, top
<1>5. Fits(top, V, {}) /\ (V /= {} => ~hasTelemetrySpanCall(top.fn))
  <2>1. Followed(stack, n)
    BY <1>1, StackOKIs DEF SpanInv
  <2>2. above(stack, n) = {}
    BY <1>1 DEF above
  <2> QED BY <2>1, <2>2 DEF Followed, top
<1>6. prog \in Program /\ visiting \in SUBSET Decl
  BY <1>2, <1>3, <1>4 DEF SpanInv, SpanTypeOK
<1>7. summary[visiting] \in [Decl -> Work]
  BY <1>6, SummaryIs
<1>8. Len(calls) \in Nat /\ \A k \in 1 .. Len(calls) : calls[k] \in Call
  BY <1>2, <1>6, ProgramIs
<1>9. summed[visiting][top.fn] = sums(summary[visiting], top.fn)
  BY <1>2, <1>6, SummedIs
<1>10. /\ summed[visiting][top.fn][0] = noWork
       /\ \A k \in 1 .. Len(calls) :
             summed[visiting][top.fn][k] =
               plus(summed[visiting][top.fn][k - 1], workOf(summary[visiting], calls[k]), 2 ^ calls[k].loops)
  BY <1>2, <1>6, <1>9, SumsAre
<1> QED BY <1>1, <1>2, <1>3, <1>4, <1>5, <1>6, <1>7, <1>8, <1>10

\* The top of the stack is replaced by another activation of its function.
LEMMA TopReplaced ==
    ASSUME SpanInv, stack /= <<>>, NEW f \in Frame, f.fn = top.fn,
           Fits(f, visitedBefore(stack, Len(stack)), {})
    PROVE  LET s == replaceTop(f) IN
           /\ s \in Seq(Frame) /\ Len(s) = Len(stack) /\ s[Len(stack)] = f
           /\ \A j \in 1 .. Len(stack) - 1 : s[j] = stack[j]
           /\ StackOK(s)
<1> DEFINE s == replaceTop(f)
           n == Len(stack)
<1>1. n \in Nat /\ n \in 1 .. n /\ stack \in Seq(Frame)
  BY TopIs DEF SpanInv, SpanTypeOK
<1>2. s \in Seq(Frame) /\ Len(s) = n /\ s[n] = f /\ \A j \in 1 .. n - 1 : s[j] = stack[j]
  <2> HIDE DEF Frame
  <2> QED BY <1>1 DEF replaceTop
<1> HIDE DEF s
<1>3. StackOK(s)
  <2>1. s[n].fn = stack[n].fn
    BY <1>2 DEF top
  <2> QED BY <1>1, <1>2, <2>1, TopChanged
<1> QED BY <1>2, <1>3 DEF s

\* The call the top is at is counted.
LEMMA NextCall ==
    ASSUME SpanInv, stack /= <<>>, top.at <= Len(prog.calls[top.fn]), NEW f \in Frame,
           f.fn = top.fn, f.at = top.at + 1, f.following = FALSE,
           f.sum = plus(top.sum, workOf(summary[visiting], prog.calls[top.fn][top.at]),
                        2 ^ prog.calls[top.fn][top.at].loops)
    PROVE  Fits(f, visitedBefore(stack, Len(stack)), {})
<1> DEFINE V == visitedBefore(stack, Len(stack))
           calls == prog.calls[top.fn]
<1>1. Fits(top, V, {}) /\ visiting = V \union {top.fn}
  BY TopIs
<1>2. top.at \in Nat \ {0} /\ Len(calls) \in Nat
  BY TopIs, FrameIs
<1>3. top.at \in 1 .. Len(calls) /\ f.at <= Len(calls) + 1 /\ f.at - 1 = top.at
  BY <1>2
<1>4. top.sum = summed[visiting][top.fn][top.at - 1] /\ top.fn \notin V
  BY <1>1 DEF Fits
<1>5. f.sum = summed[visiting][top.fn][top.at]
  BY <1>3, <1>4, TopIs
<1> QED BY <1>1, <1>3, <1>4, <1>5 DEF Fits

-----------------------------------------------------------------------------
(* The steps. *)

LEMMA SpanInitOK ==
    ASSUME SpanInit
    PROVE  SpanInv
<1>1. SpanTypeOK
  <2>1. prog \in Program
    BY ProgramsAssumption DEF SpanInit
  <2>2. pending \subseteq Decl
    BY <2>1 DEF SpanInit, Program
  <2>3. stack \in Seq(Frame)
    BY DEF SpanInit
  <2> QED BY <2>1, <2>2, <2>3 DEF SpanInit, SpanTypeOK
<1>2. StackOK(stack)
  <2>1. 1 .. Len(stack) = {}
    BY DEF SpanInit
  <2> QED BY <2>1, StackOKIs
<1> QED BY <1>1, <1>2 DEF SpanInv

\* The worst of all implementations is what the call counts for.
LEMMA WorstIsWork ==
    ASSUME prog \in Program, NEW work \in [Decl -> Work], NEW c \in Call, NEW w,
           c.context, implementations(c.target) /= {}, WorstIs(work, implementations(c.target), w)
    PROVE  w = workOf(work, c)
<1> DEFINE S == implementations(c.target)
           v == workOf(work, c)
<1>1. /\ v \in Work
      /\ \A d \in S : /\ counted(work, d).instrumented <= v.instrumented
                      /\ counted(work, d).untraced <= v.untraced
      /\ \E d \in S : counted(work, d).instrumented = v.instrumented
      /\ \E d \in S : counted(work, d).untraced = v.untraced
  BY WorkOfIs
<1>2. /\ w \in Work
      /\ \A d \in S : /\ counted(work, d).instrumented \in 0 .. w.instrumented
                      /\ counted(work, d).untraced \in 0 .. w.untraced
      /\ w.instrumented = 0 \/ \E d \in S : counted(work, d).instrumented = w.instrumented
      /\ w.untraced = 0 \/ \E d \in S : counted(work, d).untraced = w.untraced
  BY DEF WorstIs
<1> HIDE DEF S, v
<1>3. /\ v.instrumented \in Nat /\ v.untraced \in Nat
      /\ w.instrumented \in Nat /\ w.untraced \in Nat
  BY <1>1, <1>2, WorkIs
<1>4. v.instrumented = w.instrumented
  <2>1. v.instrumented <= w.instrumented
    BY <1>1, <1>2, <1>3
  <2>2. w.instrumented <= v.instrumented
    BY <1>1, <1>2, <1>3
  <2> QED BY <1>3, <2>1, <2>2
<1>5. v.untraced = w.untraced
  <2>1. v.untraced <= w.untraced
    BY <1>1, <1>2, <1>3
  <2>2. w.untraced <= v.untraced
    BY <1>1, <1>2, <1>3
  <2> QED BY <1>3, <2>1, <2>2
<1> QED BY <1>1, <1>2, <1>4, <1>5 DEF Work, v

\* A step that only replaces the top of the stack.
LEMMA ReplacedOK ==
    ASSUME SpanInv, stack /= <<>>, NEW f \in Frame, f.fn = top.fn,
           Fits(f, visitedBefore(stack, Len(stack)), {}),
           stack' = replaceTop(f), prog' = prog, pending' = pending, reported' = reported
    PROVE  SpanInv'
<1>1. PICK s : s = replaceTop(f)
  OBVIOUS
<1>2. s \in Seq(Frame) /\ StackOK(s)
  BY <1>1, TopReplaced
<1>3. StackOK(stack)'
  BY <1>1, <1>2, StackThen
<1> QED BY <1>1, <1>2, <1>3 DEF SpanInv, SpanTypeOK

\* An activation that has counted nothing yet.
LEMMA FreshFits ==
    ASSUME prog \in Program, NEW V \in SUBSET Decl, NEW d \in Decl \ V
    PROVE  Fits(frameFor(d), V, {})
<1> DEFINE W == V \union {d}
<1>1. Len(prog.calls[d]) \in Nat /\ sums(summary[W], d)[0] = noWork
  BY ProgramIs, SumsAre
<1>2. summed[W][d] = sums(summary[W], d)
  BY SummedIs
<1>3. 1 - 1 = 0
  OBVIOUS
<1> QED BY <1>1, <1>2, <1>3 DEF Fits, frameFor

LEMMA ExamineOK ==
    ASSUME SpanInv, NEW d \in Decl, Examine(d)
    PROVE  SpanInv'
<1>1. prog' = prog /\ reported' = reported /\ pending' \subseteq Decl
  BY DEF Examine, SpanInv, SpanTypeOK
<1>2. PICK s : s = stack'
  OBVIOUS
<1>3. s = <<>> \/ s = <<frameFor(d)>>
  BY <1>2 DEF Examine
<1>4. s \in Seq(Frame)
  <2>1. frameFor(d) \in Frame
    BY FrameIs
  <2>2. \A F : \A x \in F : <<x>> \in Seq(F)
    OBVIOUS
  <2>3. <<frameFor(d)>> \in Seq(Frame)
    BY <2>1, <2>2
  <2>4. \A F : <<>> \in Seq(F)
    OBVIOUS
  <2> QED BY <1>3, <2>3, <2>4
<1>5. StackOK(s)
  <2>1. CASE s = <<>>
    <3>1. 1 .. Len(s) = {}
      BY <2>1
    <3> QED BY <3>1, StackOKIs
  <2>2. CASE s = <<frameFor(d)>>
    <3>1. Len(s) = 1 /\ s[1] = frameFor(d)
      BY <2>2
    <3>2. visitedBefore(s, 1) = {} /\ above(s, 1) = {}
      BY <3>1 DEF visitedBefore, above
    <3>3. Fits(frameFor(d), {}, {})
      BY FreshFits DEF SpanInv, SpanTypeOK
    <3>4. \A k \in 1 .. Len(s) : k = 1
      BY <3>1
    <3> QED BY <3>1, <3>2, <3>3, <3>4, StackOKIs DEF Followed
  <2> QED BY <1>3, <2>1, <2>2
<1>6. StackOK(stack)'
  BY <1>1, <1>2, <1>5, StackThen
<1> QED BY <1>1, <1>2, <1>4, <1>6 DEF SpanInv, SpanTypeOK

LEMMA CountCallOK ==
    ASSUME SpanInv, CountCall
    PROVE  SpanInv'
<1> DEFINE calls == prog.calls[top.fn]
           c == calls[top.at]
           f == [top EXCEPT !.at = @ + 1, !.sum = plus(@, unfollowed(c), 2 ^ c.loops)]
<1>1. /\ prog' = prog /\ reported' = reported /\ pending' = pending
      /\ stack /= <<>> /\ top.at <= Len(calls) /\ ~top.following
      /\ c.context => implementations(c.target) = {}
      /\ stack' = replaceTop(f)
  BY DEF CountCall
<1>2. top \in Frame /\ top.at \in Nat \ {0} /\ top.sum \in Work /\ top.following = FALSE /\ Len(calls) \in Nat
  BY <1>1, TopIs, FrameIs
<1>3. c \in Call /\ c.loops \in Nat
  <2>1. top.at \in 1 .. Len(calls)
    BY <1>1, <1>2
  <2>2. c \in Call
    BY <1>1, <2>1, TopIs
  <2> QED BY <2>2 DEF Call
<1>4. unfollowed(c) \in Work /\ workOf(summary[visiting], c) = unfollowed(c)
  <2>1. prog \in Program /\ summary[visiting] \in [Decl -> Work]
    BY <1>1, TopIs DEF SpanInv, SpanTypeOK
  <2> QED BY <1>1, <1>3, <2>1, WorkOfIs, UnfollowedIs
<1>5. f \in Frame /\ f.fn = top.fn /\ f.at = top.at + 1 /\ f.following = FALSE
      /\ f.sum = plus(top.sum, workOf(summary[visiting], c), 2 ^ c.loops)
  <2>1. plus(top.sum, unfollowed(c), 2 ^ c.loops) \in Work
    BY <1>2, <1>3, <1>4, PlusIs, Weight
  <2>2. top.at + 1 \in Nat \ {0}
    BY <1>2
  <2> QED BY <1>2, <1>4, <2>1, <2>2 DEF Frame
<1> HIDE DEF f
<1>6. Fits(f, visitedBefore(stack, Len(stack)), {})
  BY <1>1, <1>5, NextCall
<1> QED BY <1>1, <1>5, <1>6, ReplacedOK

LEMMA FollowCallOK ==
    ASSUME SpanInv, FollowCall
    PROVE  SpanInv'
<1> DEFINE calls == prog.calls[top.fn]
           c == calls[top.at]
           f == [top EXCEPT !.following = TRUE, !.worst = noWork, !.left = implementations(c.target)]
           V == visitedBefore(stack, Len(stack))
<1>1. /\ prog' = prog /\ reported' = reported /\ pending' = pending
      /\ stack /= <<>> /\ top.at <= Len(calls) /\ ~top.following
      /\ c.context /\ implementations(c.target) /= {}
      /\ stack' = replaceTop(f)
  BY DEF FollowCall
<1>2. top \in Frame /\ Fits(top, V, {})
  BY <1>1, TopIs
<1>3. noWork \in Work /\ implementations(c.target) \subseteq Decl
  <2>1. prog \in Program
    BY DEF SpanInv, SpanTypeOK
  <2> QED BY <2>1, ProgramIs DEF noWork, Work
<1>4. /\ f \in Frame /\ f.fn = top.fn /\ f.at = top.at /\ f.sum = top.sum /\ f.following = TRUE
      /\ f.worst = noWork /\ f.left = implementations(c.target)
  BY <1>2, <1>3 DEF Frame
<1> HIDE DEF f
<1>5. Fits(f, V, {})
  <2>1. \A work : WorstIs(work, {}, noWork)
    BY <1>3 DEF WorstIs, noWork
  <2>2. implementations(c.target) \ (implementations(c.target) \union {}) = {}
    OBVIOUS
  <2> QED BY <1>1, <1>2, <1>4, <2>1, <2>2 DEF Fits
<1> QED BY <1>1, <1>4, <1>5, ReplacedOK

LEMMA EndCallOK ==
    ASSUME SpanInv, EndCall
    PROVE  SpanInv'
<1> DEFINE calls == prog.calls[top.fn]
           c == calls[top.at]
           weight == 2 ^ c.loops
           f == [top EXCEPT !.following = FALSE, !.at = @ + 1, !.sum = plus(@, top.worst, weight)]
           V == visitedBefore(stack, Len(stack))
           work == summary[visiting]
           S == implementations(c.target)
<1>1. /\ prog' = prog /\ reported' = reported /\ pending' = pending
      /\ stack /= <<>> /\ top.following /\ top.left = {}
      /\ stack' = replaceTop(f)
  BY DEF EndCall
<1>2. /\ top \in Frame /\ top.at \in Nat \ {0} /\ top.sum \in Work /\ top.worst \in Work
      /\ Len(calls) \in Nat /\ Fits(top, V, {}) /\ visiting = V \union {top.fn}
  BY <1>1, TopIs, FrameIs
<1>3. /\ top.at <= Len(calls) /\ c.context /\ S /= {}
      /\ WorstIs(work, S, top.worst)
  <2>1. S \ ({} \union {}) = S
    OBVIOUS
  <2> QED BY <1>1, <1>2, <2>1 DEF Fits
<1>4. c \in Call /\ c.loops \in Nat
  <2>1. top.at \in 1 .. Len(calls)
    BY <1>2, <1>3
  <2>2. c \in Call
    BY <1>1, <2>1, TopIs
  <2> QED BY <2>2 DEF Call
<1>5. top.worst = workOf(work, c)
  <2>1. prog \in Program /\ work \in [Decl -> Work]
    BY <1>1, TopIs DEF SpanInv, SpanTypeOK
  <2> QED BY <1>3, <1>4, <2>1, WorstIsWork
<1>6. f \in Frame /\ f.fn = top.fn /\ f.at = top.at + 1 /\ f.following = FALSE
      /\ f.sum = plus(top.sum, workOf(summary[visiting], c), 2 ^ c.loops)
  <2>1. plus(top.sum, top.worst, weight) \in Work
    BY <1>2, <1>4, PlusIs, Weight
  <2>2. top.at + 1 \in Nat \ {0}
    BY <1>2
  <2> QED BY <1>2, <1>5, <2>1, <2>2 DEF Frame
<1> HIDE DEF f
<1>7. Fits(f, V, {})
  BY <1>1, <1>3, <1>6, NextCall
<1> QED BY <1>1, <1>6, <1>7, ReplacedOK

LEMMA EnterImplOK ==
    ASSUME SpanInv, NEW d \in Decl, EnterImpl(d)
    PROVE  SpanInv'
<1> DEFINE calls == prog.calls[top.fn]
           c == calls[top.at]
           V == visitedBefore(stack, Len(stack))
           work == summary[visiting]
           S == implementations(c.target)
           here == [top EXCEPT !.left = @ \ {d}]
<1>1. /\ prog' = prog /\ reported' = reported /\ pending' = pending
      /\ stack /= <<>> /\ top.following /\ d \in top.left
  BY DEF EnterImpl
<1>2. /\ top \in Frame /\ top.worst \in Work /\ top.left \subseteq Decl
      /\ Fits(top, V, {}) /\ visiting = V \union {top.fn} /\ visiting \subseteq Decl
      /\ work \in [Decl -> Work]
  BY <1>1, TopIs, FrameIs
<1>3. /\ top.fn \notin V /\ top.at <= Len(calls) /\ c.context /\ S /= {}
      /\ top.sum = summed[V \union {top.fn}][top.fn][top.at - 1]
      /\ top.left \subseteq S /\ WorstIs(work, S \ top.left, top.worst)
  <2>1. S \ (top.left \union {}) = S \ top.left
    OBVIOUS
  <2> QED BY <1>1, <1>2, <2>1 DEF Fits
<1>4. /\ counted(work, d) \in Work
      /\ (S \ top.left) \union {d} = S \ ((top.left \ {d}) \union {})
      /\ S \ top.left = S \ ((top.left \ {d}) \union {d})
  BY <1>1, <1>2, <1>3, CountedIs
<1>5. /\ WorstIs(work, S \ ((top.left \ {d}) \union {}), worstOf(top.worst, counted(work, d)))
      /\ counted(work, d) = noWork => WorstIs(work, S \ ((top.left \ {d}) \union {}), top.worst)
  BY <1>3, <1>4, WorstOneMore
<1>6. /\ here \in Frame /\ here.fn = top.fn /\ here.at = top.at /\ here.sum = top.sum
      /\ here.following = top.following /\ here.left = top.left \ {d} /\ here.worst = top.worst
  BY <1>2 DEF Frame
<1> HIDE DEF here
<1>7. CASE hasTelemetrySpanCall(d)
  <2> DEFINE f == [here EXCEPT !.worst = worstOf(@, tracedCall)]
  <2>1. stack' = replaceTop(f)
    BY <1>7 DEF EnterImpl, here
  <2>2. worstOf(top.worst, tracedCall) \in Work /\ counted(work, d) = tracedCall
    BY <1>5, <1>7 DEF counted, WorstIs
  <2>3. /\ f \in Frame /\ f.fn = top.fn /\ f.at = top.at /\ f.sum = top.sum
        /\ f.following = top.following /\ f.left = top.left \ {d} /\ f.worst = worstOf(top.worst, tracedCall)
    BY <1>6, <2>2 DEF Frame
  <2> HIDE DEF f
  <2>4. top.at <= Len(calls) + 1
    BY <1>2 DEF Fits
  <2>5. Fits(f, V, {})
    BY <1>1, <1>2, <1>3, <1>5, <2>2, <2>3, <2>4 DEF Fits
  <2> QED BY <1>1, <2>1, <2>3, <2>5, ReplacedOK
<1>8. CASE ~hasTelemetrySpanCall(d) /\ d \in visiting
  <2>1. stack' = replaceTop(here)
    BY <1>8 DEF EnterImpl, here
  <2>2. counted(work, d) = noWork
    <3>1. prog \in Program /\ visiting \in SUBSET Decl
      BY <1>2 DEF SpanInv, SpanTypeOK
    <3>2. work[d] = noWork
      BY <1>8, <3>1, SummaryIs
    <3> QED BY <1>8, <3>2 DEF counted
  <2>4. top.at <= Len(calls) + 1
    BY <1>2 DEF Fits
  <2>5. Fits(here, V, {})
    BY <1>1, <1>2, <1>3, <1>5, <1>6, <2>2, <2>4 DEF Fits
  <2> QED BY <1>1, <1>6, <2>1, <2>5, ReplacedOK
<1>9. CASE ~hasTelemetrySpanCall(d) /\ d \notin visiting
  <2> DEFINE n == Len(stack)
  <2>1. stack' = Append(replaceTop(here), frameFor(d))
    BY <1>9 DEF EnterImpl, here
  <2>2. PICK s : s = stack'
    OBVIOUS
  <2>3. n \in Nat /\ n \in 1 .. n /\ stack \in Seq(Frame) /\ frameFor(d) \in Frame
    BY <1>1, TopIs, FrameIs DEF SpanInv, SpanTypeOK
  <2>4. replaceTop(here) \in Seq(Frame) /\ Len(replaceTop(here)) = n
        /\ replaceTop(here)[n] = here /\ \A j \in 1 .. n - 1 : replaceTop(here)[j] = stack[j]
    <3> HIDE DEF Frame
    <3> QED BY <1>6, <2>3 DEF replaceTop
  <2>5. /\ s \in Seq(Frame) /\ Len(s) = n + 1 /\ s[n] = here /\ s[n + 1] = frameFor(d)
        /\ \A j \in 1 .. n - 1 : s[j] = stack[j]
    <3> HIDE DEF Frame, frameFor
    <3> QED BY <2>1, <2>2, <2>3, <2>4
  <2>6. frameFor(d).fn = d
    BY DEF frameFor
  <2>7. Fits(frameFor(d), visiting, {})
    <3>1. prog \in Program /\ visiting \in SUBSET Decl
      BY <1>2 DEF SpanInv, SpanTypeOK
    <3> QED BY <1>9, <3>1, FreshFits
  <2>8. Fits(here, V, {d})
    <3>1. top.at <= Len(calls) + 1
      BY <1>2 DEF Fits
    <3>2. {d} \subseteq S \ (top.left \ {d}) /\ top.left \ {d} \subseteq S
      BY <1>1, <1>3
    <3> QED BY <1>1, <1>2, <1>3, <1>4, <1>6, <3>1, <3>2 DEF Fits
  <2>9. StackOK(s)
    BY <1>1, <1>6, <1>9, <2>5, <2>6, <2>7, <2>8, TopCovered
  <2>10. StackOK(stack)'
    BY <1>1, <2>2, <2>9, StackThen
  <2> QED BY <1>1, <2>2, <2>5, <2>10 DEF SpanInv, SpanTypeOK
<1> QED BY <1>7, <1>8, <1>9

LEMMA ReturnWorkOK ==
    ASSUME SpanInv, ReturnWork
    PROVE  SpanInv'
<1> DEFINE n == Len(stack)
           below == stack[n - 1]
           t == top.fn
           Vb == visitedBefore(stack, n - 1)
           W == visitedBefore(stack, n)
           work == summary[W]
           S == implementations(prog.calls[below.fn][below.at].target)
           f == [below EXCEPT !.worst = worstOf(@, top.sum)]
<1>1. /\ prog' = prog /\ reported' = reported /\ pending' = pending
      /\ stack /= <<>> /\ n > 1 /\ top.at > Len(prog.calls[t])
      /\ stack' = [Front(stack) EXCEPT ![n - 1].worst = worstOf(@, top.sum)]
  BY DEF ReturnWork, Finished
<1>2. /\ n \in Nat /\ n \in 1 .. n /\ n - 1 \in 1 .. n /\ n - 1 \in Nat /\ n - 1 < n /\ (n - 1) + 1 = n
      /\ top \in Frame /\ t \in Decl /\ top.sum \in Work /\ top.at \in Nat \ {0}
      /\ Fits(top, W, {}) /\ W \subseteq Decl /\ (W /= {} => ~hasTelemetrySpanCall(t))
      /\ Len(prog.calls[t]) \in Nat
  <2>1. n \in Nat /\ n \in 1 .. n /\ n - 1 \in 1 .. n /\ n - 1 \in Nat /\ n - 1 < n /\ (n - 1) + 1 = n
    BY <1>1, TopIs
  <2> QED BY <1>1, <2>1, TopIs, FrameIs
<1>3. below \in Frame /\ below.worst \in Work
  BY <1>2, StackIs, FrameIs DEF SpanInv
<1>4. W = Vb \union {below.fn}
  <2>1. \A j \in 1 .. n - 1 : j = n - 1 \/ j \in 1 .. (n - 1) - 1
    <3>1. \A m \in Nat : \A j \in 1 .. m : j = m \/ j \in 1 .. m - 1
      OBVIOUS
    <3> QED BY <1>2, <3>1
  <2>2. (\A j \in 1 .. (n - 1) - 1 : j \in 1 .. n - 1) /\ n - 1 \in 1 .. n - 1
    BY <1>2
  <2> QED BY <2>1, <2>2 DEF visitedBefore
<1>5. Fits(below, Vb, {t})
  <2>1. Followed(stack, n - 1)
    BY <1>2, StackOKIs DEF SpanInv
  <2>2. above(stack, n - 1) = {t}
    BY <1>2 DEF above, top
  <2> QED BY <2>1, <2>2 DEF Followed
<1>6. /\ below.fn \notin Vb /\ below.at <= Len(prog.calls[below.fn]) + 1
      /\ below.sum = summed[W][below.fn][below.at - 1]
      /\ below.following /\ below.at <= Len(prog.calls[below.fn])
      /\ prog.calls[below.fn][below.at].context /\ S /= {}
      /\ below.left \subseteq S /\ t \in S \ below.left
      /\ WorstIs(work, S \ (below.left \union {t}), below.worst)
  BY <1>4, <1>5 DEF Fits
<1>7. top.sum = counted(work, t)
  <2>1. top.at <= Len(prog.calls[t]) + 1 /\ t \notin W /\ top.sum = summed[W \union {t}][t][top.at - 1]
    BY <1>2 DEF Fits
  <2>2. top.at - 1 = Len(prog.calls[t])
    <3>1. \A a, b \in Nat : a > b /\ a <= b + 1 => a - 1 = b
      OBVIOUS
    <3> HIDE DEF n
    <3> QED BY <1>1, <1>2, <2>1, <3>1
  <2>3. prog \in Program /\ W \in SUBSET Decl /\ W \union {t} \in SUBSET Decl
    BY <1>2 DEF SpanInv, SpanTypeOK
  <2>4. work[t] = sums(summary[W \union {t}], t)[Len(prog.calls[t])]
    BY <1>2, <2>1, <2>3, SummaryIs
  <2>5. summed[W \union {t}][t] = sums(summary[W \union {t}], t)
    BY <1>2, <2>3, SummedIs
  <2>6. ~hasTelemetrySpanCall(t)
    BY <1>2, <1>4
  <2> QED BY <2>1, <2>2, <2>4, <2>5, <2>6 DEF counted
<1>8. WorstIs(work, S \ (below.left \union {}), worstOf(below.worst, top.sum))
  <2>1. (S \ (below.left \union {t})) \union {t} = S \ (below.left \union {})
    BY <1>6
  <2>2. counted(work, t) \in Work
    BY <1>2, <1>7
  <2> DEFINE X == S \ (below.left \union {t})
  <2>3. WorstIs(work, X, below.worst)
    BY <1>6
  <2> HIDE DEF X
  <2>4. WorstIs(work, X \union {t}, worstOf(below.worst, counted(work, t)))
    BY <2>2, <2>3, WorstOneMore
  <2> QED BY <1>7, <2>1, <2>4 DEF X
<1>9. /\ f \in Frame /\ f.fn = below.fn /\ f.at = below.at /\ f.sum = below.sum
      /\ f.following = below.following /\ f.left = below.left /\ f.worst = worstOf(below.worst, top.sum)
  <2>1. worstOf(below.worst, top.sum) \in Work
    BY <1>8 DEF WorstIs
  <2> QED BY <1>3, <2>1 DEF Frame
<1>10. PICK s : s = stack'
  OBVIOUS
<1>11. /\ s \in Seq(Frame) /\ Len(s) = n - 1 /\ s[n - 1] = f
       /\ \A j \in 1 .. (n - 1) - 1 : s[j] = stack[j]
  <2>1. stack \in Seq(Frame)
    BY DEF SpanInv, SpanTypeOK
  <2>2. Front(stack) = [j \in 1 .. n - 1 |-> stack[j]]
    BY <1>2, <2>1 DEF Front
  <2>3. s = [j \in 1 .. n - 1 |-> IF j = n - 1 THEN f ELSE stack[j]]
    BY <1>1, <1>2, <1>10, <2>2
  <2> QED BY <1>2, <1>9, <2>1, <2>3
<1> HIDE DEF f
<1>12. Fits(f, Vb, {})
  BY <1>4, <1>6, <1>8, <1>9 DEF Fits
<1>13. StackOK(s)
  BY <1>2, <1>9, <1>11, <1>12, TopChanged
<1>14. StackOK(stack)'
  BY <1>1, <1>10, <1>13, StackThen
<1> QED BY <1>1, <1>10, <1>11, <1>14 DEF SpanInv, SpanTypeOK

LEMMA VerdictOK ==
    ASSUME SpanInv, Verdict
    PROVE  SpanInv'
<1>1. prog' = prog /\ pending' = pending /\ stack' = <<>> /\ stack /= <<>>
      /\ (reported' = reported \/ reported' = reported \union {top.fn})
  BY DEF Verdict, Finished
<1>2. reported' \subseteq Decl
  BY <1>1, TopIs DEF SpanInv, SpanTypeOK
<1>3. StackOK(stack)'
  <2>1. StackOK(<<>>)
    <3>1. 1 .. Len(<<>>) = {}
      OBVIOUS
    <3> QED BY <3>1, StackOKIs
  <2> QED BY <1>1, <2>1, StackThen
<1> QED BY <1>1, <1>2, <1>3 DEF SpanInv, SpanTypeOK

\* The activations have counted what the definitions say (summarizeWork, l. 151-209).
THEOREM SpanCounts == SpanSpec => []SpanInv
<1>1. SpanInv /\ [SpanNext]_spanVars => SpanInv'
  <2> SUFFICES ASSUME SpanInv, [SpanNext]_spanVars PROVE SpanInv'
    OBVIOUS
  <2>1. CASE UNCHANGED spanVars
    <3>1. PICK s : s = stack
      OBVIOUS
    <3>2. StackOK(stack)'
      BY <2>1, <3>1, StackThen DEF spanVars, SpanInv
    <3> QED BY <2>1, <3>2 DEF spanVars, SpanInv, SpanTypeOK
  <2> QED BY <2>1, ExamineOK, CountCallOK, FollowCallOK, EnterImplOK, EndCallOK, ReturnWorkOK,
             VerdictOK DEF SpanNext
<1> QED BY <1>1, SpanInitOK, PTL DEF SpanSpec

\* A finished summary.
LEMMA CountsNow == SpanInv => CountsExactly
<1> SUFFICES ASSUME SpanInv, Finished, Len(stack) = 1 PROVE top.sum = summary[{}][top.fn]
  BY DEF CountsExactly
<1>1. stack /= <<>> /\ top.at > Len(prog.calls[top.fn])
  BY DEF Finished
<1>2. visitedBefore(stack, 1) = {}
  BY DEF visitedBefore
<1>3. /\ Fits(top, {}, {}) /\ top \in Frame /\ top.fn \in Decl
      /\ top.at \in Nat \ {0} /\ Len(prog.calls[top.fn]) \in Nat
  BY <1>1, <1>2, TopIs, FrameIs
<1>4. top.at <= Len(prog.calls[top.fn]) + 1 /\ top.sum = summed[{top.fn}][top.fn][top.at - 1]
  <2>1. {} \union {top.fn} = {top.fn}
    OBVIOUS
  <2> QED BY <1>3, <2>1 DEF Fits
<1>5. top.at - 1 = Len(prog.calls[top.fn])
  BY <1>1, <1>3, <1>4
<1>6. summary[{}][top.fn] = sums(summary[{top.fn}], top.fn)[Len(prog.calls[top.fn])]
  <2>1. prog \in Program /\ {} \in SUBSET Decl /\ {} \union {top.fn} = {top.fn}
    BY DEF SpanInv, SpanTypeOK
  <2>2. \A d \in Decl \ {} : summary[{}][d] = sums(summary[{} \union {d}], d)[Len(prog.calls[d])]
    BY <2>1, SummaryIs
  <2>3. top.fn \in Decl \ {}
    BY <1>3
  <2>4. summary[{}][top.fn] = sums(summary[{} \union {top.fn}], top.fn)[Len(prog.calls[top.fn])]
    BY <2>2, <2>3
  <2> QED BY <2>1, <2>4
<1>7. summed[{top.fn}][top.fn] = sums(summary[{top.fn}], top.fn)
  BY <1>3, SummedIs
<1> QED BY <1>4, <1>5, <1>6, <1>7

\* The count of a method depends neither on the order in which the implementations of
\* an interface come out of the map nor on what was visited before (summarizeWork, l.
\* 151-209).
THEOREM SpanCountsExactly == SpanSpec => []CountsExactly
BY CountsNow, SpanCounts, PTL

-----------------------------------------------------------------------------
(* What a function reaches. *)

\* The functions d hands a context to, short of those that start a span of their own,
\* and those reached from d without entering V again.
Follows(d) == {e \in Decl \ Spanning : \E c \in Calls(d) : c.context /\ e \in Callees(c)}
ClosedBut(S, V) == \A e \in S : Follows(e) \ V \subseteq S
Reach(d, V) == {x \in Decl : \A S \in SUBSET Decl : d \in S /\ ClosedBut(S, V) => x \in S}

LEMMA ReachIs ==
    ASSUME NEW d \in Decl, NEW V
    PROVE  /\ Reach(d, V) \in SUBSET Decl
           /\ d \in Reach(d, V)
           /\ ClosedBut(Reach(d, V), V)
           /\ \A S \in SUBSET Decl : d \in S /\ ClosedBut(S, V) => Reach(d, V) \subseteq S
<1>1. ASSUME NEW e \in Reach(d, V), NEW x \in Follows(e) \ V PROVE x \in Reach(d, V)
  <2>1. x \in Decl
    BY DEF Follows
  <2>2. ASSUME NEW S \in SUBSET Decl, d \in S, ClosedBut(S, V) PROVE x \in S
    <3>1. e \in S
      BY <2>2 DEF Reach
    <3> QED BY <2>2, <3>1 DEF ClosedBut
  <2> QED BY <2>1, <2>2 DEF Reach
<1>2. ClosedBut(Reach(d, V), V)
  BY <1>1 DEF ClosedBut
<1> QED BY <1>2 DEF Reach

\* d reaches itself and what the functions it follows reach without entering it again.
LEMMA ReachStep ==
    ASSUME NEW V \in SUBSET Decl, NEW d \in Decl \ V
    PROVE  \A x : x \in Reach(d, V) <=>
                    x = d \/ \E e \in Follows(d) \ (V \union {d}) : x \in Reach(e, V \union {d})
<1> DEFINE W == V \union {d}
           R == Reach(d, V)
           Q == {x \in Decl : x = d \/ \E e \in Follows(d) \ W : x \in Reach(e, W)}
<1>1. Follows(d) \subseteq Decl
  BY DEF Follows
<1>2. /\ R \in SUBSET Decl /\ d \in R /\ ClosedBut(R, V)
      /\ \A S \in SUBSET Decl : d \in S /\ ClosedBut(S, V) => R \subseteq S
  BY ReachIs
<1> HIDE DEF R
<1>3. ASSUME NEW e \in Follows(d) \ W PROVE Reach(e, W) \subseteq R
  <2>1. e \in R /\ e \in Decl
    BY <1>1, <1>2 DEF ClosedBut
  <2>2. ClosedBut(R, W)
    BY <1>2 DEF ClosedBut
  <2> QED BY <1>2, <2>1, <2>2, ReachIs
<1>4. ASSUME NEW e \in Follows(d) \ W
      PROVE  /\ e \in Decl /\ e \in Reach(e, W) /\ ClosedBut(Reach(e, W), W)
             /\ Reach(e, W) \subseteq Decl
  <2>1. e \in Decl
    BY <1>1
  <2> QED BY <2>1, ReachIs
<1>5. ClosedBut(Q, V)
  <2>1. ASSUME NEW y \in Q, NEW x \in Follows(y) \ V PROVE x \in Q
    <3>1. x \in Decl
      BY DEF Follows
    <3>2. CASE x = d
      BY <3>2
    <3>3. CASE x /= d /\ y = d
      <4>1. x \in Follows(d) \ W
        BY <3>3
      <4> QED BY <1>4, <3>1, <4>1
    <3>4. CASE x /= d /\ y /= d
      <4>1. PICK e \in Follows(d) \ W : y \in Reach(e, W)
        BY <3>4
      <4>2. x \in Reach(e, W)
        BY <1>4, <3>4, <4>1 DEF ClosedBut
      <4> QED BY <3>1, <4>1, <4>2
    <3> QED BY <3>2, <3>3, <3>4
  <2> HIDE DEF Q
  <2> QED BY <2>1 DEF ClosedBut
<1>6. R \subseteq Q
  <2>1. Q \in SUBSET Decl /\ d \in Q
    OBVIOUS
  <2> HIDE DEF Q
  <2> QED BY <1>2, <1>5, <2>1
<1>7. \A x \in Q : x \in R
  BY <1>2, <1>3
<1>8. \A x : x \in Q <=> x = d \/ \E e \in Follows(d) \ W : x \in Reach(e, W)
  BY <1>4
<1> QED BY <1>6, <1>7, <1>8 DEF R

\* What d reaches without entering V is all it reaches if none of that is in V.
LEMMA ReachAll ==
    ASSUME NEW d \in Decl, NEW V
    PROVE  /\ Reach(d, V) \subseteq Reach(d, {})
           /\ V \intersect Reach(d, {}) = {} => Reach(d, V) = Reach(d, {})
<1> DEFINE R == Reach(d, V)
           A == Reach(d, {})
<1>1. /\ R \in SUBSET Decl /\ d \in R /\ ClosedBut(R, V)
      /\ \A S \in SUBSET Decl : d \in S /\ ClosedBut(S, V) => R \subseteq S
  BY ReachIs
<1>2. /\ A \in SUBSET Decl /\ d \in A /\ ClosedBut(A, {})
      /\ \A S \in SUBSET Decl : d \in S /\ ClosedBut(S, {}) => A \subseteq S
  BY ReachIs
<1> HIDE DEF R, A
<1>3. ClosedBut(A, V)
  BY <1>2 DEF ClosedBut
<1>4. R \subseteq A
  BY <1>1, <1>2, <1>3
<1>5. ASSUME V \intersect A = {} PROVE A \subseteq R
  <2>1. ClosedBut(R, {})
    BY <1>1, <1>2, <1>4, <1>5 DEF ClosedBut
  <2> QED BY <1>1, <1>2, <2>1
<1> QED BY <1>4, <1>5 DEF R, A

LEMMA ReachedIs ==
    ASSUME prog \in Program, NEW d \in Decl
    PROVE  Reached(d) = Reach(d, {})
<1> DEFINE onwards(S) == {x \in Decl \ Spanning :
                         \E e \in S : \E k \in 1..Len(prog.calls[e]) :
                            prog.calls[e][k].context /\ x \in Callees(prog.calls[e][k])}
<1>1. ASSUME NEW S \in SUBSET Decl PROVE onwards(S) \subseteq S <=> ClosedBut(S, {})
  <2>1. \A e \in S : Follows(e) \ {} =
           {x \in Decl \ Spanning : \E k \in 1..Len(prog.calls[e]) :
                prog.calls[e][k].context /\ x \in Callees(prog.calls[e][k])}
    BY DEF Follows, Calls
  <2> QED BY <2>1 DEF ClosedBut
<1>2. Reached(d) = {x \in Decl : \A S \in SUBSET Decl : d \in S /\ onwards(S) \subseteq S => x \in S}
  BY DEF Reached
<1> HIDE DEF onwards
<1> QED BY <1>1, <1>2 DEF Reach

LEMMA CalleesAre ==
    /\ \A c : Callees(c) = implementations(c.target)
    /\ \A d \in Decl : d \in Spanning <=> hasTelemetrySpanCall(d)
    /\ Spanning \subseteq Decl
BY DEF Callees, implementations, Real, funcDecls, Spanning, hasTelemetrySpanCall, spanStarters

-----------------------------------------------------------------------------
(* What makes a count positive. *)

\* One of the two counts of w, and the calls that it is about.
part(p, w) == IF p = "untraced" THEN w.untraced ELSE w.instrumented
about(p, c) == IF p = "untraced" THEN Untraced(c) ELSE Traced(c)
parts == {"untraced", "instrumented"}

LEMMA PartIs ==
    ASSUME NEW p \in parts
    PROVE  /\ \A w \in Work : part(p, w) \in Nat
           /\ \A v, w, n : part(p, plus(v, w, n)) = part(p, v) + n * part(p, w)
           /\ part(p, noWork) = 0
<1>1. \A w \in Work : part(p, w) \in Nat
  BY WorkIs DEF part
<1>2. part(p, noWork) = 0
  BY DEF part, noWork
<1>3. \A v, w, n : part(p, plus(v, w, n)) = part(p, v) + n * part(p, w)
  BY DEF part, plus
<1> QED BY <1>1, <1>2, <1>3

\* Sums never shrink, and hold each call's work with the weight of its loops.
LEMMA SumHolds ==
    ASSUME prog \in Program, NEW d \in Decl, NEW work \in [Decl -> Work], NEW p \in parts
    PROVE  LET calls == prog.calls[d]
               total == part(p, sums(work, d)[Len(calls)]) IN
           /\ \A k \in 1 .. Len(calls) :
                 part(p, workOf(work, calls[k])) > 0 =>
                    /\ total >= part(p, workOf(work, calls[k]))
                    /\ calls[k].loops > 0 => total >= 2
           /\ total > 0 => \E k \in 1 .. Len(calls) : part(p, workOf(work, calls[k])) > 0
<1> DEFINE calls == prog.calls[d]
           N == Len(calls)
           s(n) == part(p, sums(work, d)[n])
           w(k) == part(p, workOf(work, calls[k]))
           m(k) == 2 ^ calls[k].loops
<1>1. N \in Nat /\ \A k \in 1 .. N : calls[k] \in Call /\ calls[k].loops \in Nat
  <2>1. N \in Nat /\ \A k \in 1 .. N : calls[k] \in Call
    BY ProgramIs
  <2>2. \A c \in Call : c.loops \in Nat
    BY DEF Call
  <2> QED BY <2>1, <2>2
<1>2. ASSUME NEW k \in 1 .. N
      PROVE  w(k) \in Nat /\ m(k) \in Nat /\ m(k) >= 1 /\ (calls[k].loops > 0 => m(k) >= 2)
  <2>1. workOf(work, calls[k]) \in Work
    BY <1>1, WorkOfIs
  <2> QED BY <1>1, <2>1, PartIs, Weight
<1>3. /\ s(0) = 0
      /\ \A k \in 1 .. N : s(k) = s(k - 1) + m(k) * w(k)
      /\ \A n \in 0 .. N : s(n) \in Nat
  <2>1. s(0) = 0
    BY SumsAre, PartIs
  <2>2. \A k \in 1 .. N : s(k) = s(k - 1) + m(k) * w(k)
    BY SumsAre, PartIs
  <2>3. \A n \in 0 .. N : s(n) \in Nat
    <3>1. \A n \in 0 .. N : sums(work, d)[n] \in Work
      BY SumsAre
    <3> QED BY <3>1, PartIs
  <2> QED BY <2>1, <2>2, <2>3
<1>4. \A a, b, x \in Nat : b >= 1 => a + b * x >= a /\ a + b * x >= b * x /\ b * x >= x
                             /\ (x > 0 => b * x >= b)
  <2>1. \A b, x \in Nat : b >= 1 => b * x \in Nat /\ b * x >= x /\ (x > 0 => b * x >= b)
    <3> SUFFICES ASSUME NEW b \in Nat, NEW x \in Nat, b >= 1
                 PROVE  b * x \in Nat /\ b * x >= x /\ (x > 0 => b * x >= b)
      OBVIOUS
    <3>1. b - 1 \in Nat /\ (b - 1) * x \in Nat /\ b * x = (b - 1) * x + x
      OBVIOUS
    <3>2. ASSUME x > 0 PROVE b * x >= b
      <4>1. x - 1 \in Nat /\ b * (x - 1) \in Nat /\ b * x = b * (x - 1) + b
        BY <3>2
      <4> QED BY <4>1
    <3> QED BY <3>1, <3>2
  <2> QED BY <2>1
<1> HIDE DEF s, w, m, N, calls
<1>5. ASSUME NEW k \in 1 .. N
      PROVE /\ s(k) >= s(k - 1) /\ s(k) >= w(k) /\ (w(k) > 0 => s(k) >= m(k))
            /\ (s(k) > 0 => s(k - 1) > 0 \/ w(k) > 0)
  <2>1. k - 1 \in 0 .. N /\ k \in 0 .. N
    BY <1>1
  <2>2. PICK a \in Nat, b \in Nat, x \in Nat : a = s(k - 1) /\ b = m(k) /\ x = w(k)
    BY <1>2, <1>3, <2>1
  <2>3. b >= 1 /\ s(k) = a + b * x
    BY <1>2, <1>3, <2>2
  <2>4. a + b * x >= a /\ a + b * x >= b * x /\ b * x >= x /\ (x > 0 => b * x >= b) /\ b * x \in Nat
    BY <1>4, <2>3
  <2>5. x = 0 => b * x = 0
    OBVIOUS
  <2> QED BY <2>2, <2>3, <2>4, <2>5
<1>6. ASSUME NEW k \in 1 .. N PROVE s(N) >= s(k)
  <2> DEFINE S == {n \in Nat : n >= k /\ n <= N => s(n) >= s(k)}
  <2>1. 0 \in S
    BY <1>1
  <2>2. ASSUME NEW n \in Nat, n \in S PROVE n + 1 \in S
    <3> SUFFICES ASSUME n + 1 >= k, n + 1 <= N PROVE s(n + 1) >= s(k)
      OBVIOUS
    <3>1. s(n + 1) \in Nat /\ s(k) \in Nat /\ n \in 0 .. N /\ s(n) \in Nat
      BY <1>1, <1>3
    <3>2. CASE n + 1 = k
      BY <3>1, <3>2
    <3>3. CASE n + 1 /= k
      <4>1. n >= k /\ n <= N /\ n + 1 \in 1 .. N /\ (n + 1) - 1 = n
        BY <1>1, <3>3
      <4>2. s(n) >= s(k) /\ s(n + 1) >= s(n)
        BY <1>5, <2>2, <4>1
      <4> QED BY <3>1, <4>2
    <3> QED BY <3>2, <3>3
  <2> HIDE DEF S
  <2>3. N \in S
    BY <1>1, <2>1, <2>2, SetInduction
  <2>4. N >= k /\ N <= N
    BY <1>1
  <2> QED BY <2>3, <2>4 DEF S
<1>7. ASSUME NEW k \in 1 .. N, w(k) > 0 PROVE s(N) >= w(k) /\ (calls[k].loops > 0 => s(N) >= 2)
  <2>1. s(N) \in Nat /\ s(k) \in Nat /\ w(k) \in Nat /\ m(k) \in Nat
    BY <1>1, <1>2, <1>3
  <2>2. s(N) >= s(k) /\ s(k) >= w(k) /\ s(k) >= m(k)
    BY <1>5, <1>6, <1>7
  <2>3. calls[k].loops > 0 => m(k) >= 2
    BY <1>2
  <2> QED BY <2>1, <2>2, <2>3
<1>8. ASSUME \A k \in 1 .. N : ~(w(k) > 0) PROVE ~(s(N) > 0)
  <2> DEFINE S == {n \in Nat : n <= N => ~(s(n) > 0)}
  <2>1. 0 \in S
    BY <1>3
  <2>2. ASSUME NEW n \in Nat, n \in S PROVE n + 1 \in S
    <3> SUFFICES ASSUME n + 1 <= N PROVE ~(s(n + 1) > 0)
      OBVIOUS
    <3>1. n <= N /\ n + 1 \in 1 .. N /\ (n + 1) - 1 = n
      BY <1>1
    <3> QED BY <1>5, <1>8, <2>2, <3>1
  <2> HIDE DEF S
  <2>3. N \in S
    BY <1>1, <2>1, <2>2, SetInduction
  <2>4. N <= N
    BY <1>1
  <2> QED BY <2>3, <2>4 DEF S
<1> QED BY <1>7, <1>8 DEF s, w, N, calls

\* A call's work is positive if it is such a call or one it follows has such work.
LEMMA WorkHolds ==
    ASSUME prog \in Program, NEW work \in [Decl -> Work], NEW c \in Call, NEW p \in parts
    PROVE  /\ part(p, workOf(work, c)) > 0 <=>
                \/ about(p, c)
                \/ c.context /\ \E e \in Callees(c) \ Spanning : part(p, work[e]) > 0
           /\ c.context => \A e \in Callees(c) \ Spanning : part(p, workOf(work, c)) >= part(p, work[e])
<1> DEFINE S == implementations(c.target)
           w == workOf(work, c)
<1>1. Callees(c) = S /\ (\A e \in S : e \in Spanning <=> hasTelemetrySpanCall(e)) /\ S \subseteq Decl
  BY CalleesAre, ProgramIs
<1>2. \A e \in S : /\ counted(work, e) \in Work /\ work[e] \in Work
                   /\ part(p, counted(work, e)) \in Nat /\ part(p, work[e]) \in Nat
                   /\ e \in Spanning => counted(work, e) = tracedCall
                   /\ e \notin Spanning => counted(work, e) = work[e]
  BY <1>1, CountedIs, PartIs DEF counted
<1>3. w \in Work /\ part(p, w) \in Nat
  BY WorkOfIs, PartIs
<1>4. CASE c.context /\ S /= {}
  <2>1. /\ \A e \in S : part(p, counted(work, e)) <= part(p, w)
        /\ \E e \in S : part(p, counted(work, e)) = part(p, w)
    BY <1>4, WorkOfIs DEF part
  <2>2. \A e \in S : about(p, c) /\ e \in Spanning => part(p, counted(work, e)) > 0
    BY <1>1, <1>2, <1>4 DEF part, parts, about, tracedCall, Untraced
  <2>3. \A e \in S : e \in Spanning /\ part(p, counted(work, e)) > 0 => about(p, c)
    BY <1>1, <1>2, <1>4 DEF part, parts, about, tracedCall, Traced
  <2>4. about(p, c) => \E e \in S : e \in Spanning
    <3>1. ~Untraced(c)
      BY <1>1, <1>4 DEF Untraced
    <3>2. c.target /= Library
      <4>1. implementations(Library) = {}
        BY CalleesDiffer DEF implementations, funcDecls
      <4> QED BY <1>4, <4>1
    <3> QED BY <1>1, <3>1, <3>2 DEF about, parts, Traced
  <2> HIDE DEF S, w
  <2>5. part(p, w) > 0 => about(p, c) \/ \E e \in S \ Spanning : part(p, work[e]) > 0
    BY <1>2, <1>3, <2>1, <2>3
  <2>6. about(p, c) => part(p, w) > 0
    BY <1>2, <1>3, <2>1, <2>2, <2>4
  <2>7. \A e \in S \ Spanning : part(p, w) >= part(p, work[e])
    BY <1>2, <1>3, <2>1
  <2>8. \A e \in S \ Spanning : part(p, work[e]) > 0 => part(p, w) > 0
    BY <1>2, <1>3, <2>7
  <2> QED BY <1>1, <1>4, <2>5, <2>6, <2>7, <2>8 DEF w
<1>5. CASE ~(c.context /\ S /= {})
  <2>1. w = unfollowed(c)
    BY <1>5, WorkOfIs
  <2>2. part(p, unfollowed(c)) > 0 <=> about(p, c)
    <3>1. c.context => S = {}
      BY <1>5
    <3>2. Library /= Plumbing
      BY CalleesDiffer
    <3>3. CASE p = "untraced"
      BY <1>1, <3>1, <3>2, <3>3 DEF part, about, unfollowed, Untraced, noWork, tracedCall
    <3>4. CASE p = "instrumented"
      BY <1>1, <3>1, <3>2, <3>4 DEF part, about, unfollowed, Traced, noWork, tracedCall
    <3> QED BY <3>3, <3>4 DEF parts
  <2> QED BY <1>1, <1>5, <2>1, <2>2
<1> QED BY <1>4, <1>5

-----------------------------------------------------------------------------
(* What makes a summary positive, and what makes it more than one. *)

LEMMA FollowsIs ==
    ASSUME prog \in Program, NEW d \in Decl
    PROVE  /\ \A k \in 1 .. Len(prog.calls[d]) : prog.calls[d][k] \in Calls(d)
           /\ \A c \in Calls(d) : \E k \in 1 .. Len(prog.calls[d]) : c = prog.calls[d][k]
           /\ \A c \in Calls(d) : c \in Call /\ c.loops \in Nat
           /\ \A c \in Calls(d) : c.context => Callees(c) \ Spanning \subseteq Follows(d)
           /\ \A e \in Follows(d) : \E c \in Calls(d) : c.context /\ e \in Callees(c) \ Spanning
           /\ Follows(d) \subseteq Decl
<1>1. \A k \in 1 .. Len(prog.calls[d]) : prog.calls[d][k] \in Call
  BY ProgramIs
<1>2. \A c \in Calls(d) : c \in Call /\ c.loops \in Nat
  BY <1>1 DEF Calls, Call
<1>3. \A c : Callees(c) \subseteq Decl
  BY CalleesAre, ProgramIs
<1>4. \A c \in Calls(d) : c.context => Callees(c) \ Spanning \subseteq Follows(d)
  BY <1>3 DEF Follows
<1> QED BY <1>2, <1>4 DEF Calls, Follows

\* The work of d: it holds that of its calls, of which one is positive if it is.
LEMMA SummaryHolds ==
    ASSUME prog \in Program, NEW V \in SUBSET Decl, NEW d \in Decl \ V, NEW p \in parts
    PROVE  LET work == summary[V \union {d}]
               total == part(p, summary[V][d]) IN
           /\ total \in Nat
           /\ work \in [Decl -> Work]
           /\ \A c \in Calls(d) : part(p, workOf(work, c)) \in Nat
           /\ \A c \in Calls(d) : part(p, workOf(work, c)) > 0 =>
                 total >= part(p, workOf(work, c)) /\ (c.loops > 0 => total >= 2)
           /\ total > 0 => \E c \in Calls(d) : part(p, workOf(work, c)) > 0
<1> DEFINE W == V \union {d}
           work == summary[W]
<1>1. W \in SUBSET Decl /\ d \in Decl
  OBVIOUS
<1>2. work \in [Decl -> Work] /\ summary[V] \in [Decl -> Work]
  BY <1>1, SummaryIs
<1>3. summary[V][d] = sums(work, d)[Len(prog.calls[d])]
  BY SummaryIs
<1>4. part(p, summary[V][d]) \in Nat
  BY <1>1, <1>2, PartIs
<1>5. \A c \in Calls(d) : part(p, workOf(work, c)) \in Nat
  <2>1. \A c \in Calls(d) : workOf(work, c) \in Work
    BY <1>1, <1>2, FollowsIs, WorkOfIs
  <2> QED BY <2>1, PartIs
<1> HIDE DEF work
<1>6. /\ \A k \in 1 .. Len(prog.calls[d]) :
            part(p, workOf(work, prog.calls[d][k])) > 0 =>
               /\ part(p, summary[V][d]) >= part(p, workOf(work, prog.calls[d][k]))
               /\ prog.calls[d][k].loops > 0 => part(p, summary[V][d]) >= 2
      /\ part(p, summary[V][d]) > 0 =>
            \E k \in 1 .. Len(prog.calls[d]) : part(p, workOf(work, prog.calls[d][k])) > 0
  BY <1>1, <1>2, <1>3, SumHolds
<1>7. /\ \A k \in 1 .. Len(prog.calls[d]) : prog.calls[d][k] \in Calls(d)
      /\ \A c \in Calls(d) : \E k \in 1 .. Len(prog.calls[d]) : c = prog.calls[d][k]
  BY <1>1, FollowsIs
<1>8. \A c \in Calls(d) : part(p, workOf(work, c)) > 0 =>
         part(p, summary[V][d]) >= part(p, workOf(work, c)) /\ (c.loops > 0 => part(p, summary[V][d]) >= 2)
  BY <1>6, <1>7
<1> QED BY <1>2, <1>4, <1>5, <1>6, <1>7, <1>8 DEF work

\* The work of a function that d follows without entering V again is in that of d.
LEMMA FollowedHolds ==
    ASSUME prog \in Program, NEW V \in SUBSET Decl, NEW d \in Decl \ V, NEW p \in parts,
           NEW c \in Calls(d), c.context, NEW e \in Callees(c) \ Spanning
    PROVE  LET some == part(p, summary[V \union {d}][e])
               total == part(p, summary[V][d]) IN
           /\ some \in Nat /\ total \in Nat
           /\ some > 0 => total >= some /\ (c.loops > 0 => total >= 2)
<1> DEFINE work == summary[V \union {d}]
<1>1. /\ part(p, summary[V][d]) \in Nat /\ work \in [Decl -> Work] /\ part(p, workOf(work, c)) \in Nat
      /\ part(p, workOf(work, c)) > 0 =>
            /\ part(p, summary[V][d]) >= part(p, workOf(work, c))
            /\ c.loops > 0 => part(p, summary[V][d]) >= 2
  BY SummaryHolds
<1>2. c \in Call /\ e \in Decl
  BY FollowsIs
<1>3. part(p, work[e]) \in Nat
  BY <1>1, <1>2, PartIs
<1>4. part(p, workOf(work, c)) >= part(p, work[e])
  BY <1>1, <1>2, WorkHolds
<1> HIDE DEF work
<1> QED BY <1>1, <1>3, <1>4 DEF work

\* A count is positive for exactly the functions that reach a call it is about.
LEMMA SummaryPositive ==
    ASSUME prog \in Program, NEW p \in parts, NEW V \in SUBSET Decl
    PROVE  \A d \in Decl \ V : part(p, summary[V][d]) > 0 <=>
                                  \E e \in Reach(d, V) : \E c \in Calls(e) : about(p, c)
<1> DEFINE leads(d, U) == \E e \in Reach(d, U) : \E c \in Calls(e) : about(p, c)
           good(U) == \A d \in Decl \ U : part(p, summary[U][d]) > 0 <=> leads(d, U)
           T == {U \in SUBSET Decl : good(U)}
<1>1. ASSUME NEW U \in SUBSET Decl, \A d \in Decl \ U : U \union {d} \in T PROVE U \in T
  <2> SUFFICES ASSUME NEW d \in Decl \ U
               PROVE  part(p, summary[U][d]) > 0 <=> leads(d, U)
    OBVIOUS
  <2> DEFINE W == U \union {d}
             work == summary[W]
  <2>1. W \in SUBSET Decl /\ \A e \in Decl \ W : part(p, work[e]) > 0 <=> leads(e, W)
    BY <1>1
  <2>2. \A e \in W : ~(part(p, work[e]) > 0)
    <3>1. \A e \in W : work[e] = noWork
      BY <2>1, SummaryIs
    <3>2. part(p, noWork) = 0 /\ ~(0 > 0)
      BY PartIs
    <3> QED BY <3>1, <3>2
  <2>3. leads(d, U) <=> \/ \E c \in Calls(d) : about(p, c)
                        \/ \E e \in Follows(d) \ W : leads(e, W)
    BY ReachStep
  <2>4. Follows(d) \subseteq Decl
    BY FollowsIs
  <2> HIDE DEF leads
  <2>5. leads(d, U) <=> \/ \E c \in Calls(d) : about(p, c)
                        \/ \E e \in Follows(d) : part(p, work[e]) > 0
    BY <2>1, <2>2, <2>3, <2>4
  <2>6. /\ work \in [Decl -> Work]
        /\ part(p, summary[U][d]) \in Nat
        /\ \A c \in Calls(d) : part(p, workOf(work, c)) \in Nat
        /\ \A c \in Calls(d) : part(p, workOf(work, c)) > 0 =>
                                  part(p, summary[U][d]) >= part(p, workOf(work, c))
        /\ part(p, summary[U][d]) > 0 => \E c \in Calls(d) : part(p, workOf(work, c)) > 0
    BY SummaryHolds
  <2> HIDE DEF work
  <2>7. \A c \in Calls(d) : part(p, workOf(work, c)) > 0 <=>
           about(p, c) \/ (c.context /\ \E e \in Callees(c) \ Spanning : part(p, work[e]) > 0)
    BY <2>6, FollowsIs, WorkHolds
  <2>8. part(p, summary[U][d]) > 0 <=> \E c \in Calls(d) : part(p, workOf(work, c)) > 0
    BY <2>6
  <2>9. (\E e \in Follows(d) : part(p, work[e]) > 0) <=>
           \E c \in Calls(d) : c.context /\ \E e \in Callees(c) \ Spanning : part(p, work[e]) > 0
    <3>1. /\ \A c \in Calls(d) : c.context => Callees(c) \ Spanning \subseteq Follows(d)
          /\ \A e \in Follows(d) : \E c \in Calls(d) : c.context /\ e \in Callees(c) \ Spanning
      BY FollowsIs
    <3> QED BY <3>1
  <2> QED BY <2>5, <2>7, <2>8, <2>9
<1> HIDE DEF T
<1>2. V \in T
  BY <1>1, VisitedInduction
<1> QED BY <1>2 DEF T

\* What comes back from a call of d that a loop encloses counts twice at least.
LEMMA UntracedInLoop ==
    ASSUME prog \in Program, NEW V \in SUBSET Decl
    PROVE  \A d \in Decl \ V : \A e \in Reach(d, V) : \A c \in Calls(e) :
              Untraced(c) /\ c.loops > 0 => summary[V][d].untraced >= 2
<1> DEFINE total(d, U) == part("untraced", summary[U][d])
           good(U) == \A d \in Decl \ U : \A e \in Reach(d, U) : \A c \in Calls(e) :
                         Untraced(c) /\ c.loops > 0 => total(d, U) >= 2
           T == {U \in SUBSET Decl : good(U)}
<1>0. "untraced" \in parts /\ \A c : about("untraced", c) <=> Untraced(c)
  BY DEF parts, about
<1>1. ASSUME NEW U \in SUBSET Decl, \A d \in Decl \ U : U \union {d} \in T PROVE U \in T
  <2> SUFFICES ASSUME NEW d \in Decl \ U, NEW e \in Reach(d, U), NEW c \in Calls(e),
                      Untraced(c), c.loops > 0
               PROVE  total(d, U) >= 2
    OBVIOUS
  <2> DEFINE W == U \union {d}
  <2>1. W \in SUBSET Decl /\ good(W)
    BY <1>1
  <2>2. CASE e = d
    <3>1. c \in Call /\ summary[W] \in [Decl -> Work]
      BY <2>1, <2>2, FollowsIs, SummaryIs
    <3>2. part("untraced", workOf(summary[W], c)) > 0
      BY <1>0, <3>1, WorkHolds
    <3> QED BY <1>0, <2>2, <3>2, SummaryHolds
  <2>3. CASE e /= d
    <3>1. PICK x \in Follows(d) \ W : e \in Reach(x, W)
      BY <2>3, ReachStep
    <3>2. x \in Decl \ W
      BY <3>1, FollowsIs
    <3>3. total(x, W) >= 2
      BY <2>1, <3>1, <3>2
    <3>4. PICK k \in Calls(d) : k.context /\ x \in Callees(k) \ Spanning
      BY <3>1, FollowsIs
    <3>5. /\ total(x, W) \in Nat /\ total(d, U) \in Nat
          /\ total(x, W) > 0 => total(d, U) >= total(x, W)
      BY <1>0, <3>4, FollowedHolds
    <3> HIDE DEF total
    <3> QED BY <3>3, <3>5
  <2> QED BY <2>2, <2>3
<1> HIDE DEF T
<1>2. V \in T
  BY <1>1, VisitedInduction
<1> QED BY <1>2 DEF T, part

\* A looped call that leads to an untraced one counts twice at least, where nothing
\* that d reaches is entered twice.
LEMMA UntracedUnderLoop ==
    ASSUME prog \in Program, NEW V \in SUBSET Decl
    PROVE  \A d \in Decl \ V :
              /\ V \intersect Reach(d, {}) = {}
              /\ \A e \in Reach(d, {}) : \A x \in Follows(e) : e \notin Reach(x, {})
              => \A e \in Reach(d, {}) : \A c \in Calls(e) : c.context /\ c.loops > 0 =>
                    \A x \in Callees(c) \ Spanning : \A y \in Reach(x, {}) : \A k \in Calls(y) :
                       Untraced(k) => summary[V][d].untraced >= 2
<1> DEFINE total(d, U) == part("untraced", summary[U][d])
           straight(d) == \A e \in Reach(d, {}) : \A x \in Follows(e) : e \notin Reach(x, {})
           under(e) == \E c \in Calls(e) : c.context /\ c.loops > 0 /\
                          \E x \in Callees(c) \ Spanning : \E y \in Reach(x, {}) : \E k \in Calls(y) :
                             Untraced(k)
           good(U) == \A d \in Decl \ U :
                         U \intersect Reach(d, {}) = {} /\ straight(d) =>
                            \A e \in Reach(d, {}) : under(e) => total(d, U) >= 2
           T == {U \in SUBSET Decl : good(U)}
<1>0. "untraced" \in parts /\ \A c : about("untraced", c) <=> Untraced(c)
  BY DEF parts, about
<1>1. ASSUME NEW U \in SUBSET Decl, \A d \in Decl \ U : U \union {d} \in T PROVE U \in T
  <2> SUFFICES ASSUME NEW d \in Decl \ U, U \intersect Reach(d, {}) = {}, straight(d),
                      NEW e \in Reach(d, {}), under(e)
               PROVE  total(d, U) >= 2
    OBVIOUS
  <2> DEFINE W == U \union {d}
             R == Reach(d, {})
  <2>1. W \in SUBSET Decl /\ good(W)
    BY <1>1
  <2>2. ASSUME NEW x \in Follows(d)
        PROVE  x \in Decl \ W /\ Reach(x, {}) \subseteq R /\ W \intersect Reach(x, {}) = {}
    <3>1. R \in SUBSET Decl /\ d \in R /\ ClosedBut(R, {})
      BY ReachIs
    <3>2. x \in Decl /\ x \in R
      BY <2>2, <3>1, FollowsIs DEF ClosedBut
    <3>3. Reach(x, {}) \subseteq R /\ x \in Reach(x, {})
      BY <3>1, <3>2, ReachIs
    <3>4. d \notin Reach(x, {})
      BY <2>2, <3>1
    <3> QED BY <3>2, <3>3, <3>4
  <2>3. CASE e = d
    <3>1. PICK c \in Calls(d) : c.context /\ c.loops > 0 /\
             \E x \in Callees(c) \ Spanning : \E y \in Reach(x, {}) : \E k \in Calls(y) : Untraced(k)
      BY <2>3
    <3>2. PICK x \in Callees(c) \ Spanning : \E y \in Reach(x, {}) : \E k \in Calls(y) : Untraced(k)
      BY <3>1
    <3>3. x \in Follows(d)
      BY <3>1, FollowsIs
    <3>4. x \in Decl \ W /\ Reach(x, W) = Reach(x, {})
      BY <2>2, <3>3, ReachAll
    <3>5. total(x, W) > 0
      BY <1>0, <2>1, <3>2, <3>4, SummaryPositive
    <3>6. total(x, W) > 0 => total(d, U) >= 2
      BY <1>0, <3>1, FollowedHolds
    <3> QED BY <3>5, <3>6
  <2>4. CASE e /= d
    <3>1. PICK x \in Follows(d) \ {d} : e \in Reach(x, {d})
      <4>1. d \in Decl \ {} /\ {} \union {d} = {d}
        OBVIOUS
      <4> QED BY <2>4, <4>1, ReachStep
    <3>2. x \in Decl \ W /\ Reach(x, {}) \subseteq R /\ W \intersect Reach(x, {}) = {}
      BY <2>2
    <3>3. e \in Reach(x, {})
      BY <3>1, <3>2, ReachAll
    <3>4. straight(x)
      BY <3>2
    <3>5. total(x, W) >= 2
      BY <2>1, <3>2, <3>3, <3>4
    <3>6. PICK k \in Calls(d) : k.context /\ x \in Callees(k) \ Spanning
      BY <3>1, FollowsIs
    <3>7. /\ total(x, W) \in Nat /\ total(d, U) \in Nat
          /\ total(x, W) > 0 => total(d, U) >= total(x, W)
      BY <1>0, <3>6, FollowedHolds
    <3> HIDE DEF total
    <3> QED BY <3>5, <3>7
  <2> QED BY <2>3, <2>4
<1> HIDE DEF T
<1>2. V \in T
  BY <1>1, VisitedInduction
<1> QED BY <1>2 DEF T, part

-----------------------------------------------------------------------------
(* The verdicts. *)

\* What a finished summary says of what the method reaches.
LEMMA FinishedIs ==
    ASSUME SpanInv, Finished, Len(stack) = 1
    PROVE  /\ prog \in Program /\ {} \in SUBSET Decl /\ top.fn \in Decl \ {}
           /\ Reached(top.fn) = Reach(top.fn, {})
           /\ top.sum = summary[{}][top.fn]
           /\ top.sum.untraced \in Nat /\ top.sum.instrumented \in Nat
           /\ top.sum.untraced > 0 <=> \E e \in Reached(top.fn) : \E c \in Calls(e) : Untraced(c)
           /\ top.sum.instrumented > 0 <=> \E e \in Reached(top.fn) : \E c \in Calls(e) : Traced(c)
<1>1. prog \in Program /\ {} \in SUBSET Decl /\ top.fn \in Decl \ {} /\ top.fn \in Decl
  BY TopIs DEF SpanInv, SpanTypeOK, Finished
<1>2. Reached(top.fn) = Reach(top.fn, {})
  BY <1>1, ReachedIs
<1>3. top.sum = summary[{}][top.fn]
  BY CountsNow DEF CountsExactly
<1>4. top.sum.untraced \in Nat /\ top.sum.instrumented \in Nat
  <2>1. summary[{}] \in [Decl -> Work]
    BY <1>1, SummaryIs
  <2> QED BY <1>1, <1>3, <2>1, WorkIs
<1>5. /\ part("untraced", summary[{}][top.fn]) > 0 <=>
            \E e \in Reach(top.fn, {}) : \E c \in Calls(e) : about("untraced", c)
      /\ part("instrumented", summary[{}][top.fn]) > 0 <=>
            \E e \in Reach(top.fn, {}) : \E c \in Calls(e) : about("instrumented", c)
  <2>1. "untraced" \in parts /\ "instrumented" \in parts
    BY DEF parts
  <2> QED BY <1>1, <2>1, SummaryPositive
<1>6. /\ top.sum.untraced > 0 <=> \E e \in Reached(top.fn) : \E c \in Calls(e) : Untraced(c)
      /\ top.sum.instrumented > 0 <=> \E e \in Reached(top.fn) : \E c \in Calls(e) : Traced(c)
  BY <1>2, <1>3, <1>5 DEF part, about
<1> QED BY <1>1, <1>2, <1>3, <1>4, <1>6

\* The exemption for auto-instrumented work is given to exactly the methods that reach
\* traced work and nothing untraced, whatever the recursion among them
\* (wrapsOnlyAutoInstrumentedWork, l. 211-221).
THEOREM SpanInstrumentedExactly == SpanSpec => []InstrumentedExactly
<1>1. SpanInv => InstrumentedExactly
  <2> SUFFICES ASSUME SpanInv, Finished, Len(stack) = 1
               PROVE  wrapsOnlyAutoInstrumentedWork(top.sum) <=>
                         /\ \A e \in Reached(top.fn) : \A c \in Calls(e) : ~Untraced(c)
                         /\ \E e \in Reached(top.fn) : \E c \in Calls(e) : Traced(c)
    BY DEF InstrumentedExactly
  <2>1. /\ top.sum.untraced \in Nat
        /\ top.sum.untraced > 0 <=> \E e \in Reached(top.fn) : \E c \in Calls(e) : Untraced(c)
        /\ top.sum.instrumented > 0 <=> \E e \in Reached(top.fn) : \E c \in Calls(e) : Traced(c)
    BY FinishedIs
  <2>2. top.sum.untraced = 0 <=> ~(top.sum.untraced > 0)
    BY <2>1
  <2> QED BY <2>1, <2>2 DEF wrapsOnlyAutoInstrumentedWork
<1> QED BY <1>1, SpanCounts, PTL

\* A method that reaches an untraced call in a loop, its own or one around a helper
\* that leads to it, is not a thin wrapper ("can never be a single delegated call", l.
\* 149).
THEOREM SpanLoopsAreNotThin == SpanSpec => []LoopsAreNotThin
<1>1. SpanInv => LoopsAreNotThin
  <2> SUFFICES ASSUME SpanInv, Finished, Len(stack) = 1, isThinWrapper(top.sum),
                      NEW e \in Reached(top.fn), NEW c \in Calls(e), c.context, c.loops > 0
               PROVE  /\ ~Untraced(c)
                      /\ ~Recursive(top.fn) =>
                            \A x \in Callees(c) \ Spanning : \A y \in Reached(x) :
                                \A k \in Calls(y) : ~Untraced(k)
    BY DEF LoopsAreNotThin
  <2>1. /\ prog \in Program /\ {} \in SUBSET Decl /\ top.fn \in Decl \ {}
        /\ Reached(top.fn) = Reach(top.fn, {})
        /\ top.sum = summary[{}][top.fn]
    BY FinishedIs
  <2>2. summary[{}][top.fn].untraced = 1 /\ ~(1 >= 2)
    BY <2>1 DEF isThinWrapper
  <2>3. ~Untraced(c)
    BY <2>1, <2>2, UntracedInLoop
  <2>4. ASSUME ~Recursive(top.fn), NEW x \in Callees(c) \ Spanning, NEW y \in Reached(x), NEW k \in Calls(y)
        PROVE  ~Untraced(k)
    <3>1. Reach(top.fn, {}) \subseteq Decl
      BY <2>1, ReachIs
    <3>2. x \in Decl /\ Reached(x) = Reach(x, {})
      <4>1. Callees(c) \subseteq Decl
        BY <2>1, CalleesAre, ProgramIs
      <4> QED BY <2>1, <4>1, ReachedIs
    <3>3. \A z \in Reach(top.fn, {}) : \A v \in Follows(z) : z \notin Reach(v, {})
      <4> SUFFICES ASSUME NEW z \in Reach(top.fn, {}), NEW v \in Follows(z) PROVE z \notin Reach(v, {})
        OBVIOUS
      <4>1. z \in Decl /\ v \in Decl
        BY <3>1 DEF Follows
      <4>2. Reached(v) = Reach(v, {})
        BY <2>1, <4>1, ReachedIs
      <4>3. PICK b \in Calls(z) : b.context /\ v \in Callees(b) \ Spanning
        BY <2>1, <4>1, FollowsIs
      <4> QED BY <2>1, <2>4, <4>2, <4>3 DEF Recursive
    <3>4. {} \intersect Reach(top.fn, {}) = {}
      OBVIOUS
    <3> QED BY <2>1, <2>2, <2>4, <3>2, <3>3, <3>4, UntracedUnderLoop
  <2> QED BY <2>3, <2>4
<1> QED BY <1>1, SpanCounts, PTL
=============================================================================
