------------------------------- MODULE MockCheck -------------------------------
(* analyzers/mockcheck: interfaceUses finds the structs of test files whose values    *)
(* meet an interface of the module; run then reports them, and the structs with a     *)
(* mock's name that implement an interface of the package, one interface for each,    *)
(* taken from a Go map in whatever order the map gives.                               *)
EXTENDS Integers, SequencesExt

CONSTANTS
    Packages,    \* the packages of the instance
    Iface,       \* names of interfaces
    None         \* no interface

(* A package is a record.                                                             *)
(*   known     the driver gave the module's path                                      *)
(*   ifaces    home ("package", "module" or "elsewhere"), methods and allowed by name *)
(*   doubles   the struct types of its test files, in order: mock (the name is one),  *)
(*             own (the methods declared on it), promoted (those of what it embeds)   *)
(*   meets     the places, in order, where a value of a double (by number) is passed, *)
(*             assigned, returned or converted to an interface                        *)

\* The packages compile: what meets an interface has its methods.
ASSUME PackagesAssumption ==
    /\ None \notin Iface
    /\ \A p \in Packages :
          /\ Len(p.doubles) \in Nat
          /\ DOMAIN p.ifaces \subseteq Iface
          /\ p.meets \in Seq([double : 1 .. Len(p.doubles), iface : DOMAIN p.ifaces])
          /\ \A m \in ToSet(p.meets) :
                p.ifaces[m.iface].methods
                    \subseteq p.doubles[m.double].own \union p.doubles[m.double].promoted

VARIABLES
    pkg,        \* the package
    pc,         \* "uses", "types" or "done"
    i,          \* the place, then the double, looked at
    uses,       \* for each double the interface it stands in for, or None
    left,       \* the interfaces of the package that the loop has not taken
    reports     \* the doubles reported, with the interfaces named

vars == <<pkg, pc, i, uses, left, reports>>

Doubles == 1 .. Len(pkg.doubles)
methods(d) == pkg.doubles[d].own \union pkg.doubles[d].promoted
implements(d, f) == pkg.ifaces[f].methods \subseteq methods(d)

\* collectInterfaces: those of the package's own scope.
ifaces == {f \in DOMAIN pkg.ifaces : pkg.ifaces[f].home = "package"}

Init ==
    /\ pkg \in Packages
    /\ pc = "uses"
    /\ i = 1
    /\ uses = [d \in Doubles |-> None]
    /\ left = {}
    /\ reports = <<>>

-----------------------------------------------------------------------------
(* interfaceUses *)

\* An override, however few of the methods it declares.
declaresInterfaceMethod(d, f) == pkg.doubles[d].own \intersect pkg.ifaces[f].methods /= {}

inModule(f) == \/ pkg.ifaces[f].home = "package"
               \/ pkg.known /\ pkg.ifaces[f].home = "module"

counts(p) == /\ pkg.ifaces[p.iface].methods /= {}
             /\ ~pkg.ifaces[p.iface].allowed
             /\ inModule(p.iface)
             /\ declaresInterfaceMethod(p.double, p.iface)

\* Mutant of Check: a place that does not count takes back what an earlier one said.
CheckForgets ==
    /\ pc = "uses"
    /\ i <= Len(pkg.meets)
    /\ LET p == pkg.meets[i] IN
          uses' = [uses EXCEPT ![p.double] = IF counts(p) THEN p.iface ELSE None]
    /\ i' = i + 1
    /\ UNCHANGED <<pkg, pc, left, reports>>

\* The last place that counts gives the interface.
Check ==
    /\ pc = "uses"
    /\ i <= Len(pkg.meets)
    /\ LET p == pkg.meets[i] IN
          uses' = IF counts(p) THEN [uses EXCEPT ![p.double] = p.iface] ELSE uses
    /\ i' = i + 1
    /\ UNCHANGED <<pkg, pc, left, reports>>

EndUses ==
    /\ pc = "uses"
    /\ i > Len(pkg.meets)
    /\ pc' = "types"
    /\ i' = 1
    /\ left' = ifaces
    /\ UNCHANGED <<pkg, uses, reports>>

-----------------------------------------------------------------------------
(* run *)

atDouble == pc = "types" /\ i <= Len(pkg.doubles)
next == i' = i + 1 /\ left' = ifaces /\ UNCHANGED <<pkg, pc, uses>>

ReportUse ==
    /\ atDouble
    /\ uses[i] /= None
    /\ reports' = Append(reports, [double |-> i, iface |-> uses[i]])
    /\ next

\* Not a mock by name, or no interface is left to compare it with.
PassOver ==
    /\ atDouble
    /\ uses[i] = None
    /\ ~pkg.doubles[i].mock \/ left = {}
    /\ next
    /\ UNCHANGED reports

matches(f) == /\ pkg.ifaces[f].methods /= {}
              /\ ~pkg.ifaces[f].allowed
              /\ implements(i, f)

\* The loop over the map takes any interface that is left.
ReportMock ==
    /\ atDouble
    /\ uses[i] = None
    /\ pkg.doubles[i].mock
    /\ \E f \in left :
          /\ matches(f)
          /\ reports' = Append(reports, [double |-> i, iface |-> f])
    /\ next

SkipInterface ==
    /\ atDouble
    /\ uses[i] = None
    /\ pkg.doubles[i].mock
    /\ \E f \in left : ~matches(f) /\ left' = left \ {f}
    /\ UNCHANGED <<pkg, pc, i, uses, reports>>

Return ==
    /\ pc = "types"
    /\ i > Len(pkg.doubles)
    /\ pc' = "done"
    /\ UNCHANGED <<pkg, i, uses, left, reports>>

\* The program has returned.
Terminated == pc = "done" /\ UNCHANGED vars

Next == Check \/ EndUses \/ ReportUse \/ PassOver \/ ReportMock \/ SkipInterface \/ Return \/ Terminated

Spec == Init /\ [][Next]_vars

-----------------------------------------------------------------------------
(* Properties *)

\* The doubles reported do not depend on the order of the map, nor on the order in
\* which the places are met: one is reported when some place uses it as an internal
\* interface, or its name says mock and it implements an interface of the package.  The
\* interface that is named, whichever it is, is one of these.
ReportedWhateverOrder ==
    /\ pc = "done" =>
          {r.double : r \in ToSet(reports)} =
              {d \in Doubles :
                  \/ \E p \in ToSet(pkg.meets) : p.double = d /\ counts(p)
                  \/ /\ pkg.doubles[d].mock
                     /\ \E f \in ifaces : /\ pkg.ifaces[f].methods /= {}
                                          /\ ~pkg.ifaces[f].allowed
                                          /\ implements(d, f)}
    /\ \A r \in ToSet(reports) :
          implements(r.double, r.iface) /\ ~pkg.ifaces[r.iface].allowed /\ inModule(r.iface)
=============================================================================
