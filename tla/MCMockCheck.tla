----------------------------- MODULE MCMockCheck -----------------------------
(* Packages with five interfaces, one and two doubles, and up to three meetings.      *)
EXTENDS MockCheck

iface(home, ms, a) == [home |-> home, methods |-> ms, allowed |-> a]
known == [Store |-> iface("package", {"get"}, FALSE),
          Full |-> iface("package", {"get", "put"}, FALSE),
          Client |-> iface("package", {"get"}, TRUE),
          Queue |-> iface("module", {"put"}, FALSE),
          Reader |-> iface("elsewhere", {"get"}, FALSE)]
double(m, own, promoted) == [mock |-> m, own |-> own, promoted |-> promoted]
doubles == {double(m, o, p) : m \in BOOLEAN, o \in {{}, {"get"}, {"put"}}, p \in {{}, {"put"}, {"get", "put"}}}
meet(d, f) == [double |-> d, iface |-> f]

\* A program that compiles: the value has the interface's methods.
compiles(p) == \A m \in ToSet(p.meets) :
    p.ifaces[m.iface].methods \subseteq p.doubles[m.double].own \union p.doubles[m.double].promoted

package(k, ds, ms) == [known |-> k, ifaces |-> known, doubles |-> ds, meets |-> ms]
Names == DOMAIN known
one == {package(k, <<d>>, ms) : k \in BOOLEAN, d \in doubles,
            ms \in {<<>>} \union {<<meet(1, f)>> : f \in Names}
                   \union {<<meet(1, f), meet(1, g)>> : f \in Names, g \in Names}}
two == {package(k, <<d, e>>, ms) : k \in BOOLEAN, d \in {double(TRUE, {"get"}, {"put"}), double(FALSE, {"put"}, {})},
            e \in {double(TRUE, {"get"}, {}), double(FALSE, {"get"}, {"put"})},
            ms \in {<<meet(2, "Reader"), meet(1, "Queue"), meet(2, "Store")>>,
                    <<meet(2, "Store"), meet(2, "Client")>>, <<meet(1, "Queue")>>}}
packages == {p \in one \union two : compiles(p)}
=============================================================================
