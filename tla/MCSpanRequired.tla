---------------------------- MODULE MCSpanRequired ----------------------------
(* Small packages for spanrequired. *)
EXTENDS SpanRequired

decls == {"get", "load", "fetch"}
ifaces == {"Repo"}

call(t, n) == [target |-> t, context |-> TRUE, loops |-> n]
pure(t) == [target |-> t, context |-> FALSE, loops |-> 0]

package(calls, telemetry, doubles) ==
    [calls |-> calls, impls |-> [i \in ifaces |-> {"load", "fetch"}], telemetry |-> telemetry,
     doubles |-> doubles, exported |-> {"get", "load"}]

\* A method calling helpers and an interface with two implementations, in and out
\* of loops, with recursion through both.
packages ==
    LET leaf == {<<>>, <<call(Library, 0)>>, <<call(Opaque, 0)>>, <<call(Opaque, 1)>>,
                 <<call("get", 0)>>, <<call("Repo", 0)>>, <<pure("get")>>,
                 <<call(Library, 0), call("Repo", 1)>>,
                 <<call("fetch", 0), call("load", 0)>>}
        entry == {<<call("Repo", 0)>>, <<call("load", 1)>>, <<call("load", 0), call("fetch", 0)>>,
                  <<call(Plumbing, 0), call("Repo", 0)>>, <<call("Repo", 0), call("Repo", 1)>>}
        none == [d \in decls |-> {}]
    IN  {package([get |-> g, load |-> l, fetch |-> f], s[1], s[2]) :
            g \in entry, l \in leaf, f \in leaf,
            s \in {<<none, {}>>, <<[none EXCEPT !["load"] = {"AddEvent"}], {"fetch"}>>,
                   <<[get |-> {"RecordError"}, load |-> {"SetAttributes"}, fetch |-> {"StartSpan"}], {}>>}}
=============================================================================
