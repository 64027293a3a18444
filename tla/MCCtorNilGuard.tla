---------------------------- MODULE MCCtorNilGuard ----------------------------
(* Small packages with a private service and its constructors.                        *)
EXTENDS CtorNilGuard

none == [x \in {} |-> Other]
check(p) == [kind |-> "check", type |-> "svc", inits |-> none, keyed |-> TRUE, uses |-> {}, compares |-> {p}]
compare(p) == [kind |-> "complex", type |-> "svc", inits |-> none, keyed |-> TRUE, uses |-> {}, compares |-> {p}]
delegate(p) == [kind |-> "delegate", type |-> "svc", inits |-> none, keyed |-> TRUE, uses |-> {p}, compares |-> {}]
ret(t, inits) == [kind |-> "return", type |-> t, inits |-> inits, keyed |-> TRUE,
                  uses |-> {inits[f] : f \in DOMAIN inits} \ {Other}, compares |-> {}]
positional(t, inits) == [ret(t, inits) EXCEPT !.keyed = FALSE]
op(kind, t, f) == [kind |-> kind, type |-> t, field |-> f]

returns == {ret("svc", [dep |-> "p"]), ret("svc", [dep |-> "p", log |-> "q"]), ret("svc", [log |-> "q"]),
            ret("svc", [dep |-> Other]), ret("Opts", [lim |-> "p"]),
            positional("svc", [dep |-> "p", log |-> "q"]), positional("Opts", [lim |-> "p"])}
bodies == {<<delegate("p")>>} \union {<<r>> : r \in returns} \union {<<check("p"), r>> : r \in returns}
          \union {<<check("p"), check("q"), r>> : r \in returns}
          \union {<<check("q"), compare("p"), r>> : r \in returns}
          \union {<<r, check("p"), r>> : r \in returns}
          \union {<<check("p"), delegate("q"), r>> : r \in returns}
          \union {<<check("p"), r, ret("svc", [dep |-> "q"])>> : r \in returns}
ctor(g, b) == [generated |-> g, body |-> b]

package(ctors, ops) ==
    [fields |-> [svc |-> {"dep", "log"}, Opts |-> {"lim"}], private |-> {"svc", "dep", "log", "lim"},
     ctors |-> ctors, ops |-> ops, tested |-> {"dep", "lim"}]

ops == {<<>>, <<op("lit", "Opts", "lim")>>, <<op("whole", "svc", "dep")>>, <<op("zero", "svc", "dep")>>, <<op("field", "svc", "dep")>>,
        <<op("field", "svc", "log"), op("whole", "Opts", "lim")>>}
packages == {package(<<ctor(g, b)>>, o) : g \in BOOLEAN, b \in bodies, o \in ops}
            \union {package(<<ctor(FALSE, b), ctor(FALSE, d)>>, <<>>) : b \in bodies, d \in bodies}
=============================================================================
