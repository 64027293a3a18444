--------------------------- MODULE MCAnalyzerPass ---------------------------
(* Files of one function, or of two for the spans, grown from the nodes each analyzer *)
(* tells apart; one small file of each kind in every kind of package; types that are   *)
(* chains of at most five, some of them endless.                                      *)
EXTENDS AnalyzerPass, TLC

n_(kind, role, name) == [kind |-> kind, role |-> role, name |-> name]
leaf(kind, name) == n_(kind, "", name)
scoped == {"func", "lit", "if"}
defines == {"define", "make", "fromctx"}

\* Trees grow with depths instead of ends.  Go rejects a name that is not defined.
inside(t, n) == {m \in 1 .. n - 1 : \A k \in m + 1 .. n : t[k].depth > t[m].depth}
sees(t, n, d) == t[d].kind \in defines /\ t[d].name = t[n].name /\ inside(t, d) \subseteq inside(t, n)
isDefined(t, n) == t[n].kind \in defines \union {"cast", "table"} \/ t[n].name = "" \/ \E d \in 1 .. n - 1 : sees(t, n, d)
grow(t, labels) ==
    LET last == t[Len(t)]
        deepest == last.depth + (IF last.kind \in scoped THEN 1 ELSE 0)
        trees == {Append(t, [depth |-> d] @@ l) : d \in 2 .. deepest, l \in labels}
    IN  {g \in trees : isDefined(g, Len(g))}

\* It rejects a variable that nobody uses too.  Trees end in something other than a
\* container: an empty one makes no difference.
allUsed(t) ==
    \A d \in 1 .. Len(t) : t[d].kind \in defines =>
        \E n \in d + 1 .. Len(t) : t[n].kind \notin defines \union {"assign"} /\ sees(t, n, d)
withEnds(t) ==
    [n \in 1 .. Len(t) |->
        [end |-> Min({Len(t) + 1} \union {m \in n + 1 .. Len(t) : t[m].depth <= t[n].depth}),
         kind |-> t[n].kind, role |-> t[n].role, name |-> t[n].name]]
files(tops, labels, size) ==
    LET grown[i \in 1 .. size] ==
            IF i = 1 THEN {<<[depth |-> 1] @@ l>> : l \in tops}
            ELSE LET g == grown[i - 1] IN g \union UNION {grow(t, labels) : t \in {h \in g : Len(h) = i - 1}}
        ends == {l \in labels : l.kind \notin scoped}
    IN  {withEnds(t) : t \in {u \in UNION {grow(t, ends) : t \in grown[size]} : allUsed(u)}}

\* Two functions, one after the other.
beside(f, g) == f \o [n \in DOMAIN g |-> [g[n] EXCEPT !.end = @ + Len(f)]]

lits(roles) == {n_("lit", r, "") : r \in roles}
ifs(roles) == {n_("if", r, "") : r \in roles}
returns(roles) == {n_("return", r, "") : r \in roles}
func(roles) == {n_("func", r, "") : r \in roles}
plain == func({"plain"})

closures == files(plain, lits({"deferred", "cleanup", "subtest", "bench", "plain"}) \union {leaf("fatal", "")}, 4)
subtests == files(plain, lits({"subtest", "T", "plain"}) \union
                {leaf("define", "x"), leaf("define", "y"), leaf("assign", "x"), n_("use", "ident", "x"), n_("use", "field", "x"),
                 n_("use", "ident", "y")}, 4)
cancels == files(plain, lits({"plain"}) \union
                {leaf("make", "x"), leaf("make", "y"), leaf("defer", "x"), leaf("defer", "y"),
                 leaf("discard", "x"), leaf("mention", "x")}, 4)
spanBodies == files(plain, lits({"plain"}) \union
                {leaf("make", "x"), leaf("fromctx", "x"), leaf("defer", "x"), leaf("call", "x"), leaf("call", "")}, 3)
spans == {beside(f, g) : f \in spanBodies, g \in spanBodies} \union
         files(plain, {leaf("make", "x"), leaf("make", "y"), leaf("defer", "x"), leaf("defer", "y"),
                       leaf("fromctx", "y"), leaf("call", "x"), leaf("call", "y")}, 4)
branches(role) == files(plain, lits({"plain"}) \union ifs({role, "plain"}) \union
                         returns({"empty", "bare", "wrapped", "flagged"}), 3)
handlers == files(func({"grpc", "plain"}), lits({"plain"}) \union ifs({"plain"}) \union
                   returns({"empty", "nil", "status", "bare"}), 3)
logs == files(func({"ctx", "plain"}) \union lits({"ctx"}), lits({"ctx", "plain"}) \union {leaf("log", "")}, 4)
errors == files(func({"error"}), lits({"plain"}) \union returns({"bare", "nil", "tuple"}) \union
                 {leaf("start", ""), leaf("record", "")}, 4)
validations == files(func({"validate", "plain"}), lits({"plain"}) \union returns({"struct", "bare"}), 3)
clockReads == {n_("clock", "call", ""), n_("clock", "value", "")}
clocks == LET inFunctions == files(func({"clocked", "plain"}) \union lits({"plain"}), lits({"plain"}) \union clockReads, 3)
              declared == withEnds(<<[depth |-> 1] @@ n_("clock", "value", "")>>)
          IN  inFunctions \union {beside(declared, f) : f \in inFunctions}
casts == files(func({"mapper", "plain"}), lits({"plain"}) \union
                {n_("cast", "raw", "A"), n_("cast", "const", "A"), n_("table", "", "A"), n_("table", "", "B"),
                 leaf("switch", "")}, 3)

\* Three packages: store below repo below api, or api beside repo.  A function of each,
\* an interface of store and one of repo.
functionNames == {"Save", "Store", "Insert", "Repo", "Handle"}
packages_ == {"store", "repo", "api"}
homes == [Save |-> "store", Store |-> "store", Insert |-> "repo", Repo |-> "repo", Handle |-> "api"]
interfaces == {"Store", "Repo"}
chain == {<<"repo", "store">>, <<"api", "repo">>, <<"api", "store">>}
importings == {chain, chain \ {<<"api", "repo">>}}
upTo(n, S) == {T \in SUBSET S : Cardinality(T) <= n}
known(imports, p) == {f \in functionNames : homes[f] = p \/ <<p, homes[f]>> \in imports}
callable(imports) ==
    {c \in (functionNames \ interfaces) \X functionNames : c[2] \in known(imports, homes[c[1]]) /\ c[1] /= c[2]}
implementings == {[p \in packages_ |-> impls[p]] :
    impls \in [store : {{}, {<<"Save", "Store">>}}, repo : {{}, {<<"Insert", "Repo">>}, {<<"Insert", "Store">>},
                      {<<"Insert", "Repo">>, <<"Repo", "Store">>}}, api : {{}, {<<"Handle", "Store">>}}]}
wholePrograms ==
    UNION {{[home |-> homes, service |-> s, imports |-> imports, writes |-> w, calls |-> c, impls |-> i] :
              s \in {packages_, packages_ \ {"repo"}}, w \in {{"Save"}, {"Insert"}}, i \in implementings,
              c \in upTo(2, callable(imports))} : imports \in importings}

service == [moov |-> TRUE, excluded |-> FALSE, test |-> FALSE]
at_(analyzer, path, test, nodes) == [analyzer |-> analyzer, path |-> path, test |-> test, nodes |-> nodes]
inService(analyzer, trees) ==
    {at_(analyzer, service, analyzer \in {"requiregoroutine", "subtestassert"}, t) : t \in trees}
inAnyPackage(analyzer, trees) ==
    {at_(analyzer, [moov |-> m, excluded |-> e, test |-> x], f, t) :
        t \in {CHOOSE u \in trees : Len(u) = 3}, m, e, x, f \in BOOLEAN}

\* Types: a chain of types, each made of the next; the last one is made of nothing, or
\* of a named type before it.
chains(kinds, sizes) ==
    {c \in UNION {[1 .. k -> kinds] : k \in sizes} :
        \A n \in 1 .. Len(c) - 1 : c[n] = "named" => c[n + 1] \notin {"named", "alias"}}
chained(c, last) ==
    [n \in 1 .. Len(c) + 1 |->
        IF n <= Len(c) THEN [kind |-> c[n], elem |-> n + 1, methods |-> {}]
        ELSE [kind |-> last, elem |-> 0, methods |-> {}]]
looped(c, n) ==
    [m \in DOMAIN c |-> [kind |-> c[m], elem |-> IF m = Len(c) THEN n ELSE m + 1, methods |-> {}]]
chainKinds == {"named", "pointer", "slice"}
types ==
    {ts \in {chained(c, last) : c \in chains(chainKinds, 0 .. 4) \union chains(chainKinds \union {"array"}, {3}),
                        last \in {"basic", "struct", "map", "alias"}} :
        \A n \in DOMAIN ts : ts[n].kind = "named" => ts[n + 1].kind /= "alias"}
    \union UNION {{looped(c, n) : n \in {m \in DOMAIN c : c[m] = "named" /\ c[Len(c)] /= "named"}} :
                  c \in chains(chainKinds, 1 .. 4)}

\* The first named type of a chain has methods if it is no pointer; time.Time is a struct.
firstNamed(ts) == {n \in DOMAIN ts : ts[n].kind = "named" /\ \A m \in 1 .. n - 1 : ts[m].kind /= "named"}
withMethods(ts, methods) == [n \in DOMAIN ts |-> [ts[n] EXCEPT !.methods = IF n \in firstNamed(ts) THEN methods ELSE {}]]
ofTime == {withMethods(ts, {"time"}) : ts \in {t \in types : \E n \in firstNamed(t) : t[t[n].elem].kind = "struct"}}
fieldOf(ts) == [embedded |-> FALSE, tag |-> {}, type |-> 1, types |-> ts]
taggedFields ==
    {fieldOf(ts) : ts \in types \union ofTime}
    \union {fieldOf(withMethods(ts, {m})) :
               ts \in {t \in types : \E n \in firstNamed(t) : t[t[n].elem].kind /= "pointer"}, m \in {"value", "pointer", "traces", "ptrTraces"}}
    \union {[embedded |-> e, tag |-> t, type |-> 1, types |-> chained(<<"slice">>, "map")] :
               e \in BOOLEAN, t \in SUBSET {"skip", "omitempty", "upper"}}

passes ==
    [requiregoroutine |-> inService("requiregoroutine", closures) \union inAnyPackage("requiregoroutine", closures),
     subtestassert    |-> inService("subtestassert", subtests),
     contextcancel    |-> inService("contextcancel", cancels),
     spanlifecycle    |-> inService("spanlifecycle", spans),
     spancontext      |-> inService("spancontext", spans),
     spanerrors       |-> inService("spanerrors", errors),
     httpdecodeflag   |-> LET trees == branches("decode") IN
                          inService("httpdecodeflag", trees) \union inAnyPackage("httpdecodeflag", trees),
     repoerrorflags   |-> inService("repoerrorflags", branches("expected")),
     grpcstatus       |-> inService("grpcstatus", handlers),
     validationflag   |-> inService("validationflag", validations) \union inAnyPackage("validationflag", validations),
     spanevents       |-> inService("spanevents", logs),
     timeinject       |-> inService("timeinject", clocks),
     enumcast         |-> inService("enumcast", casts),
     oteltags         |-> inService("oteltags", {<<>>}),
     writegate        |-> inService("writegate", {<<>>})]
=============================================================================
