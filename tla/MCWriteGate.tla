----------------------------- MODULE MCWriteGate -----------------------------
(* Small families of packages for the writegate pass. *)
EXTENDS WriteGate, FiniteSets

call(f) == [callee |-> f, args |-> {}, fun |-> FALSE]
callWith(f, args) == [callee |-> f, args |-> args, fun |-> FALSE]
hidden(c) == [c EXCEPT !.fun = TRUE]

plain == [http |-> FALSE, handler |-> FALSE, returnsHandler |-> FALSE, server |-> FALSE]
api == [plain EXCEPT !.http = TRUE]
grpc == [plain EXCEPT !.server = TRUE]
event == [plain EXCEPT !.handler = TRUE]
factory == [plain EXCEPT !.returnsHandler = TRUE]
serverConsumer == [event EXCEPT !.server = TRUE]

upTo(n, S) == {T \in SUBSET S : Cardinality(T) <= n}

seqsUpTo(n, S) == UNION {[1..k -> S] : k \in 0..n}
-----------------------------------------------------------------------------
(* Call graphs: three methods with at most one call each, two interfaces, one *)
(* of them with a method of another package, one imported writer.              *)

graphDecl == {"a", "b", "c"}
graphIface == {"I", "J"}
graphForeign == {"J"}
graphImported == {"Exec", "Load"}

graphImpls == {{<<"a", "I">>, <<"I", "J">>},
               {<<"b", "I">>, <<"c", "J">>}}

graphProgram(on, calls, impl) ==
    [analyzed |-> on,
     calls    |-> calls,
     nested   |-> [b \in graphDecl |-> {}],
     top      |-> {},
     assigns  |-> <<>>,
     impl     |-> impl,
     facts    |-> {"Load"},
     sig      |-> [b \in graphDecl |-> IF b = "a" THEN api ELSE plain]]

graphPrograms ==
    LET targets(d) == CASE d = "a" -> {"b", "c", "I", "J", "Exec"}
                        [] d = "b" -> {"a", "c", "J", "Load"}
                        [] d = "c" -> {"a", "b", "I", "Exec"}
        graphs == {calls \in [graphDecl -> upTo(1, {call(f) : f \in Fn})] :
                     \A d \in graphDecl : \A c \in calls[d] : c.callee \in targets(d)}
        off == [d \in graphDecl |-> {call("Exec")}]
    IN  {graphProgram(TRUE, calls, impl) : calls \in graphs, impl \in graphImpls}
        \cup {graphProgram(FALSE, off, impl) : impl \in graphImpls}
-----------------------------------------------------------------------------
(* Literals: a handler and a helper, a variable that is assigned closures and  *)
(* functions, literals handed to InTxScope and to other calls, nested two deep. *)

litDecl == {"handler", "helper"}
litImported == {"Exec", "InTxScope", "Do"}
litVar == {"save"}
litLit == {"outer", "inner", "stored"}
litBody == litDecl \cup litLit

litProgram(calls, assigns, sigs) ==
    [analyzed |-> TRUE,
     calls    |-> calls,
     nested   |-> [b \in litBody |-> IF b = "handler" THEN {"stored"} ELSE {}],
     top      |-> {},
     assigns  |-> assigns,
     impl     |-> {},
     facts    |-> {},
     sig      |-> [helper |-> plain, stored |-> plain,
                   handler |-> sigs[1], outer |-> sigs[2], inner |-> sigs[3]]]

leaves == {{call("Exec")}, {call("helper")}}

\* Function values: without InTxScope literals any two assignments; with them,
\* at most one.
valuePrograms ==
    LET none == [b \in litBody |-> {}]
        bodies == {{call("Exec")}, {call("save")}}
        closures == {{}, {call("Exec")}, {call("helper")}, {call("save")}}
        assigned == [var : {"save"}, rhs : {"stored", "helper", "handler", Opaque}]
        direct == {{call("save")}, {callWith("InTxScope", {"save"})},
                   {callWith("InTxScope", {"helper"})}}
        scoped == {{callWith("InTxScope", {"outer"})},
                   {call("helper"), callWith("InTxScope", {"outer"})}}
        txs == {{call("helper")}, {callWith("InTxScope", {"inner"})}}
    IN  {litProgram([none EXCEPT !["handler"] = h, !["helper"] = p, !["stored"] = f], as,
                    <<api, plain, plain>>) :
            h \in direct, p \in bodies, f \in closures, as \in seqsUpTo(2, assigned)}
        \cup
        {litProgram([none EXCEPT !["handler"] = h, !["helper"] = p, !["stored"] = {call("Exec")},
                                 !["outer"] = t, !["inner"] = x], as, <<api, plain, plain>>) :
            h \in scoped, p \in bodies, t \in txs, x \in closures, as \in seqsUpTo(1, assigned)}

\* Reports: every signature on the handler and on the literals inside it.
reportPrograms ==
    LET program(h, o, i, s, sigs) ==
            litProgram([handler |-> h, helper |-> {call("Exec")}, outer |-> o, inner |-> i, stored |-> s],
                       <<[var |-> "save", rhs |-> "stored"]>>, sigs)
        frames == {api, event, factory, plain}
        made == {{}, {call("Exec")}, {call("helper")}, {call("save")}}
        stored == {{}, {call("helper")}}
    IN  \* handler { .. InTxScope(outer { .. Do(inner) }) }
        {program(h \cup {callWith("InTxScope", {"outer"})}, {callWith("Do", {"inner"})}, i, {},
                 <<hs, plain, is>>) :
            h \in made, i \in leaves, hs \in frames \cup {grpc, serverConsumer}, is \in frames}
        \cup
        \* handler { .. Do(outer { .. InTxScope(inner) }) }
        {program(h \cup {callWith("Do", {"outer"})}, {callWith("InTxScope", {"inner"})}, i, s,
                 <<hs, os, plain>>) :
            h \in made, i \in leaves, s \in stored, hs \in frames, os \in frames}
        \cup
        \* handler { helper().Wait() .. InTxScope(outer) }
        {program({hidden(call("helper")), call(Opaque), callWith("InTxScope", {"outer"})}, i, {}, s,
                 <<hs, plain, plain>>) :
            i \in {{}} \cup leaves, s \in stored, hs \in frames \cup {grpc}}

litPrograms == valuePrograms \cup reportPrograms
=============================================================================
