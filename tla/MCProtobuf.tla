------------------------------ MODULE MCProtobuf ------------------------------
(* Small .proto files.                                                                *)
EXTENDS Protobuf

ln(kind, delta) == [kind |-> kind, delta |-> delta, number |-> 0, numbers |-> {},
                    pii |-> FALSE, justified |-> FALSE]
message == ln("message", 1)
empty == ln("message", 0)         \* message Empty {}
oneof == ln("other", 1)
close == ln("other", -1)
fieldNo(n) == [ln("field", 0) EXCEPT !.number = n]
personal(n, ok) == [fieldNo(n) EXCEPT !.pii = TRUE, !.justified = ok]
reserve(ns) == [ln("reserved", 0) EXCEPT !.numbers = ns]
comment(ok) == [ln("comment", 0) EXCEPT !.justified = ok]

upTo(n, ls) == UNION {[1 .. k -> ls] : k \in 0 .. n}
balanced(f) == LET sums == FoldLeft(LAMBDA s, l : Append(s, Last(s) + l.delta), <<0>>, f) IN
               Last(sums) = 0 /\ \A k \in 1 .. Len(sums) : sums[k] >= 0
fieldsInside(f) == LET sums == FoldLeft(LAMBDA s, l : Append(s, Last(s) + l.delta), <<0>>, f) IN
                   \A k \in 1 .. Len(f) : sums[k] = 0 => f[k].kind \in {"message", "comment"}

\* One message around every body of up to three lines, and two small messages.
bodies == {fieldNo(1), fieldNo(2), fieldNo(4), personal(4, TRUE), personal(5, FALSE),
           reserve({2, 3}), reserve({3}), comment(TRUE), comment(FALSE)}
wrap(body) == <<message>> \o body \o <<close>>
inOneof(body, rest) == wrap(<<oneof>> \o body \o <<close>> \o rest)
flatFiles ==
    {wrap(b) : b \in upTo(3, bodies)}
    \union {wrap(<<fieldNo(1)>> \o b \o <<comment(TRUE), personal(4, FALSE)>>) : b \in upTo(1, bodies)}
    \union {inOneof(b, r) \o wrap(c) : b \in upTo(2, {fieldNo(1), fieldNo(2)}),
                                    r \in upTo(1, {fieldNo(1), fieldNo(3)}),
                                    c \in upTo(2, {fieldNo(1), fieldNo(4), comment(FALSE)})}

\* Nested, empty and sequential messages in any balanced order.
nestedFiles ==
    {f \in [1 .. 6 -> {message, empty, close, fieldNo(1)}] : balanced(f) /\ fieldsInside(f)}

\* Fields outside any message, two of them with one number.
strayFiles ==
    {<<fieldNo(1)>> \o wrap(b) \o c : b \in upTo(2, {fieldNo(1), fieldNo(3)}),
                                   c \in upTo(2, {fieldNo(1), personal(2, FALSE)})}

files == flatFiles \union nestedFiles \union strayFiles
=============================================================================
