----------------------------- MODULE MCMigrations -----------------------------
(* Small migration directories.                                                     *)
EXTENDS Migrations

file_(digits, rest, sql) ==
    [digits |-> digits, rest |-> rest, matches |-> TRUE, readable |-> TRUE, sql |-> sql]
st(words) == [words |-> words, declares |-> {}, guards |-> {}]
column(declares, guards) ==
    [words |-> {"NOT NULL"}, declares |-> declares, guards |-> guards]

plain == <<st({})>>

\* With 24 as the largest int, 25 does not fit, and 51 would be 1 if it were cut to the
\* width of an int.
numbers == {<<0, 1>>, <<0, 2>>, <<0, 3>>, <<1>>, <<1, 0>>, <<2, 5>>, <<5, 1>>}
rests == {<<Underscore, 1>>, <<Dash, 1>>}
named == {file_(n, r, plain) : n \in numbers, r \in rests}
badlyNamed == [file_(<<>>, <<Letter>>, <<st({"IF NOT EXISTS"})>>) EXCEPT !.matches = FALSE]

\* Directories of up to three files under every pair of numbers and separators.
dated == {file_(n, <<Underscore, 1>>, plain) : n \in numbers}
some == named \union {badlyNamed}
orderTrees == {<<{f, g, h}>> : f \in some, g \in some, h \in some}
              \union {<<{f}, {g, h}>> : f \in dated, g \in dated, h \in dated}
              \union {<<Unlistable, {f, g}>> : f \in dated, g \in dated}

\* Files of one or two statements, some of them out of order or unreadable.
statements == {st({"IF NOT EXISTS"}), st({"ALTER TABLE", "RENAME"}), st({"ALTER TABLE"}), st({"RENAME"}),
               st({"ALTER TABLE", "ADD COLUMN", "NOT NULL"}), st({"ALTER TABLE", "ADD COLUMN", "DEFAULT"}),
               column({"id"}, {}), column({}, {"id"}), column({"name"}, {})}
contents == {<<s>> : s \in statements} \union {<<s, t>> : s \in statements, t \in statements}
contentTrees ==
    {<<{[file_(n, <<Underscore, 1>>, sql) EXCEPT !.readable = r]}>> :
        n \in {<<0, 1>>, <<0, 2>>}, sql \in contents, r \in BOOLEAN}

trees == orderTrees \union contentTrees
=============================================================================
