--------------------------- MODULE MCGoModReplace ---------------------------
(* Small go.mod files.                                                          *)
EXTENDS GoModReplace

bare(k) == [kind |-> k, ticket |-> FALSE]
noted(k) == [kind |-> k, ticket |-> TRUE]

upTo(n, lines) == UNION {[1 .. k -> lines] : k \in 0 .. n}

\* Every file of up to three lines, up to five around one block and its tickets, and
\* up to six around several blocks.
lines == {bare("blank"), bare("comment"), noted("comment"), bare("replace"), noted("replace"),
          bare("open"), bare("openNoted"), bare("entry"), bare("close"), bare("other")}
files == upTo(3, lines)
         \union upTo(5, {bare("comment"), noted("comment"), bare("open"), bare("entry"), bare("close")})
         \union upTo(6, {noted("comment"), bare("open"), bare("close"), bare("replace")})

\* A ticket above a block and a directive under it.
blockFiles == upTo(4, {noted("comment"), bare("open"), bare("close"), bare("replace")})
=============================================================================
