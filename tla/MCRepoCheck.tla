----------------------------- MODULE MCRepoCheck -----------------------------
(* Small repositories.                                                             *)
EXTENDS RepoCheck

file(depth, kind, readable, faults) ==
    [depth |-> depth, kind |-> kind, name |-> "", walkable |-> TRUE,
     readable |-> readable, faults |-> faults]
dir(depth, name, walkable) ==
    [depth |-> depth, kind |-> "dir", name |-> name, walkable |-> walkable,
     readable |-> TRUE, faults |-> {}]

\* A go.mod, a directory of one file with a directory of one file in it, and a file
\* after them; what cannot be listed has nothing in it.
inner(name, ok, f) == IF ok THEN <<dir(2, name, TRUE), f>> ELSE <<dir(2, name, FALSE)>>
dirNames == {"plain", "migrations", "skipped", "fixtures"}
all == {"migrations", "sqlnow", "structtags", "protobuf"}

trees ==
    {<<dir(0, root, TRUE), file(1, "mod", modOk, {"gomodreplace"}), dir(1, outer, TRUE)>>
        \o inner(below, ok, file(3, k, r, all))
        \o <<file(2, "sql", TRUE, faults), file(1, "proto", TRUE, faults)>> :
        root \in {"plain", "skipped"}, modOk \in BOOLEAN, outer \in dirNames, below \in dirNames,
        ok \in BOOLEAN, k \in {"sql", "go"}, r \in BOOLEAN, faults \in {{}, all}}
    \union {<<dir(0, "plain", TRUE), dir(1, outer, TRUE), file(2, "sql", TRUE, {})>> : outer \in dirNames}
    \union {<<dir(0, "plain", FALSE)>>}
=============================================================================
