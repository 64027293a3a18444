------------------------------ MODULE RepoCheck ------------------------------
(* moovlint repo [path]: runRepoChecks runs five checkers one after the other.     *)
(* Each walks the repository, looks at the files it is for and returns diagnostics *)
(* or an error; RunAll stops at the first error; the exit code tells the outcome.  *)
EXTENDS Integers, SequencesExt

CONSTANT Trees      \* the repositories of the instance

checkers == <<"migrations", "structtags", "protobuf", "sqlnow", "gomodreplace">>
Checker == ToSet(checkers)

(* A tree is the sequence of its entries in the order of filepath.Walk, the root    *)
(* first.  An entry is a record.                                                    *)
(*   depth     below the root                                                       *)
(*   kind      dir, or the file's kind: go, proto, sql, mod (go.mod) or other       *)
(*   name      of a directory: skipped (vendor, third_party, .git, node_modules),   *)
(*             migrations, fixtures (testdata, testfixtures, golden) or plain       *)
(*   walkable  the walk gets no error at it (listing a directory, lstat of a file)  *)
(*   readable  os.ReadFile, or the Go parser, succeeds                              *)
(*   faults    the checkers that would report it                                    *)

\* An entry one deeper than the one before it lies in that one, which is a directory;
\* no two entries of a directory have the same name.
ASSUME TreesAssumption ==
    \A t \in Trees :
        /\ Len(t) \in Nat
        /\ \A n \in 1 .. Len(t) :
              /\ t[n].depth \in Nat
              /\ t[n].depth = 0 <=> n = 1
              /\ n > 1 /\ t[n].depth > t[n - 1].depth =>
                    t[n].depth = t[n - 1].depth + 1 /\ t[n - 1].kind = "dir"
        /\ \A m, n \in 1 .. Len(t) :
              t[m].kind = "mod" /\ t[n].kind = "mod" /\ t[m].depth = 1 /\ t[n].depth = 1 => m = n

VARIABLES
    tree,      \* the repository
    pc,        \* "next", "walk", "look", "print" or "exit"
    c,         \* the checker that runs
    p,         \* the entry the walk is at
    found,     \* the entries the checker will look at
    returned,  \* the diagnostics of the checker so far
    diags,     \* the diagnostics of the checkers before it
    printed,   \* the diagnostics written to stderr
    code       \* the exit code

vars == <<tree, pc, c, p, found, returned, diags, printed, code>>
output == <<printed, code>>

Init ==
    /\ tree \in Trees
    /\ pc = "next"
    /\ c = 1
    /\ p = 1
    /\ found = <<>>
    /\ returned = <<>>
    /\ diags = <<>>
    /\ printed = <<>>
    /\ code = -1

\* The directories whose name makes the checker's walk return SkipDir.
skips(checker) ==
    IF checker = "sqlnow" THEN {"skipped", "migrations", "fixtures"} ELSE {"skipped"}

\* The entry the walk goes to when it does not go into entry n.
after(n) ==
    LET beyond == {m \in n + 1 .. Len(tree) : tree[m].depth <= tree[n].depth}
    IN  IF beyond = {} THEN Len(tree) + 1 ELSE CHOOSE m \in beyond : \A k \in beyond : m <= k

inOrder(entries) ==
    CHOOSE s \in [1 .. Cardinality(entries) -> entries] :
        \A j, k \in DOMAIN s : j < k => s[j] < s[k]

\* The files of a directory, not those below it.
filesOf(n) == inOrder({m \in n + 1 .. after(n) - 1 :
                          tree[m].depth = tree[n].depth + 1 /\ tree[m].kind /= "dir"})

wants(checker, n) ==
    CASE checker = "migrations" -> IF tree[n].kind = "dir" /\ tree[n].name = "migrations"
                                   THEN filesOf(n) ELSE <<>>
      [] checker = "structtags" -> IF tree[n].kind = "go" THEN <<n>> ELSE <<>>
      [] checker = "protobuf"   -> IF tree[n].kind = "proto" THEN <<n>> ELSE <<>>
      [] checker = "sqlnow"     -> IF tree[n].kind = "sql" THEN <<n>> ELSE <<>>

goMod == {n \in 1 .. Len(tree) : tree[n].kind = "mod" /\ tree[n].depth = 1}

\* Every checker but gomodreplace starts with a walk from the root.
StartWalk ==
    /\ pc = "next"
    /\ c < Len(checkers)
    /\ pc' = "walk"
    /\ p' = 1
    /\ found' = <<>>
    /\ returned' = <<>>
    /\ UNCHANGED <<tree, c, diags, output>>

\* gomodreplace reads root/go.mod, which may be missing.
StartGoMod ==
    /\ pc = "next"
    /\ c = Len(checkers)
    /\ \A n \in goMod : tree[n].readable
    /\ pc' = "look"
    /\ found' = inOrder(goMod)
    /\ returned' = <<>>
    /\ UNCHANGED <<tree, c, p, diags, output>>

\* Mutant of Visit: a directory is skipped before its error is looked at.
VisitSkipFirst ==
    /\ pc = "walk"
    /\ p <= Len(tree)
    /\ IF tree[p].kind = "dir" /\ tree[p].name \in skips(checkers[c])
       THEN p' = after(p) /\ UNCHANGED found
       ELSE tree[p].walkable /\ p' = p + 1 /\ found' = found \o wants(checkers[c], p)
    /\ UNCHANGED <<tree, pc, c, returned, diags, output>>

Visit ==
    /\ pc = "walk"
    /\ p <= Len(tree)
    /\ tree[p].walkable
    /\ IF tree[p].kind = "dir" /\ tree[p].name \in skips(checkers[c])
       THEN p' = after(p) /\ UNCHANGED found
       ELSE p' = p + 1 /\ found' = found \o wants(checkers[c], p)
    /\ UNCHANGED <<tree, pc, c, returned, diags, output>>

EndWalk ==
    /\ pc = "walk"
    /\ p > Len(tree)
    /\ pc' = "look"
    /\ UNCHANGED <<tree, c, p, found, returned, diags, output>>

\* A file that cannot be read is passed over; migrations still reports its name.
examines(checker, n) == tree[n].readable \/ checker = "migrations"
Look ==
    /\ pc = "look"
    /\ found /= <<>>
    /\ LET n == Head(found) IN
        returned' = IF examines(checkers[c], n) /\ checkers[c] \in tree[n].faults
                    THEN Append(returned, [checker |-> checkers[c], entry |-> n])
                    ELSE returned
    /\ found' = Tail(found)
    /\ UNCHANGED <<tree, pc, c, p, diags, output>>

\* Mutant of EndCheck: the diagnostics of a checker take the place of the others'.
EndCheckReplace ==
    /\ pc = "look"
    /\ found = <<>>
    /\ diags' = returned
    /\ c' = c + 1
    /\ pc' = IF c = Len(checkers) THEN "print" ELSE "next"
    /\ UNCHANGED <<tree, p, found, returned, output>>

EndCheck ==
    /\ pc = "look"
    /\ found = <<>>
    /\ diags' = diags \o returned
    /\ c' = c + 1
    /\ pc' = IF c = Len(checkers) THEN "print" ELSE "next"
    /\ UNCHANGED <<tree, p, found, returned, output>>

cannotGoOn ==
    \/ pc = "walk" /\ p <= Len(tree) /\ ~tree[p].walkable
    \/ pc = "next" /\ c = Len(checkers) /\ \E n \in goMod : ~tree[n].readable

\* RunAll returns nil and the error; only the error is printed.
Fail ==
    /\ cannotGoOn
    /\ code' = 1
    /\ pc' = "exit"
    /\ UNCHANGED <<tree, c, p, found, returned, diags, printed>>

\* Mutant of Exit: the exit code forgets the diagnostics.
ExitZero ==
    /\ pc = "print"
    /\ printed' = diags
    /\ code' = 0
    /\ pc' = "exit"
    /\ UNCHANGED <<tree, c, p, found, returned, diags>>

Exit ==
    /\ pc = "print"
    /\ printed' = diags
    /\ code' = IF diags = <<>> THEN 0 ELSE 1
    /\ pc' = "exit"
    /\ UNCHANGED <<tree, c, p, found, returned, diags>>

\* The program has returned.
Terminated == pc = "exit" /\ UNCHANGED vars

Next ==
    \/ StartWalk \/ StartGoMod \/ Visit \/ EndWalk \/ Look \/ EndCheck
    \/ Fail \/ Exit
    \/ Terminated

Spec == Init /\ [][Next]_vars

-----------------------------------------------------------------------------
(* What the repository holds, told without a walk *)

\* The directory of entry n, and every directory above it.
parents(n) == {m \in 1 .. n - 1 : tree[m].kind = "dir" /\ after(m) > n}
directory(n) == CHOOSE m \in parents(n) : \A k \in parents(n) : k <= m

reaches(checker, n) == \A m \in parents(n) : tree[m].name \notin skips(checker)

isFor(checker, n) ==
    CASE checker = "migrations" ->
            /\ tree[n].kind /= "dir"
            /\ parents(n) /= {} /\ tree[directory(n)].name = "migrations"
      [] checker = "structtags"   -> tree[n].kind = "go"
      [] checker = "protobuf"     -> tree[n].kind = "proto"
      [] checker = "sqlnow"       -> tree[n].kind = "sql"
      [] checker = "gomodreplace" -> n \in goMod

due == {[checker |-> k, entry |-> n] : k \in Checker, n \in 1 .. Len(tree)}
faulty == {x \in due : /\ isFor(x.checker, x.entry)
                       /\ x.checker = "gomodreplace" \/ reaches(x.checker, x.entry)
                       /\ tree[x.entry].readable \/ x.checker = "migrations"
                       /\ x.checker \in tree[x.entry].faults}

-----------------------------------------------------------------------------
(* Properties *)

\* Exit code 0 means that every checker went through the whole repository and no file
\* that it reads and that is not in a directory it skips is faulty.
SuccessMeansClean == code = 0 => faulty = {}

\* An error prints no diagnostic; without one every fault of every checker is printed,
\* each once.
AllOrNothing ==
    pc = "exit" => \/ printed = <<>>
                   \/ ToSet(printed) = faulty /\ IsInjective(printed)

\* The run fails without a diagnostic exactly if a walk that looks at the place meets an
\* error, or go.mod cannot be read: a directory to be skipped counts, what lies in it does not.
FailsOnErrors ==
    pc = "exit" => (code = 1 /\ printed = <<>> <=>
        \/ \E n \in 1 .. Len(tree) : ~tree[n].walkable /\ reaches("migrations", n)
        \/ \E n \in goMod : ~tree[n].readable)
=============================================================================
