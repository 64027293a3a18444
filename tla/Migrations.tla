------------------------------ MODULE Migrations ------------------------------
(* repocheck/migrations: Check visits every directory named migrations, sorts its   *)
(* file names, and expects their numbers to follow each other; then it looks at     *)
(* what each file contains.                                                         *)
EXTENDS Integers, Sequences, SequencesExt

CONSTANTS
    Trees,        \* the repositories of the instance: sequences of directories
    Unlistable,   \* a directory that os.ReadDir cannot list
    KeyColumn,    \* columns whose name isKeyColumn accepts
    MaxInt        \* the largest int: strconv.Atoi stops there

Dash == -1              \* "-" sorts before the digits,
Underscore == 10        \* "_" and
Letter == 11            \* the letters after them

Word == {"IF NOT EXISTS", "ALTER TABLE", "RENAME", "ADD COLUMN", "NOT NULL", "DEFAULT"}

\* The sql of a file is a sequence of statements, each a record: words, the ones the
\* checks look for; declares, its TEXT NOT NULL columns; guards, the columns it
\* checks against ''.

(* A file is a record: digits, the number its name starts with; rest, the bytes     *)
(* after it (a separator first); matches, whether the name fits migrationNameRe;    *)
(* readable; sql, a sequence of statements.                                         *)
key(file) == file.digits \o file.rest

\* sort.Strings compares names byte by byte.
Before(s, t) ==
    \E k \in 1 .. Len(t) :
        /\ k <= Len(s) + 1
        /\ \A j \in 1 .. k - 1 : s[j] = t[j]
        /\ k = Len(s) + 1 \/ s[k] < t[k]
sorted(files) ==
    CHOOSE s \in [1 .. Cardinality(files) -> files] :
        \A j, k \in DOMAIN s : j < k => Before(key(s[j]), key(s[k]))

\* The number a name starts with, of any size.
number(file) == FoldLeft(LAMBDA value, digit : 10 * value + digit, 0, file.digits)

\* strconv.Atoi returns the largest int for a number out of range.
seq(file) == IF number(file) > MaxInt THEN MaxInt ELSE number(file)

\* n + 1 in an int.
next(n) == IF n = MaxInt THEN -MaxInt - 1 ELSE n + 1

ASSUME FewFiles ==
    /\ MaxInt \in Nat
    /\ \A t \in Trees :
          /\ Len(t) \in Nat
          /\ \A n \in 1 .. Len(t) :
                t[n] /= Unlistable => IsFiniteSet(t[n]) /\ Cardinality(t[n]) < MaxInt

\* No two files of a directory have the same name.
ASSUME FileNames ==
    \A t \in Trees : \A n \in 1 .. Len(t) : t[n] /= Unlistable => \A f, g \in t[n] :
        /\ f.digits \in Seq(0 .. 9) /\ f.rest \in Seq(Dash .. Letter)
        /\ key(f) = key(g) => f = g

ASSUME KnownWords ==
    \A t \in Trees : \A n \in 1 .. Len(t) : t[n] /= Unlistable =>
        \A file \in t[n] : \A k \in 1 .. Len(file.sql) : file.sql[k].words \subseteq Word

VARIABLES
    tree,          \* the directories named migrations, in the order of the walk
    pc,            \* "walk", "list", "files", "done" or "error"
    d,             \* the directory
    names,         \* its file names, sorted
    i,             \* the file looked at next
    expectedSeq,   \* the number it should have
    diags          \* what was reported, with the directory and the file

vars == <<tree, pc, d, names, i, expectedSeq, diags>>

Init ==
    /\ tree \in Trees
    /\ pc = "walk"
    /\ d = 1
    /\ names = <<>>
    /\ i = 1
    /\ expectedSeq = 1
    /\ diags = {}

\* findMigrationDirs: a directory that cannot be walked ends the check.
Walk ==
    /\ pc = "walk"
    /\ pc' \in {"list", "error"}
    /\ UNCHANGED <<tree, d, names, i, expectedSeq, diags>>

\* A directory that cannot be listed is skipped.
SkipDir ==
    /\ pc = "list"
    /\ d <= Len(tree)
    /\ tree[d] = Unlistable
    /\ d' = d + 1
    /\ UNCHANGED <<tree, pc, names, i, expectedSeq, diags>>

\* Mutant of ListDir: the numbers go on from the directory before.
ListDirContinue ==
    /\ pc = "list"
    /\ d <= Len(tree)
    /\ tree[d] /= Unlistable
    /\ names' = sorted(tree[d])
    /\ i' = 1
    /\ pc' = "files"
    /\ UNCHANGED <<tree, d, expectedSeq, diags>>

ListDir ==
    /\ pc = "list"
    /\ d <= Len(tree)
    /\ tree[d] /= Unlistable
    /\ names' = sorted(tree[d])
    /\ i' = 1
    /\ expectedSeq' = 1
    /\ pc' = "files"
    /\ UNCHANGED <<tree, d, diags>>

-----------------------------------------------------------------------------
(* One file *)

has(sql, word) == \E k \in 1 .. Len(sql) : word \in sql[k].words
guarded(sql, column) == \E k \in 1 .. Len(sql) : column \in sql[k].guards

\* checkEmptyStringGuards: a guard anywhere in the file counts.
checkEmptyStringGuards(sql) ==
    \E k \in 1 .. Len(sql) : \E column \in sql[k].declares \intersect KeyColumn :
        ~guarded(sql, column)

\* What the file is reported for; each test looks at the whole text.
contentFaults(file) ==
    LET sql == file.sql IN
    IF ~file.readable THEN {}
    ELSE {what \in {"exists", "rename", "notNull", "guard"} :
            \/ what = "exists" /\ has(sql, "IF NOT EXISTS")
            \/ what = "rename" /\ has(sql, "ALTER TABLE") /\ has(sql, "RENAME")
            \/ what = "notNull" /\ has(sql, "ADD COLUMN") /\ has(sql, "NOT NULL") /\ ~has(sql, "DEFAULT")
            \/ what = "guard" /\ checkEmptyStringGuards(sql)}

file == names[i]
Report(faults) == diags' = diags \union {[dir |-> d, file |-> i, what |-> w] : w \in faults}
NextFile == pc = "files" /\ i <= Len(names) /\ i' = i + 1 /\ UNCHANGED <<tree, pc, d, names>>

\* The name does not match: neither its number nor its content is looked at.
BadName ==
    /\ NextFile
    /\ ~file.matches
    /\ Report({"name"})
    /\ UNCHANGED expectedSeq

\* Mutant of afterFile: the number expected only grows by one.
afterFileSlow(n) == IF n = expectedSeq THEN next(expectedSeq) ELSE expectedSeq

\* The number expected after n: first the one after it if n was expected, then past n.
afterFile(n) ==
    LET met == IF n = expectedSeq THEN next(expectedSeq) ELSE expectedSeq
    IN  IF n > met THEN next(n) ELSE met

\* Mutant of CheckFile: a file out of order is not looked into.
CheckFileOrderFirst ==
    LET n == seq(file) IN
    /\ NextFile
    /\ file.matches
    /\ Report(IF n /= expectedSeq THEN {"order"} ELSE contentFaults(file))
    /\ expectedSeq' = afterFile(n)

CheckFile ==
    LET n == seq(file) IN
    /\ NextFile
    /\ file.matches
    /\ Report((IF n /= expectedSeq THEN {"order"} ELSE {}) \union contentFaults(file))
    /\ expectedSeq' = afterFile(n)

EndDir ==
    /\ pc = "files"
    /\ i > Len(names)
    /\ pc' = "list"
    /\ d' = d + 1
    /\ UNCHANGED <<tree, names, i, expectedSeq, diags>>

Return ==
    /\ pc = "list"
    /\ d > Len(tree)
    /\ pc' = "done"
    /\ UNCHANGED <<tree, d, names, i, expectedSeq, diags>>

\* The program has returned.
Terminated == pc \in {"done", "error"} /\ UNCHANGED vars

Next == Walk \/ SkipDir \/ ListDir \/ BadName \/ CheckFile \/ EndDir \/ Return \/ Terminated

Spec == Init /\ [][Next]_vars

-----------------------------------------------------------------------------
(* Properties *)

reported(k, what) == [dir |-> d, file |-> k, what |-> what] \in diags
looked == IF pc = "files" THEN 1 .. i - 1 ELSE {}

\* A directory in which nothing is reported about names holds the numbers 1, 2, 3
\* and so on, each once: no gap, no repeat, no late insertion passes, nor a number that
\* is not the one in the name because it does not fit an int.
CleanIsSequential ==
    (\A k \in looked : ~reported(k, "name") /\ ~reported(k, "order"))
        => \A k \in looked : number(names[k]) = k

\* Names of the same width with different numbers are reported where a number is
\* missing just before them, and only there: one gap is reported once, not for every
\* file after it.
sameWidth == \A j, k \in looked :
    /\ names[j].matches
    /\ Len(names[j].digits) = Len(names[k].digits)
    /\ j /= k => seq(names[j]) /= seq(names[k])
    /\ seq(names[j]) \in 1 .. MaxInt - 1
GapsReportedOnce ==
    sameWidth => \A k \in looked :
        reported(k, "order") <=> seq(names[k]) /= IF k = 1 THEN 1 ELSE seq(names[k - 1]) + 1

\* A file is looked into whatever was said of its number: an IF NOT EXISTS, a rename
\* and an unguarded key column of a readable, well-named file are always reported.
ContentComplete ==
    \A k \in looked : names[k].matches /\ names[k].readable =>
        \A s \in 1 .. Len(names[k].sql) : LET statement == names[k].sql[s] IN
            /\ "IF NOT EXISTS" \in statement.words => reported(k, "exists")
            /\ {"ALTER TABLE", "RENAME"} \subseteq statement.words => reported(k, "rename")
            /\ \A column \in statement.declares \intersect KeyColumn :
                  reported(k, "guard")
                    \/ \E t \in 1 .. Len(names[k].sql) : column \in names[k].sql[t].guards
=============================================================================
