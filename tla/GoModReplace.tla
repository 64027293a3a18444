---------------------------- MODULE GoModReplace ----------------------------
(* repocheck/gomodreplace: Check reads go.mod line by line and reports the      *)
(* replace directives that carry no ticket comment.  What a line means depends  *)
(* on three flags set by earlier lines.                                         *)
EXTENDS Integers, Sequences

CONSTANTS
    Files,       \* the go.mod files of the instance, each a sequence of lines
    Absent,      \* there is no go.mod
    Unreadable   \* reading go.mod fails

\* blank, comment (a line that starts with //), replace (one directive), open
\* ("replace ("), openNoted ("replace ( // text"), entry (a line of a block),
\* close (")"), closeNoted (") // text") and other (any other directive).
Kind == {"blank", "comment", "replace", "open", "openNoted", "entry",
         "close", "closeNoted", "other"}

\* ticket is hasTicketComment of the line.
Line == [kind : Kind, ticket : BOOLEAN]

ASSUME FilesAreLines == Files \subseteq Seq(Line)
ASSUME OutcomesDiffer == Absent \notin Files /\ Unreadable \notin Files /\ Absent /= Unreadable

VARIABLES
    gomod,              \* what os.ReadFile finds
    pc,                 \* "read", "scan", "done" or "error"
    i,                  \* the line read next
    inBlock,            \* inside replace ( ... )
    blockJustified,     \* the block has a ticket
    prevCommentTicket,  \* the last comment line has a ticket
    diags               \* the lines reported

vars == <<gomod, pc, i, inBlock, blockJustified, prevCommentTicket, diags>>
flags == <<inBlock, blockJustified, prevCommentTicket>>

Init ==
    /\ gomod \in Files \union {Absent, Unreadable}
    /\ pc = "read"
    /\ i = 1
    /\ inBlock = FALSE
    /\ blockJustified = FALSE
    /\ prevCommentTicket = FALSE
    /\ diags = {}

\* os.ReadFile: a missing go.mod is no error.
ReadFile ==
    /\ pc = "read"
    /\ pc' = CASE gomod = Unreadable -> "error"
               [] gomod = Absent     -> "done"
               [] OTHER              -> "scan"
    /\ UNCHANGED <<gomod, i, flags, diags>>

line == gomod[i]
NextLine == pc = "scan" /\ i <= Len(gomod) /\ i' = i + 1 /\ UNCHANGED <<gomod, pc>>
Report(missing) == diags' = IF missing THEN diags \union {i} ELSE diags

SkipBlank ==
    /\ NextLine
    /\ line.kind = "blank"
    /\ UNCHANGED <<flags, diags>>

-----------------------------------------------------------------------------
(* Inside a block *)

CloseBlock ==
    /\ NextLine
    /\ inBlock
    /\ line.kind = "close"
    /\ inBlock' = FALSE
    /\ UNCHANGED <<blockJustified, prevCommentTicket, diags>>

\* Mutant of BlockComment: each comment replaces what is known of the block.
BlockCommentForgets ==
    /\ NextLine
    /\ inBlock
    /\ line.kind = "comment"
    /\ blockJustified' = line.ticket
    /\ UNCHANGED <<inBlock, prevCommentTicket, diags>>

BlockComment ==
    /\ NextLine
    /\ inBlock
    /\ line.kind = "comment"
    /\ blockJustified' = (blockJustified \/ line.ticket)
    /\ UNCHANGED <<inBlock, prevCommentTicket, diags>>

\* Every other line of a block is taken for a directive.
BlockEntry ==
    /\ NextLine
    /\ inBlock
    /\ line.kind \notin {"blank", "close", "comment"}
    /\ Report(~line.ticket /\ ~blockJustified)
    /\ UNCHANGED flags

-----------------------------------------------------------------------------
(* Outside a block *)

Comment ==
    /\ NextLine
    /\ ~inBlock
    /\ line.kind = "comment"
    /\ prevCommentTicket' = line.ticket
    /\ UNCHANGED <<inBlock, blockJustified, diags>>

\* Mutant of OtherLine: a ticket stays in force across other directives.
OtherLineKeeps ==
    /\ NextLine
    /\ ~inBlock
    /\ line.kind \in {"entry", "close", "closeNoted", "other"}
    /\ UNCHANGED <<flags, diags>>

\* Any line that does not start with "replace ", a closing bracket included.
OtherLine ==
    /\ NextLine
    /\ ~inBlock
    /\ line.kind \in {"entry", "close", "closeNoted", "other"}
    /\ prevCommentTicket' = FALSE
    /\ UNCHANGED <<inBlock, blockJustified, diags>>

\* The line ends in "(".  prevCommentTicket keeps its value.
OpenBlock ==
    /\ NextLine
    /\ ~inBlock
    /\ line.kind = "open"
    /\ inBlock' = TRUE
    /\ blockJustified' = (line.ticket \/ prevCommentTicket)
    /\ UNCHANGED <<prevCommentTicket, diags>>

\* "replace ( // text" does not end in "(": it is taken for a directive.
Replace ==
    /\ NextLine
    /\ ~inBlock
    /\ line.kind \in {"replace", "openNoted"}
    /\ Report(~line.ticket /\ ~prevCommentTicket)
    /\ prevCommentTicket' = FALSE
    /\ UNCHANGED <<inBlock, blockJustified>>

Return ==
    /\ pc = "scan"
    /\ i > Len(gomod)
    /\ pc' = "done"
    /\ UNCHANGED <<gomod, i, flags, diags>>

\* The program has returned.
Terminated == pc \in {"done", "error"} /\ UNCHANGED vars

Next ==
    \/ ReadFile
    \/ SkipBlank \/ CloseBlock \/ BlockComment \/ BlockEntry
    \/ Comment \/ OtherLine \/ OpenBlock \/ Replace
    \/ Return
    \/ Terminated

Spec == Init /\ [][Next]_vars

-----------------------------------------------------------------------------
(* What the file says, told from the file alone *)

\* The line p stands in a replace block.
InBlock(f, p) ==
    \E q \in 1 .. p - 1 :
        /\ f[q].kind = "open"
        /\ \A r \in q + 1 .. p - 1 : f[r].kind /= "close"

Opens(f, q) == f[q].kind = "open" /\ ~InBlock(f, q)

\* The last line before p that is not blank is a comment with a ticket.
TicketAbove(f, p) ==
    \E q \in 1 .. p - 1 :
        /\ f[q].kind = "comment"
        /\ f[q].ticket
        /\ \A r \in q + 1 .. p - 1 : f[r].kind = "blank"

\* p stands in a block that has a ticket at, above or inside it.
BlockTicket(f, p) ==
    \E q \in 1 .. p - 1 :
        /\ Opens(f, q)
        /\ \A r \in q + 1 .. p - 1 : f[r].kind /= "close"
        /\ \/ f[q].ticket
           \/ TicketAbove(f, q)
           \/ \E r \in q + 1 .. p - 1 : f[r].kind = "comment" /\ f[r].ticket

Directive(f, p) ==
    IF InBlock(f, p) THEN f[p].kind \notin {"blank", "comment", "close"}
                     ELSE f[p].kind \in {"replace", "openNoted"}

Tracked(f, p) ==
    \/ f[p].ticket
    \/ IF InBlock(f, p) THEN BlockTicket(f, p) ELSE TicketAbove(f, p)

\* A comment with a ticket outside the blocks stands before p and only blocks and
\* blank lines stand between them.
TicketBeforeBlocks(f, p) ==
    \E q \in 1 .. p - 1 :
        /\ f[q].kind = "comment"
        /\ f[q].ticket
        /\ ~InBlock(f, q)
        /\ \A r \in q + 1 .. p - 1 : f[r].kind = "blank" \/ InBlock(f, r) \/ Opens(f, r)

\* p is covered by a comment before the blocks, or stands in a block that is.
TicketCarried(f, p) ==
    \/ ~InBlock(f, p) /\ TicketBeforeBlocks(f, p)
    \/ \E q \in 1 .. p - 1 :
        /\ Opens(f, q)
        /\ \A r \in q + 1 .. p - 1 : f[r].kind /= "close"
        /\ TicketBeforeBlocks(f, q)

read == IF pc \in {"scan", "done"} /\ gomod /= Absent THEN 1 .. i - 1 ELSE {}

-----------------------------------------------------------------------------
(* Properties *)

\* Type invariant.
TypeOK ==
    /\ gomod \in Files \union {Absent, Unreadable}
    /\ pc \in {"read", "scan", "done", "error"}
    /\ pc = "scan" => gomod \in Files
    /\ i \in Nat \ {0}
    /\ inBlock \in BOOLEAN
    /\ blockJustified \in BOOLEAN
    /\ prevCommentTicket \in BOOLEAN
    /\ gomod \in Files => i <= Len(gomod) + 1
    /\ gomod \notin Files => i = 1
    /\ diags \subseteq 1 .. i - 1

\* No directive with a ticket is reported: a line reported has no ticket at its
\* end, none in the comment right above it, and in a block none that covers the
\* block, whatever the flags went through before it.
ReportedUntracked == \A p \in diags : Directive(gomod, p) /\ ~Tracked(gomod, p)

\* A directive that passes has a ticket, or the last comment before the blocks
\* above it has one: the flags lead to no other silence.
SilentCovered ==
    \A p \in read : Directive(gomod, p) /\ p \notin diags =>
                        Tracked(gomod, p) \/ TicketCarried(gomod, p)

\* "replace directives in go.mod carry a tracking ticket comment" (README.md
\* l. 113): a directive without one is reported.
SilentTracked == \A p \in read : Directive(gomod, p) /\ p \notin diags => Tracked(gomod, p)
=============================================================================
