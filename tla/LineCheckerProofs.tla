-------------------------- MODULE LineCheckerProofs --------------------------
(* The two checkers that read a file line by line.  gomodreplace: what Check      *)
(* reports of every go.mod, whose three flags always say what the lines read so   *)
(* far say.  protobuf: what checkProtoFile reports of every .proto file.          *)
EXTENDS GoModReplace, Protobuf, FiniteSetTheorems, WellFoundedInduction, TLAPS

-----------------------------------------------------------------------------
(* gomodreplace *)

-----------------------------------------------------------------------------
(* How one more line changes what the file says of the position after it *)

\* A position is in a block if the line before it opens one, or was in one and
\* does not close it.
LEMMA InBlockNext ==
    ASSUME NEW f, NEW p \in Nat \ {0}
    PROVE  InBlock(f, p + 1) <=> f[p].kind = "open" \/ (InBlock(f, p) /\ f[p].kind /= "close")
<1>1. ASSUME InBlock(f, p + 1) PROVE f[p].kind = "open" \/ (InBlock(f, p) /\ f[p].kind /= "close")
  <2>1. PICK q \in 1 .. p : f[q].kind = "open" /\ \A r \in q + 1 .. p : f[r].kind /= "close"
    BY <1>1 DEF InBlock
  <2>2. CASE q = p
    BY <2>1, <2>2
  <2>3. CASE q < p
    BY <2>1, <2>3 DEF InBlock
  <2> QED BY <2>1, <2>2, <2>3
<1>2. ASSUME f[p].kind = "open" PROVE InBlock(f, p + 1)
  BY <1>2 DEF InBlock
<1>3. ASSUME InBlock(f, p), f[p].kind /= "close" PROVE InBlock(f, p + 1)
  <2>1. PICK q \in 1 .. p - 1 : f[q].kind = "open" /\ \A r \in q + 1 .. p - 1 : f[r].kind /= "close"
    BY <1>3 DEF InBlock
  <2>2. \A r \in q + 1 .. p : f[r].kind /= "close"
    BY <1>3, <2>1
  <2> QED BY <2>1, <2>2 DEF InBlock
<1> QED BY <1>1, <1>2, <1>3

\* Blank lines keep the ticket above, a comment decides it, any other line ends it.
LEMMA TicketAboveNext ==
    ASSUME NEW f, NEW p \in Nat \ {0}
    PROVE  TicketAbove(f, p + 1) <=> \/ f[p].kind = "blank" /\ TicketAbove(f, p)
                                     \/ f[p].kind = "comment" /\ f[p].ticket
<1>1. ASSUME TicketAbove(f, p + 1)
      PROVE  \/ f[p].kind = "blank" /\ TicketAbove(f, p)
             \/ f[p].kind = "comment" /\ f[p].ticket
  <2>1. PICK q \in 1 .. p : /\ f[q].kind = "comment" /\ f[q].ticket
                            /\ \A r \in q + 1 .. p : f[r].kind = "blank"
    BY <1>1 DEF TicketAbove
  <2>2. CASE q = p
    BY <2>1, <2>2
  <2>3. CASE q < p
    BY <2>1, <2>3 DEF TicketAbove
  <2> QED BY <2>1, <2>2, <2>3
<1>2. ASSUME f[p].kind = "blank", TicketAbove(f, p) PROVE TicketAbove(f, p + 1)
  <2>1. PICK q \in 1 .. p - 1 : /\ f[q].kind = "comment" /\ f[q].ticket
                                /\ \A r \in q + 1 .. p - 1 : f[r].kind = "blank"
    BY <1>2 DEF TicketAbove
  <2>2. \A r \in q + 1 .. p : f[r].kind = "blank"
    BY <1>2, <2>1
  <2> QED BY <2>1, <2>2 DEF TicketAbove
<1>3. ASSUME f[p].kind = "comment", f[p].ticket PROVE TicketAbove(f, p + 1)
  BY <1>3 DEF TicketAbove
<1> QED BY <1>1, <1>2, <1>3

\* A ticket before the blocks stays in force over blank lines and whole blocks.
LEMMA TicketBeforeBlocksNext ==
    ASSUME NEW f, NEW p \in Nat \ {0}
    PROVE  /\ TicketBeforeBlocks(f, p) /\ (f[p].kind = "blank" \/ InBlock(f, p) \/ Opens(f, p))
                => TicketBeforeBlocks(f, p + 1)
           /\ f[p].kind = "comment" /\ f[p].ticket /\ ~InBlock(f, p) => TicketBeforeBlocks(f, p + 1)
<1>1. ASSUME TicketBeforeBlocks(f, p), f[p].kind = "blank" \/ InBlock(f, p) \/ Opens(f, p)
      PROVE  TicketBeforeBlocks(f, p + 1)
  <2>1. PICK q \in 1 .. p - 1 :
            /\ f[q].kind = "comment" /\ f[q].ticket /\ ~InBlock(f, q)
            /\ \A r \in q + 1 .. p - 1 : f[r].kind = "blank" \/ InBlock(f, r) \/ Opens(f, r)
    BY <1>1 DEF TicketBeforeBlocks
  <2>2. \A r \in q + 1 .. p : f[r].kind = "blank" \/ InBlock(f, r) \/ Opens(f, r)
    BY <1>1, <2>1
  <2> QED BY <2>1, <2>2 DEF TicketBeforeBlocks
<1>2. ASSUME f[p].kind = "comment", f[p].ticket, ~InBlock(f, p) PROVE TicketBeforeBlocks(f, p + 1)
  BY <1>2 DEF TicketBeforeBlocks
<1> QED BY <1>1, <1>2

\* A block has a ticket from the line that opens it on, or from a comment in it.
LEMMA BlockTicketNext ==
    ASSUME NEW f, NEW p \in Nat \ {0}
    PROVE  BlockTicket(f, p + 1) <=>
               \/ Opens(f, p) /\ (f[p].ticket \/ TicketAbove(f, p))
               \/ BlockTicket(f, p) /\ f[p].kind /= "close"
               \/ /\ \E q \in 1 .. p - 1 : Opens(f, q) /\ \A r \in q + 1 .. p - 1 : f[r].kind /= "close"
                  /\ f[p].kind = "comment" /\ f[p].ticket
<1> DEFINE Covers(q, n) == \/ f[q].ticket
                           \/ TicketAbove(f, q)
                           \/ \E r \in q + 1 .. n - 1 : f[r].kind = "comment" /\ f[r].ticket
           OpenAt(q, n) == Opens(f, q) /\ \A r \in q + 1 .. n - 1 : f[r].kind /= "close"
<1>0. \A n \in {p, p + 1} : BlockTicket(f, n) <=> \E q \in 1 .. n - 1 : OpenAt(q, n) /\ Covers(q, n)
  BY DEF BlockTicket
<1>1. \A q \in 1 .. p - 1 : OpenAt(q, p + 1) <=> OpenAt(q, p) /\ f[p].kind /= "close"
  <2> TAKE q \in 1 .. p - 1
  <2>1. ASSUME \A r \in q + 1 .. p : f[r].kind /= "close"
        PROVE  (\A r \in q + 1 .. p - 1 : f[r].kind /= "close") /\ f[p].kind /= "close"
    BY <2>1
  <2>2. ASSUME \A r \in q + 1 .. p - 1 : f[r].kind /= "close", f[p].kind /= "close"
        PROVE  \A r \in q + 1 .. p : f[r].kind /= "close"
    BY <2>2
  <2> QED BY <2>1, <2>2
<1>2. \A q \in 1 .. p - 1 :
          Covers(q, p + 1) <=> Covers(q, p) \/ (f[p].kind = "comment" /\ f[p].ticket)
  <2> TAKE q \in 1 .. p - 1
  <2>1. (\E r \in q + 1 .. p : f[r].kind = "comment" /\ f[r].ticket)
            <=> \/ \E r \in q + 1 .. p - 1 : f[r].kind = "comment" /\ f[r].ticket
                \/ f[p].kind = "comment" /\ f[p].ticket
    <3>1. ASSUME NEW r \in q + 1 .. p, f[r].kind = "comment" /\ f[r].ticket
          PROVE  \/ \E s \in q + 1 .. p - 1 : f[s].kind = "comment" /\ f[s].ticket
                 \/ f[p].kind = "comment" /\ f[p].ticket
      <4>1. CASE r = p BY <3>1, <4>1
      <4>2. CASE r \in q + 1 .. p - 1 BY <3>1, <4>2
      <4> QED BY <4>1, <4>2
    <3>2. p \in q + 1 .. p /\ q + 1 .. p - 1 \subseteq q + 1 .. p
      OBVIOUS
    <3> QED BY <3>1, <3>2
  <2> QED BY <2>1
<1>3. OpenAt(p, p + 1) <=> Opens(f, p)
  OBVIOUS
<1>4. Covers(p, p + 1) <=> f[p].ticket \/ TicketAbove(f, p)
  OBVIOUS
<1>5. \A q \in 1 .. p : q = p \/ q \in 1 .. p - 1
  OBVIOUS
<1>6. p \in 1 .. p /\ \A q \in 1 .. p - 1 : q \in 1 .. p
  OBVIOUS
<1> HIDE DEF Covers, OpenAt
<1>7. BlockTicket(f, p + 1) <=> \E q \in 1 .. p : OpenAt(q, p + 1) /\ Covers(q, p + 1)
  BY <1>0
<1>8. BlockTicket(f, p) <=> \E q \in 1 .. p - 1 : OpenAt(q, p) /\ Covers(q, p)
  BY <1>0
<1>9. BlockTicket(f, p + 1) <=> \/ OpenAt(p, p + 1) /\ Covers(p, p + 1)
                                \/ \E q \in 1 .. p - 1 : OpenAt(q, p + 1) /\ Covers(q, p + 1)
  BY <1>5, <1>6, <1>7
<1>10. (\E q \in 1 .. p - 1 : OpenAt(q, p + 1) /\ Covers(q, p + 1))
          <=> \/ BlockTicket(f, p) /\ f[p].kind /= "close"
              \/ /\ \E q \in 1 .. p - 1 : OpenAt(q, p)
                 /\ f[p].kind = "comment" /\ f[p].ticket
  BY <1>1, <1>2, <1>8
<1>11. (\E q \in 1 .. p - 1 : OpenAt(q, p))
          <=> \E q \in 1 .. p - 1 : Opens(f, q) /\ \A r \in q + 1 .. p - 1 : f[r].kind /= "close"
  BY DEF OpenAt
<1> QED BY <1>3, <1>4, <1>9, <1>10, <1>11

-----------------------------------------------------------------------------
(* The invariant *)

OpenBefore(f, p) ==
    \E q \in 1 .. p - 1 : Opens(f, q) /\ \A r \in q + 1 .. p - 1 : f[r].kind /= "close"

CarriedBlock(f, p) ==
    \E q \in 1 .. p - 1 :
        /\ Opens(f, q)
        /\ \A r \in q + 1 .. p - 1 : f[r].kind /= "close"
        /\ TicketBeforeBlocks(f, q)

\* inBlock is exact, and an open block has a line that opens it.
BlockExact ==
    /\ inBlock <=> InBlock(gomod, i)
    /\ inBlock => OpenBefore(gomod, i)

\* prevCommentTicket misses no ticket right above, and holds only for a ticket
\* with nothing but blocks since.
CommentKnown ==
    /\ ~inBlock /\ TicketAbove(gomod, i) => prevCommentTicket
    /\ prevCommentTicket => TicketBeforeBlocks(gomod, i)

\* blockJustified misses no ticket of the block, and holds only for one of them or
\* for a ticket carried to the line that opens it.
BlockKnown ==
    inBlock => /\ BlockTicket(gomod, i) => blockJustified
               /\ blockJustified => BlockTicket(gomod, i) \/ CarriedBlock(gomod, i)

Started == pc = "read" => i = 1 /\ ~inBlock /\ ~prevCommentTicket

Inv ==
    /\ TypeOK
    /\ Started
    /\ pc = "scan" => BlockExact /\ CommentKnown /\ BlockKnown
    /\ ReportedUntracked
    /\ SilentCovered

\* The type invariant is inductive on its own.
LEMMA TypeStep == TypeOK /\ [Next]_vars => TypeOK'
<1> SUFFICES ASSUME TypeOK, [Next]_vars PROVE TypeOK'
  OBVIOUS
<1>1. ASSUME NextLine
      PROVE  /\ gomod' \in Files /\ pc' = "scan"
             /\ i \in Nat \ {0} /\ i' = i + 1 /\ i' <= Len(gomod') + 1
             /\ diags \subseteq 1 .. i /\ i \in 1 .. i' - 1
             /\ line.ticket \in BOOLEAN
  <2>1. gomod \in Seq(Line) /\ i \in 1 .. Len(gomod)
    BY <1>1, FilesAreLines DEF TypeOK, NextLine
  <2>2. line.ticket \in BOOLEAN
    <3>1. line \in Line
      BY <2>1 DEF line
    <3>2. \A l \in Line : l.ticket \in BOOLEAN
      BY Zenon DEF Line
    <3> QED BY <3>1, <3>2, Zenon
  <2> QED BY <1>1, <2>1, <2>2 DEF TypeOK, NextLine
<1>2. inBlock \in BOOLEAN /\ blockJustified \in BOOLEAN /\ prevCommentTicket \in BOOLEAN
  BY DEF TypeOK
<1>3. ASSUME NextLine, diags' = diags \/ diags' = diags \union {i},
             inBlock' \in BOOLEAN, blockJustified' \in BOOLEAN, prevCommentTicket' \in BOOLEAN
      PROVE  TypeOK'
  <2>1. diags' \subseteq 1 .. i' - 1
    BY <1>1, <1>3
  <2>2. i' \in Nat \ {0}
    BY <1>1, <1>3
  <2> QED BY <1>1, <1>3, <2>1, <2>2, Zenon DEF TypeOK
<1>4. CASE ReadFile
  BY <1>4, OutcomesDiffer DEF TypeOK, ReadFile, flags
<1>5. CASE SkipBlank
  BY <1>2, <1>3, <1>5, Zenon DEF SkipBlank, flags
<1>6. CASE CloseBlock
  BY <1>2, <1>3, <1>6, Zenon DEF CloseBlock
<1>7. CASE BlockComment
  <2>1. (blockJustified \/ line.ticket) \in BOOLEAN
    OBVIOUS
  <2> QED BY <1>2, <1>3, <1>7, <2>1, Zenon DEF BlockComment
<1>8. CASE BlockEntry
  BY <1>2, <1>3, <1>8, Zenon DEF BlockEntry, Report, flags
<1>9. CASE Comment
  BY <1>1, <1>2, <1>3, <1>9, Zenon DEF Comment
<1>10. CASE OtherLine
  BY <1>2, <1>3, <1>10, Zenon DEF OtherLine
<1>11. CASE OpenBlock
  <2>1. (line.ticket \/ prevCommentTicket) \in BOOLEAN
    OBVIOUS
  <2> QED BY <1>2, <1>3, <1>11, <2>1, Zenon DEF OpenBlock
<1>12. CASE Replace
  BY <1>2, <1>3, <1>12, Zenon DEF Replace, Report
<1>13. CASE Return
  BY <1>13 DEF TypeOK, Return, flags
<1>14. CASE UNCHANGED vars
  BY <1>14 DEF TypeOK, vars
<1> QED
  BY <1>4, <1>5, <1>6, <1>7, <1>8, <1>9, <1>10, <1>11, <1>12, <1>13, <1>14 DEF Next, Terminated

\* Every step that reads a line keeps what the three flags mean.
LEMMA FlagsStep ==
    ASSUME TypeOK, BlockExact, CommentKnown, BlockKnown, NextLine,
           SkipBlank \/ CloseBlock \/ BlockComment \/ BlockEntry
               \/ Comment \/ OtherLine \/ OpenBlock \/ Replace
    PROVE  BlockExact' /\ CommentKnown' /\ BlockKnown'
<1> DEFINE f == gomod
           p == i
<1>0. p \in Nat \ {0} /\ i' = p + 1 /\ gomod' = f
  BY DEF TypeOK, NextLine
<1>1. InBlock(f, p + 1) <=> f[p].kind = "open" \/ (InBlock(f, p) /\ f[p].kind /= "close")
  BY <1>0, InBlockNext
<1>2. TicketAbove(f, p + 1) <=> \/ f[p].kind = "blank" /\ TicketAbove(f, p)
                                \/ f[p].kind = "comment" /\ f[p].ticket
  BY <1>0, TicketAboveNext
<1>3. /\ TicketBeforeBlocks(f, p) /\ (f[p].kind = "blank" \/ InBlock(f, p) \/ Opens(f, p))
           => TicketBeforeBlocks(f, p + 1)
      /\ f[p].kind = "comment" /\ f[p].ticket /\ ~InBlock(f, p) => TicketBeforeBlocks(f, p + 1)
  BY <1>0, TicketBeforeBlocksNext
<1>4. BlockTicket(f, p + 1) <=>
          \/ Opens(f, p) /\ (f[p].ticket \/ TicketAbove(f, p))
          \/ BlockTicket(f, p) /\ f[p].kind /= "close"
          \/ OpenBefore(f, p) /\ f[p].kind = "comment" /\ f[p].ticket
  BY <1>0, BlockTicketNext DEF OpenBefore
<1>5. BlockTicket(f, p) => InBlock(f, p)
  BY DEF BlockTicket, InBlock, Opens
<1>6. /\ Opens(f, p) => OpenBefore(f, p + 1)
      /\ OpenBefore(f, p) /\ f[p].kind /= "close" => OpenBefore(f, p + 1)
  <2>1. ASSUME Opens(f, p) PROVE OpenBefore(f, p + 1)
    BY <1>0, <2>1 DEF OpenBefore
  <2>2. ASSUME OpenBefore(f, p), f[p].kind /= "close" PROVE OpenBefore(f, p + 1)
    <3>1. PICK q \in 1 .. p - 1 : Opens(f, q) /\ \A r \in q + 1 .. p - 1 : f[r].kind /= "close"
      BY <2>2 DEF OpenBefore
    <3>2. q \in 1 .. p /\ \A r \in q + 1 .. p : f[r].kind /= "close"
      BY <1>0, <2>2, <3>1
    <3> QED BY <1>0, <3>1, <3>2 DEF OpenBefore
  <2> QED BY <2>1, <2>2
<1>7. /\ Opens(f, p) /\ TicketBeforeBlocks(f, p) => CarriedBlock(f, p + 1)
      /\ CarriedBlock(f, p) /\ f[p].kind /= "close" => CarriedBlock(f, p + 1)
  <2>1. ASSUME Opens(f, p), TicketBeforeBlocks(f, p) PROVE CarriedBlock(f, p + 1)
    BY <1>0, <2>1 DEF CarriedBlock
  <2>2. ASSUME CarriedBlock(f, p), f[p].kind /= "close" PROVE CarriedBlock(f, p + 1)
    <3>1. PICK q \in 1 .. p - 1 : /\ Opens(f, q) /\ \A r \in q + 1 .. p - 1 : f[r].kind /= "close"
                                  /\ TicketBeforeBlocks(f, q)
      BY <2>2 DEF CarriedBlock
    <3>2. q \in 1 .. p /\ \A r \in q + 1 .. p : f[r].kind /= "close"
      BY <1>0, <2>2, <3>1
    <3> QED BY <1>0, <3>1, <3>2 DEF CarriedBlock
  <2> QED BY <2>1, <2>2
<1>8. line = f[p]
  BY DEF line
<1> USE DEF BlockExact, CommentKnown, BlockKnown
<1> HIDE DEF f, p
<1>9. /\ (inBlock <=> InBlock(f, p)) /\ (inBlock => OpenBefore(f, p))
      /\ (~inBlock /\ TicketAbove(f, p) => prevCommentTicket)
      /\ (prevCommentTicket => TicketBeforeBlocks(f, p))
      /\ inBlock => /\ BlockTicket(f, p) => blockJustified
                    /\ blockJustified => BlockTicket(f, p) \/ CarriedBlock(f, p)
  BY DEF f, p
<1>10. SUFFICES /\ (inBlock' <=> InBlock(f, p + 1)) /\ (inBlock' => OpenBefore(f, p + 1))
                /\ (~inBlock' /\ TicketAbove(f, p + 1) => prevCommentTicket')
                /\ (prevCommentTicket' => TicketBeforeBlocks(f, p + 1))
                /\ inBlock' => /\ BlockTicket(f, p + 1) => blockJustified'
                               /\ blockJustified' => BlockTicket(f, p + 1) \/ CarriedBlock(f, p + 1)
  BY <1>0
<1>11. Opens(f, p) <=> f[p].kind = "open" /\ ~InBlock(f, p)
  BY DEF Opens
<1>12. CASE SkipBlank
  BY <1>1, <1>2, <1>3, <1>4, <1>6, <1>7, <1>8, <1>9, <1>11, <1>12 DEF SkipBlank, flags
<1>13. CASE CloseBlock
  BY <1>1, <1>2, <1>3, <1>8, <1>9, <1>13 DEF CloseBlock
<1>14. CASE BlockComment
  BY <1>1, <1>2, <1>3, <1>4, <1>6, <1>7, <1>8, <1>9, <1>11, <1>14 DEF BlockComment
<1>15. CASE BlockEntry
  BY <1>1, <1>2, <1>3, <1>4, <1>6, <1>7, <1>8, <1>9, <1>11, <1>15 DEF BlockEntry, flags
<1>16. CASE Comment
  BY <1>1, <1>2, <1>3, <1>8, <1>9, <1>16 DEF Comment
<1>17. CASE OtherLine
  BY <1>1, <1>2, <1>3, <1>8, <1>9, <1>17 DEF OtherLine
<1>18. CASE OpenBlock
  BY <1>1, <1>2, <1>3, <1>4, <1>5, <1>6, <1>7, <1>8, <1>9, <1>11, <1>18 DEF OpenBlock
<1>19. CASE Replace
  BY <1>1, <1>2, <1>3, <1>8, <1>9, <1>19 DEF Replace
<1> QED BY <1>12, <1>13, <1>14, <1>15, <1>16, <1>17, <1>18, <1>19

-----------------------------------------------------------------------------
(* The theorems *)

\* Reading a line reports it only as an untracked directive, and leaves it out only
\* as a covered one.
LEMMA ReportStep ==
    ASSUME TypeOK, BlockExact, CommentKnown, BlockKnown, ReportedUntracked, SilentCovered, NextLine,
           SkipBlank \/ CloseBlock \/ BlockComment \/ BlockEntry
               \/ Comment \/ OtherLine \/ OpenBlock \/ Replace
    PROVE  ReportedUntracked' /\ SilentCovered'
<1>1. /\ i \in Nat \ {0} /\ i' = i + 1 /\ gomod' = gomod /\ pc = "scan" /\ pc' = "scan"
      /\ gomod \in Files /\ gomod /= Absent
  BY OutcomesDiffer DEF TypeOK, NextLine
<1>2. read = 1 .. i - 1 /\ read' = 1 .. i
  BY <1>1 DEF read
<1>3. line = gomod[i]
  BY DEF line
<1>4. BlockTicket(gomod, i) => InBlock(gomod, i)
  BY DEF BlockTicket, InBlock, Opens
<1>5. CarriedBlock(gomod, i) => TicketCarried(gomod, i)
  BY DEF CarriedBlock, TicketCarried
<1>6. ASSUME diags' = diags, ~Directive(gomod, i)
      PROVE  ReportedUntracked' /\ SilentCovered'
  <2>1. ReportedUntracked'
    BY <1>1, <1>6 DEF ReportedUntracked
  <2>2. \A p \in read' : p = i \/ p \in read
    BY <1>1, <1>2
  <2> QED BY <1>1, <1>6, <2>1, <2>2 DEF SilentCovered
<1>7. ASSUME Directive(gomod, i), NEW missing \in BOOLEAN, Report(missing),
             missing => ~Tracked(gomod, i),
             ~missing => Tracked(gomod, i) \/ TicketCarried(gomod, i)
      PROVE  ReportedUntracked' /\ SilentCovered'
  <2>1. ReportedUntracked'
    BY <1>1, <1>7 DEF ReportedUntracked, Report
  <2>2. \A p \in read' : p = i \/ p \in read
    BY <1>1, <1>2
  <2>3. missing => i \in diags'
    BY <1>7 DEF Report
  <2>4. diags \subseteq diags'
    BY <1>7 DEF Report
  <2> QED BY <1>1, <1>7, <2>1, <2>2, <2>3, <2>4 DEF SilentCovered
<1> USE DEF BlockExact
<1>8. CASE SkipBlank \/ CloseBlock \/ BlockComment \/ Comment \/ OtherLine \/ OpenBlock
  <2>1. diags' = diags
    BY <1>8 DEF SkipBlank, CloseBlock, BlockComment, Comment, OtherLine, OpenBlock
  <2>2. ~Directive(gomod, i)
    BY <1>3, <1>8
    DEF SkipBlank, CloseBlock, BlockComment, Comment, OtherLine, OpenBlock, Directive
  <2> QED BY <1>6, <2>1, <2>2
<1>9. CASE BlockEntry
  <2>1. Directive(gomod, i) /\ InBlock(gomod, i)
    BY <1>3, <1>9 DEF BlockEntry, Directive
  <2>2. Report(~line.ticket /\ ~blockJustified)
    BY <1>9 DEF BlockEntry
  <2>3. (~line.ticket /\ ~blockJustified) \in BOOLEAN
    OBVIOUS
  <2>4. ~line.ticket /\ ~blockJustified => ~Tracked(gomod, i)
    BY <1>3, <1>9, <2>1 DEF BlockEntry, BlockKnown, Tracked
  <2>5. line.ticket \/ blockJustified => Tracked(gomod, i) \/ TicketCarried(gomod, i)
    BY <1>3, <1>5, <1>9, <2>1 DEF BlockEntry, BlockKnown, Tracked
  <2> QED BY <1>7, <2>1, <2>2, <2>3, <2>4, <2>5
<1>10. CASE Replace
  <2>1. Directive(gomod, i) /\ ~InBlock(gomod, i)
    BY <1>3, <1>10 DEF Replace, Directive
  <2>2. Report(~line.ticket /\ ~prevCommentTicket)
    BY <1>10 DEF Replace
  <2>3. (~line.ticket /\ ~prevCommentTicket) \in BOOLEAN
    OBVIOUS
  <2>4. ~line.ticket /\ ~prevCommentTicket => ~Tracked(gomod, i)
    BY <1>3, <1>10, <2>1 DEF Replace, CommentKnown, Tracked
  <2>5. line.ticket \/ prevCommentTicket => Tracked(gomod, i) \/ TicketCarried(gomod, i)
    BY <1>3, <1>10, <2>1 DEF Replace, CommentKnown, Tracked, TicketCarried
  <2> QED BY <1>7, <2>1, <2>2, <2>3, <2>4, <2>5
<1> QED BY <1>8, <1>9, <1>10

LEMMA InvInit == Init => Inv
<1> SUFFICES ASSUME Init PROVE Inv
  OBVIOUS
<1>1. \A f \in Files : Len(f) \in Nat
  BY FilesAreLines
<1>2. TypeOK
  <2>1. inBlock \in BOOLEAN /\ blockJustified \in BOOLEAN /\ prevCommentTicket \in BOOLEAN
    BY Zenon DEF Init
  <2>2. diags \subseteq 1 .. i - 1
    BY DEF Init
  <2>3. i \in Nat \ {0} /\ (gomod \in Files => i <= Len(gomod) + 1)
    BY <1>1 DEF Init
  <2>4. pc = "read" /\ pc \in {"read", "scan", "done", "error"} /\ ~(pc = "scan")
    BY DEF Init
  <2>5. gomod \in Files \union {Absent, Unreadable} /\ i = 1
    BY DEF Init
  <2> QED BY <2>1, <2>2, <2>3, <2>4, <2>5, Zenon DEF TypeOK
<1>3. Started /\ ReportedUntracked /\ SilentCovered
  BY DEF Init, Started, ReportedUntracked, SilentCovered, read
<1> QED BY <1>2, <1>3 DEF Init, Inv

LEMMA InvStep == Inv /\ [Next]_vars => Inv'
<1> SUFFICES ASSUME Inv, [Next]_vars PROVE Inv'
  OBVIOUS
<1>1. TypeOK'
  BY TypeStep DEF Inv
<1>2. CASE ReadFile
  <2>1. ~InBlock(gomod, 1) /\ ~TicketAbove(gomod, 1) /\ i' = 1 /\ gomod' = gomod /\ diags' = diags
    BY <1>2 DEF ReadFile, Inv, Started, InBlock, TicketAbove
  <2>2. diags' = {} /\ read' = {}
    BY <1>2, <2>1 DEF ReadFile, Inv, Started, TypeOK, read
  <2>3. Started' /\ ReportedUntracked' /\ SilentCovered'
    BY <1>2, <2>2 DEF ReadFile, Started, ReportedUntracked, SilentCovered
  <2>4. BlockExact' /\ CommentKnown' /\ BlockKnown'
    BY <1>2, <2>1 DEF ReadFile, flags, Inv, Started, BlockExact, CommentKnown, BlockKnown
  <2> QED BY <1>1, <2>3, <2>4 DEF Inv
<1>3. CASE SkipBlank \/ CloseBlock \/ BlockComment \/ BlockEntry
              \/ Comment \/ OtherLine \/ OpenBlock \/ Replace
  <2>1. NextLine
    BY <1>3 DEF SkipBlank, CloseBlock, BlockComment, BlockEntry, Comment, OtherLine, OpenBlock, Replace
  <2>2. pc = "scan" /\ pc' = "scan"
    BY <2>1 DEF NextLine
  <2>3. BlockExact' /\ CommentKnown' /\ BlockKnown'
    BY <1>3, <2>1, <2>2, FlagsStep DEF Inv
  <2>4. ReportedUntracked' /\ SilentCovered'
    BY <1>3, <2>1, <2>2, ReportStep DEF Inv
  <2> QED BY <1>1, <2>2, <2>3, <2>4 DEF Inv, Started
<1>4. CASE Return
  <2>1. read' = read
    BY <1>4 DEF Return, read
  <2> QED BY <1>1, <1>4, <2>1 DEF Return, Inv, Started, ReportedUntracked, SilentCovered
<1>5. CASE UNCHANGED vars
  BY <1>1, <1>5
  DEF vars, Inv, Started, BlockExact, CommentKnown, BlockKnown, ReportedUntracked, SilentCovered, read
<1> QED BY <1>2, <1>3, <1>4, <1>5 DEF Next, Terminated

\* The type invariant of Check, for every go.mod.
THEOREM GoModReplaceTypeOK == Spec => []TypeOK
<1>1. Init => TypeOK
  BY InvInit DEF Inv
<1> QED BY <1>1, TypeStep, PTL DEF Spec

\* Check never reports a directive that has a ticket, nor a line that is none,
\* whatever the file (GoModReplaceChecker.Check).
THEOREM GoModReplaceReportedUntracked == Spec => []ReportedUntracked
<1>1. Inv => ReportedUntracked
  BY DEF Inv
<1> QED BY <1>1, InvInit, InvStep, PTL DEF Spec

\* Check passes over a directive only if it has a ticket or the comment before the
\* blocks above it has one, whatever the file (GoModReplaceChecker.Check).
THEOREM GoModReplaceSilentCovered == Spec => []SilentCovered
<1>1. Inv => SilentCovered
  BY DEF Inv
<1> QED BY <1>1, InvInit, InvStep, PTL DEF Spec

-----------------------------------------------------------------------------
(* protobuf *)

-----------------------------------------------------------------------------
(* Sets of numbers. *)

LEMMA Least ==
    ASSUME NEW T \in SUBSET Nat, T /= {}
    PROVE  \E x \in T : \A y \in T : x <= y
<1>1. PICK x \in T : \A y \in T : <<y, x>> \notin OpToRel(<, Nat)
  BY NatLessThanWellFounded, WFMin
<1>2. \A y \in T : ~(y < x)
  BY <1>1 DEF OpToRel
<1>3. \A y \in T : y \in Int
  OBVIOUS
<1>4. \A y, z \in Int : ~(y < z) => z <= y
  OBVIOUS
<1>5. \A y \in T : x <= y
  BY <1>2, <1>3, <1>4
<1> QED BY <1>5

LEMMA SetInduction ==
    ASSUME NEW S, 0 \in S, \A n \in Nat : n \in S => n + 1 \in S
    PROVE  Nat \subseteq S
<1> DEFINE T == Nat \ S
<1> SUFFICES ASSUME T /= {} PROVE FALSE
  OBVIOUS
<1>1. PICK x \in T : \A y \in T : x <= y
  BY Least
<1>2. x /= 0
  BY <1>1
<1>3. x - 1 \in Nat /\ x - 1 \notin T
  BY <1>1, <1>2
<1>4. x - 1 \in S /\ (x - 1) + 1 = x
  BY <1>1, <1>3
<1> QED BY <1>1, <1>3, <1>4

-----------------------------------------------------------------------------
(* The lines of a .proto file and the braces open after them. *)

LEMMA LineIs ==
    ASSUME proto \in Seq(ProtoLine)
    PROVE  /\ Len(proto) \in Nat
           /\ \A p \in lines : /\ proto[p] \in ProtoLine
                               /\ proto[p].delta \in Int
                               /\ proto[p].number \in Nat
                               /\ proto[p].numbers \in SUBSET Nat
<1>1. Len(proto) \in Nat /\ \A p \in lines : proto[p] \in ProtoLine
  BY DEF lines
<1> QED BY <1>1 DEF ProtoLine

\* g counts the braces of the first n lines.
Counts(g, n) == g = [p \in 0 .. n |-> IF p = 0 THEN 0 ELSE g[p - 1] + proto[p].delta]

\* One line more can be counted.
LEMMA CountOneMore ==
    ASSUME NEW n \in Nat, NEW g, Counts(g, n)
    PROVE  \E h : Counts(h, n + 1)
<1> DEFINE h == [p \in 0 .. n + 1 |-> IF p = n + 1 THEN g[n] + proto[n + 1].delta ELSE g[p]]
<1>1. \A p \in 0 .. n : g[p] = IF p = 0 THEN 0 ELSE g[p - 1] + proto[p].delta
  BY DEF Counts
<1>2. ASSUME NEW p \in 0 .. n + 1
      PROVE  h[p] = IF p = 0 THEN 0 ELSE h[p - 1] + proto[p].delta
  <2>1. CASE p = n + 1
    <3>1. h[p] = g[n] + proto[p].delta /\ h[n] = g[n] /\ p - 1 = n /\ p /= 0
      BY <2>1
    <3> QED BY <3>1
  <2>2. CASE p = 0
    BY <1>1, <2>2
  <2>3. CASE p /= 0 /\ p /= n + 1
    <3>1. p \in 0 .. n /\ p - 1 \in 0 .. n + 1 /\ p - 1 /= n + 1
      BY <2>3
    <3>2. h[p] = g[p] /\ h[p - 1] = g[p - 1]
      BY <3>1
    <3> QED BY <1>1, <2>3, <3>1, <3>2
  <2> QED BY <2>1, <2>2, <2>3
<1>3. h = [p \in 0 .. n + 1 |-> h[p]]
  OBVIOUS
<1> HIDE DEF h
<1>4. h = [p \in 0 .. n + 1 |-> IF p = 0 THEN 0 ELSE h[p - 1] + proto[p].delta]
  BY <1>2, <1>3
<1> QED BY <1>4 DEF Counts

LEMMA CountExists ==
    ASSUME NEW n \in Nat
    PROVE  \E g : Counts(g, n)
<1> DEFINE S == {m \in Nat : \E g : Counts(g, m)}
<1>1. 0 \in S
  <2>1. Counts([p \in 0 .. 0 |-> 0], 0)
    BY DEF Counts
  <2> QED BY <2>1
<1>2. \A m \in Nat : m \in S => m + 1 \in S
  BY CountOneMore
<1> HIDE DEF S
<1>3. Nat \subseteq S
  BY <1>1, <1>2, SetInduction
<1> QED BY <1>3 DEF S

\* Every line opens what it opens.
LEMMA OpenIs ==
    ASSUME proto \in Seq(ProtoLine)
    PROVE  /\ \A p \in 0 .. Len(proto) : open[p] \in Int
           /\ \A p \in lines : open[p] = open[p - 1] + proto[p].delta
<1>1. Len(proto) \in Nat /\ \A p \in lines : proto[p].delta \in Int
  BY LineIs
<1>2. Counts(open, Len(proto))
  <2>1. open = CHOOSE g : Counts(g, Len(proto))
    BY DEF open, Counts
  <2> QED BY <1>1, <2>1, CountExists
<1>3. \A p \in 0 .. Len(proto) : open[p] = IF p = 0 THEN 0 ELSE open[p - 1] + proto[p].delta
  BY <1>2 DEF Counts
<1> DEFINE S == {m \in Nat : m <= Len(proto) => open[m] \in Int}
<1>4. 0 \in S
  BY <1>1, <1>3
<1>5. ASSUME NEW m \in Nat, m \in S PROVE m + 1 \in S
  <2> SUFFICES ASSUME m + 1 <= Len(proto) PROVE open[m + 1] \in Int
    OBVIOUS
  <2>1. m <= Len(proto) /\ m + 1 \in lines /\ m + 1 \in 0 .. Len(proto) /\ m + 1 /= 0 /\ m + 1 - 1 = m
    BY <1>1 DEF lines
  <2>2. open[m] \in Int
    BY <1>5, <2>1
  <2>3. open[m + 1] = open[m] + proto[m + 1].delta
    BY <1>3, <2>1
  <2> QED BY <1>1, <2>1, <2>2, <2>3
<1> HIDE DEF S
<1>6. Nat \subseteq S
  BY <1>4, <1>5, SetInduction
<1>7. \A p \in 0 .. Len(proto) : open[p] \in Int
  BY <1>1, <1>6 DEF S
<1>8. \A p \in lines : p \in 0 .. Len(proto) /\ p /= 0
  BY <1>1 DEF lines
<1> QED BY <1>3, <1>7, <1>8

\* Lines of which the later is no deeper than the line o, with no message line between,
\* stand in the same messages.
LEMMA SameEnclosing ==
    ASSUME proto \in Seq(ProtoLine), NEW o \in lines, NEW b \in lines, NEW p \in lines,
           o < b, b <= p,
           \A r \in o .. p : open[r] >= open[o],
           \A r \in o + 1 .. p : proto[r].kind /= "message"
    PROVE  enclosing(b) = enclosing(p)
<1>1. /\ Len(proto) \in Nat
      /\ \A r \in 0 .. Len(proto) : open[r] \in Int
  BY LineIs, OpenIs
<1>2. o \in Nat /\ b \in Nat /\ p \in Nat /\ p <= Len(proto) /\ 1 <= o
  BY <1>1 DEF lines
<1>3. ASSUME NEW m \in enclosing(b) PROVE m \in enclosing(p)
  <2>1. /\ m \in 1 .. b - 1 /\ proto[m].kind = "message" /\ proto[m].delta = 1
        /\ \A r \in m .. b : open[r] >= open[m]
    BY DEF enclosing
  <2>2. m <= o
    BY <1>2, <2>1
  <2>3. open[o] >= open[m] /\ open[o] \in Int /\ open[m] \in Int
    BY <1>1, <1>2, <2>1, <2>2
  <2>4. ASSUME NEW r \in m .. p PROVE open[r] >= open[m]
    <3>1. CASE r <= b
      BY <2>1, <3>1, <1>2
    <3>2. CASE r > b
      <4>1. r \in o .. p /\ r \in 0 .. Len(proto)
        BY <3>2, <1>2, <2>1
      <4> QED BY <4>1, <2>3, <1>1
    <3> QED BY <3>1, <3>2, <1>2, <2>1
  <2> QED BY <1>2, <2>1, <2>4 DEF enclosing
<1>4. ASSUME NEW m \in enclosing(p) PROVE m \in enclosing(b)
  <2>1. /\ m \in 1 .. p - 1 /\ proto[m].kind = "message" /\ proto[m].delta = 1
        /\ \A r \in m .. p : open[r] >= open[m]
    BY DEF enclosing
  <2>2. m <= o
    BY <1>2, <2>1
  <2>3. m \in 1 .. b - 1 /\ \A r \in m .. b : r \in m .. p
    BY <1>2, <2>1, <2>2
  <2> QED BY <2>1, <2>3 DEF enclosing
<1> QED BY <1>3, <1>4

-----------------------------------------------------------------------------
(* Scopes: what the types of the variables are. *)

Scope == [fields : Seq(Nat), reserved : SUBSET Nat, comments : SUBSET Nat]
Fault == [line : Nat, what : {"pii", "reuse", "gap"}]

ProtoTypeOK ==
    /\ proto \in Seq(ProtoLine)
    /\ stage \in {"parse", "check", "done"}
    /\ at \in Nat \ {0}
    /\ heap \in Seq(Scope)
    /\ current \in 0 .. Len(heap)
    /\ depth \in Int
    /\ scopes \in Seq(1 .. Len(heap))
    /\ verdicts \in Seq(SUBSET Fault)

\* A member of a sequence of scopes.
LEMMA ScopeIs ==
    ASSUME ProtoTypeOK, NEW k \in 1 .. Len(heap)
    PROVE  /\ heap[k] \in Scope
           /\ heap[k].fields \in Seq(Nat)
           /\ Len(heap[k].fields) \in Nat
           /\ DOMAIN heap[k].fields = 1 .. Len(heap[k].fields)
           /\ \A a \in DOMAIN heap[k].fields : heap[k].fields[a] \in Nat
           /\ heap[k].reserved \in SUBSET Nat
           /\ heap[k].comments \in SUBSET Nat
<1>1. heap[k] \in Scope
  <2> HIDE DEF Scope
  <2> QED BY DEF ProtoTypeOK
<1>2. heap[k].fields \in Seq(Nat)
  BY <1>1 DEF Scope
<1>3. \A F \in Seq(Nat) : Len(F) \in Nat /\ DOMAIN F = 1 .. Len(F) /\ \A a \in DOMAIN F : F[a] \in Nat
  OBVIOUS
<1> QED BY <1>1, <1>2, <1>3 DEF Scope

\* Another scope object in a place of the heap, and one more at its end.
LEMMA HeapReplaced ==
    ASSUME ProtoTypeOK, NEW k \in 1 .. Len(heap), NEW s \in Scope
    PROVE  LET h == [heap EXCEPT ![k] = s] IN
           /\ h \in Seq(Scope) /\ Len(h) = Len(heap)
           /\ h[k] = s
           /\ \A j \in 1 .. Len(heap) : j /= k => h[j] = heap[j]
<1> HIDE DEF Scope
<1>1. heap \in Seq(Scope)
  BY DEF ProtoTypeOK
<1> QED BY <1>1

LEMMA HeapAppended ==
    ASSUME ProtoTypeOK, NEW h, h = Append(heap, emptyScope)
    PROVE  /\ h \in Seq(Scope) /\ Len(h) = Len(heap) + 1 /\ Len(heap) \in Nat
           /\ h[Len(heap) + 1] = emptyScope
           /\ \A j \in 1 .. Len(heap) : h[j] = heap[j]
<1>1. heap \in Seq(Scope)
  BY DEF ProtoTypeOK
<1>2. emptyScope \in Scope
  BY DEF emptyScope, Scope
<1> HIDE DEF Scope
<1> QED BY <1>1, <1>2

\* The list of scopes keeps its type when the heap grows.
LEMMA ScopesType ==
    ASSUME NEW n \in Nat, NEW m \in Nat, n <= m, NEW s \in Seq(1 .. n)
    PROVE  s \in Seq(1 .. m)
<1>1. 1 .. n \subseteq 1 .. m
  OBVIOUS
<1>2. DOMAIN s = 1 .. Len(s) /\ Len(s) \in Nat /\ \A a \in 1 .. Len(s) : s[a] \in 1 .. n
  OBVIOUS
<1>3. s = [a \in 1 .. Len(s) |-> s[a]]
  OBVIOUS
<1>4. \A a \in 1 .. Len(s) : s[a] \in 1 .. m
  BY <1>1, <1>2
<1> QED BY <1>2, <1>3, <1>4

\* What a sort gives: the same fields in another order.
LEMMA SortingIs ==
    ASSUME NEW F \in Seq(Nat), NEW G \in sortings(F)
    PROVE  /\ G \in Seq(Nat) /\ Len(G) = Len(F) /\ DOMAIN G = DOMAIN F
           /\ ToSet(G) = ToSet(F)
           /\ \A a, b \in DOMAIN G : a < b => number(G[a]) <= number(G[b])
           /\ (\A a, b \in DOMAIN F : a /= b => F[a] /= F[b])
                => \A a, b \in DOMAIN G : a /= b => G[a] /= G[b]
<1>1. PICK f \in [DOMAIN F -> DOMAIN F] :
         /\ \A a, b \in DOMAIN F : a /= b => f[a] /= f[b]
         /\ \A a, b \in DOMAIN F : a < b => number(F[f[a]]) <= number(F[f[b]])
         /\ G = [k \in DOMAIN F |-> F[f[k]]]
  BY DEF sortings
<1>2. DOMAIN F = 1 .. Len(F) /\ Len(F) \in Nat /\ \A a \in DOMAIN F : F[a] \in Nat
  OBVIOUS
<1>3. \A a \in DOMAIN F : f[a] \in DOMAIN F /\ G[a] = F[f[a]]
  BY <1>1
<1>4. G \in Seq(Nat) /\ Len(G) = Len(F) /\ DOMAIN G = DOMAIN F
  BY <1>1, <1>2, <1>3
<1>5. \A a \in DOMAIN F : \E b \in DOMAIN F : f[b] = a
  <2>1. IsFiniteSet(DOMAIN F)
    BY <1>2, FS_Interval
  <2>2. f \in Injection(DOMAIN F, DOMAIN F)
    BY <1>1 DEF Injection, IsInjective
  <2>3. f \in Surjection(DOMAIN F, DOMAIN F)
    BY <2>1, <2>2, FS_Injection
  <2> QED BY <2>3 DEF Surjection
<1>6. ToSet(G) = ToSet(F)
  BY <1>3, <1>4, <1>5 DEF ToSet
<1>7. \A a, b \in DOMAIN G : a < b => number(G[a]) <= number(G[b])
  BY <1>1, <1>3, <1>4
<1>8. ASSUME \A a, b \in DOMAIN F : a /= b => F[a] /= F[b], NEW a \in DOMAIN G, NEW b \in DOMAIN G, a /= b
      PROVE  G[a] /= G[b]
  BY <1>1, <1>3, <1>4, <1>8
<1> QED BY <1>4, <1>6, <1>7, <1>8

-----------------------------------------------------------------------------
(* Whatever the file: no two messages in one scope. *)

\* The messages around each line.
around == [p \in lines |-> enclosing(p)]

\* The fields of a scope stand in the same messages, and each is there once.
Together ==
    \A k \in 1 .. Len(heap) : \A a, b \in DOMAIN heap[k].fields :
        /\ heap[k].fields[a] \in fieldLines
        /\ around[heap[k].fields[a]] = around[heap[k].fields[b]]
        /\ a /= b => heap[k].fields[a] /= heap[k].fields[b]

\* The scope being filled was opened by line o: since then no brace has closed it, no
\* message line was read, and its fields were.
OpenedBy(o) ==
    /\ o \in 1 .. at - 1
    /\ proto[o].kind = "message"
    /\ depth = open[at - 1] - open[o] + 1
    /\ \A r \in o .. at - 1 : open[r] >= open[o]
    /\ \A r \in o + 1 .. at - 1 : proto[r].kind /= "message"
    /\ \A a \in DOMAIN heap[current].fields :
          heap[current].fields[a] > o /\ heap[current].fields[a] < at

Filling == stage = "parse" /\ current /= 0 => \E o \in lines : OpenedBy(o)
Reading == stage = "parse" => at <= Len(proto) + 1 /\ verdicts = <<>>

\* What is reported as reused so far is used twice.
ReusesReal ==
    \A j \in DOMAIN verdicts : \A p \in fieldLines : fault(p, "reuse") \in verdicts[j] =>
        \E q \in fieldLines : around[q] = around[p] /\ q /= p /\ number(q) = number(p)

ScopeInv == ProtoTypeOK /\ Reading /\ Together /\ Filling /\ ReusesReal

\* The file stays as it is.
LEMMA SameFile ==
    ASSUME proto' = proto
    PROVE  open' = open /\ lines' = lines /\ fieldLines' = fieldLines /\ around' = around
<1>1. open' = open
  BY DEF open
<1>2. lines' = lines
  BY DEF lines
<1>3. fieldLines' = fieldLines
  BY <1>2 DEF fieldLines
<1>4. around' = around
  BY <1>1, <1>2 DEF around, enclosing
<1> QED BY <1>1, <1>2, <1>3, <1>4

LEMMA InitScopeInv == ProtoInit => ScopeInv
<1> SUFFICES ASSUME ProtoInit PROVE ScopeInv
  OBVIOUS
<1>1. /\ proto \in Seq(ProtoLine) /\ stage = "parse" /\ at = 1 /\ heap = <<>> /\ current = 0
      /\ depth = 0 /\ scopes = <<>> /\ verdicts = <<>>
  BY ProtoFilesAreLines DEF ProtoInit
<1>2. Len(heap) = 0 /\ DOMAIN verdicts = {} /\ Len(proto) \in Nat
  BY <1>1
<1>3. ProtoTypeOK
  BY <1>1, <1>2 DEF ProtoTypeOK
<1> QED BY <1>1, <1>2, <1>3 DEF ScopeInv, Reading, Together, Filling, ReusesReal

\* A line read inside a scope: either the scope is still open or it is closed.
LEMMA LineRead ==
    ASSUME ScopeInv, ReadLine, current /= 0
    PROVE  /\ at \in lines
           /\ current \in 1 .. Len(heap)
           /\ \E o \in lines :
                /\ OpenedBy(o)
                /\ depth + here.delta = open[at] - open[o] + 1
                /\ depth + here.delta > 0 => \A r \in o .. at : open[r] >= open[o]
                /\ depth + here.delta <= 0 => open[at] < open[o]
<1>1. /\ Len(proto) \in Nat /\ here.delta \in Int /\ at \in lines /\ at \in Nat \ {0}
      /\ at - 1 \in 0 .. Len(proto) /\ at \in 0 .. Len(proto)
  BY LineIs DEF ScopeInv, ProtoTypeOK, ReadLine, lines, here
<1>2. PICK o \in lines : OpenedBy(o)
  BY DEF ScopeInv, Filling, ReadLine
<1>3. open[at] = open[at - 1] + here.delta /\ open[at] \in Int /\ open[at - 1] \in Int /\ open[o] \in Int
  BY <1>1, OpenIs DEF ScopeInv, ProtoTypeOK, here, lines
<1>4. depth + here.delta = open[at] - open[o] + 1
  <2>1. depth = open[at - 1] - open[o] + 1
    BY <1>2 DEF OpenedBy
  <2> QED BY <1>1, <1>3, <2>1
<1>5. ASSUME depth + here.delta > 0, NEW r \in o .. at PROVE open[r] >= open[o]
  <2>1. CASE r = at
    BY <1>3, <1>4, <1>5, <2>1
  <2>2. CASE r /= at
    <3>1. r \in o .. at - 1
      BY <1>1, <2>2 DEF lines
    <3> QED BY <1>2, <3>1 DEF OpenedBy
  <2> QED BY <2>1, <2>2
<1>6. current \in 1 .. Len(heap)
  BY DEF ScopeInv, ProtoTypeOK
<1> QED BY <1>1, <1>2, <1>3, <1>4, <1>5, <1>6

\* A field line joins its scope.
LEMMA FieldTogether ==
    ASSUME ScopeInv, ReadLine, current /= 0, depth + here.delta > 0, here.kind = "field",
           NEW F, F = Append(heap[current].fields, at)
    PROVE  /\ F \in Seq(Nat)
           /\ ToSet(F) = ToSet(heap[current].fields) \union {at}
           /\ \A a, b \in DOMAIN F : /\ F[a] \in fieldLines
                                     /\ around[F[a]] = around[F[b]]
                                     /\ a /= b => F[a] /= F[b]
<1> DEFINE E == heap[current].fields
<1>1. PICK o \in lines :
        /\ OpenedBy(o)
        /\ \A r \in o .. at : open[r] >= open[o]
  BY LineRead
<1>2. at \in lines /\ current \in 1 .. Len(heap) /\ at \in fieldLines /\ at \in Nat
  BY LineRead DEF fieldLines, here, ScopeInv, ProtoTypeOK
<1>3. /\ E \in Seq(Nat) /\ Len(E) \in Nat /\ DOMAIN E = 1 .. Len(E)
      /\ \A a \in DOMAIN E : E[a] \in Nat
  BY <1>2, ScopeIs DEF ScopeInv
<1>4. \A a, b \in DOMAIN E : /\ E[a] \in fieldLines
                             /\ around[E[a]] = around[E[b]]
                             /\ a /= b => E[a] /= E[b]
  BY <1>2 DEF ScopeInv, Together
<1>5. ASSUME NEW a \in DOMAIN E PROVE around[E[a]] = around[at] /\ E[a] /= at
  <2>1. E[a] \in lines /\ o < E[a] /\ E[a] < at
    BY <1>1, <1>4 DEF OpenedBy, fieldLines
  <2>2. \A r \in o + 1 .. at : proto[r].kind /= "message"
    <3>1. ASSUME NEW r \in o + 1 .. at PROVE r = at \/ r \in o + 1 .. at - 1
      BY <1>2 DEF lines
    <3>2. proto[at].kind = "field"
      BY DEF here
    <3> QED BY <1>1, <3>1, <3>2 DEF OpenedBy
  <2>3. proto \in Seq(ProtoLine) /\ Len(proto) \in Nat
    BY LineIs DEF ScopeInv, ProtoTypeOK
  <2>4. E[a] <= at /\ E[a] /= at
    BY <1>2, <1>3, <2>1
  <2>5. ASSUME NEW b \in lines, o < b, b <= at PROVE enclosing(b) = enclosing(at)
    BY <1>1, <1>2, <2>2, <2>3, <2>5, SameEnclosing
  <2>6. enclosing(E[a]) = enclosing(at)
    BY <2>1, <2>4, <2>5
  <2> QED BY <2>1, <2>4, <2>6, <1>2 DEF around
<1> HIDE DEF E
<1>6. /\ F \in Seq(Nat) /\ DOMAIN F = 1 .. Len(E) + 1
      /\ F[Len(E) + 1] = at /\ \A a \in DOMAIN E : F[a] = E[a]
  BY <1>2, <1>3 DEF E
<1>7. \A a \in DOMAIN F : a \in DOMAIN E \/ a = Len(E) + 1
  BY <1>3, <1>6
<1>8. ToSet(F) = ToSet(E) \union {at}
  <2>1. \A x \in ToSet(F) : x \in ToSet(E) \union {at}
    BY <1>6, <1>7 DEF ToSet
  <2>2. \A x \in ToSet(E) : x \in ToSet(F)
    <3>1. \A a \in DOMAIN E : a \in DOMAIN F /\ F[a] = E[a]
      BY <1>3, <1>6
    <3> QED BY <3>1 DEF ToSet
  <2>3. at \in ToSet(F)
    BY <1>3, <1>6 DEF ToSet
  <2> QED BY <2>1, <2>2, <2>3
<1> QED BY <1>2, <1>4, <1>5, <1>6, <1>7, <1>8 DEF E

\* What was reported stays justified as long as nothing is added.
LEMMA KeepReuses ==
    ASSUME ScopeInv, proto' = proto, verdicts' = verdicts
    PROVE  ReusesReal'
BY SameFile DEF ScopeInv, ReusesReal, number, fault

\* Nor do the scopes change as long as the heap does not.
LEMMA KeepTogether ==
    ASSUME ScopeInv, proto' = proto, heap' = heap
    PROVE  Together'
BY SameFile DEF ScopeInv, Together

LEMMA SkipOutsideStep == ScopeInv /\ SkipOutside => ScopeInv'
<1> SUFFICES ASSUME ScopeInv, SkipOutside PROVE ScopeInv'
  OBVIOUS
<1>1. /\ stage = "parse" /\ stage' = stage /\ at' = at + 1 /\ at <= Len(proto) /\ proto' = proto
      /\ verdicts' = verdicts /\ heap' = heap /\ current' = current /\ depth' = depth
      /\ scopes' = scopes /\ current = 0
  BY DEF SkipOutside, ReadLine, parsed
<1>2. ProtoTypeOK'
  BY <1>1 DEF ScopeInv, ProtoTypeOK
<1>3. Filling'
  BY <1>1 DEF Filling
<1>4. Reading'
  <2>1. Len(proto) \in Nat /\ at \in Nat
    BY LineIs DEF ScopeInv, ProtoTypeOK
  <2> QED BY <1>1, <2>1 DEF ScopeInv, Reading
<1> QED BY <1>1, <1>2, <1>3, <1>4, KeepReuses, KeepTogether DEF ScopeInv

\* A message line opens a scope, in a message or not.
LEMMA StartScopeStep ==
    ASSUME ScopeInv, ReadLine, here.kind = "message", StartScope,
           scopes' = scopes \/ scopes' = Append(scopes, Len(heap) + 1)
    PROVE  ScopeInv'
<1>1. /\ stage = "parse" /\ stage' = stage /\ at' = at + 1 /\ at <= Len(proto) /\ proto' = proto
      /\ verdicts' = verdicts /\ heap' = Append(heap, emptyScope)
      /\ current' = Len(heap) + 1 /\ depth' = 1
  BY DEF ReadLine, StartScope
<1>2. /\ Len(proto) \in Nat /\ at \in lines /\ at \in Nat \ {0} /\ at \in 0 .. Len(proto)
      /\ open[at] \in Int
  BY <1>1, LineIs, OpenIs DEF ScopeInv, ProtoTypeOK, lines
<1>3. /\ heap' \in Seq(Scope) /\ Len(heap') = Len(heap) + 1 /\ Len(heap) \in Nat
      /\ heap'[Len(heap) + 1] = emptyScope
      /\ \A j \in 1 .. Len(heap) : heap'[j] = heap[j]
  BY <1>1, HeapAppended DEF ScopeInv
<1>4. ProtoTypeOK'
  <2>1. scopes \in Seq(1 .. Len(heap'))
    BY <1>3, ScopesType DEF ScopeInv, ProtoTypeOK
  <2>2. scopes' \in Seq(1 .. Len(heap'))
    BY <1>3, <2>1
  <2>3. current' \in 0 .. Len(heap')
    BY <1>1, <1>3
  <2>4. /\ proto' \in Seq(ProtoLine) /\ verdicts' \in Seq(SUBSET Fault) /\ depth' \in Int
        /\ at' \in Nat \ {0} /\ stage' \in {"parse", "check", "done"}
    BY <1>1, <1>2 DEF ScopeInv, ProtoTypeOK
  <2> QED BY <1>3, <2>2, <2>3, <2>4 DEF ProtoTypeOK
<1>5. Together'
  <2>1. DOMAIN heap'[Len(heap) + 1].fields = {}
    BY <1>3 DEF emptyScope
  <2>2. \A k \in 1 .. Len(heap') : k \in 1 .. Len(heap) \/ k = Len(heap) + 1
    BY <1>3
  <2> QED BY <1>1, <1>3, <2>1, <2>2, SameFile DEF ScopeInv, Together
<1>6. Filling'
  <2>1. DOMAIN heap'[current'].fields = {} /\ at' - 1 = at /\ proto[at].kind = "message"
    BY <1>1, <1>2, <1>3 DEF emptyScope, here
  <2>2. \E o \in lines : OpenedBy(o)'
    BY <1>1, <2>1, <1>2, SameFile DEF OpenedBy
  <2> QED BY <1>1, <1>2, <2>2, SameFile DEF Filling
<1>7. Reading'
  BY <1>1, <1>2 DEF ScopeInv, Reading
<1> QED BY <1>1, <1>4, <1>5, <1>6, <1>7, KeepReuses DEF ScopeInv

LEMMA CloseMessageStep == ScopeInv /\ CloseMessage => ScopeInv'
<1> SUFFICES ASSUME ScopeInv, CloseMessage PROVE ScopeInv'
  OBVIOUS
<1>1. /\ stage = "parse" /\ stage' = stage /\ at' = at + 1 /\ at <= Len(proto) /\ proto' = proto
      /\ verdicts' = verdicts /\ heap' = heap /\ current' = 0 /\ depth' = depth + here.delta
      /\ scopes' = Append(scopes, current) /\ current /= 0
  BY DEF CloseMessage, ReadLine
<1>2. Len(proto) \in Nat /\ here.delta \in Int /\ at \in Nat \ {0}
  BY <1>1, LineIs DEF ScopeInv, ProtoTypeOK, lines, here
<1>3. ProtoTypeOK'
  <2>1. /\ scopes \in Seq(1 .. Len(heap)) /\ heap \in Seq(Scope) /\ current \in 1 .. Len(heap)
        /\ depth + here.delta \in Int
    BY <1>1, <1>2 DEF ScopeInv, ProtoTypeOK
  <2>2. Append(scopes, current) \in Seq(1 .. Len(heap)) /\ 0 \in 0 .. Len(heap)
    <3> HIDE DEF Scope
    <3> QED BY <2>1
  <2>3. /\ proto \in Seq(ProtoLine) /\ verdicts \in Seq(SUBSET Fault) /\ at + 1 \in Nat \ {0}
    BY <1>2 DEF ScopeInv, ProtoTypeOK
  <2> QED BY <1>1, <2>1, <2>2, <2>3 DEF ProtoTypeOK
<1>4. Filling'
  BY <1>1 DEF Filling
<1>5. Reading'
  BY <1>1, <1>2 DEF ScopeInv, Reading
<1> QED BY <1>1, <1>3, <1>4, <1>5, KeepReuses, KeepTogether DEF ScopeInv

\* A line inside a message that stays open adds to the scope.
LEMMA FillStep ==
    ASSUME ScopeInv, StaysIn, here.kind /= "message", NEW s \in Scope, Fill(s),
           \/ s.fields = heap[current].fields
           \/ here.kind = "field" /\ s.fields = Append(heap[current].fields, at)
    PROVE  ScopeInv'
<1>1. /\ stage = "parse" /\ stage' = stage /\ at' = at + 1 /\ at <= Len(proto) /\ proto' = proto
      /\ verdicts' = verdicts /\ heap' = [heap EXCEPT ![current] = s] /\ current' = current
      /\ depth' = depth + here.delta /\ scopes' = scopes /\ current /= 0
      /\ ReadLine /\ depth + here.delta > 0
  BY DEF StaysIn, ReadLine, Fill
<1>2. /\ Len(proto) \in Nat /\ at \in lines /\ at \in Nat \ {0} /\ here.delta \in Int /\ depth \in Int
      /\ current \in 1 .. Len(heap)
  BY <1>1, LineIs DEF ScopeInv, ProtoTypeOK, lines, here
<1>3. /\ heap' \in Seq(Scope) /\ Len(heap') = Len(heap) /\ heap'[current] = s
      /\ \A j \in 1 .. Len(heap) : j /= current => heap'[j] = heap[j]
  <2>1. ProtoTypeOK /\ current \in 1 .. Len(heap)
    BY <1>2 DEF ScopeInv
  <2>2. LET h == [heap EXCEPT ![current] = s] IN
          /\ h \in Seq(Scope) /\ Len(h) = Len(heap) /\ h[current] = s
          /\ \A j \in 1 .. Len(heap) : j /= current => h[j] = heap[j]
    BY <2>1, HeapReplaced
  <2> QED BY <1>1, <2>2
<1>4. ProtoTypeOK'
  <2>1. /\ proto' \in Seq(ProtoLine) /\ verdicts' \in Seq(SUBSET Fault) /\ depth' \in Int
        /\ at' \in Nat \ {0} /\ stage' \in {"parse", "check", "done"}
        /\ scopes' \in Seq(1 .. Len(heap')) /\ current' \in 0 .. Len(heap')
    BY <1>1, <1>2, <1>3 DEF ScopeInv, ProtoTypeOK
  <2> QED BY <1>3, <2>1 DEF ProtoTypeOK
<1>5. /\ ToSet(s.fields) \subseteq ToSet(heap[current].fields) \union {at}
      /\ \A a, b \in DOMAIN s.fields : /\ s.fields[a] \in fieldLines
                                       /\ around[s.fields[a]] = around[s.fields[b]]
                                       /\ a /= b => s.fields[a] /= s.fields[b]
  <2>1. CASE s.fields = heap[current].fields
    BY <1>2, <2>1 DEF ScopeInv, Together
  <2>2. CASE here.kind = "field" /\ s.fields = Append(heap[current].fields, at)
    BY <1>1, <2>2, FieldTogether
  <2> QED BY <2>1, <2>2
<1>6. Together'
  <2>1. \A k \in 1 .. Len(heap) : k = current \/ heap'[k] = heap[k]
    BY <1>3
  <2> QED BY <1>1, <1>3, <1>5, <2>1, SameFile DEF ScopeInv, Together
<1>7. Filling'
  <2>1. PICK o \in lines :
          /\ OpenedBy(o)
          /\ depth + here.delta = open[at] - open[o] + 1
          /\ \A r \in o .. at : open[r] >= open[o]
    BY <1>1, LineRead
  <2>2. o \in 1 .. at /\ at' - 1 = at /\ at - 1 \in Nat /\ o \in Nat
    BY <1>1, <1>2, <2>1 DEF OpenedBy, lines
  <2>3. ASSUME NEW r \in o + 1 .. at PROVE proto[r].kind /= "message"
    <3>1. r = at \/ r \in o + 1 .. at - 1
      BY <1>2, <2>2
    <3> QED BY <2>1, <3>1 DEF OpenedBy, here
  <2>4. ASSUME NEW a \in DOMAIN s.fields PROVE s.fields[a] > o /\ s.fields[a] < at + 1
    <3>1. s.fields[a] \in ToSet(heap[current].fields) \union {at}
      BY <1>5 DEF ToSet
    <3>2. CASE s.fields[a] = at
      BY <1>2, <2>1, <2>2, <3>2 DEF OpenedBy
    <3>3. CASE s.fields[a] \in ToSet(heap[current].fields)
      <4>1. PICK b \in DOMAIN heap[current].fields : heap[current].fields[b] = s.fields[a]
        BY <3>3 DEF ToSet
      <4>2. heap[current].fields[b] \in Nat
        BY <1>2, <4>1, ScopeIs DEF ScopeInv
      <4>3. s.fields[a] > o /\ s.fields[a] < at /\ s.fields[a] \in Nat
        BY <2>1, <4>1, <4>2 DEF OpenedBy
      <4> QED BY <1>2, <4>3
    <3> QED BY <3>1, <3>2, <3>3
  <2>5. OpenedBy(o)'
    BY <1>1, <1>2, <1>3, <2>1, <2>2, <2>3, <2>4, SameFile DEF OpenedBy
  <2> QED BY <2>1, <2>5, <1>1, SameFile DEF Filling
<1>8. Reading'
  BY <1>1, <1>2 DEF ScopeInv, Reading
<1> QED BY <1>1, <1>4, <1>6, <1>7, <1>8, KeepReuses DEF ScopeInv

LEMMA EndFileStep == ScopeInv /\ EndFile => ScopeInv'
<1> SUFFICES ASSUME ScopeInv, EndFile PROVE ScopeInv'
  OBVIOUS
<1>1. /\ stage' = "check" /\ at' = 1 /\ proto' = proto /\ verdicts' = verdicts /\ heap' = heap
      /\ current' = current /\ depth' = depth
      /\ scopes' = IF current = 0 THEN scopes ELSE Append(scopes, current)
  BY DEF EndFile
<1>2. ProtoTypeOK'
  <2>1. /\ proto \in Seq(ProtoLine) /\ verdicts \in Seq(SUBSET Fault) /\ depth \in Int
        /\ heap \in Seq(Scope) /\ current \in 0 .. Len(heap) /\ scopes \in Seq(1 .. Len(heap))
    BY DEF ScopeInv, ProtoTypeOK
  <2>2. Len(heap) \in Nat
    <3> HIDE DEF Scope
    <3> QED BY <2>1
  <2>3. current /= 0 => Append(scopes, current) \in Seq(1 .. Len(heap))
    BY <2>1, <2>2
  <2>4. scopes' \in Seq(1 .. Len(heap))
    BY <1>1, <2>1, <2>3
  <2> QED BY <1>1, <2>1, <2>4 DEF ProtoTypeOK
<1>3. Filling' /\ Reading'
  BY <1>1 DEF Filling, Reading
<1> QED BY <1>1, <1>2, <1>3, KeepReuses, KeepTogether DEF ScopeInv

\* What checking a scope finds, and what it leaves of the scope.
LEMMA Checked ==
    ASSUME ScopeInv, CheckScope
    PROVE  \E G \in sortings(heap[scopes[at]].fields) :
             LET k == scopes[at] IN
             /\ at \in 1 .. Len(scopes) /\ k \in 1 .. Len(heap)
             /\ G \in Seq(Nat) /\ Len(G) = Len(heap[k].fields) /\ DOMAIN G = DOMAIN heap[k].fields
             /\ ToSet(G) = ToSet(heap[k].fields)
             /\ \A a, b \in DOMAIN G : a < b => number(G[a]) <= number(G[b])
             /\ \A a, b \in DOMAIN G : a /= b => G[a] /= G[b]
             /\ Len(heap') = Len(heap) /\ heap' \in Seq(Scope)
             /\ heap'[k].fields = G /\ heap'[k].reserved = heap[k].reserved
             /\ heap'[k].comments = heap[k].comments
             /\ \A j \in 1 .. Len(heap) : j /= k => heap'[j] = heap[j]
             /\ verdicts' = Append(verdicts, checkPIIFields(G, heap'[k]) \union reuses(G)
                                                \union gaps(G, heap'[k]))
<1> DEFINE k == scopes[at]
<1>1. PICK G \in sortings(heap[k].fields) :
         /\ heap' = [heap EXCEPT ![k].fields = G]
         /\ verdicts' = Append(verdicts, checkPIIFields(G, heap[k]) \union reuses(G)
                                             \union gaps(G, heap[k]))
  BY DEF CheckScope
<1>2. at \in 1 .. Len(scopes) /\ k \in 1 .. Len(heap)
  <2>1. scopes \in Seq(1 .. Len(heap)) /\ at \in Nat \ {0} /\ at <= Len(scopes)
    BY DEF ScopeInv, ProtoTypeOK, CheckScope
  <2> QED BY <2>1
<1> HIDE DEF k
<1>3. heap[k] \in Scope /\ heap[k].fields \in Seq(Nat)
  BY <1>2, ScopeIs DEF ScopeInv
<1>4. /\ G \in Seq(Nat) /\ Len(G) = Len(heap[k].fields) /\ DOMAIN G = DOMAIN heap[k].fields
      /\ ToSet(G) = ToSet(heap[k].fields)
      /\ \A a, b \in DOMAIN G : a < b => number(G[a]) <= number(G[b])
  BY <1>1, <1>3, SortingIs
<1>5. \A a, b \in DOMAIN G : a /= b => G[a] /= G[b]
  <2>1. \A a, b \in DOMAIN heap[k].fields : a /= b => heap[k].fields[a] /= heap[k].fields[b]
    BY <1>2 DEF ScopeInv, Together
  <2> QED BY <1>1, <1>3, <2>1, SortingIs
<1> DEFINE s == [heap[k] EXCEPT !.fields = G]
<1>6. s \in Scope /\ s.fields = G /\ s.reserved = heap[k].reserved /\ s.comments = heap[k].comments
  BY <1>3, <1>4 DEF Scope
<1>7. heap' = [heap EXCEPT ![k] = s]
  BY <1>1
<1> HIDE DEF s
<1>8. /\ heap' \in Seq(Scope) /\ Len(heap') = Len(heap) /\ heap'[k] = s
      /\ \A j \in 1 .. Len(heap) : j /= k => heap'[j] = heap[j]
  <2>1. ProtoTypeOK
    BY DEF ScopeInv
  <2>2. LET h == [heap EXCEPT ![k] = s] IN
          /\ h \in Seq(Scope) /\ Len(h) = Len(heap) /\ h[k] = s
          /\ \A j \in 1 .. Len(heap) : j /= k => h[j] = heap[j]
    BY <1>2, <1>6, <2>1, HeapReplaced
  <2> QED BY <1>7, <2>2
<1>9. /\ checkPIIFields(G, s) = checkPIIFields(G, heap[k])
      /\ gaps(G, s) = gaps(G, heap[k])
  BY <1>6 DEF checkPIIFields, piiJustified, gaps, explained
<1> QED BY <1>1, <1>2, <1>4, <1>5, <1>6, <1>8, <1>9 DEF k

\* What the three checks report is a set of faults, told apart by what they say.
LEMMA FaultsAre ==
    ASSUME ScopeInv, NEW G \in Seq(Nat), NEW s \in Scope
    PROVE  LET D == checkPIIFields(G, s) \union reuses(G) \union gaps(G, s) IN
           /\ D \in SUBSET Fault
           /\ \A p : fault(p, "reuse") \in D <=> fault(p, "reuse") \in reuses(G)
           /\ \A p : fault(p, "pii") \in D <=> fault(p, "pii") \in checkPIIFields(G, s)
           /\ \A p : fault(p, "gap") \in D <=> fault(p, "gap") \in gaps(G, s)
<1>1. DOMAIN G = 1 .. Len(G) /\ Len(G) \in Nat /\ \A a \in DOMAIN G : G[a] \in Nat
  OBVIOUS
<1>2. \A x \in checkPIIFields(G, s) : x \in Fault /\ x.what = "pii"
  BY <1>1 DEF checkPIIFields, Fault, fault, ToSet
<1>3. \A x \in reuses(G) : x \in Fault /\ x.what = "reuse"
  BY <1>1 DEF reuses, Fault, fault
<1>4. \A x \in gaps(G, s) : x \in Fault /\ x.what = "gap"
  BY <1>1 DEF gaps, Fault, fault
<1>5. \A p, w : fault(p, w).what = w
  BY DEF fault
<1> QED BY <1>2, <1>3, <1>4, <1>5

LEMMA CheckScopeStep == ScopeInv /\ CheckScope => ScopeInv'
<1> SUFFICES ASSUME ScopeInv, CheckScope PROVE ScopeInv'
  OBVIOUS
<1>1. /\ stage = "check" /\ stage' = stage /\ at' = at + 1 /\ proto' = proto /\ current' = current
      /\ depth' = depth /\ scopes' = scopes
  BY DEF CheckScope
<1> DEFINE k == scopes[at]
<1>2. PICK G \in sortings(heap[k].fields) :
        /\ at \in 1 .. Len(scopes) /\ k \in 1 .. Len(heap)
        /\ G \in Seq(Nat) /\ DOMAIN G = DOMAIN heap[k].fields
        /\ ToSet(G) = ToSet(heap[k].fields)
        /\ \A a, b \in DOMAIN G : a /= b => G[a] /= G[b]
        /\ Len(heap') = Len(heap) /\ heap' \in Seq(Scope) /\ heap'[k].fields = G
        /\ \A j \in 1 .. Len(heap) : j /= k => heap'[j] = heap[j]
        /\ verdicts' = Append(verdicts, checkPIIFields(G, heap'[k]) \union reuses(G)
                                            \union gaps(G, heap'[k]))
  BY Checked
<1> HIDE DEF k
<1> DEFINE D == checkPIIFields(G, heap'[k]) \union reuses(G) \union gaps(G, heap'[k])
<1>3. heap'[k] \in Scope
  <2> HIDE DEF Scope
  <2> QED BY <1>2
<1>4. D \in SUBSET Fault /\ \A p : fault(p, "reuse") \in D <=> fault(p, "reuse") \in reuses(G)
  BY <1>2, <1>3, FaultsAre
<1>5. verdicts \in Seq(SUBSET Fault) /\ verdicts' = Append(verdicts, D) /\ at \in Nat \ {0}
  BY <1>2 DEF ScopeInv, ProtoTypeOK
<1> HIDE DEF D
<1>6. ProtoTypeOK'
  <2>1. verdicts' \in Seq(SUBSET Fault)
    <3> HIDE DEF Fault
    <3> QED BY <1>4, <1>5
  <2>2. /\ proto' \in Seq(ProtoLine) /\ scopes' \in Seq(1 .. Len(heap')) /\ current' \in 0 .. Len(heap')
        /\ depth' \in Int /\ at' \in Nat \ {0} /\ stage' \in {"parse", "check", "done"}
    BY <1>1, <1>2, <1>5 DEF ScopeInv, ProtoTypeOK
  <2> QED BY <1>2, <2>1, <2>2 DEF ProtoTypeOK
<1>7. \A a \in DOMAIN G : \E b \in DOMAIN heap[k].fields : G[a] = heap[k].fields[b]
  <2>1. \A a \in DOMAIN G : G[a] \in ToSet(heap[k].fields)
    BY <1>2 DEF ToSet
  <2> QED BY <2>1 DEF ToSet
<1>8. \A a, b \in DOMAIN G : /\ G[a] \in fieldLines
                             /\ around[G[a]] = around[G[b]]
                             /\ a /= b => G[a] /= G[b]
  <2>1. \A a, b \in DOMAIN heap[k].fields : heap[k].fields[a] \in fieldLines
                                           /\ around[heap[k].fields[a]] = around[heap[k].fields[b]]
    BY <1>2 DEF ScopeInv, Together
  <2>2. \A a, b \in DOMAIN G : a /= b => G[a] /= G[b]
    BY <1>2
  <2>3. ASSUME NEW a \in DOMAIN G, NEW b \in DOMAIN G
        PROVE  G[a] \in fieldLines /\ around[G[a]] = around[G[b]]
    BY <1>7, <2>1
  <2> QED BY <2>2, <2>3
<1>9. Together'
  <2>1. \A j \in 1 .. Len(heap) : j = k \/ heap'[j] = heap[j]
    BY <1>2
  <2> QED BY <1>1, <1>2, <1>8, <2>1, SameFile DEF ScopeInv, Together
<1>10. ASSUME NEW p \in fieldLines, fault(p, "reuse") \in D
       PROVE  \E q \in fieldLines : around[q] = around[p] /\ q /= p /\ number(q) = number(p)
  <2>1. fault(p, "reuse") \in reuses(G)
    BY <1>4, <1>10
  <2>2. PICK b \in DOMAIN G : \E h \in 1 .. b - 1 : number(G[h]) = number(G[b]) /\ fault(p, "reuse") = fault(G[b], "reuse")
    BY <2>1 DEF reuses
  <2>3. PICK h \in 1 .. b - 1 : number(G[h]) = number(G[b]) /\ fault(p, "reuse") = fault(G[b], "reuse")
    BY <2>2
  <2>4. p = G[b]
    <3>1. \A x, w : fault(x, w).line = x
      BY DEF fault
    <3> QED BY <2>3, <3>1
  <2>5. h \in DOMAIN G /\ h /= b
    <3>1. DOMAIN G = 1 .. Len(G) /\ Len(G) \in Nat
      BY <1>2
    <3> QED BY <3>1
  <2> QED BY <1>8, <2>3, <2>4, <2>5
<1>11. ReusesReal'
  <2>1. \A j \in DOMAIN verdicts' : verdicts'[j] = D \/ (j \in DOMAIN verdicts /\ verdicts'[j] = verdicts[j])
    <3>1. \A v \in Seq(SUBSET Fault) : \A x : \A j \in DOMAIN Append(v, x) :
             Append(v, x)[j] = x \/ (j \in DOMAIN v /\ Append(v, x)[j] = v[j])
      OBVIOUS
    <3> QED BY <1>5, <3>1
  <2>2. \A j \in DOMAIN verdicts' : \A p \in fieldLines : fault(p, "reuse") \in verdicts'[j] =>
          \E q \in fieldLines : around[q] = around[p] /\ q /= p /\ number(q) = number(p)
    BY <1>10, <2>1 DEF ScopeInv, ReusesReal
  <2> QED BY <1>1, <2>2, SameFile DEF ReusesReal, fault, number
<1>12. Filling' /\ Reading'
  BY <1>1 DEF Filling, Reading
<1> QED BY <1>6, <1>9, <1>11, <1>12 DEF ScopeInv

LEMMA StandStill ==
    ASSUME ScopeInv, stage' \in {stage, "done"},
           UNCHANGED <<proto, at, heap, current, depth, scopes, verdicts>>
    PROVE  ScopeInv'
<1>1. ProtoTypeOK'
  BY DEF ScopeInv, ProtoTypeOK
<1>2. Filling'
  <2>1. \A o : OpenedBy(o)' <=> OpenedBy(o)
    BY SameFile DEF OpenedBy
  <2> QED BY <2>1, SameFile DEF ScopeInv, Filling
<1>3. Reading'
  BY DEF ScopeInv, Reading
<1> QED BY <1>1, <1>2, <1>3, KeepReuses, KeepTogether DEF ScopeInv

LEMMA StepScopeInv == ScopeInv /\ [ProtoNext]_protoVars => ScopeInv'
<1> SUFFICES ASSUME ScopeInv, [ProtoNext]_protoVars PROVE ScopeInv'
  OBVIOUS
<1>1. CASE SkipOutside
  BY <1>1, SkipOutsideStep
<1>2. CASE OpenMessage
  BY <1>2, StartScopeStep DEF OpenMessage
<1>3. CASE CloseMessage
  BY <1>3, CloseMessageStep
<1>4. ASSUME current /= 0 /\ stage = "parse"
      PROVE  heap[current] \in Scope /\ heap[current].fields \in Seq(Nat) /\ at \in Nat
             /\ (at <= Len(proto) => here.numbers \in SUBSET Nat)
  <2>1. current \in 1 .. Len(heap) /\ at \in Nat \ {0}
    BY <1>4 DEF ScopeInv, ProtoTypeOK
  <2>2. at <= Len(proto) => at \in lines
    BY <2>1, LineIs DEF ScopeInv, ProtoTypeOK, lines
  <2> QED BY <2>1, <2>2, ScopeIs, LineIs DEF ScopeInv, ProtoTypeOK, here
<1>5. CASE CommentLine
  <2> DEFINE s == [heap[current] EXCEPT !.comments = @ \union {at}]
  <2>1. StaysIn /\ here.kind = "comment" /\ Fill(s) /\ stage = "parse" /\ current /= 0
    BY <1>5 DEF CommentLine, StaysIn, ReadLine
  <2>2. s \in Scope /\ s.fields = heap[current].fields
    BY <1>4, <2>1 DEF Scope
  <2> HIDE DEF s
  <2> QED BY <2>1, <2>2, FillStep
<1>6. CASE ReservedLine
  <2> DEFINE s == [heap[current] EXCEPT !.reserved = @ \union here.numbers]
  <2>1. StaysIn /\ here.kind = "reserved" /\ Fill(s) /\ stage = "parse" /\ current /= 0 /\ at <= Len(proto)
    BY <1>6 DEF ReservedLine, StaysIn, ReadLine
  <2>2. s \in Scope /\ s.fields = heap[current].fields
    BY <1>4, <2>1 DEF Scope
  <2> HIDE DEF s
  <2> QED BY <2>1, <2>2, FillStep
<1>7. CASE FieldLine
  <2> DEFINE s == [heap[current] EXCEPT !.fields = Append(@, at)]
  <2>1. StaysIn /\ here.kind = "field" /\ Fill(s) /\ stage = "parse" /\ current /= 0
    BY <1>7 DEF FieldLine, StaysIn, ReadLine
  <2>2. s \in Scope /\ s.fields = Append(heap[current].fields, at)
    <3>1. heap[current] \in Scope /\ Append(heap[current].fields, at) \in Seq(Nat)
      BY <1>4, <2>1
    <3> QED BY <3>1 DEF Scope
  <2> HIDE DEF s
  <2> QED BY <2>1, <2>2, FillStep
<1>8. CASE OpenInner
  BY <1>8, StartScopeStep DEF OpenInner, StaysIn
<1>9. CASE SkipInside
  <2>1. StaysIn /\ here.kind = "other" /\ Fill(heap[current]) /\ stage = "parse" /\ current /= 0
    BY <1>9 DEF SkipInside, StaysIn, ReadLine
  <2> QED BY <1>4, <2>1, FillStep
<1>10. CASE EndFile
  BY <1>10, EndFileStep
<1>11. CASE CheckScope
  BY <1>11, CheckScopeStep
<1>12. CASE ReturnAll
  BY <1>12, StandStill DEF ReturnAll, parsed
<1>13. CASE ProtoTerminated \/ UNCHANGED protoVars
  BY <1>13, StandStill DEF ProtoTerminated, protoVars
<1> QED BY <1>1, <1>2, <1>3, <1>5, <1>6, <1>7, <1>8, <1>9, <1>10, <1>11, <1>12, <1>13 DEF ProtoNext

\* A number is reported as reused only if another field of the same message has it, in
\* every file, however its braces stand.
THEOREM ProtobufReuseReal == ProtoSpec => []ReuseReal
<1>1. ScopeInv => ReuseReal
  <2> SUFFICES ASSUME ScopeInv, NEW p \in fieldLines, fault(p, "reuse") \in reported
               PROVE  \E q \in siblings(p) : q /= p /\ number(q) = number(p)
    BY DEF ReuseReal
  <2>1. PICK j \in DOMAIN verdicts : fault(p, "reuse") \in verdicts[j]
    BY DEF reported, ToSet
  <2>2. PICK q \in fieldLines : around[q] = around[p] /\ q /= p /\ number(q) = number(p)
    BY <2>1 DEF ScopeInv, ReusesReal
  <2>3. enclosing(q) = enclosing(p)
    BY <2>2 DEF around, fieldLines
  <2> QED BY <2>2, <2>3 DEF siblings
<1> QED BY <1>1, InitScopeInv, StepScopeInv, PTL DEF ProtoSpec

-----------------------------------------------------------------------------
(* Files of plain messages: each scope is one message, and all of it. *)

linesRead == IF stage = "parse" THEN at - 1 ELSE Len(proto)

\* The scope s holds what stands in the message opened by line o alone, up to line n.
Collected(s, o, n) ==
    /\ ToSet(s.fields) = {p \in 1 .. n : proto[p].kind = "field" /\ around[p] = {o}}
    /\ s.comments = {p \in 1 .. n : proto[p].kind = "comment" /\ around[p] = {o}}
    /\ s.reserved = UNION {proto[p].numbers :
                       p \in {q \in 1 .. n : proto[q].kind = "reserved" /\ around[q] = {o}}}

\* The scopes of h are the messages opened in the first n lines.
Starts(start, h, n) ==
    /\ start \in [1 .. Len(h) -> 1 .. n]
    /\ \A k \in 1 .. Len(h) : proto[start[k]].kind = "message" /\ Collected(h[k], start[k], n)
    /\ \A j, k \in 1 .. Len(h) : j /= k => start[j] /= start[k]
    /\ \A m \in 1 .. n : proto[m].kind = "message" => \E k \in 1 .. Len(h) : start[k] = m

BeingFilled(start) == stage = "parse" /\ current /= 0 => OpenedBy(start[current])

\* Outside a message all messages read are closed.
AllClosed ==
    stage = "parse" /\ current = 0 =>
        \A m \in 1 .. at - 1 : proto[m].kind = "message" =>
            \E r \in m .. at - 1 : open[r] < open[m]

\* A scope is handed out once, when it is closed, and another is opened only then.
OneByOne ==
    /\ \A j \in DOMAIN scopes : scopes[j] = j
    /\ stage = "parse" /\ current /= 0 => current = Len(heap) /\ Len(heap) = Len(scopes) + 1
    /\ stage = "parse" /\ current = 0 => Len(heap) = Len(scopes)
    /\ stage /= "parse" => Len(heap) = Len(scopes)

faultsOf(s) == checkPIIFields(s.fields, s) \union reuses(s.fields) \union gaps(s.fields, s)
isSorted(F) == \A a, b \in DOMAIN F : a < b => number(F[a]) <= number(F[b])

\* The scopes checked are sorted and reported for their faults.
CheckedSoFar ==
    stage /= "parse" =>
        /\ Len(verdicts) = at - 1
        /\ at <= Len(scopes) + 1
        /\ stage = "done" => at = Len(scopes) + 1
        /\ \A j \in 1 .. at - 1 : verdicts[j] = faultsOf(heap[j]) /\ isSorted(heap[j].fields)

FlatInv ==
    flat => /\ \E start : Starts(start, heap, linesRead) /\ BeingFilled(start)
            /\ AllClosed
            /\ OneByOne
            /\ CheckedSoFar

LEMMA SameFlat ==
    ASSUME proto' = proto
    PROVE  flat' = flat
<1>1. open' = open /\ lines' = lines
  BY SameFile
<1> QED BY <1>1 DEF flat, enclosing

LEMMA StartsThen ==
    ASSUME proto' = proto, NEW start, NEW h, NEW n, h = heap', n = linesRead', Starts(start, h, n)
    PROVE  Starts(start, heap, linesRead)'
<1>1. around' = around
  BY SameFile
<1>2. ASSUME NEW k \in 1 .. Len(h) PROVE Collected(heap[k], start[k], linesRead)'
  <2>1. Collected(h[k], start[k], n)
    BY DEF Starts
  <2>2. ToSet(heap'[k].fields) = {p \in 1 .. linesRead' : proto'[p].kind = "field" /\ around'[p] = {start[k]}}
    BY <1>1, <2>1 DEF Collected
  <2>3. heap'[k].comments = {p \in 1 .. linesRead' : proto'[p].kind = "comment" /\ around'[p] = {start[k]}}
    BY <1>1, <2>1 DEF Collected
  <2>4. heap'[k].reserved = UNION {proto'[p].numbers :
           p \in {q \in 1 .. linesRead' : proto'[q].kind = "reserved" /\ around'[q] = {start[k]}}}
    BY <1>1, <2>1 DEF Collected
  <2> QED BY <2>2, <2>3, <2>4 DEF Collected
<1>3. /\ start \in [1 .. Len(heap') -> 1 .. linesRead']
      /\ \A k \in 1 .. Len(heap') : proto'[start[k]].kind = "message"
      /\ \A j, k \in 1 .. Len(heap') : j /= k => start[j] /= start[k]
      /\ \A m \in 1 .. linesRead' : proto'[m].kind = "message" => \E k \in 1 .. Len(heap') : start[k] = m
  BY DEF Starts
<1> QED BY <1>2, <1>3 DEF Starts

\* What a plain message line says.
LEMMA FlatLine ==
    ASSUME flat, NEW p \in lines
    PROVE  /\ around[p] = enclosing(p)
           /\ proto[p].kind = "message" => proto[p].delta = 1 /\ around[p] = {}
BY DEF flat, around

\* A message line before another stands closed there.
LEMMA ClosedBefore ==
    ASSUME proto \in Seq(ProtoLine), flat, NEW o \in lines, NEW m \in 1 .. o - 1,
           proto[o].kind = "message", proto[m].kind = "message"
    PROVE  \E r \in m .. o : open[r] < open[m]
<1>1. Len(proto) \in Nat /\ m \in lines /\ \A r \in 0 .. Len(proto) : open[r] \in Int
  BY LineIs, OpenIs DEF lines
<1>2. m \notin enclosing(o) /\ proto[m].delta = 1
  BY <1>1, FlatLine
<1>3. PICK r \in m .. o : ~(open[r] >= open[m])
  BY <1>2 DEF enclosing
<1>4. open[r] \in Int /\ open[m] \in Int
  BY <1>1 DEF lines
<1> QED BY <1>3, <1>4

\* The message a line stands in is the one being filled, if the line does not close it.
LEMMA LineStandsIn ==
    ASSUME ScopeInv, FlatInv, flat, ReadLine
    PROVE  /\ at \in lines
           /\ current = 0 => around[at] = {}
           /\ current /= 0 /\ depth + here.delta <= 0 => around[at] = {}
           /\ \A o : current /= 0 /\ OpenedBy(o) /\ depth + here.delta > 0 => around[at] = {o}
<1>1. /\ proto \in Seq(ProtoLine) /\ Len(proto) \in Nat /\ at \in lines /\ at \in Nat \ {0}
      /\ at \in 0 .. Len(proto) /\ stage = "parse"
      /\ \A r \in 0 .. Len(proto) : open[r] \in Int
      /\ around[at] = enclosing(at)
  BY LineIs, OpenIs, FlatLine DEF ScopeInv, ProtoTypeOK, ReadLine, lines
<1>2. CASE current = 0
  <2>1. ASSUME NEW m \in enclosing(at) PROVE FALSE
    <3>1. m \in 1 .. at - 1 /\ proto[m].kind = "message" /\ \A r \in m .. at : open[r] >= open[m]
      BY <2>1 DEF enclosing
    <3>2. PICK r \in m .. at - 1 : open[r] < open[m]
      BY <1>1, <1>2, <3>1 DEF FlatInv, AllClosed
    <3>3. r \in m .. at /\ open[r] \in Int /\ open[m] \in Int
      BY <1>1, <3>1
    <3> QED BY <3>1, <3>2, <3>3
  <2> QED BY <1>1, <1>2, <2>1
<1>3. ASSUME current /= 0, NEW o, OpenedBy(o)
      PROVE  /\ \A m \in enclosing(at) : m = o
             /\ o \in 1 .. at - 1 /\ o \in lines
  <2>1. o \in 1 .. at - 1 /\ o \in lines /\ proto[o].kind = "message"
    BY <1>1, <1>3 DEF OpenedBy, lines
  <2>2. ASSUME NEW m \in enclosing(at), m /= o PROVE FALSE
    <3>1. m \in 1 .. at - 1 /\ proto[m].kind = "message" /\ \A r \in m .. at : open[r] >= open[m]
      BY DEF enclosing
    <3>2. ~(m \in o + 1 .. at - 1)
      BY <1>3, <3>1 DEF OpenedBy
    <3>3. m \in 1 .. o - 1
      BY <1>1, <2>1, <2>2, <3>1, <3>2
    <3>4. PICK r \in m .. o : open[r] < open[m]
      BY <1>1, <2>1, <3>1, <3>3, ClosedBefore
    <3>5. r \in m .. at /\ open[r] \in Int /\ open[m] \in Int
      BY <1>1, <2>1, <3>1
    <3> QED BY <3>1, <3>4, <3>5
  <2> QED BY <2>1, <2>2
<1>4. ASSUME current /= 0
      PROVE  \E o : /\ OpenedBy(o)
                    /\ depth + here.delta > 0 => \A r \in o .. at : open[r] >= open[o]
                    /\ depth + here.delta <= 0 => open[at] < open[o]
  BY <1>4, LineRead
<1>5. ASSUME current /= 0, depth + here.delta <= 0 PROVE enclosing(at) = {}
  <2>1. PICK o : OpenedBy(o) /\ open[at] < open[o]
    BY <1>4, <1>5
  <2>2. o \notin enclosing(at)
    <3>1. o \in 1 .. at - 1
      BY <1>3, <1>5, <2>1
    <3>2. at \in o .. at /\ open[at] \in Int /\ open[o] \in Int
      BY <1>1, <3>1
    <3> QED BY <2>1, <3>2 DEF enclosing
  <2> QED BY <1>3, <1>5, <2>1, <2>2
<1>6. ASSUME current /= 0, NEW o, OpenedBy(o), depth + here.delta > 0 PROVE enclosing(at) = {o}
  <2>1. PICK q : OpenedBy(q) /\ \A r \in q .. at : open[r] >= open[q]
    BY <1>4, <1>6
  <2>2. q \in 1 .. at - 1 /\ q \in lines /\ proto[q].kind = "message" /\ proto[q].delta = 1
    BY <1>3, <1>6, <2>1, FlatLine DEF OpenedBy
  <2>3. q \in enclosing(at)
    BY <2>1, <2>2 DEF enclosing
  <2> QED BY <1>3, <1>6, <2>3
<1> QED BY <1>1, <1>2, <1>5, <1>6

\* One line more is collected.
LEMMA CollectedNext ==
    ASSUME NEW n \in Nat, NEW o, NEW s, NEW t, Collected(s, o, n),
           LET mine(kind) == around[n + 1] = {o} /\ proto[n + 1].kind = kind IN
           /\ ToSet(t.fields) = ToSet(s.fields) \union (IF mine("field") THEN {n + 1} ELSE {})
           /\ t.comments = s.comments \union (IF mine("comment") THEN {n + 1} ELSE {})
           /\ t.reserved = s.reserved \union (IF mine("reserved") THEN proto[n + 1].numbers ELSE {})
    PROVE  Collected(t, o, n + 1)
<1>1. \A p : p \in 1 .. n + 1 <=> p \in 1 .. n \/ p = n + 1
  OBVIOUS
<1>2. ToSet(t.fields) = {p \in 1 .. n + 1 : proto[p].kind = "field" /\ around[p] = {o}}
  BY <1>1 DEF Collected
<1>3. t.comments = {p \in 1 .. n + 1 : proto[p].kind = "comment" /\ around[p] = {o}}
  BY <1>1 DEF Collected
<1>4. t.reserved = UNION {proto[p].numbers :
                     p \in {q \in 1 .. n + 1 : proto[q].kind = "reserved" /\ around[q] = {o}}}
  BY <1>1 DEF Collected
<1> QED BY <1>2, <1>3, <1>4 DEF Collected

\* What is found in a scope depends on the scope and the file.
LEMMA FaultsThen ==
    ASSUME proto' = proto, NEW s, NEW j, s = heap'[j]
    PROVE  faultsOf(heap[j])' = faultsOf(s) /\ (isSorted(heap[j].fields)' <=> isSorted(s.fields))
<1>1. checkPIIFields(heap[j].fields, heap[j])' = checkPIIFields(s.fields, s)
  BY DEF checkPIIFields, piiJustified, fault, ToSet
<1>2. reuses(heap[j].fields)' = reuses(s.fields)
  BY DEF reuses, fault, number
<1>3. gaps(heap[j].fields, heap[j])' = gaps(s.fields, s)
  BY DEF gaps, explained, fault, number
<1>4. isSorted(heap[j].fields)' <=> isSorted(s.fields)
  BY DEF isSorted, number
<1> QED BY <1>1, <1>2, <1>3, <1>4 DEF faultsOf

\* A line that is no message starts no scope.
LEMMA StartsExtended ==
    ASSUME NEW n \in Nat, NEW start, NEW h, NEW h2, Starts(start, h, n), Len(h2) = Len(h),
           proto[n + 1].kind /= "message",
           \A k \in 1 .. Len(h) : Collected(h2[k], start[k], n + 1)
    PROVE  Starts(start, h2, n + 1)
<1>1. \A p : p \in 1 .. n + 1 <=> p \in 1 .. n \/ p = n + 1
  OBVIOUS
<1>2. start \in [1 .. Len(h2) -> 1 .. n + 1]
  BY <1>1 DEF Starts
<1> QED BY <1>1, <1>2 DEF Starts

\* A line outside any message adds to none.
LEMMA StrayLine ==
    ASSUME NEW n \in Nat, NEW o, NEW s, Collected(s, o, n), around[n + 1] = {}
    PROVE  Collected(s, o, n + 1)
<1>1. around[n + 1] /= {o}
  OBVIOUS
<1> QED BY <1>1, CollectedNext

LEMMA FlatInit == ProtoInit => FlatInv
<1> SUFFICES ASSUME ProtoInit, flat
             PROVE  /\ \E start : Starts(start, heap, linesRead) /\ BeingFilled(start)
                    /\ AllClosed /\ OneByOne /\ CheckedSoFar
  BY DEF FlatInv
<1>1. /\ stage = "parse" /\ at = 1 /\ heap = <<>> /\ current = 0
      /\ depth = 0 /\ scopes = <<>> /\ verdicts = <<>>
  BY DEF ProtoInit
<1>2. linesRead = 0 /\ 1 .. linesRead = {} /\ Len(heap) = 0 /\ 1 .. Len(heap) = {} /\ Len(scopes) = 0
      /\ DOMAIN scopes = {}
  BY <1>1 DEF linesRead
<1>3. Starts([k \in {} |-> 0], heap, linesRead)
  BY <1>2 DEF Starts
<1>4. BeingFilled([k \in {} |-> 0]) /\ AllClosed
  BY <1>1 DEF BeingFilled, AllClosed
<1>5. OneByOne /\ CheckedSoFar
  BY <1>1, <1>2 DEF OneByOne, CheckedSoFar
<1> QED BY <1>3, <1>4, <1>5

\* Reading a line, by what it does to the scopes.
LEMMA ReadingNumbers ==
    ASSUME ScopeInv, FlatInv, flat, ReadLine
    PROVE  /\ proto' = proto /\ stage = "parse" /\ stage' = "parse" /\ at' = at + 1
           /\ at \in Nat \ {0} /\ at - 1 \in Nat /\ at - 1 + 1 = at /\ at \in lines
           /\ linesRead = at - 1 /\ linesRead' = at
           /\ \E start : Starts(start, heap, at - 1) /\ BeingFilled(start)
           /\ scopes \in Seq(1 .. Len(heap)) /\ Len(heap) \in Nat /\ Len(scopes) \in Nat
<1>1. /\ proto' = proto /\ stage = "parse" /\ stage' = "parse" /\ at' = at + 1 /\ at \in Nat \ {0}
  BY DEF ReadLine, ScopeInv, ProtoTypeOK
<1>2. linesRead = at - 1 /\ linesRead' = at
  BY <1>1 DEF linesRead
<1>3. Len(heap) \in Nat /\ scopes \in Seq(1 .. Len(heap))
  <2> HIDE DEF Scope
  <2> QED BY DEF ScopeInv, ProtoTypeOK
<1>4. Len(scopes) \in Nat
  BY <1>3
<1> QED BY <1>1, <1>2, <1>3, <1>4, LineStandsIn DEF FlatInv

LEMMA FlatSkipOutside ==
    ASSUME ScopeInv, FlatInv, flat, SkipOutside
    PROVE  /\ \E start : (Starts(start, heap, linesRead) /\ BeingFilled(start))'
           /\ AllClosed' /\ OneByOne' /\ CheckedSoFar'
<1>1. ReadLine /\ current = 0 /\ here.kind /= "message" /\ UNCHANGED parsed
  BY DEF SkipOutside
<1>2. /\ proto' = proto /\ stage = "parse" /\ stage' = "parse" /\ at' = at + 1 /\ at \in Nat \ {0}
      /\ at - 1 \in Nat /\ at - 1 + 1 = at /\ linesRead' = at /\ at \in lines
  BY <1>1, ReadingNumbers
<1>3. heap' = heap /\ current' = current /\ scopes' = scopes
  BY <1>1 DEF parsed
<1>4. PICK start : Starts(start, heap, at - 1) /\ BeingFilled(start)
  BY <1>1, ReadingNumbers
<1>5. Starts(start, heap, at)
  <2>1. around[at] = {} /\ proto[at].kind /= "message"
    BY <1>1, LineStandsIn DEF here
  <2>2. \A k \in 1 .. Len(heap) : Collected(heap[k], start[k], at - 1)
    BY <1>4 DEF Starts
  <2>3. \A k \in 1 .. Len(heap) : Collected(heap[k], start[k], at - 1 + 1)
    BY <1>2, <2>1, <2>2, StrayLine
  <2>4. Starts(start, heap, at - 1 + 1)
    BY <1>2, <1>4, <2>1, <2>3, StartsExtended
  <2> QED BY <1>2, <2>4
<1>6. Starts(start, heap, linesRead)' /\ BeingFilled(start)'
  BY <1>1, <1>2, <1>3, <1>5, StartsThen DEF BeingFilled
<1>7. AllClosed'
  <2>1. ASSUME NEW m \in 1 .. at, proto[m].kind = "message" PROVE \E r \in m .. at : open[r] < open[m]
    <3>1. m \in 1 .. at - 1
      BY <1>1, <1>2, <2>1 DEF here
    <3>2. PICK r \in m .. at - 1 : open[r] < open[m]
      BY <1>1, <1>2, <2>1, <3>1 DEF FlatInv, AllClosed
    <3> QED BY <1>2, <3>2
  <2>2. at' - 1 = at
    BY <1>2
  <2> QED BY <1>2, <2>1, <2>2, SameFile DEF AllClosed
<1>8. OneByOne' /\ CheckedSoFar'
  BY <1>2, <1>3 DEF FlatInv, OneByOne, CheckedSoFar
<1> QED BY <1>6, <1>7, <1>8

LEMMA FlatOpenMessage ==
    ASSUME ScopeInv, ScopeInv', FlatInv, flat, OpenMessage
    PROVE  /\ \E start : (Starts(start, heap, linesRead) /\ BeingFilled(start))'
           /\ AllClosed' /\ OneByOne' /\ CheckedSoFar'
<1>1. ReadLine /\ current = 0 /\ here.kind = "message" /\ StartScope /\ scopes' = scopes
  BY DEF OpenMessage
<1>2. /\ proto' = proto /\ stage = "parse" /\ stage' = "parse" /\ at' = at + 1 /\ at \in Nat \ {0}
      /\ at - 1 \in Nat /\ at - 1 + 1 = at /\ linesRead' = at /\ at \in lines
      /\ Len(heap) \in Nat /\ Len(scopes) \in Nat
  BY <1>1, ReadingNumbers
<1>3. /\ heap' \in Seq(Scope) /\ Len(heap') = Len(heap) + 1
      /\ heap'[Len(heap) + 1] = emptyScope
      /\ \A j \in 1 .. Len(heap) : heap'[j] = heap[j]
      /\ current' = Len(heap) + 1
  BY <1>1, HeapAppended DEF ScopeInv, StartScope
<1>4. PICK old : Starts(old, heap, at - 1) /\ BeingFilled(old)
  BY <1>1, ReadingNumbers
<1> DEFINE new == Len(heap) + 1
           start == [k \in 1 .. new |-> IF k = new THEN at ELSE old[k]]
<1>5. start[new] = at /\ \A k \in 1 .. Len(heap) : start[k] = old[k]
  BY <1>2
<1>6. /\ \A k \in 1 .. new : k \in 1 .. Len(heap) \/ k = new
      /\ \A k \in 1 .. Len(heap) : old[k] \in 1 .. at - 1 /\ old[k] /= at /\ k /= new /\ k \in 1 .. new
      /\ new \in 1 .. new
  BY <1>2, <1>4 DEF Starts
<1>7. around[at] = {} /\ proto[at].kind = "message"
  BY <1>1, LineStandsIn DEF here
<1>8. ASSUME NEW k \in 1 .. new PROVE Collected(heap'[k], start[k], at)
  <2>1. CASE k \in 1 .. Len(heap)
    <3>1. Collected(heap'[k], start[k], at - 1)
      BY <1>3, <1>4, <1>5, <2>1 DEF Starts
    <3>2. Collected(heap'[k], start[k], at - 1 + 1)
      BY <1>2, <1>7, <3>1, StrayLine
    <3> QED BY <1>2, <3>2
  <2>2. CASE k = new
    <3>1. ASSUME NEW p \in 1 .. at PROVE around[p] /= {at}
      <4>1. p \in lines /\ at \notin 1 .. p - 1
        BY <1>2 DEF lines
      <4>2. around[p] \subseteq 1 .. p - 1
        BY <4>1 DEF around, enclosing
      <4> QED BY <4>1, <4>2
    <3>2. ToSet(emptyScope.fields) = {} /\ emptyScope.comments = {} /\ emptyScope.reserved = {}
      BY DEF emptyScope, ToSet
    <3> QED BY <1>3, <1>5, <2>2, <3>1, <3>2 DEF Collected
  <2> QED BY <1>6, <2>1, <2>2
<1> HIDE DEF start
<1>9. start \in [1 .. new -> 1 .. at]
  <2>1. \A k \in 1 .. new : start[k] \in 1 .. at
    BY <1>2, <1>5, <1>6
  <2> QED BY <2>1 DEF start
<1> HIDE DEF new
<1>10. /\ \A k \in 1 .. new : proto[start[k]].kind = "message"
       /\ \A j, k \in 1 .. new : j /= k => start[j] /= start[k]
  <2>1. \A k \in 1 .. Len(heap) : proto[old[k]].kind = "message"
    BY <1>4 DEF Starts
  <2>2. \A j, k \in 1 .. Len(heap) : j /= k => old[j] /= old[k]
    BY <1>4 DEF Starts
  <2> QED BY <1>5, <1>6, <1>7, <2>1, <2>2
<1>11. ASSUME NEW m \in 1 .. at, proto[m].kind = "message" PROVE \E k \in 1 .. new : start[k] = m
  <2>1. m = at \/ m \in 1 .. at - 1
    BY <1>2
  <2>2. m \in 1 .. at - 1 => \E k \in 1 .. Len(heap) : old[k] = m
    BY <1>4, <1>11 DEF Starts
  <2> QED BY <1>5, <1>6, <2>1, <2>2
<1>12. Starts(start, heap', at)
  <2>1. Len(heap') = new
    BY <1>3 DEF new
  <2>2. \A k \in 1 .. new : proto[start[k]].kind = "message" /\ Collected(heap'[k], start[k], at)
    BY <1>8, <1>10
  <2>3. \A m \in 1 .. at : proto[m].kind = "message" => \E k \in 1 .. new : start[k] = m
    BY <1>11
  <2> HIDE DEF Collected
  <2> QED BY <2>1, <1>9, <2>2, <1>10, <2>3 DEF Starts
<1>13. PICK st : Starts(st, heap', at) /\ st[Len(heap) + 1] = at
  BY <1>5, <1>12 DEF new
<1>14. Starts(st, heap, linesRead)'
  BY <1>2, <1>13, StartsThen
<1>16. BeingFilled(st)'
  <2>1. st[current'] = at
    BY <1>3, <1>13
  <2>6. current' /= 0 /\ lines' = lines /\ Filling'
    BY <1>2, <1>3, SameFile DEF ScopeInv
  <2>2. PICK q \in lines : OpenedBy(q)'
    BY <1>2, <2>6 DEF Filling
  <2>3. q \in 1 .. at /\ \A r \in q + 1 .. at : proto[r].kind /= "message"
    <3>1. at' - 1 = at
      BY <1>2
    <3> QED BY <1>2, <2>2, <3>1 DEF OpenedBy
  <2>4. q = at
    BY <1>2, <1>7, <2>3
  <2>5. st[current'] = q
    BY <2>1, <2>4
  <2> QED BY <2>2, <2>5 DEF BeingFilled, OpenedBy
<1>15. AllClosed' /\ OneByOne' /\ CheckedSoFar'
  BY <1>1, <1>2, <1>3 DEF FlatInv, AllClosed, OneByOne, CheckedSoFar
<1> QED BY <1>14, <1>15, <1>16

LEMMA FlatCloseMessage ==
    ASSUME ScopeInv, FlatInv, flat, CloseMessage
    PROVE  /\ \E start : (Starts(start, heap, linesRead) /\ BeingFilled(start))'
           /\ AllClosed' /\ OneByOne' /\ CheckedSoFar'
<1>1. /\ ReadLine /\ current /= 0 /\ depth + here.delta <= 0
      /\ scopes' = Append(scopes, current) /\ current' = 0 /\ heap' = heap
  BY DEF CloseMessage
<1>2. /\ proto' = proto /\ stage = "parse" /\ stage' = "parse" /\ at' = at + 1 /\ at \in Nat \ {0}
      /\ at - 1 \in Nat /\ at - 1 + 1 = at /\ linesRead' = at /\ at \in lines
      /\ scopes \in Seq(1 .. Len(heap)) /\ Len(heap) \in Nat /\ Len(scopes) \in Nat
  BY <1>1, ReadingNumbers
<1>3. PICK o \in lines : OpenedBy(o) /\ depth + here.delta = open[at] - open[o] + 1 /\ open[at] < open[o]
  BY <1>1, LineRead
<1>4. o \in 1 .. at - 1 /\ proto[o].kind = "message" /\ open[at - 1] >= open[o]
      /\ depth = open[at - 1] - open[o] + 1
      /\ \A r \in o + 1 .. at - 1 : proto[r].kind /= "message"
  BY <1>2, <1>3 DEF OpenedBy
<1>5. around[at] = {} /\ proto[at].kind /= "message"
  <2>1. Len(proto) \in Nat /\ \A r \in 0 .. Len(proto) : open[r] \in Int
    BY LineIs, OpenIs DEF ScopeInv, ProtoTypeOK
  <2>2. open[at - 1] \in Int /\ open[o] \in Int
    BY <1>2, <2>1 DEF lines
  <2>3. proto[at].kind = "message" => here.delta = 1
    BY <1>2, FlatLine DEF here
  <2> QED BY <1>1, <1>4, <2>2, <2>3, LineStandsIn
<1>6. PICK start : Starts(start, heap, at - 1) /\ BeingFilled(start)
  BY <1>1, ReadingNumbers
<1>7. Starts(start, heap, at)
  <2>1. \A k \in 1 .. Len(heap) : Collected(heap[k], start[k], at - 1)
    BY <1>6 DEF Starts
  <2>2. \A k \in 1 .. Len(heap) : Collected(heap[k], start[k], at - 1 + 1)
    BY <1>2, <1>5, <2>1, StrayLine
  <2>3. Starts(start, heap, at - 1 + 1)
    BY <1>2, <1>5, <1>6, <2>2, StartsExtended
  <2> QED BY <1>2, <2>3
<1>8. Starts(start, heap, linesRead)' /\ BeingFilled(start)'
  BY <1>1, <1>2, <1>7, StartsThen DEF BeingFilled
<1>9. AllClosed'
  <2>1. ASSUME NEW m \in 1 .. at, proto[m].kind = "message" PROVE \E r \in m .. at : open[r] < open[m]
    <3>1. m \in 1 .. o - 1 \/ m = o
      BY <1>2, <1>4, <1>5, <2>1
    <3>2. CASE m = o
      BY <1>2, <1>3, <1>4, <3>2
    <3>3. CASE m \in 1 .. o - 1
      <4>1. PICK r \in m .. o : open[r] < open[m]
        BY <1>4, <2>1, <3>3, ClosedBefore DEF ScopeInv, ProtoTypeOK
      <4> QED BY <1>2, <1>4, <4>1
    <3> QED BY <3>1, <3>2, <3>3
  <2>2. at' - 1 = at
    BY <1>2
  <2> QED BY <1>2, <2>1, <2>2, SameFile DEF AllClosed
<1>10. OneByOne'
  <2>1. current = Len(heap) /\ Len(heap) = Len(scopes) + 1 /\ \A j \in DOMAIN scopes : scopes[j] = j
    BY <1>1, <1>2 DEF FlatInv, OneByOne
  <2>2. /\ Len(scopes') = Len(scopes) + 1 /\ scopes'[Len(scopes) + 1] = Len(scopes) + 1
        /\ \A j \in DOMAIN scopes' : j = Len(scopes) + 1 \/ (j \in DOMAIN scopes /\ scopes'[j] = scopes[j])
    BY <1>1, <1>2, <2>1
  <2> QED BY <1>1, <1>2, <2>1, <2>2 DEF OneByOne
<1>11. CheckedSoFar'
  BY <1>2 DEF CheckedSoFar
<1> QED BY <1>8, <1>9, <1>10, <1>11

\* A line inside the message that adds what it should to the scope being filled.
LEMMA FlatFill ==
    ASSUME ScopeInv, ScopeInv', FlatInv, flat, StaysIn, here.kind /= "message",
           NEW s \in Scope, Fill(s),
           /\ ToSet(s.fields) = ToSet(heap[current].fields) \union (IF here.kind = "field" THEN {at} ELSE {})
           /\ s.comments = heap[current].comments \union (IF here.kind = "comment" THEN {at} ELSE {})
           /\ s.reserved = heap[current].reserved \union (IF here.kind = "reserved" THEN here.numbers ELSE {})
    PROVE  /\ \E start : (Starts(start, heap, linesRead) /\ BeingFilled(start))'
           /\ AllClosed' /\ OneByOne' /\ CheckedSoFar'
<1>1. /\ ReadLine /\ current /= 0 /\ depth + here.delta > 0
      /\ scopes' = scopes /\ current' = current
  BY DEF StaysIn, Fill
<1>2. /\ proto' = proto /\ stage = "parse" /\ stage' = "parse" /\ at' = at + 1 /\ at \in Nat \ {0}
      /\ at - 1 \in Nat /\ at - 1 + 1 = at /\ linesRead' = at /\ at \in lines
  BY <1>1, ReadingNumbers
<1>3. current \in 1 .. Len(heap)
  BY <1>1, <1>2 DEF ScopeInv, ProtoTypeOK
<1>4. /\ Len(heap') = Len(heap) /\ heap'[current] = s
      /\ \A j \in 1 .. Len(heap) : j /= current => heap'[j] = heap[j]
  <2>1. LET h == [heap EXCEPT ![current] = s] IN
          /\ Len(h) = Len(heap) /\ h[current] = s
          /\ \A j \in 1 .. Len(heap) : j /= current => h[j] = heap[j]
    BY <1>3, HeapReplaced DEF ScopeInv
  <2>2. heap' = [heap EXCEPT ![current] = s]
    BY DEF Fill
  <2> QED BY <2>1, <2>2
<1>5. PICK start : Starts(start, heap, at - 1) /\ BeingFilled(start)
  BY <1>1, ReadingNumbers
<1>6. OpenedBy(start[current])
  BY <1>1, <1>2, <1>5 DEF BeingFilled
<1>7. around[at] = {start[current]}
  BY <1>1, <1>6, LineStandsIn
<1>8. ASSUME NEW k \in 1 .. Len(heap) PROVE Collected(heap'[k], start[k], at)
  <2>1. Collected(heap[k], start[k], at - 1)
    BY <1>5 DEF Starts
  <2>2. CASE k = current
    <3>1. Collected(heap[current], start[current], at - 1)
      BY <2>1, <2>2
    <3>2. Collected(s, start[current], at - 1 + 1)
      BY <1>2, <1>7, <3>1, CollectedNext DEF here
    <3> QED BY <1>2, <1>4, <2>2, <3>2
  <2>3. CASE k /= current
    <3>1. around[at - 1 + 1] /= {start[k]}
      <4>1. start[k] /= start[current]
        BY <1>3, <1>5, <2>3 DEF Starts
      <4> QED BY <1>2, <1>7, <4>1
    <3>2. Collected(heap[k], start[k], at - 1 + 1)
      BY <1>2, <2>1, <3>1, CollectedNext
    <3> QED BY <1>2, <1>4, <2>3, <3>2
  <2> QED BY <2>2, <2>3
<1>9. Starts(start, heap', at)
  <2>1. Starts(start, heap', at - 1 + 1)
    BY <1>2, <1>4, <1>5, <1>8, StartsExtended DEF here
  <2> QED BY <1>2, <2>1
<1>10. Starts(start, heap, linesRead)'
  BY <1>2, <1>9, StartsThen
<1>11. BeingFilled(start)'
  <2>1. PICK q \in lines : OpenedBy(q)'
    BY <1>1, <1>2, SameFile DEF ScopeInv, Filling
  <2>2. q \in 1 .. at /\ proto[q].kind = "message" /\ \A r \in q + 1 .. at : proto[r].kind /= "message"
    <3>1. at' - 1 = at
      BY <1>2
    <3> QED BY <1>2, <2>1, <3>1 DEF OpenedBy
  <2> DEFINE o == start[current]
  <2>3. o \in 1 .. at - 1 /\ proto[o].kind = "message" /\ \A r \in o + 1 .. at - 1 : proto[r].kind /= "message"
    BY <1>6 DEF OpenedBy
  <2>4. q /= at
    BY <2>2 DEF here
  <2> HIDE DEF o
  <2>5. q = o
    BY <1>2, <2>2, <2>3, <2>4
  <2>6. start[current'] = q
    BY <1>1, <2>5 DEF o
  <2> QED BY <2>1, <2>6 DEF BeingFilled, OpenedBy
<1>12. AllClosed' /\ OneByOne' /\ CheckedSoFar'
  BY <1>1, <1>2, <1>4 DEF FlatInv, AllClosed, OneByOne, CheckedSoFar
<1> QED BY <1>10, <1>11, <1>12

\* There is no message line inside a message.
LEMMA FlatOpenInner ==
    ASSUME ScopeInv, FlatInv, flat, OpenInner
    PROVE  FALSE
<1>1. ReadLine /\ current /= 0 /\ depth + here.delta > 0 /\ here.kind = "message"
  BY DEF OpenInner, StaysIn
<1>2. stage = "parse" /\ at \in lines
  BY <1>1, ReadingNumbers
<1>3. PICK o \in lines : OpenedBy(o)
  BY <1>1, LineRead
<1>4. around[at] = {o}
  BY <1>1, <1>3, LineStandsIn
<1> QED BY <1>1, <1>2, <1>4, FlatLine DEF here

LEMMA FlatEndFile ==
    ASSUME ScopeInv, FlatInv, flat, EndFile
    PROVE  /\ \E start : (Starts(start, heap, linesRead) /\ BeingFilled(start))'
           /\ AllClosed' /\ OneByOne' /\ CheckedSoFar'
<1>1. /\ stage = "parse" /\ at > Len(proto) /\ stage' = "check" /\ at' = 1 /\ proto' = proto
      /\ verdicts' = verdicts /\ heap' = heap
      /\ scopes' = IF current = 0 THEN scopes ELSE Append(scopes, current)
  BY DEF EndFile
<1>2. Len(proto) \in Nat /\ at \in Nat /\ at <= Len(proto) + 1 /\ verdicts = <<>>
  BY <1>1, LineIs DEF ScopeInv, ProtoTypeOK, Reading
<1>3. linesRead = Len(proto) /\ linesRead' = Len(proto)
  BY <1>1, <1>2 DEF linesRead
<1>4. scopes \in Seq(1 .. Len(heap)) /\ Len(heap) \in Nat /\ Len(scopes) \in Nat /\ current \in Nat
  <2> HIDE DEF Scope
  <2>1. scopes \in Seq(1 .. Len(heap)) /\ heap \in Seq(Scope) /\ current \in 0 .. Len(heap)
    BY DEF ScopeInv, ProtoTypeOK
  <2> QED BY <2>1
<1>5. PICK start : Starts(start, heap, Len(proto))
  BY <1>3 DEF FlatInv
<1>6. Starts(start, heap, linesRead)' /\ BeingFilled(start)' /\ AllClosed'
  BY <1>1, <1>3, <1>5, StartsThen DEF BeingFilled, AllClosed
<1>7. OneByOne'
  <2>1. \A j \in DOMAIN scopes : scopes[j] = j
    BY DEF FlatInv, OneByOne
  <2>2. CASE current = 0
    BY <1>1, <2>1, <2>2 DEF FlatInv, OneByOne
  <2>3. CASE current /= 0
    <3>1. current = Len(heap) /\ Len(heap) = Len(scopes) + 1
      BY <1>1, <2>3 DEF FlatInv, OneByOne
    <3>2. /\ Len(scopes') = Len(scopes) + 1 /\ scopes'[Len(scopes) + 1] = Len(scopes) + 1
          /\ \A j \in DOMAIN scopes' : j = Len(scopes) + 1 \/ (j \in DOMAIN scopes /\ scopes'[j] = scopes[j])
      BY <1>1, <1>4, <2>3, <3>1
    <3> QED BY <1>1, <2>1, <3>1, <3>2 DEF OneByOne
  <2> QED BY <2>2, <2>3
<1>8. CheckedSoFar'
  BY <1>1, <1>2, <1>4, <1>7 DEF CheckedSoFar, OneByOne
<1> QED BY <1>6, <1>7, <1>8

LEMMA FlatCheckScope ==
    ASSUME ScopeInv, FlatInv, flat, CheckScope
    PROVE  /\ \E start : (Starts(start, heap, linesRead) /\ BeingFilled(start))'
           /\ AllClosed' /\ OneByOne' /\ CheckedSoFar'
<1>1. /\ stage = "check" /\ stage' = "check" /\ at' = at + 1 /\ proto' = proto /\ current' = current
      /\ depth' = depth /\ scopes' = scopes
  BY DEF CheckScope
<1>2. scopes \in Seq(1 .. Len(heap)) /\ at \in Nat \ {0} /\ Len(scopes) \in Nat
  BY DEF ScopeInv, ProtoTypeOK
<1>3. at \in 1 .. Len(scopes) /\ scopes[at] = at
  <2>1. at \in 1 .. Len(scopes)
    BY Checked
  <2> QED BY <1>2, <2>1 DEF FlatInv, OneByOne
<1>4. PICK G \in sortings(heap[at].fields) :
        /\ at \in 1 .. Len(heap)
        /\ DOMAIN G = DOMAIN heap[at].fields
        /\ ToSet(G) = ToSet(heap[at].fields)
        /\ \A a, b \in DOMAIN G : a < b => number(G[a]) <= number(G[b])
        /\ Len(heap') = Len(heap)
        /\ heap'[at].fields = G /\ heap'[at].reserved = heap[at].reserved
        /\ heap'[at].comments = heap[at].comments
        /\ \A j \in 1 .. Len(heap) : j /= at => heap'[j] = heap[j]
        /\ verdicts' = Append(verdicts, checkPIIFields(G, heap'[at]) \union reuses(G)
                                            \union gaps(G, heap'[at]))
  BY <1>3, Checked
<1>5. linesRead = Len(proto) /\ linesRead' = Len(proto)
  BY <1>1 DEF linesRead
<1>6. PICK start : Starts(start, heap, Len(proto))
  BY <1>5 DEF FlatInv
<1>7. Starts(start, heap', Len(proto))
  <2>1. ASSUME NEW k \in 1 .. Len(heap) PROVE Collected(heap'[k], start[k], Len(proto))
    <3>1. Collected(heap[k], start[k], Len(proto))
      BY <1>6 DEF Starts
    <3>2. /\ ToSet(heap'[k].fields) = ToSet(heap[k].fields)
          /\ heap'[k].comments = heap[k].comments /\ heap'[k].reserved = heap[k].reserved
      BY <1>4
    <3> QED BY <3>1, <3>2 DEF Collected
  <2> HIDE DEF Collected
  <2> QED BY <1>4, <1>6, <2>1 DEF Starts
<1>8. Starts(start, heap, linesRead)' /\ BeingFilled(start)' /\ AllClosed'
  BY <1>1, <1>5, <1>7, StartsThen DEF BeingFilled, AllClosed
<1>9. OneByOne'
  BY <1>1, <1>4 DEF FlatInv, OneByOne
<1>10. CheckedSoFar'
  <2>1. verdicts' = Append(verdicts, faultsOf(heap'[at])) /\ isSorted(heap'[at].fields)
    BY <1>4 DEF faultsOf, isSorted
  <2>2. /\ Len(verdicts) = at - 1 /\ \A j \in 1 .. at - 1 : verdicts[j] = faultsOf(heap[j]) /\ isSorted(heap[j].fields)
    BY <1>1 DEF FlatInv, CheckedSoFar
  <2>3. /\ Len(verdicts') = at /\ verdicts'[at] = faultsOf(heap'[at])
        /\ \A j \in 1 .. at - 1 : verdicts'[j] = verdicts[j]
    <3>1. verdicts \in Seq(SUBSET Fault)
      BY DEF ScopeInv, ProtoTypeOK
    <3> HIDE DEF Fault
    <3> QED BY <1>2, <2>1, <2>2, <3>1
  <2>4. ASSUME NEW j \in 1 .. at PROVE verdicts'[j] = faultsOf(heap'[j]) /\ isSorted(heap'[j].fields)
    <3>1. CASE j = at
      BY <2>1, <2>3, <3>1
    <3>2. CASE j /= at
      <4>1. j \in 1 .. at - 1 /\ heap'[j] = heap[j]
        BY <1>2, <1>4, <3>2
      <4> QED BY <2>2, <2>3, <4>1
    <3> QED BY <3>1, <3>2
  <2>5. \A j \in 1 .. at : verdicts'[j] = faultsOf(heap[j])' /\ isSorted(heap[j].fields)'
    BY <1>1, <2>4, FaultsThen
  <2>6. at' - 1 = at /\ at' <= Len(scopes') + 1
    BY <1>1, <1>2, <1>3
  <2> QED BY <1>1, <2>3, <2>5, <2>6 DEF CheckedSoFar
<1> QED BY <1>8, <1>9, <1>10

LEMMA FlatReturnAll ==
    ASSUME ScopeInv, FlatInv, flat,
           UNCHANGED <<proto, at, heap, current, depth, scopes, verdicts>>,
           stage' = stage \/ (stage = "check" /\ at > Len(scopes) /\ stage' = "done")
    PROVE  /\ \E start : (Starts(start, heap, linesRead) /\ BeingFilled(start))'
           /\ AllClosed' /\ OneByOne' /\ CheckedSoFar'
<1>1. linesRead' = linesRead /\ (stage' = "parse" <=> stage = "parse")
  BY DEF linesRead
<1>2. PICK start : Starts(start, heap, linesRead) /\ BeingFilled(start)
  BY DEF FlatInv
<1>3. Starts(start, heap, linesRead)'
  BY <1>1, <1>2, StartsThen
<1>4. BeingFilled(start)'
  <2> SUFFICES ASSUME stage' = "parse", current' /= 0 PROVE OpenedBy(start[current])'
    BY DEF BeingFilled
  <2>1. OpenedBy(start[current])
    BY <1>1, <1>2 DEF BeingFilled
  <2> QED BY <2>1, SameFile DEF OpenedBy
<1>5. AllClosed' /\ OneByOne'
  BY <1>1, SameFile DEF FlatInv, AllClosed, OneByOne
<1>6. CheckedSoFar'
  <2> SUFFICES ASSUME stage /= "parse" PROVE CheckedSoFar'
    BY <1>1 DEF CheckedSoFar
  <2>1. /\ Len(verdicts) = at - 1 /\ at <= Len(scopes) + 1 /\ (stage = "done" => at = Len(scopes) + 1)
        /\ \A j \in 1 .. at - 1 : verdicts[j] = faultsOf(heap[j]) /\ isSorted(heap[j].fields)
    BY DEF FlatInv, CheckedSoFar
  <2>2. \A j \in 1 .. at - 1 : verdicts'[j] = faultsOf(heap[j])' /\ isSorted(heap[j].fields)'
    BY <2>1, FaultsThen
  <2>3. stage' = "done" => at = Len(scopes) + 1
    <3>1. at \in Nat /\ Len(scopes) \in Nat
      BY DEF ScopeInv, ProtoTypeOK
    <3> QED BY <2>1, <3>1
  <2> QED BY <2>1, <2>2, <2>3 DEF CheckedSoFar
<1> QED BY <1>3, <1>4, <1>5, <1>6
LEMMA StepFlatInv == ScopeInv /\ ScopeInv' /\ FlatInv /\ [ProtoNext]_protoVars => FlatInv'
<1> SUFFICES ASSUME ScopeInv, ScopeInv', FlatInv, [ProtoNext]_protoVars, flat'
             PROVE  /\ \E start : (Starts(start, heap, linesRead) /\ BeingFilled(start))'
                    /\ AllClosed' /\ OneByOne' /\ CheckedSoFar'
  BY DEF FlatInv
<1>1. proto' = proto
  BY DEF ProtoNext, SkipOutside, OpenMessage, CloseMessage, CommentLine, ReservedLine, FieldLine, OpenInner,
         SkipInside, StaysIn, ReadLine, EndFile, CheckScope, ReturnAll, ProtoTerminated, protoVars
<1>2. flat
  BY <1>1, SameFlat
<1>3. ASSUME StaysIn
      PROVE  /\ heap[current] \in Scope /\ heap[current].fields \in Seq(Nat) /\ at \in Nat
             /\ here.numbers \in SUBSET Nat
  <2>1. current \in 1 .. Len(heap) /\ at \in Nat \ {0}
    BY <1>3 DEF StaysIn, ScopeInv, ProtoTypeOK
  <2>2. at \in lines
    BY <1>3, <2>1, LineIs DEF StaysIn, ReadLine, ScopeInv, ProtoTypeOK, lines
  <2> QED BY <2>1, <2>2, ScopeIs, LineIs DEF ScopeInv, ProtoTypeOK, here
<1>4. CASE SkipOutside
  BY <1>2, <1>4, FlatSkipOutside
<1>5. CASE OpenMessage
  BY <1>2, <1>5, FlatOpenMessage
<1>6. CASE CloseMessage
  BY <1>2, <1>6, FlatCloseMessage
<1>7. CASE CommentLine
  <2> DEFINE s == [heap[current] EXCEPT !.comments = @ \union {at}]
  <2>1. StaysIn /\ here.kind = "comment" /\ Fill(s)
    BY <1>7 DEF CommentLine
  <2>2. /\ s \in Scope /\ s.fields = heap[current].fields /\ s.reserved = heap[current].reserved
        /\ s.comments = heap[current].comments \union {at}
    BY <1>3, <2>1 DEF Scope
  <2> HIDE DEF s
  <2> QED BY <1>2, <2>1, <2>2, FlatFill
<1>8. CASE ReservedLine
  <2> DEFINE s == [heap[current] EXCEPT !.reserved = @ \union here.numbers]
  <2>1. StaysIn /\ here.kind = "reserved" /\ Fill(s)
    BY <1>8 DEF ReservedLine
  <2>2. /\ s \in Scope /\ s.fields = heap[current].fields /\ s.comments = heap[current].comments
        /\ s.reserved = heap[current].reserved \union here.numbers
    BY <1>3, <2>1 DEF Scope
  <2> HIDE DEF s
  <2> QED BY <1>2, <2>1, <2>2, FlatFill
<1>9. CASE FieldLine
  <2> DEFINE s == [heap[current] EXCEPT !.fields = Append(@, at)]
  <2>1. StaysIn /\ here.kind = "field" /\ Fill(s) /\ ReadLine /\ current /= 0 /\ depth + here.delta > 0
    BY <1>9 DEF FieldLine, StaysIn
  <2>2. /\ s \in Scope /\ s.fields = Append(heap[current].fields, at)
        /\ s.comments = heap[current].comments /\ s.reserved = heap[current].reserved
    <3>1. heap[current] \in Scope /\ Append(heap[current].fields, at) \in Seq(Nat)
      BY <1>3, <2>1
    <3> QED BY <3>1 DEF Scope
  <2>3. ToSet(s.fields) = ToSet(heap[current].fields) \union {at}
    BY <2>1, <2>2, FieldTogether
  <2> HIDE DEF s
  <2> QED BY <1>2, <2>1, <2>2, <2>3, FlatFill
<1>10. CASE OpenInner
  BY <1>2, <1>10, FlatOpenInner
<1>11. CASE SkipInside
  <2>1. StaysIn /\ here.kind = "other" /\ Fill(heap[current])
    BY <1>11 DEF SkipInside
  <2>2. heap[current] \in Scope
    BY <1>3, <2>1
  <2> DEFINE s == heap[current]
  <2>3. /\ s \in Scope /\ Fill(s) /\ s.fields = heap[current].fields /\ s.comments = heap[current].comments
        /\ s.reserved = heap[current].reserved
    BY <2>1, <2>2
  <2> HIDE DEF s
  <2> QED BY <1>2, <2>1, <2>3, FlatFill
<1>12. CASE EndFile
  BY <1>2, <1>12, FlatEndFile
<1>13. CASE CheckScope
  BY <1>2, <1>13, FlatCheckScope
<1>14. CASE ReturnAll
  BY <1>2, <1>14, FlatReturnAll DEF ReturnAll, parsed
<1>15. CASE ProtoTerminated \/ UNCHANGED protoVars
  BY <1>2, <1>15, FlatReturnAll DEF ProtoTerminated, protoVars
<1> QED BY <1>4, <1>5, <1>6, <1>7, <1>8, <1>9, <1>10, <1>11, <1>12, <1>13, <1>14, <1>15 DEF ProtoNext

\* A line stands in one plain message at most, and so do the lines between.
LEMMA OneMessage ==
    ASSUME proto \in Seq(ProtoLine), flat, NEW p \in lines, NEW m \in enclosing(p)
    PROVE  /\ enclosing(p) = {m}
           /\ \A r \in m + 1 .. p - 1 : r \in lines /\ enclosing(r) = {m}
<1>1. Len(proto) \in Nat /\ p \in Nat /\ \A r \in 0 .. Len(proto) : open[r] \in Int
  BY LineIs, OpenIs DEF lines
<1>2. ASSUME NEW x \in lines, NEW a \in enclosing(x), NEW b \in enclosing(x), a < b PROVE FALSE
  <2>1. /\ a \in 1 .. x - 1 /\ b \in 1 .. x - 1 /\ x \in Nat
        /\ proto[a].kind = "message" /\ proto[b].kind = "message"
        /\ \A r \in a .. x : open[r] >= open[a]
    BY <1>1 DEF enclosing, lines
  <2>2. a \in 1 .. b - 1 /\ b \in lines
    BY <1>1, <1>2, <2>1 DEF lines
  <2>3. PICK r \in a .. b : open[r] < open[a]
    BY <2>1, <2>2, ClosedBefore
  <2>4. r \in a .. x /\ open[r] \in Int /\ open[a] \in Int
    BY <1>1, <1>2, <2>1 DEF lines
  <2> QED BY <2>1, <2>3, <2>4
<1>3. ASSUME NEW x \in lines, NEW a \in enclosing(x), NEW b \in enclosing(x) PROVE a = b
  <2>1. a \in Int /\ b \in Int
    BY DEF enclosing
  <2>2. ~(a < b) /\ ~(b < a)
    BY <1>2
  <2> QED BY <2>1, <2>2
<1>4. ASSUME NEW r \in m + 1 .. p - 1 PROVE r \in lines /\ m \in enclosing(r)
  <2>1. /\ m \in 1 .. p - 1 /\ proto[m].kind = "message" /\ proto[m].delta = 1
        /\ \A q \in m .. p : open[q] >= open[m]
    BY DEF enclosing
  <2>2. r \in lines /\ m \in 1 .. r - 1 /\ \A q \in m .. r : q \in m .. p
    BY <1>1, <2>1 DEF lines
  <2> QED BY <2>1, <2>2 DEF enclosing
<1>5. \A x \in lines : m \in enclosing(x) => enclosing(x) = {m}
  BY <1>3
<1> QED BY <1>4, <1>5

\* What is found in a scope is found at its fields, each kind by its own check.
LEMMA FaultAt ==
    ASSUME ScopeInv, NEW s \in Scope, NEW p, NEW w, fault(p, w) \in faultsOf(s)
    PROVE  p \in ToSet(s.fields)
<1>1. \A x, v : fault(x, v).line = x
  BY DEF fault
<1>2. s.fields \in Seq(Nat)
  BY DEF Scope
<1>3. DOMAIN s.fields = 1 .. Len(s.fields) /\ Len(s.fields) \in Nat
  BY <1>2
<1>4. \A x \in checkPIIFields(s.fields, s) : x.line \in ToSet(s.fields)
  BY <1>1 DEF checkPIIFields
<1>5. \A x \in reuses(s.fields) : x.line \in ToSet(s.fields)
  BY <1>1 DEF reuses, ToSet
<1>6. \A x \in gaps(s.fields, s) : x.line \in ToSet(s.fields)
  BY <1>1, <1>3 DEF gaps, ToSet
<1> QED BY <1>1, <1>4, <1>5, <1>6 DEF faultsOf

\* When all is done each message is one scope, and what was reported of its fields is
\* what is found in that scope.
LEMMA MessageIs ==
    ASSUME ScopeInv, FlatInv, flat, stage = "done", NEW p \in messageFields
    PROVE  \E k \in 1 .. Len(heap) :
             LET s == heap[k]
                 mine == {q \in lines : enclosing(q) = enclosing(p)} IN
             /\ s \in Scope
             /\ p \in siblings(p)
             /\ ToSet(s.fields) = siblings(p)
             /\ s.comments = {q \in mine : proto[q].kind = "comment"}
             /\ s.reserved = UNION {proto[r].numbers : r \in {q \in mine : proto[q].kind = "reserved"}}
             /\ isSorted(s.fields)
             /\ \A a, b \in DOMAIN s.fields : a /= b => s.fields[a] /= s.fields[b]
             /\ \A w : \A q \in siblings(p) : fault(q, w) \in reported <=> fault(q, w) \in faultsOf(s)
<1>1. /\ proto \in Seq(ProtoLine) /\ Len(proto) \in Nat /\ p \in lines /\ p \in fieldLines
      /\ linesRead = Len(proto) /\ 1 .. Len(proto) = lines
  BY LineIs DEF ScopeInv, ProtoTypeOK, messageFields, fieldLines, linesRead, lines
<1>2. PICK m \in enclosing(p) : enclosing(p) = {m}
  BY <1>1, OneMessage DEF messageFields
<1>3. m \in lines /\ proto[m].kind = "message"
  BY <1>1, <1>2 DEF enclosing, lines
<1>4. PICK start : Starts(start, heap, Len(proto))
  BY <1>1 DEF FlatInv
<1>5. PICK k \in 1 .. Len(heap) : start[k] = m
  BY <1>1, <1>3, <1>4 DEF Starts
<1>6. Collected(heap[k], m, Len(proto))
  BY <1>4, <1>5 DEF Starts
<1>7. \A q \in lines : around[q] = {m} <=> enclosing(q) = enclosing(p)
  BY <1>2 DEF around
<1>8. ToSet(heap[k].fields) = siblings(p)
  BY <1>1, <1>6, <1>7 DEF Collected, siblings, fieldLines
<1>9. heap[k].comments = {q \in {x \in lines : enclosing(x) = enclosing(p)} : proto[q].kind = "comment"}
  BY <1>1, <1>6, <1>7 DEF Collected
<1>10. heap[k].reserved = UNION {proto[r].numbers :
            r \in {q \in {x \in lines : enclosing(x) = enclosing(p)} : proto[q].kind = "reserved"}}
  <2>1. {q \in 1 .. Len(proto) : proto[q].kind = "reserved" /\ around[q] = {m}}
          = {q \in {x \in lines : enclosing(x) = enclosing(p)} : proto[q].kind = "reserved"}
    BY <1>1, <1>7
  <2> QED BY <1>6, <2>1 DEF Collected
<1>11. heap[k] \in Scope
  BY ScopeIs DEF ScopeInv
<1>12. /\ Len(verdicts) = Len(heap) /\ DOMAIN verdicts = 1 .. Len(heap)
       /\ \A j \in 1 .. Len(heap) : verdicts[j] = faultsOf(heap[j]) /\ isSorted(heap[j].fields)
  <2>1. Len(verdicts) = at - 1 /\ at = Len(scopes) + 1 /\ Len(heap) = Len(scopes)
    BY DEF FlatInv, CheckedSoFar, OneByOne
  <2>2. Len(scopes) \in Nat /\ DOMAIN verdicts = 1 .. Len(verdicts)
    <3>1. scopes \in Seq(1 .. Len(heap)) /\ verdicts \in Seq(SUBSET Fault)
      BY DEF ScopeInv, ProtoTypeOK
    <3> HIDE DEF Fault
    <3> QED BY <3>1
  <2>3. at - 1 = Len(heap)
    BY <2>1, <2>2
  <2> QED BY <2>1, <2>2, <2>3 DEF FlatInv, CheckedSoFar
<1>13. ASSUME NEW q \in siblings(p), NEW w, NEW j \in 1 .. Len(heap), fault(q, w) \in faultsOf(heap[j])
       PROVE  j = k
  <2>1. q \in ToSet(heap[j].fields)
    BY <1>13, ScopeIs, FaultAt DEF ScopeInv
  <2>2. around[q] = {start[j]}
    BY <1>4, <2>1 DEF Starts, Collected
  <2>3. around[q] = {m}
    BY <1>7 DEF siblings, fieldLines
  <2>4. start[j] = start[k]
    BY <1>5, <2>2, <2>3
  <2> HIDE DEF Collected
  <2> QED BY <1>4, <2>4 DEF Starts
<1>14. ASSUME NEW q \in siblings(p), NEW w
       PROVE  fault(q, w) \in reported <=> fault(q, w) \in faultsOf(heap[k])
  <2>1. fault(q, w) \in reported <=> \E j \in 1 .. Len(heap) : fault(q, w) \in faultsOf(heap[j])
    BY <1>12 DEF reported, ToSet
  <2> QED BY <1>13, <2>1
<1>15. p \in siblings(p)
  BY <1>1 DEF siblings
<1>16. \A a, b \in DOMAIN heap[k].fields : a /= b => heap[k].fields[a] /= heap[k].fields[b]
  BY DEF ScopeInv, Together
<1> QED BY <1>8, <1>9, <1>10, <1>11, <1>12, <1>14, <1>15, <1>16

\* Among fields sorted by number, all but the first of each number are reuses.
LEMMA ReusesCount ==
    ASSUME ScopeInv, NEW s \in Scope, isSorted(s.fields),
           \A a, b \in DOMAIN s.fields : a /= b => s.fields[a] /= s.fields[b]
    PROVE  LET S == ToSet(s.fields) IN
           Cardinality({q \in S : fault(q, "reuse") \in faultsOf(s)})
               = Cardinality(S) - Cardinality({number(q) : q \in S})
<1> DEFINE F == s.fields
           S == ToSet(F)
           again == {q \in S : fault(q, "reuse") \in faultsOf(s)}
           first == S \ again
           numbers == {number(q) : q \in S}
<1>1. F \in Seq(Nat) /\ Len(F) \in Nat /\ DOMAIN F = 1 .. Len(F) /\ \A a \in DOMAIN F : F[a] \in Nat
  <2>1. F \in Seq(Nat)
    BY DEF Scope
  <2> QED BY <2>1
<1>2. ASSUME NEW a \in DOMAIN F
      PROVE  fault(F[a], "reuse") \in faultsOf(s) <=> \E h \in 1 .. a - 1 : number(F[h]) = number(F[a])
  <2>1. fault(F[a], "reuse") \in faultsOf(s) <=> fault(F[a], "reuse") \in reuses(F)
    BY <1>1, FaultsAre DEF faultsOf
  <2>2. \A x, y, v, w : fault(x, v) = fault(y, w) => x = y
    <3>1. \A x, v : fault(x, v).line = x
      BY DEF fault
    <3> QED BY <3>1
  <2>3. ASSUME fault(F[a], "reuse") \in reuses(F) PROVE \E h \in 1 .. a - 1 : number(F[h]) = number(F[a])
    <3>1. PICK b \in DOMAIN F : fault(F[a], "reuse") = fault(F[b], "reuse")
                                /\ \E h \in 1 .. b - 1 : number(F[h]) = number(F[b])
      BY <2>3 DEF reuses
    <3>2. F[a] = F[b]
      BY <2>2, <3>1
    <3>3. a = b
      BY <3>2
    <3> QED BY <3>1, <3>3
  <2>4. (\E h \in 1 .. a - 1 : number(F[h]) = number(F[a])) => fault(F[a], "reuse") \in reuses(F)
    BY DEF reuses
  <2> QED BY <2>1, <2>3, <2>4
<1>3. IsFiniteSet(S)
  <2>1. F \in Surjection(DOMAIN F, S)
    <3>1. F \in [DOMAIN F -> S] /\ \A t \in S : \E a \in DOMAIN F : F[a] = t
      BY <1>1 DEF ToSet
    <3> QED BY <3>1 DEF Surjection
  <2>2. IsFiniteSet(DOMAIN F)
    BY <1>1, FS_Interval
  <2> HIDE DEF S, F
  <2> QED BY <2>1, <2>2, FS_Surjection
<1>4. again \subseteq S /\ IsFiniteSet(again) /\ IsFiniteSet(first)
      /\ Cardinality(first) = Cardinality(S) - Cardinality(again)
  <2>1. again \subseteq S
    OBVIOUS
  <2>2. S \intersect again = again
    BY <2>1
  <2> HIDE DEF S, again
  <2> QED BY <1>3, <2>1, <2>2, FS_Subset, FS_Difference
<1>5. ASSUME NEW n \in numbers PROVE \E q \in first : number(q) = n
  <2> DEFINE T == {a \in DOMAIN F : number(F[a]) = n}
  <2>1. T \in SUBSET Nat /\ T /= {}
    <3>1. PICK q \in S : number(q) = n
      BY <1>5
    <3>2. PICK a \in DOMAIN F : F[a] = q
      BY DEF ToSet
    <3> QED BY <1>1, <3>1, <3>2
  <2>2. PICK x \in T : \A y \in T : x <= y
    BY <2>1, Least
  <2>3. ~\E h \in 1 .. x - 1 : number(F[h]) = number(F[x])
    BY <1>1, <2>2
  <2>4. F[x] \in S /\ F[x] \notin again
    BY <1>2, <2>2, <2>3 DEF ToSet
  <2> QED BY <2>2, <2>4
<1>6. ASSUME NEW q \in first, NEW r \in first, number(q) = number(r) PROVE q = r
  <2>1. PICK a \in DOMAIN F : F[a] = q
    BY DEF ToSet
  <2>2. PICK b \in DOMAIN F : F[b] = r
    BY DEF ToSet
  <2>3. ~(a \in 1 .. b - 1) /\ ~(b \in 1 .. a - 1)
    BY <1>2, <1>6, <2>1, <2>2
  <2>4. a = b
    BY <1>1, <2>3
  <2> QED BY <2>1, <2>2, <2>4
<1> DEFINE f == [q \in first |-> number(q)]
<1>7. f \in Bijection(first, numbers)
  <2>1. \A q \in first : number(q) \in numbers
    OBVIOUS
  <2>2. f \in [first -> numbers]
    BY <2>1
  <2>3. \A q, r \in first : f[q] = f[r] => q = r
    BY <1>6
  <2>4. \A n \in numbers : \E q \in first : f[q] = n
    BY <1>5
  <2> HIDE DEF f, first, numbers
  <2> QED BY <2>2, <2>3, <2>4 DEF Bijection, Injection, Surjection, IsInjective
<1>8. Cardinality(first) = Cardinality(numbers)
  <2> HIDE DEF f, first, numbers
  <2> QED BY <1>4, <1>7, FS_Bijection DEF ExistsBijection
<1>9. Cardinality(S) \in Nat /\ Cardinality(again) \in Nat
  <2> HIDE DEF S, again
  <2> QED BY <1>3, <1>4, FS_CardinalityType
<1> HIDE DEF S, again, first, numbers
<1>10. Cardinality(again) = Cardinality(S) - Cardinality(numbers)
  BY <1>4, <1>8, <1>9
<1> QED BY <1>10 DEF S, again, numbers

\* In a file of plain messages each message has exactly as many reuses reported as it
\* has fields beyond its numbers, whatever order equal numbers are sorted in.
THEOREM ProtobufReuseCounted == ProtoSpec => []ReuseCounted
<1>1. ScopeInv /\ FlatInv => ReuseCounted
  <2> SUFFICES ASSUME ScopeInv, FlatInv, stage = "done", flat, NEW p \in messageFields
               PROVE  Cardinality({q \in siblings(p) : fault(q, "reuse") \in reported})
                        = Cardinality(siblings(p)) - Cardinality({number(q) : q \in siblings(p)})
    BY DEF ReuseCounted
  <2>1. PICK k \in 1 .. Len(heap) :
          /\ heap[k] \in Scope
          /\ ToSet(heap[k].fields) = siblings(p)
          /\ isSorted(heap[k].fields)
          /\ \A a, b \in DOMAIN heap[k].fields : a /= b => heap[k].fields[a] /= heap[k].fields[b]
          /\ \A w : \A q \in siblings(p) : fault(q, w) \in reported <=> fault(q, w) \in faultsOf(heap[k])
    BY MessageIs
  <2>2. {q \in siblings(p) : fault(q, "reuse") \in reported}
          = {q \in siblings(p) : fault(q, "reuse") \in faultsOf(heap[k])}
    BY <2>1
  <2>3. Cardinality({q \in ToSet(heap[k].fields) : fault(q, "reuse") \in faultsOf(heap[k])})
          = Cardinality(ToSet(heap[k].fields)) - Cardinality({number(q) : q \in ToSet(heap[k].fields)})
    BY <2>1, ReusesCount
  <2> QED BY <2>1, <2>2, <2>3
<1> QED BY <1>1, InitScopeInv, StepScopeInv, FlatInit, StepFlatInv, PTL DEF ProtoSpec

\* In a file of plain messages a field is reported as personal data exactly if its name
\* looks like it and neither its line nor a comment right above says otherwise.
THEOREM ProtobufPIIExact == ProtoSpec => []PIIExact
<1>1. ScopeInv /\ FlatInv => PIIExact
  <2> SUFFICES ASSUME ScopeInv, FlatInv, stage = "done", flat, NEW p \in messageFields
               PROVE  fault(p, "pii") \in reported <=>
                        /\ proto[p].pii
                        /\ ~proto[p].justified
                        /\ ~(proto[p - 1].kind = "comment" /\ proto[p - 1].justified)
    BY DEF PIIExact
  <2>1. PICK k \in 1 .. Len(heap) :
          /\ heap[k] \in Scope
          /\ p \in siblings(p)
          /\ ToSet(heap[k].fields) = siblings(p)
          /\ heap[k].comments = {q \in {x \in lines : enclosing(x) = enclosing(p)} : proto[q].kind = "comment"}
          /\ \A w : \A q \in siblings(p) : fault(q, w) \in reported <=> fault(q, w) \in faultsOf(heap[k])
    BY MessageIs
  <2>2. p \in lines /\ proto \in Seq(ProtoLine) /\ p \in Nat
    BY DEF messageFields, fieldLines, ScopeInv, ProtoTypeOK, lines
  <2>3. PICK m \in enclosing(p) : enclosing(p) = {m} /\ \A r \in m + 1 .. p - 1 : r \in lines /\ enclosing(r) = {m}
    BY <2>2, OneMessage DEF messageFields
  <2>4. p - 1 \in heap[k].comments <=> proto[p - 1].kind = "comment"
    <3>1. m \in 1 .. p - 1 /\ proto[m].kind = "message"
      BY DEF enclosing
    <3>2. ASSUME proto[p - 1].kind = "comment" PROVE p - 1 \in lines /\ enclosing(p - 1) = enclosing(p)
      <4>1. p - 1 \in m + 1 .. p - 1
        BY <2>2, <3>1, <3>2
      <4> QED BY <2>3, <4>1
    <3> QED BY <2>1, <3>2
  <2>5. fault(p, "pii") \in faultsOf(heap[k]) <=> fault(p, "pii") \in checkPIIFields(heap[k].fields, heap[k])
    <3>1. heap[k].fields \in Seq(Nat)
      BY <2>1 DEF Scope
    <3> QED BY <2>1, <3>1, FaultsAre DEF faultsOf
  <2>6. fault(p, "pii") \in checkPIIFields(heap[k].fields, heap[k])
          <=> proto[p].pii /\ ~piiJustified(p, heap[k])
    <3>1. \A x, v : fault(x, v).line = x
      BY DEF fault
    <3>2. p \in ToSet(heap[k].fields)
      BY <2>1
    <3>3. ASSUME NEW q, fault(p, "pii") = fault(q, "pii") PROVE p = q
      BY <3>1, <3>3
    <3> QED BY <3>2, <3>3 DEF checkPIIFields
  <2> QED BY <2>1, <2>4, <2>5, <2>6 DEF piiJustified
<1> QED BY <1>1, InitScopeInv, StepScopeInv, FlatInit, StepFlatInv, PTL DEF ProtoSpec

\* Among fields with different numbers a gap is found before a field exactly if the
\* next lower one is far and nothing explains it.
LEMMA GapAt ==
    ASSUME ScopeInv, NEW s \in Scope, isSorted(s.fields), NEW p \in ToSet(s.fields),
           \A q \in ToSet(s.fields) : number(q) \in Nat,
           \A q, r \in ToSet(s.fields) : q /= r => number(q) /= number(r),
           \A a, b \in DOMAIN s.fields : a /= b => s.fields[a] /= s.fields[b]
    PROVE  LET lower == {q \in ToSet(s.fields) : number(q) < number(p)} IN
           fault(p, "gap") \in faultsOf(s) <=>
               \E q \in lower : /\ \A r \in lower : number(r) <= number(q)
                                /\ number(p) > number(q) + 1
                                /\ ~explained(q, p, s)
<1> DEFINE F == s.fields
           lower == {q \in ToSet(F) : number(q) < number(p)}
<1>1. F \in Seq(Nat) /\ Len(F) \in Nat /\ DOMAIN F = 1 .. Len(F)
  <2>1. F \in Seq(Nat)
    BY DEF Scope
  <2> QED BY <2>1
<1>2. fault(p, "gap") \in faultsOf(s) <=> fault(p, "gap") \in gaps(F, s)
  BY <1>1, FaultsAre DEF faultsOf
<1>3. PICK j \in DOMAIN F : p = F[j]
  BY DEF ToSet
<1>4. \A a \in DOMAIN F : F[a] \in ToSet(F) /\ number(F[a]) \in Nat
  BY DEF ToSet
<1>5. \A a, b \in DOMAIN F : a < b => number(F[a]) <= number(F[b])
  BY DEF isSorted
<1>6. ASSUME NEW a \in DOMAIN F, F[a] \in lower PROVE a < j /\ a \in 1 .. j - 1
  <2>1. number(F[a]) < number(F[j]) /\ number(F[a]) \in Nat /\ number(F[j]) \in Nat
    BY <1>3, <1>4, <1>6
  <2>2. ~(j < a) /\ a /= j
    BY <1>5, <2>1
  <2> QED BY <1>1, <2>2
<1>7. \A x, v, y : fault(x, v) = fault(y, v) => x = y
  <2>1. \A x, v : fault(x, v).line = x
    BY DEF fault
  <2> QED BY <2>1
<1>8. fault(p, "gap") \in gaps(F, s) <=>
        j \in 2 .. Len(F) /\ number(F[j]) > number(F[j - 1]) + 1 /\ ~explained(F[j - 1], F[j], s)
  <2>1. ASSUME fault(p, "gap") \in gaps(F, s)
        PROVE  j \in 2 .. Len(F) /\ number(F[j]) > number(F[j - 1]) + 1 /\ ~explained(F[j - 1], F[j], s)
    <3>1. PICK b \in 2 .. Len(F) : /\ fault(p, "gap") = fault(F[b], "gap")
                                   /\ number(F[b]) > number(F[b - 1]) + 1
                                   /\ ~explained(F[b - 1], F[b], s)
      BY <2>1 DEF gaps
    <3>2. F[j] = F[b] /\ b \in DOMAIN F
      BY <1>1, <1>3, <1>7, <3>1
    <3>3. b = j
      BY <3>2
    <3> QED BY <3>1, <3>3
  <2> QED BY <1>3, <2>1 DEF gaps
<1>9. ASSUME j \in 2 .. Len(F), number(F[j]) > number(F[j - 1]) + 1, ~explained(F[j - 1], F[j], s)
      PROVE  \E q \in lower : /\ \A r \in lower : number(r) <= number(q)
                              /\ number(p) > number(q) + 1
                              /\ ~explained(q, p, s)
  <2>1. j - 1 \in DOMAIN F /\ number(F[j - 1]) \in Nat /\ number(F[j]) \in Nat
    BY <1>1, <1>4, <1>9
  <2>2. F[j - 1] \in lower
    BY <1>3, <1>4, <1>9, <2>1
  <2>3. ASSUME NEW r \in lower PROVE number(r) <= number(F[j - 1])
    <3>1. PICK a \in DOMAIN F : F[a] = r
      BY DEF ToSet
    <3>2. a \in 1 .. j - 1
      BY <1>6, <2>3, <3>1
    <3>3. a = j - 1 \/ a < j - 1
      BY <1>1, <3>2
    <3> QED BY <1>5, <2>1, <3>1, <3>3
  <2> QED BY <1>3, <1>9, <2>2, <2>3
<1>10. ASSUME NEW q \in lower, \A r \in lower : number(r) <= number(q),
              number(p) > number(q) + 1, ~explained(q, p, s)
       PROVE  j \in 2 .. Len(F) /\ number(F[j]) > number(F[j - 1]) + 1 /\ ~explained(F[j - 1], F[j], s)
  <2>1. PICK a \in DOMAIN F : F[a] = q
    BY DEF ToSet
  <2>2. a \in 1 .. j - 1
    BY <1>6, <2>1
  <2>3. j \in 2 .. Len(F) /\ j - 1 \in DOMAIN F /\ j - 1 /= j /\ j - 1 < j /\ (a = j - 1 \/ a < j - 1)
    BY <1>1, <2>2
  <2>4. number(F[j - 1]) \in Nat /\ number(F[j]) \in Nat /\ number(F[j - 1]) <= number(F[j])
        /\ number(F[j - 1]) /= number(F[j])
    BY <1>4, <1>5, <2>3
  <2>5. F[j - 1] \in lower
    BY <1>3, <1>4, <2>3, <2>4
  <2>6. number(F[j - 1]) <= number(q) /\ number(q) <= number(F[j - 1]) /\ number(q) \in Nat
    BY <1>4, <1>5, <1>10, <2>1, <2>3, <2>4, <2>5
  <2>7. number(F[j - 1]) = number(q)
    BY <2>4, <2>6
  <2>8. F[j - 1] = q
    BY <1>4, <2>1, <2>3, <2>7
  <2> QED BY <1>3, <1>10, <2>3, <2>8
<1> QED BY <1>2, <1>8, <1>9, <1>10

\* In a file of plain messages with different numbers a gap is reported exactly where
\* it is neither reserved nor commented.
THEOREM ProtobufGapsExact == ProtoSpec => []GapsExact
<1>1. ScopeInv /\ FlatInv => GapsExact
  <2> SUFFICES ASSUME ScopeInv, FlatInv, stage = "done", flat, NEW p \in messageFields,
                      \A q, r \in siblings(p) : q /= r => number(q) /= number(r)
               PROVE  LET lower == {q \in siblings(p) : number(q) < number(p)} IN
                      fault(p, "gap") \in reported <=>
                         \E q \in lower :
                            /\ \A r \in lower : number(r) <= number(q)
                            /\ \E n \in number(q) + 1 .. number(p) - 1 :
                                  \A r \in lines : enclosing(r) = enclosing(p) /\ proto[r].kind = "reserved"
                                                       => n \notin proto[r].numbers
                            /\ \A r \in q + 1 .. p - 1 : proto[r].kind /= "comment"
    BY DEF GapsExact
  <2> DEFINE lower == {q \in siblings(p) : number(q) < number(p)}
  <2>1. PICK k \in 1 .. Len(heap) :
          /\ heap[k] \in Scope
          /\ p \in siblings(p)
          /\ ToSet(heap[k].fields) = siblings(p)
          /\ heap[k].comments = {q \in {x \in lines : enclosing(x) = enclosing(p)} : proto[q].kind = "comment"}
          /\ heap[k].reserved = UNION {proto[r].numbers :
                  r \in {q \in {x \in lines : enclosing(x) = enclosing(p)} : proto[q].kind = "reserved"}}
          /\ isSorted(heap[k].fields)
          /\ \A a, b \in DOMAIN heap[k].fields : a /= b => heap[k].fields[a] /= heap[k].fields[b]
          /\ \A w : \A q \in siblings(p) : fault(q, w) \in reported <=> fault(q, w) \in faultsOf(heap[k])
    BY MessageIs
  <2>2. p \in lines /\ proto \in Seq(ProtoLine) /\ p \in Nat
    BY DEF messageFields, fieldLines, ScopeInv, ProtoTypeOK, lines
  <2>3. \A q \in siblings(p) : q \in lines /\ q \in Nat /\ number(q) \in Nat /\ enclosing(q) = enclosing(p)
    BY <2>2, LineIs DEF siblings, fieldLines, lines, number
  <2>4. fault(p, "gap") \in faultsOf(heap[k]) <=>
            \E q \in lower : /\ \A r \in lower : number(r) <= number(q)
                             /\ number(p) > number(q) + 1
                             /\ ~explained(q, p, heap[k])
    BY <2>1, <2>3, GapAt
  <2>5. PICK m \in enclosing(p) : enclosing(p) = {m} /\ \A r \in m + 1 .. p - 1 : r \in lines /\ enclosing(r) = {m}
    BY <2>2, OneMessage DEF messageFields
  <2>6. ASSUME NEW q \in lower
        PROVE  heap[k].comments \intersect (q + 1 .. p - 1) = {}
                 <=> \A r \in q + 1 .. p - 1 : proto[r].kind /= "comment"
    <3>1. m \in 1 .. q - 1 /\ q \in Nat
      BY <2>3, <2>5 DEF enclosing
    <3>2. ASSUME NEW r \in q + 1 .. p - 1 PROVE r \in heap[k].comments <=> proto[r].kind = "comment"
      <4>1. r \in m + 1 .. p - 1
        BY <2>2, <3>1
      <4>2. r \in lines /\ enclosing(r) = enclosing(p)
        BY <2>5, <4>1
      <4> QED BY <2>1, <4>2
    <3> QED BY <3>2
  <2>7. ASSUME NEW q \in lower
        PROVE  (number(p) > number(q) + 1 /\ ~(number(q) + 1 .. number(p) - 1 \subseteq heap[k].reserved))
                 <=> \E n \in number(q) + 1 .. number(p) - 1 :
                        \A r \in lines : enclosing(r) = enclosing(p) /\ proto[r].kind = "reserved"
                                             => n \notin proto[r].numbers
    <3>1. \A n : n \in heap[k].reserved <=>
             \E r \in lines : enclosing(r) = enclosing(p) /\ proto[r].kind = "reserved" /\ n \in proto[r].numbers
      BY <2>1
    <3>2. number(p) \in Nat /\ number(q) \in Nat
      BY <2>1, <2>3
    <3>3. ASSUME NEW n \in number(q) + 1 .. number(p) - 1 PROVE number(p) > number(q) + 1
      BY <3>2
    <3>4. ~(number(q) + 1 .. number(p) - 1 \subseteq heap[k].reserved)
            <=> \E n \in number(q) + 1 .. number(p) - 1 : n \notin heap[k].reserved
      OBVIOUS
    <3> QED BY <3>1, <3>3, <3>4
  <2>8. ASSUME NEW q \in lower
        PROVE  (number(p) > number(q) + 1 /\ ~explained(q, p, heap[k]))
                 <=> /\ \E n \in number(q) + 1 .. number(p) - 1 :
                           \A r \in lines : enclosing(r) = enclosing(p) /\ proto[r].kind = "reserved"
                                                => n \notin proto[r].numbers
                     /\ \A r \in q + 1 .. p - 1 : proto[r].kind /= "comment"
    <3>1. explained(q, p, heap[k]) <=> \/ number(q) + 1 .. number(p) - 1 \subseteq heap[k].reserved
                                       \/ heap[k].comments \intersect (q + 1 .. p - 1) /= {}
      BY DEF explained
    <3> QED BY <2>6, <2>7, <3>1
  <2> HIDE DEF lower
  <2>9. fault(p, "gap") \in reported <=> fault(p, "gap") \in faultsOf(heap[k])
    BY <2>1
  <2>10. fault(p, "gap") \in reported <=>
            \E q \in lower :
               /\ \A r \in lower : number(r) <= number(q)
               /\ \E n \in number(q) + 1 .. number(p) - 1 :
                     \A r \in lines : enclosing(r) = enclosing(p) /\ proto[r].kind = "reserved"
                                          => n \notin proto[r].numbers
               /\ \A r \in q + 1 .. p - 1 : proto[r].kind /= "comment"
    BY <2>4, <2>8, <2>9
  <2> QED BY <2>10 DEF lower
<1> QED BY <1>1, InitScopeInv, StepScopeInv, FlatInit, StepFlatInv, PTL DEF ProtoSpec
==============================================================================
