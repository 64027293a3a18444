------------------------------- MODULE Protobuf -------------------------------
(* repocheck/protobuf: parseMessages turns the lines of a .proto file into message    *)
(* scopes by counting braces; checkProtoFile then examines each scope it was given.   *)
EXTENDS Integers, FiniteSets, SequencesExt

CONSTANT ProtoFiles   \* the files of the instance, each a sequence of lines

(* A line is a record, what the regular expressions make of it.                       *)
(*   kind      message (messageRe), field (fieldRe), reserved (reservedRe), comment   *)
(*             or other                                                               *)
(*   delta     opening less closing braces                                            *)
(*   number    of a field                                                             *)
(*   numbers   what a reserved statement reserves; an "other" line can reserve        *)
(*             numbers too, in a form reservedRe does not match                       *)
(*   pii       looksLikePII of the field's name                                       *)
(*   justified a field line with "sensitive" or "non-pii", a comment with "non-pii"   *)

ProtoLine ==
    [kind : {"message", "field", "reserved", "comment", "other"}, delta : Int,
     number : Nat, numbers : SUBSET Nat, pii : BOOLEAN, justified : BOOLEAN]

ASSUME ProtoFilesAreLines == ProtoFiles \subseteq Seq(ProtoLine)

\* messageScope: lines of fields, numbers reserved, lines of comments.
emptyScope == [fields |-> <<>>, reserved |-> {}, comments |-> {}]

VARIABLES
    proto,     \* the lines of the file
    stage,     \* "parse", "check" or "done"
    at,        \* the line parsed next, then the scope checked next
    heap,      \* the messageScope objects, in the order of their creation
    current,   \* the one being filled, 0 for nil
    depth,     \* braces open since it was opened
    scopes,    \* parseMessages' result: objects, some of them twice
    verdicts   \* what was reported, one set for each scope checked

protoVars == <<proto, stage, at, heap, current, depth, scopes, verdicts>>
parsed == <<heap, current, depth, scopes>>

ProtoInit ==
    /\ proto \in ProtoFiles
    /\ stage = "parse"
    /\ at = 1
    /\ heap = <<>>
    /\ current = 0
    /\ depth = 0
    /\ scopes = <<>>
    /\ verdicts = <<>>

here == proto[at]
ReadLine == /\ stage = "parse"
            /\ at <= Len(proto)
            /\ at' = at + 1
            /\ UNCHANGED <<proto, stage, verdicts>>

\* current = &messageScope{...}; depth = 1, whatever braces the line holds.
StartScope ==
    /\ heap' = Append(heap, emptyScope)
    /\ current' = Len(heap) + 1
    /\ depth' = 1

-----------------------------------------------------------------------------
(* parseMessages: outside a message *)

SkipOutside ==
    /\ ReadLine
    /\ current = 0
    /\ here.kind /= "message"
    /\ UNCHANGED parsed

OpenMessage ==
    /\ ReadLine
    /\ current = 0
    /\ here.kind = "message"
    /\ StartScope
    /\ UNCHANGED scopes

(* parseMessages: inside one *)

StaysIn == ReadLine /\ current /= 0 /\ depth + here.delta > 0
Fill(scope) == /\ heap' = [heap EXCEPT ![current] = scope]
               /\ depth' = depth + here.delta
               /\ UNCHANGED <<current, scopes>>

\* The closing line itself is not looked at; there is no way back to an outer message.
CloseMessage ==
    /\ ReadLine
    /\ current /= 0
    /\ depth + here.delta <= 0
    /\ scopes' = Append(scopes, current)
    /\ current' = 0
    /\ depth' = depth + here.delta
    /\ UNCHANGED heap

CommentLine ==
    /\ StaysIn
    /\ here.kind = "comment"
    /\ Fill([heap[current] EXCEPT !.comments = @ \union {at}])

ReservedLine ==
    /\ StaysIn
    /\ here.kind = "reserved"
    /\ Fill([heap[current] EXCEPT !.reserved = @ \union here.numbers])

FieldLine ==
    /\ StaysIn
    /\ here.kind = "field"
    /\ Fill([heap[current] EXCEPT !.fields = Append(@, at)])

\* Mutant of OpenInner: the fields of the inner message join the outer one.
OpenInnerJoin ==
    /\ StaysIn
    /\ here.kind = "message"
    /\ Fill(heap[current])

\* A message inside a message: handed out when it opens, and again when it closes.
OpenInner ==
    /\ StaysIn
    /\ here.kind = "message"
    /\ StartScope
    /\ scopes' = Append(scopes, Len(heap) + 1)

\* Mutant of SkipInside: braces are counted on the lines of messages alone.
SkipInsideNoBraces ==
    /\ StaysIn
    /\ here.kind = "other"
    /\ UNCHANGED parsed

SkipInside ==
    /\ StaysIn
    /\ here.kind = "other"
    /\ Fill(heap[current])

EndFile ==
    /\ stage = "parse"
    /\ at > Len(proto)
    /\ scopes' = IF current = 0 THEN scopes ELSE Append(scopes, current)
    /\ stage' = "check"
    /\ at' = 1
    /\ UNCHANGED <<proto, heap, current, depth, verdicts>>

-----------------------------------------------------------------------------
(* checkProtoFile *)

number(p) == proto[p].number

\* sort.Slice keeps no order among equal numbers.
sortings(fields) ==
    {[k \in DOMAIN fields |-> fields[perm[k]]] :
        perm \in {f \in [DOMAIN fields -> DOMAIN fields] :
            /\ \A j, k \in DOMAIN fields : j /= k => f[j] /= f[k]
            /\ \A j, k \in DOMAIN fields : j < k => number(fields[f[j]]) <= number(fields[f[k]])}}

\* Mutant of piiJustified: the comment looked at is the one before the one above.
piiJustifiedOff(p, scope) ==
    proto[p].justified \/ (p - 2 \in scope.comments /\ proto[p - 2].justified)

piiJustified(p, scope) ==
    proto[p].justified \/ (p - 1 \in scope.comments /\ proto[p - 1].justified)

fault(p, what) == [line |-> p, what |-> what]

checkPIIFields(fields, scope) ==
    {fault(p, "pii") : p \in {q \in ToSet(fields) : proto[q].pii /\ ~piiJustified(q, scope)}}

\* usedNumbers: a field is reported if an earlier one of the sorted list has its number.
reuses(fields) ==
    {fault(fields[k], "reuse") :
        k \in {j \in DOMAIN fields : \E h \in 1 .. j - 1 : number(fields[h]) = number(fields[j])}}

\* Mutant of explained: a comment anywhere in the message explains every gap.
explainedAnywhere(before, after, scope) ==
    \/ number(before) + 1 .. number(after) - 1 \subseteq scope.reserved
    \/ scope.comments /= {}

\* A gap is explained if all of it is reserved, or a comment stands between the lines.
explained(before, after, scope) ==
    \/ number(before) + 1 .. number(after) - 1 \subseteq scope.reserved
    \/ scope.comments \intersect (before + 1 .. after - 1) /= {}

gaps(fields, scope) ==
    {fault(fields[k], "gap") :
        k \in {j \in 2 .. Len(fields) : /\ number(fields[j]) > number(fields[j - 1]) + 1
                                        /\ ~explained(fields[j - 1], fields[j], scope)}}

\* The scope is an object: sorting its fields sorts them for the next time as well.
CheckScope ==
    /\ stage = "check"
    /\ at <= Len(scopes)
    /\ \E fields \in sortings(heap[scopes[at]].fields) :
        LET scope == heap[scopes[at]] IN
        /\ heap' = [heap EXCEPT ![scopes[at]].fields = fields]
        /\ verdicts' = Append(verdicts, checkPIIFields(fields, scope) \union reuses(fields)
                                      \union gaps(fields, scope))
    /\ at' = at + 1
    /\ UNCHANGED <<proto, stage, current, depth, scopes>>

ReturnAll ==
    /\ stage = "check"
    /\ at > Len(scopes)
    /\ stage' = "done"
    /\ UNCHANGED <<proto, at, parsed, verdicts>>

\* The program has returned.
ProtoTerminated == stage = "done" /\ UNCHANGED protoVars

ProtoNext ==
    \/ SkipOutside \/ OpenMessage
    \/ CloseMessage \/ CommentLine \/ ReservedLine \/ FieldLine \/ OpenInner \/ SkipInside
    \/ EndFile \/ CheckScope \/ ReturnAll
    \/ ProtoTerminated

ProtoSpec == ProtoInit /\ [][ProtoNext]_protoVars

-----------------------------------------------------------------------------
(* What the file says, told from its braces *)

lines == 1 .. Len(proto)
fieldLines == {p \in lines : proto[p].kind = "field"}

\* Braces open after the lines up to p, wherever they stand.
open[p \in 0 .. Len(proto)] == IF p = 0 THEN 0 ELSE open[p - 1] + proto[p].delta

\* The messages the line p stands in, by the lines that open them.
enclosing(p) ==
    {q \in 1 .. p - 1 : /\ proto[q].kind = "message"
                        /\ proto[q].delta = 1
                        /\ \A r \in q .. p : open[r] >= open[q]}
siblings(p) == {q \in fieldLines : enclosing(q) = enclosing(p)}

\* The fields of messages; what an extension of the file's own adds stands outside.
messageFields == {p \in fieldLines : enclosing(p) /= {}}

\* No message inside a message, none opened and closed on one line, no brace in a
\* comment.
flat == \A p \in lines :
    /\ proto[p].kind = "message" => proto[p].delta = 1 /\ enclosing(p) = {}
    /\ proto[p].kind = "comment" => proto[p].delta = 0

reported == UNION ToSet(verdicts)

-----------------------------------------------------------------------------
(* Properties *)

\* A number is reported as reused only if another field of the same message has it,
\* however messages are nested: scopes mix up no two messages.
ReuseReal ==
    stage = "done" => \A p \in fieldLines : fault(p, "reuse") \in reported =>
        \E q \in siblings(p) : q /= p /\ number(q) = number(p)

\* In a file of plain messages each message has exactly as many reuses reported as it
\* has fields beyond its numbers, whatever order equal numbers are sorted in.
ReuseCounted ==
    stage = "done" /\ flat => \A p \in messageFields :
        Cardinality({q \in siblings(p) : fault(q, "reuse") \in reported})
            = Cardinality(siblings(p)) - Cardinality({number(q) : q \in siblings(p)})

\* In a file of plain messages with different numbers a gap is reported exactly where
\* it is neither reserved nor commented.
GapsExact ==
    stage = "done" /\ flat => \A p \in messageFields :
        LET lower == {q \in siblings(p) : number(q) < number(p)} IN
        (\A q, r \in siblings(p) : q /= r => number(q) /= number(r)) =>
            (fault(p, "gap") \in reported <=>
                \E q \in lower :
                    /\ \A r \in lower : number(r) <= number(q)
                    /\ \E n \in number(q) + 1 .. number(p) - 1 :
                          \A r \in lines : enclosing(r) = enclosing(p) /\ proto[r].kind = "reserved"
                                               => n \notin proto[r].numbers
                    /\ \A r \in q + 1 .. p - 1 : proto[r].kind /= "comment")

\* In a file of plain messages a field is reported as personal data exactly if its name
\* looks like it and neither its line nor a comment right above says otherwise.
PIIExact ==
    stage = "done" /\ flat => \A p \in messageFields :
        fault(p, "pii") \in reported <=>
            /\ proto[p].pii
            /\ ~proto[p].justified
            /\ ~(proto[p - 1].kind = "comment" /\ proto[p - 1].justified)

\* "Field numbers are permanent and unique" (README.md l. 111): a number used twice in
\* a message is reported, in a nested or nesting message as well.
ReuseReported ==
    stage = "done" => \A p \in fieldLines : \A q \in siblings(p) \ {p} :
        number(q) = number(p) => \E r \in siblings(p) :
            number(r) = number(p) /\ fault(r, "reuse") \in reported
=============================================================================
