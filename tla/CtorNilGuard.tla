----------------------------- MODULE CtorNilGuard -----------------------------
(* analyzers/ctornilguard: checkMethodGuards finds the fields that constructors fill  *)
(* with checked parameters, drops those that anything else in the package may fill,   *)
(* and reports the methods that check the rest again; run then reports constructors   *)
(* that keep a parameter they never compare with nil.                                 *)
EXTENDS Integers, SequencesExt

CONSTANTS
    Packages,    \* the packages of the instance
    Param,       \* parameters of the constructors
    Other        \* the value of a field that is not a parameter

(* A package is a record.                                                             *)
(*   fields    the fields of each struct type                                         *)
(*   private   the struct types and the fields that are not exported                  *)
(*   ctors     a sequence of New functions: generated (the file is), and body         *)
(*   ops       a sequence of what the rest of the package does                        *)
(*   tested    the fields some method compares with nil through its receiver          *)
(* A statement of a constructor is a record.                                          *)
(*   kind      check (if p == nil { return nil, err }), return (of a struct literal), *)
(*             delegate (return of calls) or complex (anything else)                  *)
(*   type, inits  of the literal returned: its values by field                        *)
(*   keyed     its elements name their fields; else it lists the values of all fields *)
(*   uses, compares  the parameters that occur in it, and those it compares with nil  *)
(* An operation is lit (a struct literal elsewhere), whole (an assignment to, a var   *)
(* of, or a new of a struct type), field (an assignment to a field, or its address)   *)
(* or zero (a zero value with no syntax of its own: a field of another struct, a      *)
(* named result, an element of a slice or a map).                                     *)

\* What the type checker has let through.
Statement(fields) ==
    UNION {[kind     : {"check", "return", "delegate", "complex"},
            type     : {t},
            inits    : UNION {[D -> Param \union {Other}] : D \in SUBSET fields[t]},
            keyed    : BOOLEAN,
            uses     : SUBSET Param,
            compares : SUBSET Param] : t \in DOMAIN fields}

IsPackage(p) ==
    /\ p.ctors \in Seq([generated : BOOLEAN, body : Seq(Statement(p.fields))])
    /\ p.ops \in Seq([kind : {"lit", "whole", "field", "zero"}, type : DOMAIN p.fields,
                       field : UNION {p.fields[t] : t \in DOMAIN p.fields}])

ASSUME PackagesAssumption == \A p \in Packages : IsPackage(p)

VARIABLES
    pkg,         \* the package
    pc,          \* "collect", "invalidate", "report", "ctors" or "done"
    n,           \* the constructor or operation looked at
    s,           \* the statement of the constructor
    checked,     \* the parameters checked so far in it
    guarded,     \* for each literal a constructor returns, the fields it fills with them
    invalid,     \* the fields that something else may fill
    redundant,   \* the fields whose checks in methods are reported
    unguarded    \* for each constructor, the parameters reported

vars == <<pkg, pc, n, s, checked, guarded, invalid, redundant, unguarded>>

Ctors == 1 .. Len(pkg.ctors)
\* A literal is known by its constructor and its statement.
Literals == UNION {{c} \X {k \in DOMAIN pkg.ctors[c].body : pkg.ctors[c].body[k].kind = "return"} :
                     c \in Ctors}

Init ==
    /\ pkg \in Packages
    /\ pc = "collect"
    /\ n = 1
    /\ s = 1
    /\ checked = {}
    /\ guarded = [l \in Literals |-> {}]
    /\ invalid = {}
    /\ redundant = {}
    /\ unguarded = [c \in Ctors |-> {}]

-----------------------------------------------------------------------------
(* collectGuardedLiterals *)

body == pkg.ctors[n].body
stmt == body[s]
ctorLeft == pc = "collect" /\ n <= Len(pkg.ctors)
insideCtor == ctorLeft /\ ~pkg.ctors[n].generated /\ s <= Len(body)

CheckParam ==
    /\ insideCtor
    /\ stmt.kind = "check"
    /\ checked' = checked \union stmt.compares
    /\ s' = s + 1
    /\ UNCHANGED <<pkg, pc, n, guarded, invalid, redundant, unguarded>>

\* Fields filled, by name, with a parameter checked before: an element that is no
\* KeyValueExpr is passed over.
filled(lit) ==
    {f \in DOMAIN lit.inits \intersect pkg.private : lit.keyed /\ lit.inits[f] \in checked}

\* The loop goes on after a return: a later statement is looked at too.
ReturnLiteral ==
    /\ insideCtor
    /\ stmt.kind = "return"
    /\ stmt.type \in pkg.private
    /\ guarded' = [guarded EXCEPT ![<<n, s>>] = filled(stmt)]
    /\ s' = s + 1
    /\ UNCHANGED <<pkg, pc, n, checked, invalid, redundant, unguarded>>

\* Mutant of NextCtor: the checks of a constructor hold for the next one.
NextCtorKeeps ==
    /\ ctorLeft
    /\ insideCtor => \/ stmt.kind \in {"complex", "delegate"}
                     \/ stmt.kind = "return" /\ stmt.type \notin pkg.private
    /\ n' = n + 1
    /\ s' = 1
    /\ UNCHANGED <<pkg, pc, checked, guarded, invalid, redundant, unguarded>>

\* A complex statement, or a literal of an exported type, ends the collection.
NextCtor ==
    /\ ctorLeft
    /\ insideCtor => \/ stmt.kind \in {"complex", "delegate"}
                     \/ stmt.kind = "return" /\ stmt.type \notin pkg.private
    /\ n' = n + 1
    /\ s' = 1
    /\ checked' = {}
    /\ UNCHANGED <<pkg, pc, guarded, invalid, redundant, unguarded>>

literal(l) == pkg.ctors[l[1]].body[l[2]]

\* Mutant of EndCollect: the constructors' own literals are not looked at again.
EndCollectTrusting ==
    /\ pc = "collect"
    /\ n > Len(pkg.ctors)
    /\ pc' = "invalidate"
    /\ n' = 1
    /\ UNCHANGED <<pkg, s, checked, guarded, invalid, redundant, unguarded>>

\* The walk meets the constructors' literals too: what they do not guard is spoilt.
EndCollect ==
    /\ pc = "collect"
    /\ n > Len(pkg.ctors)
    /\ pc' = "invalidate"
    /\ n' = 1
    /\ invalid' = UNION {pkg.fields[literal(l).type] \ guarded[l] : l \in Literals}
    /\ UNCHANGED <<pkg, s, checked, guarded, redundant, unguarded>>

-----------------------------------------------------------------------------
(* checkMethodGuards *)

required == UNION {guarded[l] : l \in Literals}

\* Mutant of spoils: a write to one field is taken for the others' as well.
spoilsType(op) == CASE op.kind \in {"lit", "whole", "field"} -> pkg.fields[op.type]
                    [] op.kind = "zero"                      -> {}

\* What one operation may leave in a field without a constructor.
spoils(op) == CASE op.kind \in {"lit", "whole"} -> pkg.fields[op.type]
                [] op.kind = "field"            -> {op.field}
                [] op.kind = "zero"             -> {}

Invalidate ==
    /\ pc = "invalidate"
    /\ n <= Len(pkg.ops)
    /\ invalid' = invalid \union spoils(pkg.ops[n])
    /\ n' = n + 1
    /\ UNCHANGED <<pkg, pc, s, checked, guarded, redundant, unguarded>>

EndInvalidate ==
    /\ pc = "invalidate"
    /\ n > Len(pkg.ops)
    /\ pc' = "report"
    /\ UNCHANGED <<pkg, n, s, checked, guarded, invalid, redundant, unguarded>>

ReportMethods ==
    /\ pc = "report"
    /\ redundant' = (pkg.tested \intersect required) \ invalid
    /\ pc' = "ctors"
    /\ n' = 1
    /\ UNCHANGED <<pkg, s, checked, guarded, invalid, unguarded>>

-----------------------------------------------------------------------------
(* run: the constructors themselves *)

isUsed(c) == UNION {t.uses \union t.compares : t \in ToSet(pkg.ctors[c].body)}
isDelegating(c) == Len(pkg.ctors[c].body) = 1 /\ pkg.ctors[c].body[1].kind = "delegate"
hasNilCheck(c) == UNION {t.compares : t \in ToSet(pkg.ctors[c].body)}

ReportCtor ==
    /\ pc = "ctors"
    /\ n <= Len(pkg.ctors)
    /\ unguarded' = [unguarded EXCEPT ![n] = IF isDelegating(n) THEN {} ELSE isUsed(n) \ hasNilCheck(n)]
    /\ n' = n + 1
    /\ UNCHANGED <<pkg, pc, s, checked, guarded, invalid, redundant>>

Return ==
    /\ pc = "ctors"
    /\ n > Len(pkg.ctors)
    /\ pc' = "done"
    /\ UNCHANGED <<pkg, n, s, checked, guarded, invalid, redundant, unguarded>>

\* The program has returned.
Terminated == pc = "done" /\ UNCHANGED vars

Next ==
    \/ CheckParam \/ ReturnLiteral \/ NextCtor \/ EndCollect
    \/ Invalidate \/ EndInvalidate \/ ReportMethods
    \/ ReportCtor \/ Return
    \/ Terminated

Spec == Init /\ [][Next]_vars

-----------------------------------------------------------------------------
(* What the package does, statement by statement *)

\* The constructor c may return a value whose field f is nil: it is not filled, or
\* filled with something no statement before it has sent back when it is nil.
mayReturnNil(c, f) ==
    \E k \in 1 .. Len(pkg.ctors[c].body) : LET ret == pkg.ctors[c].body[k] IN
        /\ ret.kind = "return"
        /\ f \in pkg.fields[ret.type]
        /\ \A j \in 1 .. k - 1 : pkg.ctors[c].body[j].kind /= "return"
        /\ f \in DOMAIN ret.inits =>
              ~ \E j \in 1 .. k - 1 : /\ pkg.ctors[c].body[j].kind = "check"
                                      /\ ret.inits[f] \in pkg.ctors[c].body[j].compares

mayBeNil(f) ==
    \/ \E c \in Ctors : mayReturnNil(c, f)
    \/ \E op \in ToSet(pkg.ops) : \/ op.kind \in {"lit", "whole", "zero"} /\ f \in pkg.fields[op.type]
                                  \/ op.kind = "field" /\ op.field = f

plainCtor(c) == /\ ~pkg.ctors[c].generated
                /\ \A k \in 1 .. Len(pkg.ctors[c].body) - 1 : pkg.ctors[c].body[k].kind = "check"
                /\ pkg.ctors[c].body /= <<>> => Last(pkg.ctors[c].body).kind = "return"

-----------------------------------------------------------------------------
(* Properties *)

\* No check is called redundant that can fail: a reported field is filled, by every
\* constructor and on every path, with a parameter found not to be nil, and nothing
\* else in the package fills or exposes it (zero values without syntax aside).
RedundantNeverNil ==
    (\A op \in ToSet(pkg.ops) : op.kind /= "zero") => \A f \in redundant : ~mayBeNil(f)

\* A redundant check is found: the field is private, its type too, every constructor is
\* a row of checks and a return, one of them fills the field, and those that do fill it
\* by name.  Of the elements of T{p, q} nothing is learnt (methods.go, l. 165-168).
RedundantFound ==
    pc \in {"ctors", "done"} => \A f \in pkg.tested \intersect pkg.private :
        /\ \A t \in DOMAIN pkg.fields : f \in pkg.fields[t] => t \in pkg.private
        /\ \A op \in ToSet(pkg.ops) : op.kind /= "zero"
        /\ ~mayBeNil(f)
        /\ \A c \in Ctors : plainCtor(c)
        /\ \E c \in Ctors : \E t \in ToSet(pkg.ctors[c].body) : t.kind = "return" /\ f \in DOMAIN t.inits
        /\ \A c \in Ctors : \A t \in ToSet(pkg.ctors[c].body) :
              t.kind = "return" /\ f \in DOMAIN t.inits => t.keyed
        => f \in redundant

\* The two halves of the analyzer agree: a field whose checks in methods are called
\* redundant is filled by no constructor from a parameter reported as unguarded.
HalvesAgree ==
    \A f \in redundant : \A c \in Ctors : \A t \in ToSet(pkg.ctors[c].body) :
        t.kind = "return" /\ f \in DOMAIN t.inits => t.inits[f] \notin unguarded[c]
=============================================================================
