-------------------------- MODULE CtorNilGuardProofs --------------------------
(* What ctornilguard may rely on when it calls a check redundant, for packages of any *)
(* size: the evidence of collectGuardedLiterals is exact, and everything else that    *)
(* fills a field cancels it.                                                          *)
EXTENDS CtorNilGuard, TLAPS

-----------------------------------------------------------------------------
(* The evidence *)

\* The statement k of the constructor c, and the parameters checked before it.
at(c, k) == pkg.ctors[c].body[k]
checkedBefore(c, k) == UNION {at(c, j).compares : j \in {i \in 1 .. k - 1 : at(c, i).kind = "check"}}

\* The collection of c gets as far as k.
reaches(c, k) ==
    /\ ~pkg.ctors[c].generated
    /\ \A j \in 1 .. k - 1 : \/ at(c, j).kind = "check"
                             \/ at(c, j).kind = "return" /\ at(c, j).type \in pkg.private

\* The fields that a literal fills by name with parameters checked before it.
evidence(c, k) ==
    {f \in DOMAIN at(c, k).inits \intersect pkg.private :
        at(c, k).keyed /\ at(c, k).inits[f] \in checkedBefore(c, k)}

\* The statement k of c has been looked at, or is never going to be.
passed(c, k) == pc /= "collect" \/ c < n \/ (c = n /\ k < s)

PlaceInv ==
    /\ pkg \in Packages
    /\ n \in Nat \ {0}
    /\ s \in Nat \ {0}
    /\ pc \in {"collect", "invalidate", "report", "ctors", "done"}

CollectInv ==
    pc = "collect" /\ n \in Ctors =>
        /\ s <= Len(pkg.ctors[n].body) + 1
        /\ checked = checkedBefore(n, s)
        /\ s > 1 => reaches(n, s)

\* A literal guards nothing that it is not evidence for, and all of it where the
\* collection got there.
GuardedInv ==
    /\ DOMAIN guarded = Literals
    /\ \A l \in Literals :
          /\ guarded[l] \subseteq evidence(l[1], l[2])
          /\ /\ passed(l[1], l[2])
             /\ reaches(l[1], l[2])
             /\ literal(l).type \in pkg.private
             => guarded[l] = evidence(l[1], l[2])

\* What literals leave out and what the operations looked at so far may fill.
opsDone == IF pc = "invalidate" THEN 1 .. n - 1 ELSE 1 .. Len(pkg.ops)
leftOut == UNION {pkg.fields[literal(l).type] \ guarded[l] : l \in Literals}
spoilt == UNION {spoils(pkg.ops[i]) : i \in opsDone}
InvalidInv ==
    /\ pc = "collect" => invalid = {}
    /\ pc = "invalidate" => n <= Len(pkg.ops) + 1
    /\ pc /= "collect" => invalid = leftOut \union spoilt

RedundantInv ==
    redundant = IF pc \in {"ctors", "done"} THEN (pkg.tested \intersect required) \ invalid ELSE {}

UnguardedInv ==
    /\ DOMAIN unguarded = Ctors
    /\ \A c \in Ctors : unguarded[c] \intersect hasNilCheck(c) = {}

GuardInv == PlaceInv /\ CollectInv /\ GuardedInv /\ InvalidInv /\ RedundantInv /\ UnguardedInv
-----------------------------------------------------------------------------
(* Packages, constructors and literals *)

LEMMA StatementIs ==
    ASSUME NEW fields, NEW t \in Statement(fields)
    PROVE  /\ t.kind \in {"check", "return", "delegate", "complex"}
           /\ t.type \in DOMAIN fields
           /\ DOMAIN t.inits \subseteq fields[t.type]
           /\ t.compares \subseteq Param
<1>1. PICK y \in DOMAIN fields :
        t \in [kind     : {"check", "return", "delegate", "complex"},
               type     : {y},
               inits    : UNION {[D -> Param \union {Other}] : D \in SUBSET fields[y]},
               keyed    : BOOLEAN,
               uses     : SUBSET Param,
               compares : SUBSET Param]
  BY DEF Statement
<1>2. t.type = y /\ t.kind \in {"check", "return", "delegate", "complex"} /\ t.compares \subseteq Param
  BY <1>1
<1>3. t.inits \in UNION {[D -> Param \union {Other}] : D \in SUBSET fields[y]}
  BY <1>1
<1>4. DOMAIN t.inits \subseteq fields[y]
  BY <1>3
<1> QED BY <1>1, <1>2, <1>4

LEMMA SeqIs ==
    ASSUME NEW S, NEW q \in Seq(S)
    PROVE  Len(q) \in Nat /\ DOMAIN q = 1 .. Len(q) /\ \A i \in 1 .. Len(q) : q[i] \in S
OBVIOUS

LEMMA PackageIs ==
    ASSUME PlaceInv
    PROVE  /\ Len(pkg.ctors) \in Nat /\ Len(pkg.ops) \in Nat
           /\ \A c \in Ctors :
                /\ pkg.ctors[c].generated \in BOOLEAN
                /\ Len(pkg.ctors[c].body) \in Nat
                /\ DOMAIN pkg.ctors[c].body = 1 .. Len(pkg.ctors[c].body)
                /\ \A k \in 1 .. Len(pkg.ctors[c].body) : at(c, k) \in Statement(pkg.fields)
           /\ DOMAIN pkg.ops = 1 .. Len(pkg.ops)
           /\ \A i \in 1 .. Len(pkg.ops) : /\ pkg.ops[i].kind \in {"lit", "whole", "field", "zero"}
                                           /\ pkg.ops[i].type \in DOMAIN pkg.fields
<1>1. IsPackage(pkg)
  BY PackagesAssumption DEF PlaceInv
<1>2. pkg.ctors \in Seq([generated : BOOLEAN, body : Seq(Statement(pkg.fields))])
  BY <1>1 DEF IsPackage
<1>3. pkg.ops \in Seq([kind : {"lit", "whole", "field", "zero"}, type : DOMAIN pkg.fields,
                       field : UNION {pkg.fields[t] : t \in DOMAIN pkg.fields}])
  BY <1>1 DEF IsPackage
<1>4. /\ Len(pkg.ctors) \in Nat
      /\ \A c \in Ctors : /\ pkg.ctors[c].generated \in BOOLEAN
                          /\ pkg.ctors[c].body \in Seq(Statement(pkg.fields))
  <2>1. /\ Len(pkg.ctors) \in Nat
        /\ \A c \in Ctors : pkg.ctors[c] \in [generated : BOOLEAN, body : Seq(Statement(pkg.fields))]
    BY <1>2, SeqIs DEF Ctors
  <2> QED BY <2>1
<1>5. \A c \in Ctors : /\ Len(pkg.ctors[c].body) \in Nat
                       /\ DOMAIN pkg.ctors[c].body = 1 .. Len(pkg.ctors[c].body)
                       /\ \A k \in 1 .. Len(pkg.ctors[c].body) : at(c, k) \in Statement(pkg.fields)
  BY <1>4, SeqIs DEF at
<1>6. /\ Len(pkg.ops) \in Nat
      /\ DOMAIN pkg.ops = 1 .. Len(pkg.ops)
      /\ \A i \in 1 .. Len(pkg.ops) : /\ pkg.ops[i].kind \in {"lit", "whole", "field", "zero"}
                                      /\ pkg.ops[i].type \in DOMAIN pkg.fields
  <2> DEFINE Op == [kind : {"lit", "whole", "field", "zero"}, type : DOMAIN pkg.fields,
                    field : UNION {pkg.fields[t] : t \in DOMAIN pkg.fields}]
  <2>1. \A op \in Op : op.kind \in {"lit", "whole", "field", "zero"} /\ op.type \in DOMAIN pkg.fields
    OBVIOUS
  <2>2. pkg.ops \in Seq(Op)
    BY <1>3
  <2> HIDE DEF Op
  <2>3. /\ Len(pkg.ops) \in Nat /\ DOMAIN pkg.ops = 1 .. Len(pkg.ops)
        /\ \A i \in 1 .. Len(pkg.ops) : pkg.ops[i] \in Op
    BY <2>2, SeqIs
  <2> QED BY <2>1, <2>3
<1> QED BY <1>4, <1>5, <1>6

LEMMA LiteralIs ==
    ASSUME PlaceInv
    PROVE  /\ \A c, k : <<c, k>> \in Literals <=>
                c \in Ctors /\ k \in 1 .. Len(pkg.ctors[c].body) /\ at(c, k).kind = "return"
           /\ \A l \in Literals : /\ l = <<l[1], l[2]>>
                                  /\ l[1] \in Ctors /\ l[2] \in 1 .. Len(pkg.ctors[l[1]].body)
                                  /\ at(l[1], l[2]).kind = "return" /\ literal(l) = at(l[1], l[2])
<1>1. \A c \in Ctors : DOMAIN pkg.ctors[c].body = 1 .. Len(pkg.ctors[c].body)
  BY PackageIs
<1> DEFINE of(c) == {c} \X {k \in DOMAIN pkg.ctors[c].body : pkg.ctors[c].body[k].kind = "return"}
<1>2. \A l : l \in Literals <=> \E c \in Ctors : l \in of(c)
  BY Zenon DEF Literals
<1>3. \A l : \A c \in Ctors : l \in of(c) <=>
         \E k \in 1 .. Len(pkg.ctors[c].body) : l = <<c, k>> /\ at(c, k).kind = "return"
  BY <1>1 DEF at
<1> HIDE DEF of
<1>4. \A l : l \in Literals <=>
         \E c \in Ctors : \E k \in 1 .. Len(pkg.ctors[c].body) : l = <<c, k>> /\ at(c, k).kind = "return"
  BY <1>2, <1>3
<1>5. ASSUME NEW c, NEW k
      PROVE  <<c, k>> \in Literals <=>
               c \in Ctors /\ k \in 1 .. Len(pkg.ctors[c].body) /\ at(c, k).kind = "return"
  BY <1>4
<1>6. ASSUME NEW l \in Literals
      PROVE  /\ l = <<l[1], l[2]>>
             /\ l[1] \in Ctors /\ l[2] \in 1 .. Len(pkg.ctors[l[1]].body)
             /\ at(l[1], l[2]).kind = "return" /\ literal(l) = at(l[1], l[2])
  <2>1. PICK c \in Ctors : \E k \in 1 .. Len(pkg.ctors[c].body) : l = <<c, k>> /\ at(c, k).kind = "return"
    BY <1>4, <1>6
  <2>2. PICK k \in 1 .. Len(pkg.ctors[c].body) : l = <<c, k>> /\ at(c, k).kind = "return"
    BY <2>1
  <2>3. l[1] = c /\ l[2] = k
    BY <2>2
  <2> QED BY <2>2, <2>3 DEF literal, at
<1> QED BY <1>5, <1>6

\* What is known of the statements that the collection has gone over.
LEMMA CheckedNext ==
    ASSUME NEW c, NEW k \in Nat \ {0}
    PROVE  /\ checkedBefore(c, 1) = {}
           /\ at(c, k).kind = "check" => checkedBefore(c, k + 1) = checkedBefore(c, k) \union at(c, k).compares
           /\ at(c, k).kind /= "check" => checkedBefore(c, k + 1) = checkedBefore(c, k)
<1>1. checkedBefore(c, 1) = {}
  BY DEF checkedBefore
<1>2. \A x, m : x \in checkedBefore(c, m) <=>
         \E j \in 1 .. m - 1 : at(c, j).kind = "check" /\ x \in at(c, j).compares
  BY DEF checkedBefore
<1>3. \A j : j \in 1 .. (k + 1) - 1 <=> j \in 1 .. k - 1 \/ j = k
  OBVIOUS
<1>4. \A x : x \in checkedBefore(c, k + 1) <=>
         x \in checkedBefore(c, k) \/ (at(c, k).kind = "check" /\ x \in at(c, k).compares)
  BY <1>2, <1>3
<1> QED BY <1>1, <1>4
-----------------------------------------------------------------------------
(* The invariant *)

\* The package does not change, nor what is read in it.
LEMMA Same ==
    ASSUME pkg' = pkg
    PROVE  /\ Ctors' = Ctors /\ Literals' = Literals
           /\ \A c, k : /\ at(c, k)' = at(c, k)
                        /\ checkedBefore(c, k)' = checkedBefore(c, k)
                        /\ reaches(c, k)' = reaches(c, k)
                        /\ evidence(c, k)' = evidence(c, k)
           /\ \A c : hasNilCheck(c)' = hasNilCheck(c)
           /\ \A l : literal(l)' = literal(l)
           /\ \A op : spoils(op)' = spoils(op)
BY DEF Ctors, Literals, at, checkedBefore, reaches, evidence, hasNilCheck, literal, spoils

LEMMA InitGuardInv ==
    ASSUME Init
    PROVE  GuardInv
<1>1. PlaceInv
  BY DEF Init, PlaceInv
<1>2. CollectInv
  BY <1>1, PackageIs, CheckedNext DEF Init, CollectInv
<1>3. GuardedInv
  <2>1. \A l \in Literals : ~passed(l[1], l[2])
    BY <1>1, LiteralIs, PackageIs DEF Init, passed, Ctors
  <2> QED BY <2>1 DEF GuardedInv, Init
<1>4. InvalidInv /\ RedundantInv /\ UnguardedInv
  BY DEF Init, InvalidInv, RedundantInv, UnguardedInv
<1> QED BY <1>1, <1>2, <1>3, <1>4 DEF GuardInv

LEMMA CheckParamInv ==
    ASSUME GuardInv, CheckParam
    PROVE  GuardInv'
<1> USE DEF GuardInv
<1>1. /\ pc = "collect" /\ n <= Len(pkg.ctors) /\ ~pkg.ctors[n].generated
      /\ s <= Len(pkg.ctors[n].body) /\ at(n, s).kind = "check"
      /\ checked' = checked \union at(n, s).compares /\ s' = s + 1
      /\ UNCHANGED <<pkg, pc, n, guarded, invalid, redundant, unguarded>>
  BY DEF CheckParam, insideCtor, ctorLeft, stmt, body, at
<1>2. n \in Ctors /\ n \in Nat \ {0} /\ s \in Nat \ {0} /\ Len(pkg.ctors[n].body) \in Nat
  BY <1>1, PackageIs DEF PlaceInv, Ctors
<1>3. PlaceInv'
  BY <1>1, <1>2 DEF PlaceInv
<1>4. checked = checkedBefore(n, s) /\ (s > 1 => reaches(n, s))
  BY <1>1, <1>2 DEF CollectInv
<1>5. checked' = checkedBefore(n, s + 1)
  BY <1>1, <1>2, <1>4, CheckedNext
<1>6. reaches(n, s + 1)
  BY <1>1, <1>2, <1>4 DEF reaches
<1>7. CollectInv'
  BY <1>1, <1>2, <1>5, <1>6, Same DEF CollectInv
<1>8. GuardedInv'
  <2>1. ASSUME NEW l \in Literals, passed(l[1], l[2])' PROVE passed(l[1], l[2])
    BY <1>1, <1>2, <2>1, LiteralIs DEF passed
  <2> QED BY <1>1, <2>1, Same DEF GuardedInv
<1>9. InvalidInv' /\ RedundantInv' /\ UnguardedInv'
  BY <1>1, Same DEF InvalidInv, RedundantInv, UnguardedInv
<1> QED BY <1>3, <1>7, <1>8, <1>9

LEMMA ReturnLiteralInv ==
    ASSUME GuardInv, ReturnLiteral
    PROVE  GuardInv'
<1> USE DEF GuardInv
<1>1. /\ pc = "collect" /\ n <= Len(pkg.ctors) /\ ~pkg.ctors[n].generated
      /\ s <= Len(pkg.ctors[n].body) /\ at(n, s).kind = "return" /\ at(n, s).type \in pkg.private
      /\ guarded' = [guarded EXCEPT ![<<n, s>>] = filled(at(n, s))] /\ s' = s + 1
      /\ UNCHANGED <<pkg, pc, n, checked, invalid, redundant, unguarded>>
  BY DEF ReturnLiteral, insideCtor, ctorLeft, stmt, body, at
<1>2. n \in Ctors /\ n \in Nat \ {0} /\ s \in Nat \ {0} /\ Len(pkg.ctors[n].body) \in Nat
  BY <1>1, PackageIs DEF PlaceInv, Ctors
<1>3. PlaceInv'
  BY <1>1, <1>2 DEF PlaceInv
<1>4. checked = checkedBefore(n, s) /\ (s > 1 => reaches(n, s))
  BY <1>1, <1>2 DEF CollectInv
<1>5. checked' = checkedBefore(n, s + 1)
  BY <1>1, <1>2, <1>4, CheckedNext
<1>6. reaches(n, s + 1)
  BY <1>1, <1>2, <1>4 DEF reaches
<1>7. CollectInv'
  BY <1>1, <1>2, <1>5, <1>6, Same DEF CollectInv
<1>8. <<n, s>> \in Literals
  BY <1>1, <1>2, LiteralIs
<1>9. filled(at(n, s)) = evidence(n, s)
  BY <1>4 DEF filled, evidence
<1>10. GuardedInv'
  <2>1. DOMAIN guarded' = Literals
    BY <1>1 DEF GuardedInv
  <2>2. ASSUME NEW l \in Literals
        PROVE  /\ guarded'[l] \subseteq evidence(l[1], l[2])
               /\ passed(l[1], l[2])' /\ reaches(l[1], l[2]) /\ literal(l).type \in pkg.private =>
                     guarded'[l] = evidence(l[1], l[2])
    <3>1. CASE l = <<n, s>>
      <4>1. guarded'[l] = evidence(n, s) /\ l[1] = n /\ l[2] = s
        BY <1>1, <1>8, <1>9, <3>1 DEF GuardedInv
      <4> QED BY <4>1
    <3>2. CASE l /= <<n, s>>
      <4>1. guarded'[l] = guarded[l]
        BY <1>1, <2>2, <3>2 DEF GuardedInv
      <4>2. passed(l[1], l[2])' => passed(l[1], l[2])
        BY <1>1, <1>2, <3>2, LiteralIs DEF passed
      <4> QED BY <4>1, <4>2 DEF GuardedInv
    <3> QED BY <3>1, <3>2
  <2> QED BY <1>1, <2>1, <2>2, Same DEF GuardedInv
<1>11. InvalidInv' /\ RedundantInv' /\ UnguardedInv'
  BY <1>1, Same DEF InvalidInv, RedundantInv, UnguardedInv
<1> QED BY <1>3, <1>7, <1>10, <1>11

\* Where the collection stops, none of the literals that follow is reached.
LEMMA NextCtorInv ==
    ASSUME GuardInv, NextCtor
    PROVE  GuardInv'
<1> USE DEF GuardInv
<1>1. /\ pc = "collect" /\ n <= Len(pkg.ctors)
      /\ \/ pkg.ctors[n].generated
         \/ s > Len(pkg.ctors[n].body)
         \/ at(n, s).kind \in {"complex", "delegate"}
         \/ at(n, s).kind = "return" /\ at(n, s).type \notin pkg.private
      /\ n' = n + 1 /\ s' = 1 /\ checked' = {}
      /\ UNCHANGED <<pkg, pc, guarded, invalid, redundant, unguarded>>
  <2>1. n \in Ctors /\ s \in Nat /\ Len(pkg.ctors[n].body) \in Nat /\ pkg.ctors[n].generated \in BOOLEAN
    BY PackageIs DEF PlaceInv, NextCtor, ctorLeft, Ctors
  <2> QED BY <2>1 DEF NextCtor, insideCtor, ctorLeft, stmt, body, at
<1>2. n \in Ctors /\ n \in Nat \ {0} /\ s \in Nat \ {0} /\ Len(pkg.ctors[n].body) \in Nat
  BY <1>1, PackageIs DEF PlaceInv, Ctors
<1>3. PlaceInv'
  BY <1>1, <1>2 DEF PlaceInv
<1>4. CollectInv'
  <2> SUFFICES ASSUME n' \in Ctors
               PROVE  s' <= Len(pkg.ctors[n'].body) + 1 /\ checked' = checkedBefore(n', s')
    BY <1>1, Same DEF CollectInv
  <2>1. Len(pkg.ctors[n'].body) \in Nat
    BY PackageIs
  <2> QED BY <1>1, <2>1, CheckedNext
<1>5. GuardedInv'
  <2>1. ASSUME NEW l \in Literals, passed(l[1], l[2])', reaches(l[1], l[2]), literal(l).type \in pkg.private
        PROVE  passed(l[1], l[2])
    <3> SUFFICES ASSUME ~passed(l[1], l[2]) PROVE FALSE
      OBVIOUS
    <3>1. /\ l[1] \in Nat \ {0} /\ l[2] \in Nat \ {0} /\ l[2] <= Len(pkg.ctors[l[1]].body)
          /\ literal(l) = at(l[1], l[2]) /\ at(l[1], l[2]).kind = "return"
      BY <1>2, LiteralIs, PackageIs DEF Ctors
    <3>2. l[1] = n /\ s <= l[2]
      <4>1. l[1] < n + 1
        BY <1>1, <1>2, <2>1, <3>1 DEF passed
      <4>2. ~(l[1] < n) /\ ~(l[1] = n /\ l[2] < s)
        BY DEF passed
      <4> QED BY <1>2, <3>1, <4>1, <4>2
    <3>3. ~pkg.ctors[n].generated /\ s <= Len(pkg.ctors[n].body)
      BY <1>2, <2>1, <3>1, <3>2 DEF reaches
    <3>4. \/ at(n, s).kind \notin {"check", "return"}
          \/ at(n, s).kind = "return" /\ at(n, s).type \notin pkg.private
      BY <1>1, <1>2, <3>3
    <3>5. CASE s = l[2]
      BY <2>1, <3>1, <3>2, <3>4, <3>5
    <3>6. CASE s < l[2]
      <4>1. s \in 1 .. l[2] - 1
        BY <1>2, <3>1, <3>6
      <4> QED BY <2>1, <3>2, <3>4, <4>1 DEF reaches
    <3> QED BY <1>2, <3>1, <3>2, <3>5, <3>6
  <2> QED BY <1>1, <2>1, Same DEF GuardedInv
<1>6. InvalidInv' /\ RedundantInv' /\ UnguardedInv'
  BY <1>1, Same DEF InvalidInv, RedundantInv, UnguardedInv
<1> QED BY <1>3, <1>4, <1>5, <1>6

LEMMA EndCollectInv ==
    ASSUME GuardInv, EndCollect
    PROVE  GuardInv'
<1> USE DEF GuardInv
<1>1. /\ pc = "collect" /\ n > Len(pkg.ctors) /\ pc' = "invalidate" /\ n' = 1
      /\ invalid' = UNION {pkg.fields[literal(l).type] \ guarded[l] : l \in Literals}
      /\ UNCHANGED <<pkg, s, checked, guarded, redundant, unguarded>>
  BY DEF EndCollect
<1>2. PlaceInv' /\ CollectInv'
  BY <1>1 DEF PlaceInv, CollectInv
<1>3. GuardedInv'
  <2>1. \A l \in Literals : passed(l[1], l[2])
    <3>1. n \in Nat /\ Len(pkg.ctors) \in Nat
      BY PackageIs DEF PlaceInv
    <3> QED BY <1>1, <3>1, LiteralIs DEF passed, Ctors
  <2> QED BY <1>1, <2>1, Same DEF GuardedInv
<1>4. InvalidInv'
  <2>1. opsDone' = {} /\ Len(pkg.ops) \in Nat
    BY <1>1, PackageIs DEF opsDone
  <2>2. spoilt' = {}
    BY <2>1 DEF spoilt
  <2>3. leftOut' = leftOut
    BY <1>1, Same DEF leftOut
  <2>4. invalid' = leftOut
    BY <1>1 DEF leftOut
  <2> QED BY <1>1, <2>1, <2>2, <2>3, <2>4 DEF InvalidInv
<1>5. RedundantInv' /\ UnguardedInv'
  BY <1>1, Same DEF RedundantInv, UnguardedInv
<1> QED BY <1>2, <1>3, <1>4, <1>5

LEMMA InvalidateInv ==
    ASSUME GuardInv, Invalidate
    PROVE  GuardInv'
<1> USE DEF GuardInv
<1>1. /\ pc = "invalidate" /\ n <= Len(pkg.ops) /\ n' = n + 1
      /\ invalid' = invalid \union spoils(pkg.ops[n])
      /\ UNCHANGED <<pkg, pc, s, checked, guarded, redundant, unguarded>>
  BY DEF Invalidate
<1>2. n \in Nat \ {0} /\ Len(pkg.ops) \in Nat
  BY PackageIs DEF PlaceInv
<1>3. PlaceInv' /\ CollectInv'
  BY <1>1, <1>2 DEF PlaceInv, CollectInv
<1>4. GuardedInv'
  BY <1>1, Same DEF GuardedInv, passed
<1>5. InvalidInv'
  <2>1. \A i : i \in opsDone' <=> i \in opsDone \/ i = n
    BY <1>1, <1>2 DEF opsDone
  <2>2. leftOut' = leftOut
    BY <1>1, Same DEF leftOut
  <2>3. \A i : spoils(pkg.ops[i])' = spoils(pkg.ops[i])
    BY <1>1 DEF spoils
  <2>4. spoilt' = spoilt \union spoils(pkg.ops[n])
    <3>1. spoilt' = UNION {spoils(pkg.ops[i]) : i \in opsDone'}
      BY <2>3 DEF spoilt
    <3> QED BY <2>1, <3>1 DEF spoilt
  <2>5. invalid = leftOut \union spoilt
    BY <1>1 DEF InvalidInv
  <2>6. n' <= Len(pkg.ops)' + 1
    BY <1>1, <1>2
  <2> QED BY <1>1, <2>2, <2>4, <2>5, <2>6 DEF InvalidInv
<1>6. RedundantInv' /\ UnguardedInv'
  BY <1>1, Same DEF RedundantInv, UnguardedInv
<1> QED BY <1>3, <1>4, <1>5, <1>6

\* After the operations the evidence is fixed.
LEMMA Settled ==
    ASSUME GuardInv, pc /= "collect", pc' /= "collect", pc' /= "invalidate", opsDone = 1 .. Len(pkg.ops),
           UNCHANGED <<pkg, s, guarded, invalid>>, n' \in Nat \ {0}, pc' \in {"report", "ctors", "done"}
    PROVE  PlaceInv' /\ CollectInv' /\ GuardedInv' /\ InvalidInv'
<1> USE DEF GuardInv
<1>1. PlaceInv' /\ CollectInv'
  BY DEF PlaceInv, CollectInv
<1>2. GuardedInv'
  BY Same DEF GuardedInv, passed
<1>3. InvalidInv'
  <2>2. leftOut' = leftOut
    BY Same DEF leftOut
  <2>3. \A i : spoils(pkg.ops[i])' = spoils(pkg.ops[i])
    BY DEF spoils
  <2>4. opsDone' = opsDone
    BY DEF opsDone
  <2>5. spoilt' = spoilt
    BY <2>3, <2>4 DEF spoilt
  <2> QED BY <2>2, <2>5 DEF InvalidInv
<1> QED BY <1>1, <1>2, <1>3

LEMMA ReportInv ==
    ASSUME GuardInv, EndInvalidate \/ ReportMethods \/ ReportCtor \/ Return
    PROVE  GuardInv'
<1> USE DEF GuardInv
<1>1. n \in Nat \ {0} /\ Len(pkg.ops) \in Nat
  BY PackageIs DEF PlaceInv
<1>2. CASE EndInvalidate
  <2>1. /\ pc = "invalidate" /\ n > Len(pkg.ops) /\ pc' = "report"
        /\ UNCHANGED <<pkg, n, s, checked, guarded, invalid, redundant, unguarded>>
    BY <1>2 DEF EndInvalidate
  <2>2. opsDone = 1 .. Len(pkg.ops)
    BY <1>1, <2>1 DEF opsDone, InvalidInv
  <2>3. PlaceInv' /\ CollectInv' /\ GuardedInv' /\ InvalidInv'
    BY <1>1, <2>1, <2>2, Settled
  <2>4. RedundantInv' /\ UnguardedInv'
    BY <2>1, Same DEF RedundantInv, UnguardedInv
  <2> QED BY <2>3, <2>4
<1>3. CASE ReportMethods
  <2>1. /\ pc = "report" /\ pc' = "ctors" /\ n' = 1
        /\ redundant' = (pkg.tested \intersect required) \ invalid
        /\ UNCHANGED <<pkg, s, checked, guarded, invalid, unguarded>>
    BY <1>3 DEF ReportMethods
  <2>2. opsDone = 1 .. Len(pkg.ops)
    BY <2>1 DEF opsDone
  <2>3. PlaceInv' /\ CollectInv' /\ GuardedInv' /\ InvalidInv'
    BY <2>1, <2>2, Settled
  <2>4. required' = required
    BY <2>1, Same DEF required
  <2>5. RedundantInv' /\ UnguardedInv'
    BY <2>1, <2>4, Same DEF RedundantInv, UnguardedInv
  <2> QED BY <2>3, <2>5
<1>4. CASE ReportCtor
  <2>1. /\ pc = "ctors" /\ n <= Len(pkg.ctors) /\ n' = n + 1
        /\ unguarded' = [unguarded EXCEPT ![n] = IF isDelegating(n) THEN {} ELSE isUsed(n) \ hasNilCheck(n)]
        /\ UNCHANGED <<pkg, pc, s, checked, guarded, invalid, redundant>>
    BY <1>4 DEF ReportCtor
  <2>2. opsDone = 1 .. Len(pkg.ops)
    BY <2>1 DEF opsDone
  <2>3. PlaceInv' /\ CollectInv' /\ GuardedInv' /\ InvalidInv'
    BY <1>1, <2>1, <2>2, Settled
  <2>4. required' = required
    BY <2>1, Same DEF required
  <2>5. RedundantInv'
    BY <2>1, <2>4, Same DEF RedundantInv
  <2>6. UnguardedInv'
    BY <2>1, Same DEF UnguardedInv
  <2> QED BY <2>3, <2>5, <2>6
<1>5. CASE Return
  <2>1. /\ pc = "ctors" /\ pc' = "done"
        /\ UNCHANGED <<pkg, n, s, checked, guarded, invalid, redundant, unguarded>>
    BY <1>5 DEF Return
  <2>2. opsDone = 1 .. Len(pkg.ops)
    BY <2>1 DEF opsDone
  <2>3. PlaceInv' /\ CollectInv' /\ GuardedInv' /\ InvalidInv'
    BY <1>1, <2>1, <2>2, Settled
  <2>4. required' = required
    BY <2>1, Same DEF required
  <2>5. RedundantInv' /\ UnguardedInv'
    BY <2>1, <2>4, Same DEF RedundantInv, UnguardedInv
  <2> QED BY <2>3, <2>5
<1> QED BY <1>2, <1>3, <1>4, <1>5

LEMMA StepGuardInv ==
    ASSUME GuardInv, [Next]_vars
    PROVE  GuardInv'
<1>1. CASE UNCHANGED vars
  <2>1. UNCHANGED <<pkg, pc, n, s, checked, guarded, invalid, redundant, unguarded>>
    BY <1>1 DEF vars
  <2>2. PlaceInv' /\ CollectInv' /\ GuardedInv' /\ UnguardedInv'
    BY <2>1, Same DEF GuardInv, PlaceInv, CollectInv, GuardedInv, UnguardedInv, passed
  <2>3. InvalidInv'
    <3>1. leftOut' = leftOut
      BY <2>1, Same DEF leftOut
    <3>2. opsDone' = opsDone /\ \A i : spoils(pkg.ops[i])' = spoils(pkg.ops[i])
      BY <2>1 DEF opsDone, spoils
    <3>3. spoilt' = spoilt
      BY <3>2 DEF spoilt
    <3> QED BY <2>1, <3>1, <3>3 DEF GuardInv, InvalidInv
  <2>4. RedundantInv'
    BY <2>1, Same DEF GuardInv, RedundantInv, required
  <2> QED BY <2>2, <2>3, <2>4 DEF GuardInv
<1> QED BY <1>1, CheckParamInv, ReturnLiteralInv, NextCtorInv, EndCollectInv, InvalidateInv, ReportInv
        DEF Next, Terminated

-----------------------------------------------------------------------------
(* What is called redundant *)

\* A field whose checks are reported is filled, by every literal of a type that has it,
\* with a parameter checked before.
LEMMA RedundantIsGuarded ==
    ASSUME GuardInv, NEW f \in redundant
    PROVE  /\ pc \in {"ctors", "done"} /\ f \in pkg.private
           /\ \A l \in Literals : f \in pkg.fields[literal(l).type] => f \in evidence(l[1], l[2])
           /\ \A i \in 1 .. Len(pkg.ops) : f \notin spoils(pkg.ops[i])
<1> USE DEF GuardInv
<1>1. pc \in {"ctors", "done"} /\ f \in required /\ f \notin invalid
  BY DEF RedundantInv
<1>2. PICK l \in Literals : f \in guarded[l]
  BY <1>1 DEF required
<1>3. f \in pkg.private
  BY <1>2 DEF GuardedInv, evidence
<1>4. opsDone = 1 .. Len(pkg.ops)
  BY <1>1 DEF opsDone
<1>5. f \notin leftOut /\ f \notin spoilt
  BY <1>1 DEF InvalidInv
<1>6. \A i \in 1 .. Len(pkg.ops) : f \notin spoils(pkg.ops[i])
  BY <1>4, <1>5 DEF spoilt
<1>7. \A m \in Literals : f \in pkg.fields[literal(m).type] => f \in guarded[m]
  BY <1>5 DEF leftOut
<1> QED BY <1>1, <1>3, <1>6, <1>7 DEF GuardedInv

LEMMA OpSpoils ==
    ASSUME NEW op, op.kind \in {"lit", "whole", "field", "zero"}
    PROVE  /\ op.kind \in {"lit", "whole"} => spoils(op) = pkg.fields[op.type]
           /\ op.kind = "field" => spoils(op) = {op.field}
           /\ op.kind = "zero" => spoils(op) = {}
<1>1. /\ "lit" /= "field" /\ "lit" /= "zero" /\ "whole" /= "field" /\ "whole" /= "zero"
      /\ "field" /= "zero"
  OBVIOUS
<1> QED BY <1>1 DEF spoils

LEMMA OpsAre ==
    ASSUME PlaceInv, NEW op
    PROVE  op \in ToSet(pkg.ops) <=> \E i \in 1 .. Len(pkg.ops) : op = pkg.ops[i]
BY PackageIs DEF ToSet

LEMMA BodyIs ==
    ASSUME PlaceInv, NEW c \in Ctors, NEW t
    PROVE  t \in ToSet(pkg.ctors[c].body) <=> \E k \in 1 .. Len(pkg.ctors[c].body) : t = at(c, k)
BY PackageIs DEF ToSet, at

LEMMA NeverNil == GuardInv => RedundantNeverNil
<1> SUFFICES ASSUME GuardInv, \A op \in ToSet(pkg.ops) : op.kind /= "zero",
                    NEW f \in redundant, mayBeNil(f)
             PROVE  FALSE
  BY DEF RedundantNeverNil
<1> USE DEF GuardInv
<1>1. CASE \E c \in Ctors : mayReturnNil(c, f)
  <2>1. PICK c \in Ctors : mayReturnNil(c, f)
    BY <1>1
  <2>2. PICK k \in 1 .. Len(pkg.ctors[c].body) :
           /\ at(c, k).kind = "return" /\ f \in pkg.fields[at(c, k).type]
           /\ f \in DOMAIN at(c, k).inits =>
                ~ \E j \in 1 .. k - 1 : at(c, j).kind = "check" /\ at(c, k).inits[f] \in at(c, j).compares
    BY <2>1 DEF mayReturnNil, at
  <2>3. <<c, k>> \in Literals /\ literal(<<c, k>>) = at(c, k)
    BY <2>2, LiteralIs DEF literal, at
  <2>4. f \in evidence(<<c, k>>[1], <<c, k>>[2])
    BY <2>2, <2>3, RedundantIsGuarded
  <2>5. f \in DOMAIN at(c, k).inits /\ at(c, k).inits[f] \in checkedBefore(c, k)
    BY <2>4 DEF evidence
  <2> QED BY <2>2, <2>5 DEF checkedBefore
<1>2. CASE \E op \in ToSet(pkg.ops) : \/ op.kind \in {"lit", "whole", "zero"} /\ f \in pkg.fields[op.type]
                                      \/ op.kind = "field" /\ op.field = f
  <2>1. PICK op \in ToSet(pkg.ops) : \/ op.kind \in {"lit", "whole", "zero"} /\ f \in pkg.fields[op.type]
                                     \/ op.kind = "field" /\ op.field = f
    BY <1>2
  <2>2. PICK i \in 1 .. Len(pkg.ops) : op = pkg.ops[i]
    BY <2>1, OpsAre
  <2>3. op.kind /= "zero" /\ op.kind \in {"lit", "whole", "field", "zero"}
    BY <2>2, PackageIs
  <2>4. f \in spoils(op)
    BY <2>1, <2>3, OpSpoils
  <2> QED BY <2>2, <2>4, RedundantIsGuarded
<1> QED BY <1>1, <1>2 DEF mayBeNil

LEMMA Agree == GuardInv => HalvesAgree
<1> SUFFICES ASSUME GuardInv, NEW f \in redundant, NEW c \in Ctors, NEW t \in ToSet(pkg.ctors[c].body),
                    t.kind = "return", f \in DOMAIN t.inits, t.inits[f] \in unguarded[c]
             PROVE  FALSE
  BY DEF HalvesAgree
<1> USE DEF GuardInv
<1>1. PICK k \in 1 .. Len(pkg.ctors[c].body) : t = at(c, k)
  BY BodyIs
<1>2. <<c, k>> \in Literals /\ literal(<<c, k>>) = at(c, k)
  BY <1>1, LiteralIs DEF literal, at
<1>3. f \in pkg.fields[at(c, k).type]
  BY <1>1, PackageIs, StatementIs
<1>4. f \in evidence(<<c, k>>[1], <<c, k>>[2])
  BY <1>2, <1>3, RedundantIsGuarded
<1>5. t.inits[f] \in checkedBefore(c, k)
  BY <1>1, <1>4 DEF evidence
<1>6. PICK j \in 1 .. k - 1 : t.inits[f] \in at(c, j).compares
  BY <1>5 DEF checkedBefore
<1>7. j \in 1 .. Len(pkg.ctors[c].body)
  BY <1>6, PackageIs
<1>8. at(c, j) \in ToSet(pkg.ctors[c].body)
  BY <1>7, BodyIs
<1>9. t.inits[f] \in hasNilCheck(c)
  BY <1>6, <1>8 DEF hasNilCheck
<1> QED BY <1>9 DEF UnguardedInv

\* In a constructor that is a row of checks and a return, the return is reached.
LEMMA PlainReaches ==
    ASSUME PlaceInv, NEW c \in Ctors, plainCtor(c), NEW k \in 1 .. Len(pkg.ctors[c].body),
           at(c, k).kind = "return"
    PROVE  k = Len(pkg.ctors[c].body) /\ reaches(c, k)
<1>1. /\ pkg.ctors[c].generated \in BOOLEAN /\ Len(pkg.ctors[c].body) \in Nat
      /\ \A j \in 1 .. Len(pkg.ctors[c].body) - 1 : at(c, j).kind = "check"
  BY PackageIs DEF plainCtor, at
<1>2. "check" /= "return"
  OBVIOUS
<1>3. k = Len(pkg.ctors[c].body)
  BY <1>1, <1>2
<1> QED BY <1>1, <1>3 DEF reaches, plainCtor

LEMMA Found == GuardInv => RedundantFound
<1> SUFFICES ASSUME GuardInv, pc \in {"ctors", "done"}, NEW f \in pkg.tested \intersect pkg.private,
                    \A t \in DOMAIN pkg.fields : f \in pkg.fields[t] => t \in pkg.private,
                    \A op \in ToSet(pkg.ops) : op.kind /= "zero",
                    ~mayBeNil(f),
                    \A c \in Ctors : plainCtor(c),
                    \E c \in Ctors : \E t \in ToSet(pkg.ctors[c].body) : t.kind = "return" /\ f \in DOMAIN t.inits,
                    \A c \in Ctors : \A t \in ToSet(pkg.ctors[c].body) :
                        t.kind = "return" /\ f \in DOMAIN t.inits => t.keyed
             PROVE  f \in redundant
  BY DEF RedundantFound
<1> USE DEF GuardInv
<1>1. ASSUME NEW c \in Ctors, NEW k \in 1 .. Len(pkg.ctors[c].body),
             at(c, k).kind = "return", f \in pkg.fields[at(c, k).type]
      PROVE  <<c, k>> \in Literals /\ literal(<<c, k>>) = at(c, k) /\ f \in guarded[<<c, k>>]
  <2>1. <<c, k>> \in Literals /\ literal(<<c, k>>) = at(c, k)
    BY <1>1, LiteralIs DEF literal, at
  <2>2. k = Len(pkg.ctors[c].body) /\ reaches(c, k) /\ Len(pkg.ctors[c].body) \in Nat
    BY <1>1, PlainReaches, PackageIs
  <2>3. at(c, k).type \in pkg.private
    <3>1. at(c, k).type \in DOMAIN pkg.fields
      BY PackageIs, StatementIs
    <3> QED BY <1>1, <3>1
  <2>4. passed(c, k)
    BY DEF passed
  <2>5. guarded[<<c, k>>] = evidence(c, k)
    <3>1. <<c, k>>[1] = c /\ <<c, k>>[2] = k
      OBVIOUS
    <3> QED BY <2>1, <2>2, <2>3, <2>4, <3>1 DEF GuardedInv
  <2>6. \A j \in 1 .. k - 1 : at(c, j).kind /= "return"
    <3>1. \A j \in 1 .. k - 1 : at(c, j).kind = "check"
      BY <2>2 DEF plainCtor, at
    <3>2. "check" /= "return"
      OBVIOUS
    <3> QED BY <3>1, <3>2
  <2>7. ~mayReturnNil(c, f)
    BY DEF mayBeNil
  <2>8. f \in DOMAIN at(c, k).inits /\
        \E j \in 1 .. k - 1 : at(c, j).kind = "check" /\ at(c, k).inits[f] \in at(c, j).compares
    BY <1>1, <2>6, <2>7 DEF mayReturnNil, at
  <2>9. at(c, k).keyed
    <3>1. at(c, k) \in ToSet(pkg.ctors[c].body)
      BY BodyIs
    <3> QED BY <1>1, <2>8, <3>1
  <2>10. f \in evidence(c, k)
    BY <2>8, <2>9 DEF evidence, checkedBefore
  <2> QED BY <2>1, <2>5, <2>10
<1>2. f \in required
  <2>1. PICK c \in Ctors : \E t \in ToSet(pkg.ctors[c].body) : t.kind = "return" /\ f \in DOMAIN t.inits
    OBVIOUS
  <2>2. PICK t \in ToSet(pkg.ctors[c].body) : t.kind = "return" /\ f \in DOMAIN t.inits
    BY <2>1
  <2>3. PICK k \in 1 .. Len(pkg.ctors[c].body) : t = at(c, k)
    BY BodyIs
  <2>4. at(c, k).kind = "return" /\ f \in DOMAIN at(c, k).inits
    BY <2>2, <2>3
  <2>5. f \in pkg.fields[at(c, k).type]
    BY <2>4, PackageIs, StatementIs
  <2> QED BY <1>1, <2>4, <2>5 DEF required
<1>3. f \notin leftOut
  <2> SUFFICES ASSUME NEW l \in Literals, f \in pkg.fields[literal(l).type]
               PROVE  f \in guarded[l]
    BY DEF leftOut
  <2>1. /\ l = <<l[1], l[2]>> /\ l[1] \in Ctors /\ l[2] \in 1 .. Len(pkg.ctors[l[1]].body)
        /\ at(l[1], l[2]).kind = "return" /\ literal(l) = at(l[1], l[2])
    BY LiteralIs
  <2> QED BY <1>1, <2>1
<1>4. f \notin spoilt
  <2> SUFFICES ASSUME NEW i \in opsDone, f \in spoils(pkg.ops[i])
               PROVE  FALSE
    BY DEF spoilt
  <2>1. i \in 1 .. Len(pkg.ops)
    BY DEF opsDone
  <2>2. /\ pkg.ops[i] \in ToSet(pkg.ops)
        /\ pkg.ops[i].kind \in {"lit", "whole", "field", "zero"} /\ pkg.ops[i].kind /= "zero"
    BY <2>1, OpsAre, PackageIs
  <2>3. \/ pkg.ops[i].kind \in {"lit", "whole"} /\ f \in pkg.fields[pkg.ops[i].type]
        \/ pkg.ops[i].kind = "field" /\ f = pkg.ops[i].field
    BY <2>2, OpSpoils
  <2> QED BY <2>2, <2>3 DEF mayBeNil
<1>5. f \notin invalid
  BY <1>3, <1>4 DEF InvalidInv
<1> QED BY <1>2, <1>5 DEF RedundantInv

\* A check that ctornilguard calls redundant cannot fail, in a package of any size with
\* any constructors (collectGuardedLiterals, checkMethodGuards).
THEOREM RedundantIsNeverNil == Spec => []RedundantNeverNil
BY InitGuardInv, StepGuardInv, NeverNil, PTL DEF Spec

\* The checks that are redundant, in packages of plain constructors, are all reported.
THEOREM RedundantIsFound == Spec => []RedundantFound
BY InitGuardInv, StepGuardInv, Found, PTL DEF Spec

\* checkMethodGuards never takes for guarded what run reports as unguarded.
THEOREM HalvesAlwaysAgree == Spec => []HalvesAgree
BY InitGuardInv, StepGuardInv, Agree, PTL DEF Spec
=============================================================================
