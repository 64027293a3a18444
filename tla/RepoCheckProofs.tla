---------------------------- MODULE RepoCheckProofs ----------------------------
(* What the exit code and the output of moovlint repo tell, for every repository: the   *)
(* walk with its skips is compared with the set of files it is meant to reach.          *)
EXTENDS RepoCheck, FiniteSetTheorems, SequenceTheorems, TLAPS

-----------------------------------------------------------------------------
(* Least and greatest numbers *)

LEMMA Least ==
    ASSUME NEW T \in SUBSET Nat, T /= {}
    PROVE  \E x \in T : \A y \in T : x <= y
<1>1. PICK x \in T : \A y \in T : <<y, x>> \notin OpToRel(<, Nat)
  BY NatLessThanWellFounded, WFMin
<1>2. \A y \in T : ~(y < x)
  BY <1>1 DEF OpToRel
<1>3. \A y \in T : y \in Int
  OBVIOUS
<1>4. \A y, z \in Int : ~(y < z) => z <= y
  OBVIOUS
<1>5. \A y \in T : x <= y
  BY <1>2, <1>3, <1>4
<1> QED BY <1>5

LEMMA Greatest ==
    ASSUME NEW m \in Nat, NEW T \in SUBSET (1 .. m), T /= {}
    PROVE  \E x \in T : \A y \in T : y <= x
<1> DEFINE R == {k \in Nat : m - k \in T}
<1>1. R \in SUBSET Nat
  OBVIOUS
<1>2. \A y \in T : y \in Int /\ m - y \in R
  <2> SUFFICES ASSUME NEW y \in T PROVE y \in Int /\ m - y \in R
    OBVIOUS
  <2>1. y \in Int /\ m - y \in Nat /\ m - (m - y) = y
    OBVIOUS
  <2> QED BY <2>1
<1>3. PICK k \in R : \A l \in R : k <= l
  <2>1. R /= {}
    BY <1>2
  <2> HIDE DEF R
  <2> QED BY <1>1, <2>1, Least
<1>4. m - k \in T /\ k \in Nat
  OBVIOUS
<1>5. \A y \in T : k <= m - y
  BY <1>2, <1>3
<1>6. \A y \in T : y <= m - k
  BY <1>2, <1>4, <1>5
<1> QED BY <1>4, <1>6

-----------------------------------------------------------------------------
(* Sequences without repetition *)

LEMMA Elements ==
    ASSUME NEW S, NEW s \in Seq(S)
    PROVE  /\ Len(s) \in Nat /\ DOMAIN s = 1 .. Len(s)
           /\ \A k \in 1 .. Len(s) : s[k] \in S
           /\ \A x \in ToSet(s) : x \in S
BY DEF ToSet

LEMMA AppendNew ==
    ASSUME NEW S, NEW s \in Seq(S), NEW x \in S, x \notin ToSet(s), IsInjective(s)
    PROVE  /\ Append(s, x) \in Seq(S) /\ ToSet(Append(s, x)) = ToSet(s) \union {x}
           /\ IsInjective(Append(s, x))
<1> DEFINE t == Append(s, x)
           n == Len(s)
<1>1. n \in Nat /\ DOMAIN s = 1 .. n
  OBVIOUS
<1>2. /\ t \in Seq(S) /\ DOMAIN t = 1 .. n + 1
      /\ \A k \in 1 .. n : t[k] = s[k]
      /\ t[n + 1] = x
  OBVIOUS
<1> HIDE DEF t, n
<1>3. \A k \in 1 .. n + 1 : k \in 1 .. n \/ k = n + 1
  BY <1>1
<1>4. n + 1 \in 1 .. n + 1 /\ \A k \in 1 .. n : k \in 1 .. n + 1
  BY <1>1
<1>5. ToSet(t) \subseteq ToSet(s) \union {x}
  BY <1>1, <1>2, <1>3 DEF ToSet
<1>6. ToSet(s) \union {x} \subseteq ToSet(t)
  BY <1>1, <1>2, <1>4 DEF ToSet
<1>7. IsInjective(t)
  <2>1. \A k \in 1 .. n : s[k] /= x
    BY <1>1 DEF ToSet
  <2>2. \A j, k \in 1 .. n : s[j] = s[k] => j = k
    BY <1>1 DEF IsInjective
  <2> QED BY <1>2, <1>3, <2>1, <2>2 DEF IsInjective
<1> QED BY <1>2, <1>5, <1>6, <1>7 DEF t

LEMMA ConcatNew ==
    ASSUME NEW S, NEW s \in Seq(S), NEW t \in Seq(S), IsInjective(s), IsInjective(t),
           \A x \in ToSet(s) : x \notin ToSet(t)
    PROVE  /\ s \o t \in Seq(S) /\ ToSet(s \o t) = ToSet(s) \union ToSet(t)
           /\ IsInjective(s \o t)
<1> DEFINE u == s \o t
           m == Len(s)
           n == Len(t)
<1>1. m \in Nat /\ n \in Nat /\ DOMAIN s = 1 .. m /\ DOMAIN t = 1 .. n
  OBVIOUS
<1>2. /\ u \in Seq(S) /\ DOMAIN u = 1 .. m + n
      /\ \A k \in 1 .. m : u[k] = s[k]
      /\ \A k \in m + 1 .. m + n : u[k] = t[k - m]
  OBVIOUS
<1> HIDE DEF u, m, n
<1>3. \A k \in 1 .. m + n : k \in 1 .. m \/ (k \in m + 1 .. m + n /\ k - m \in 1 .. n)
  BY <1>1
<1>4. /\ \A k \in 1 .. m : k \in 1 .. m + n
      /\ \A k \in 1 .. n : k + m \in m + 1 .. m + n /\ k + m \in 1 .. m + n /\ (k + m) - m = k
  BY <1>1
<1>5. ToSet(u) \subseteq ToSet(s) \union ToSet(t)
  BY <1>1, <1>2, <1>3 DEF ToSet
<1>6. ToSet(s) \subseteq ToSet(u)
  BY <1>1, <1>2, <1>4 DEF ToSet
<1>7. ToSet(t) \subseteq ToSet(u)
  <2> SUFFICES ASSUME NEW k \in 1 .. n PROVE t[k] \in ToSet(u)
    BY <1>1 DEF ToSet
  <2>1. k + m \in DOMAIN u /\ u[k + m] = t[k]
    BY <1>2, <1>4
  <2> QED BY <2>1 DEF ToSet
<1>8. ASSUME NEW j \in 1 .. m + n, NEW k \in 1 .. m + n, u[j] = u[k] PROVE j = k
  <2>1. \A a \in 1 .. m, b \in 1 .. n : s[a] /= t[b]
    BY <1>1 DEF ToSet
  <2>2. CASE j \in 1 .. m /\ k \in 1 .. m
    BY <1>1, <1>2, <1>8, <2>2 DEF IsInjective
  <2>3. CASE j - m \in 1 .. n /\ k - m \in 1 .. n
    <3>1. t[j - m] = t[k - m]
      BY <1>1, <1>2, <1>3, <1>8, <2>3
    <3>2. j - m = k - m
      BY <1>1, <2>3, <3>1 DEF IsInjective
    <3> QED BY <1>1, <3>2
  <2>4. CASE j \in 1 .. m /\ k \in m + 1 .. m + n /\ k - m \in 1 .. n
    BY <1>2, <1>8, <2>1, <2>4
  <2>5. CASE k \in 1 .. m /\ j \in m + 1 .. m + n /\ j - m \in 1 .. n
    BY <1>2, <1>8, <2>1, <2>5
  <2> QED BY <1>3, <2>2, <2>3, <2>4, <2>5
<1>9. IsInjective(u)
  BY <1>2, <1>8 DEF IsInjective
<1> QED BY <1>2, <1>5, <1>6, <1>7, <1>9 DEF u

LEMMA HeadTail ==
    ASSUME NEW S, NEW s \in Seq(S), s /= <<>>, IsInjective(s)
    PROVE  /\ Head(s) \in S /\ Head(s) \in ToSet(s)
           /\ Tail(s) \in Seq(S) /\ IsInjective(Tail(s))
           /\ ToSet(Tail(s)) = ToSet(s) \ {Head(s)}
<1> DEFINE t == Tail(s)
           n == Len(s)
<1>1. n \in Nat /\ n >= 1 /\ DOMAIN s = 1 .. n /\ Head(s) = s[1] /\ \A k \in 1 .. n : s[k] \in S
  OBVIOUS
<1>2. /\ t \in Seq(S) /\ DOMAIN t = 1 .. n - 1
      /\ \A k \in 1 .. n - 1 : t[k] = s[k + 1]
  OBVIOUS
<1> HIDE DEF t, n
<1>3. 1 \in 1 .. n /\ \A k \in 1 .. n - 1 : k + 1 \in 1 .. n /\ k + 1 /= 1
  BY <1>1
<1>4. \A k \in 1 .. n : k /= 1 => k - 1 \in 1 .. n - 1 /\ (k - 1) + 1 = k
  BY <1>1
<1>5. \A j, k \in 1 .. n : s[j] = s[k] => j = k
  BY <1>1 DEF IsInjective
<1>6. ToSet(t) \subseteq ToSet(s) \ {s[1]}
  <2> SUFFICES ASSUME NEW k \in 1 .. n - 1 PROVE t[k] \in ToSet(s) \ {s[1]}
    BY <1>2 DEF ToSet
  <2> QED BY <1>1, <1>2, <1>3, <1>5 DEF ToSet
<1>7. ToSet(s) \ {s[1]} \subseteq ToSet(t)
  <2> SUFFICES ASSUME NEW k \in 1 .. n, s[k] /= s[1] PROVE s[k] \in ToSet(t)
    BY <1>1 DEF ToSet
  <2>1. k - 1 \in 1 .. n - 1 /\ t[k - 1] = s[k]
    BY <1>2, <1>4
  <2> QED BY <1>2, <2>1 DEF ToSet
<1>8. IsInjective(t)
  <2> SUFFICES ASSUME NEW j \in 1 .. n - 1, NEW k \in 1 .. n - 1, t[j] = t[k] PROVE j = k
    BY <1>2 DEF IsInjective
  <2>1. j + 1 = k + 1
    BY <1>2, <1>3, <1>5
  <2> QED BY <1>1, <2>1
<1> QED BY <1>1, <1>2, <1>3, <1>6, <1>7, <1>8 DEF t, ToSet

LEMMA Empty == ToSet(<<>>) = {} /\ IsInjective(<<>>)
BY DEF ToSet, IsInjective

LEMMA OneEntry ==
    ASSUME NEW S, NEW x \in S
    PROVE  <<x>> \in Seq(S) /\ ToSet(<<x>>) = {x} /\ IsInjective(<<x>>)
BY DEF ToSet, IsInjective

\* A set of entries can be put in order: an entry's place is the number of those that are
\* not after it.
LEMMA InOrder ==
    ASSUME NEW m \in Nat, NEW S \in SUBSET (1 .. m)
    PROVE  /\ inOrder(S) \in Seq(S)
           /\ ToSet(inOrder(S)) = S
           /\ IsInjective(inOrder(S))
<1> DEFINE n == Cardinality(S)
           upto(x) == {y \in S : y <= x}
           rank == [x \in S |-> Cardinality(upto(x))]
           Rises(s) == \A j, k \in DOMAIN s : j < k => s[j] < s[k]
<1>1. n \in Nat /\ IsFiniteSet(S) /\ \A x \in S : x \in Int
  <2>1. IsFiniteSet(1 .. m)
    BY FS_Interval
  <2>2. IsFiniteSet(S)
    BY <2>1, FS_Subset
  <2> QED BY <2>2, FS_CardinalityType
<1>2. ASSUME NEW x \in S
      PROVE  IsFiniteSet(upto(x)) /\ Cardinality(upto(x)) \in Nat /\ Cardinality(upto(x)) \in 1 .. n
  <2>1. upto(x) \in SUBSET S /\ x \in upto(x)
    BY <1>1
  <2> HIDE DEF upto
  <2>2. IsFiniteSet(upto(x)) /\ Cardinality(upto(x)) <= n
    BY <1>1, <2>1, FS_Subset
  <2>3. Cardinality(upto(x)) \in Nat /\ Cardinality(upto(x)) /= 0
    BY <2>1, <2>2, FS_CardinalityType, FS_EmptySet
  <2> HIDE DEF n
  <2> QED BY <1>1, <2>2, <2>3
<1>3. ASSUME NEW x \in S, NEW y \in S, x < y PROVE rank[x] < rank[y]
  <2>1. upto(x) \in SUBSET upto(y)
    <3>1. \A z \in S : z \in Int /\ (z <= x => z <= y)
      BY <1>1, <1>3
    <3> QED BY <3>1
  <2>2. y \in upto(y) /\ y \notin upto(x)
    BY <1>1, <1>3
  <2> HIDE DEF upto
  <2>3. Cardinality(upto(x)) <= Cardinality(upto(y)) /\ Cardinality(upto(x)) /= Cardinality(upto(y))
    BY <1>2, <2>1, <2>2, FS_Subset
  <2> QED BY <1>2, <2>3
<1>4. rank \in [S -> 1 .. n]
  BY <1>2
<1> HIDE DEF rank, upto
<1>5. \A x, y \in S : rank[x] < rank[y] => x < y
  <2> SUFFICES ASSUME NEW x \in S, NEW y \in S, rank[x] < rank[y] PROVE x < y
    OBVIOUS
  <2>1. rank[x] \in Int /\ rank[y] \in Int /\ x \in Int /\ y \in Int
    BY <1>1, <1>4
  <2>2. ~(y < x) /\ x /= y
    BY <1>3, <2>1
  <2> QED BY <2>1, <2>2
<1>6. rank \in Injection(S, 1 .. n)
  <2>1. ASSUME NEW x \in S, NEW y \in S, rank[x] = rank[y] PROVE x = y
    <3>1. rank[x] \in Int /\ rank[y] \in Int /\ x \in Int /\ y \in Int
      BY <1>1, <1>4
    <3>2. ~(x < y) /\ ~(y < x)
      BY <1>3, <2>1, <3>1
    <3> QED BY <3>1, <3>2
  <2> QED BY <1>4, <2>1 DEF Injection, IsInjective
<1>7. IsFiniteSet(1 .. n) /\ Cardinality(1 .. n) = n
  <2> HIDE DEF n
  <2> QED BY <1>1, FS_Interval
<1>8. rank \in Surjection(S, 1 .. n)
  BY <1>1, <1>6, <1>7, FS_Injection
<1>9. \A r \in 1 .. n : \E x \in S : rank[x] = r
  BY <1>8 DEF Surjection
<1> DEFINE s == [r \in 1 .. n |-> CHOOSE x \in S : rank[x] = r]
<1>10. \A r \in 1 .. n : s[r] \in S /\ rank[s[r]] = r
  BY <1>9
<1>11. s \in [1 .. n -> S] /\ DOMAIN s = 1 .. n
  BY <1>10
<1> HIDE DEF s
<1>12. Rises(s)
  <2> SUFFICES ASSUME NEW j \in 1 .. n, NEW k \in 1 .. n, j < k PROVE s[j] < s[k]
    BY <1>11
  <2> QED BY <1>5, <1>10
<1> DEFINE o == inOrder(S)
<1>13. o \in [1 .. n -> S] /\ Rises(o)
  <2>1. inOrder(S) = CHOOSE x \in [1 .. n -> S] : Rises(x)
    BY DEF inOrder
  <2> HIDE DEF Rises, n
  <2> QED BY <1>11, <1>12, <2>1
<1>14. o \in Seq(S) /\ DOMAIN o = 1 .. n
  <2> HIDE DEF n
  <2> QED BY <1>1, <1>13
<1> HIDE DEF o, n
<1>15. \A j, k \in 1 .. n : o[j] = o[k] => j = k
  <2> SUFFICES ASSUME NEW j \in 1 .. n, NEW k \in 1 .. n, o[j] = o[k] PROVE j = k
    OBVIOUS
  <2>1. o[j] \in Int /\ o[k] \in Int /\ j \in Int /\ k \in Int
    <3>1. o[j] \in S /\ o[k] \in S
      BY <1>13
    <3>2. j \in Int /\ k \in Int
      BY <1>1
    <3> QED BY <1>1, <3>1, <3>2
  <2>2. /\ j < k => o[j] < o[k]
        /\ k < j => o[k] < o[j]
    <3>1. \A a, b \in DOMAIN o : a < b => o[a] < o[b]
      BY <1>13
    <3> QED BY <1>14, <3>1
  <2>3. \A x, y \in Int : x = y => ~(x < y)
    OBVIOUS
  <2>4. ~(j < k) /\ ~(k < j)
    BY <2>1, <2>2, <2>3
  <2> QED BY <2>1, <2>4
<1>16. IsInjective(o)
  BY <1>14, <1>15 DEF IsInjective
<1>17. o \in Surjection(1 .. n, S)
  <2>1. o \in Injection(1 .. n, S)
    BY <1>13, <1>14, <1>15 DEF Injection, IsInjective
  <2> QED BY <1>1, <1>7, <2>1, FS_Injection DEF n
<1>18. ToSet(o) = S
  <2>1. \A x \in S : \E k \in 1 .. n : o[k] = x
    BY <1>17 DEF Surjection
  <2> QED BY <1>13, <1>14, <2>1 DEF ToSet
<1> QED BY <1>14, <1>16, <1>18 DEF o

-----------------------------------------------------------------------------
(* The tree: its entries in the order of the walk *)

Entry == 1 .. Len(tree)

LEMMA Shape ==
    ASSUME tree \in Trees
    PROVE  /\ Len(tree) \in Nat
           /\ \A n \in Entry :
                 /\ n \in Int /\ n >= 1 /\ n <= Len(tree) /\ tree[n].depth \in Nat
                 /\ tree[n].depth = 0 <=> n = 1
                 /\ n > 1 /\ tree[n].depth > tree[n - 1].depth =>
                       tree[n].depth = tree[n - 1].depth + 1 /\ tree[n - 1].kind = "dir"
BY TreesAssumption DEF Entry

\* after(n) is the first entry past n that is not below it.
LEMMA AfterIs ==
    ASSUME tree \in Trees, NEW n \in Entry
    PROVE  /\ after(n) \in n + 1 .. Len(tree) + 1
           /\ \A k \in n + 1 .. after(n) - 1 : tree[k].depth > tree[n].depth
           /\ after(n) <= Len(tree) => tree[after(n)].depth <= tree[n].depth
<1> DEFINE beyond == {m \in n + 1 .. Len(tree) : tree[m].depth <= tree[n].depth}
<1>1. /\ Len(tree) \in Nat /\ n \in Int /\ n <= Len(tree) /\ n >= 1
      /\ \A k \in n + 1 .. Len(tree) : k \in Entry /\ tree[k].depth \in Nat
      /\ tree[n].depth \in Nat
  BY Shape DEF Entry
<1>2. after(n) = IF beyond = {} THEN Len(tree) + 1
                 ELSE CHOOSE m \in beyond : \A k \in beyond : m <= k
  BY DEF after
<1>3. CASE beyond = {}
  <2>1. after(n) = Len(tree) + 1
    BY <1>2, <1>3
  <2>2. ASSUME NEW k \in n + 1 .. Len(tree) PROVE tree[k].depth > tree[n].depth
    <3>1. ~(tree[k].depth <= tree[n].depth)
      BY <1>3
    <3> QED BY <1>1, <3>1
  <2> QED BY <1>1, <2>1, <2>2
<1>4. CASE beyond /= {}
  <2>1. beyond \in SUBSET Nat
    BY <1>1
  <2>2. \E m \in beyond : \A k \in beyond : m <= k
    <3> HIDE DEF beyond
    <3> QED BY <1>4, <2>1, Least
  <2>3. after(n) \in beyond /\ \A k \in beyond : after(n) <= k
    <3> HIDE DEF beyond
    <3> QED BY <1>2, <1>4, <2>2
  <2>4. ASSUME NEW k \in n + 1 .. after(n) - 1 PROVE tree[k].depth > tree[n].depth
    <3>1. k \in n + 1 .. Len(tree) /\ ~(after(n) <= k)
      BY <1>1, <2>3
    <3>2. k \notin beyond
      <4> HIDE DEF beyond
      <4> QED BY <2>3, <3>1
    <3> QED BY <1>1, <3>1, <3>2
  <2> QED BY <1>1, <2>3, <2>4
<1> QED BY <1>3, <1>4

\* A directory does not reach past an entry that is no deeper.
LEMMA NotBeyond ==
    ASSUME tree \in Trees, NEW m \in Entry, NEW n \in Entry, m < n, tree[n].depth <= tree[m].depth
    PROVE  after(m) <= n
<1>1. m \in Int /\ n \in Int /\ Len(tree) \in Nat
      /\ tree[n].depth \in Nat /\ tree[m].depth \in Nat
  BY Shape
<1>2. after(m) \in Int /\ \A k \in m + 1 .. after(m) - 1 : tree[k].depth > tree[m].depth
  BY <1>1, AfterIs
<1>3. n \notin m + 1 .. after(m) - 1
  BY <1>1, <1>2
<1> QED BY <1>1, <1>2, <1>3

LEMMA ParentsAre ==
    ASSUME tree \in Trees, NEW n \in Entry
    PROVE  \A m : m \in parents(n) <=>
              m \in Entry /\ m < n /\ tree[m].kind = "dir" /\ after(m) > n
<1>1. n \in Int /\ n <= Len(tree) /\ Len(tree) \in Nat
  BY Shape
<1>2. \A m : m \in 1 .. n - 1 <=> m \in Entry /\ m < n
  BY <1>1 DEF Entry
<1> QED BY <1>2 DEF parents

\* What lies above the entry after p lies above p, or is p.
LEMMA ParentsNext ==
    ASSUME tree \in Trees, NEW q \in Entry, q + 1 \in Entry
    PROVE  \A m \in parents(q + 1) : m \in parents(q) \/ (m = q /\ tree[q].kind = "dir")
<1> SUFFICES ASSUME NEW m \in parents(q + 1), m /= q PROVE m \in parents(q)
  BY ParentsAre
<1>1. m \in Entry /\ m < q + 1 /\ tree[m].kind = "dir" /\ after(m) > q + 1
  BY ParentsAre
<1>2. m \in Int /\ q \in Int /\ after(m) \in Int
  BY <1>1, Shape, AfterIs
<1>3. m < q /\ after(m) > q
  BY <1>1, <1>2
<1> QED BY <1>1, <1>3, ParentsAre

\* What lies above the entry after all that is below a directory lies above the directory.
LEMMA ParentsPast ==
    ASSUME tree \in Trees, NEW q \in Entry, after(q) \in Entry
    PROVE  parents(after(q)) \subseteq parents(q)
<1> SUFFICES ASSUME NEW m \in parents(after(q)) PROVE m \in parents(q)
  OBVIOUS
<1> DEFINE r == after(q)
<1>1. m \in Entry /\ m < r /\ tree[m].kind = "dir" /\ after(m) > r
  BY ParentsAre
<1>2. /\ m \in Int /\ q \in Int /\ after(m) \in Int /\ r \in Int /\ r > q /\ r <= Len(tree)
      /\ Len(tree) \in Nat
      /\ tree[m].depth \in Nat /\ tree[q].depth \in Nat /\ tree[r].depth \in Nat
  BY <1>1, Shape, AfterIs DEF Entry
<1>3. tree[r].depth <= tree[q].depth /\ \A k \in q + 1 .. r - 1 : tree[k].depth > tree[q].depth
  BY <1>2, AfterIs
<1> HIDE DEF r
<1>4. m /= q
  BY <1>1, <1>2 DEF r
<1>5. ~(m > q)
  <2> SUFFICES ASSUME m > q PROVE FALSE
    OBVIOUS
  <2>1. m \in q + 1 .. r - 1
    BY <1>1, <1>2
  <2>2. tree[m].depth > tree[q].depth
    BY <1>3, <2>1
  <2>3. tree[r].depth <= tree[m].depth
    BY <1>2, <1>3, <2>2
  <2>4. after(m) <= r
    <3>1. r \in Entry
      BY DEF r
    <3> QED BY <1>1, <2>3, <3>1, NotBeyond
  <2> QED BY <1>1, <1>2, <2>4
<1>6. m < q /\ after(m) > q
  BY <1>1, <1>2, <1>4, <1>5
<1> QED BY <1>1, <1>6, ParentsAre

\* An entry has one directory, which is one less deep, and all above it reach past it.
LEMMA DirectoryIs ==
    ASSUME tree \in Trees, NEW n \in Entry, n > 1
    PROVE  /\ parents(n) /= {}
           /\ directory(n) \in parents(n) /\ \A k \in parents(n) : k <= directory(n)
           /\ tree[n].depth = tree[directory(n)].depth + 1
<1>1. /\ n \in Int /\ n <= Len(tree) /\ Len(tree) \in Nat /\ tree[n].depth \in Nat
      /\ tree[n].depth /= 0
  BY Shape
<1> DEFINE above == {m \in 1 .. n - 1 : tree[m].depth < tree[n].depth}
<1>2. 1 \in above
  <2>1. 1 \in Entry /\ 1 \in 1 .. n - 1
    BY <1>1 DEF Entry
  <2>2. tree[1].depth = 0
    BY <2>1, Shape
  <2> QED BY <1>1, <2>1, <2>2
<1>3. PICK q \in above : \A k \in above : k <= q
  <2>1. above \in SUBSET (1 .. n - 1) /\ n - 1 \in Nat
    BY <1>1
  <2> HIDE DEF above
  <2> QED BY <1>2, <2>1, Greatest
<1>4. /\ q \in 1 .. n - 1 /\ q \in Entry /\ q \in Int /\ q < n /\ q + 1 \in Entry /\ (q + 1) - 1 = q
      /\ tree[q].depth < tree[n].depth /\ tree[q].depth \in Nat /\ tree[q + 1].depth \in Nat
  <2>1. q \in 1 .. n - 1 /\ tree[q].depth < tree[n].depth
    OBVIOUS
  <2>2. q \in Entry /\ q + 1 \in Entry /\ q \in Int /\ q < n /\ (q + 1) - 1 = q
    BY <1>1, <2>1 DEF Entry
  <2> QED BY <2>1, <2>2, Shape
<1>5. ASSUME NEW k \in q + 1 .. n PROVE k \in Entry /\ tree[k].depth >= tree[n].depth
  <2>1. k \in Int /\ k \in Entry
    BY <1>1, <1>4 DEF Entry
  <2>2. tree[k].depth \in Nat
    BY <2>1, Shape
  <2>3. CASE k = n
    BY <1>1, <2>1, <2>3
  <2>4. CASE k /= n
    <3>1. k \in 1 .. n - 1 /\ ~(k <= q)
      BY <1>1, <1>4, <2>1, <2>4
    <3>2. k \notin above
      <4> HIDE DEF above
      <4> QED BY <1>3, <3>1
    <3>3. ~(tree[k].depth < tree[n].depth)
      BY <3>1, <3>2
    <3> QED BY <1>1, <2>1, <2>2, <3>3
  <2> QED BY <2>3, <2>4
<1>6. tree[q].kind = "dir" /\ tree[n].depth = tree[q].depth + 1
  <2>1. q + 1 \in q + 1 .. n /\ q + 1 > 1
    BY <1>1, <1>4
  <2>2. tree[q + 1].depth >= tree[n].depth
    BY <1>5, <2>1
  <2>3. tree[q + 1].depth > tree[q].depth
    BY <1>1, <1>4, <2>2
  <2>4. tree[q + 1].depth = tree[q].depth + 1 /\ tree[q].kind = "dir"
    BY <1>4, <2>1, <2>3, Shape
  <2> QED BY <1>1, <1>4, <2>2, <2>4
<1>7. q \in parents(n)
  <2>1. after(q) \in Int /\ after(q) > q /\ (after(q) <= Len(tree) => tree[after(q)].depth <= tree[q].depth)
    BY <1>1, <1>4, AfterIs
  <2>2. after(q) > n
    <3> SUFFICES ASSUME after(q) <= n PROVE FALSE
      BY <1>1, <2>1
    <3>1. after(q) \in q + 1 .. n /\ after(q) <= Len(tree)
      BY <1>1, <1>4, <2>1
    <3>2. after(q) \in Entry /\ tree[after(q)].depth >= tree[n].depth
      BY <1>5, <3>1
    <3>3. tree[after(q)].depth \in Nat
      BY <3>2, Shape
    <3> QED BY <1>1, <1>4, <2>1, <3>1, <3>2, <3>3
  <2> QED BY <1>4, <1>6, <2>2, ParentsAre
<1>8. \A k \in parents(n) : k <= q
  <2> SUFFICES ASSUME NEW k \in parents(n), ~(k <= q) PROVE FALSE
    OBVIOUS
  <2>1. k \in Entry /\ k < n /\ after(k) > n
    BY ParentsAre
  <2>2. k \in Int /\ after(k) \in Int
    BY <2>1, Shape, AfterIs
  <2>3. k \in q + 1 .. n
    BY <1>1, <1>4, <2>1, <2>2
  <2>4. tree[n].depth <= tree[k].depth
    <3>1. tree[k].depth >= tree[n].depth /\ tree[k].depth \in Nat
      BY <1>5, <2>1, <2>3, Shape
    <3> QED BY <1>1, <3>1
  <2>5. after(k) <= n
    BY <2>1, <2>4, NotBeyond
  <2> QED BY <1>1, <2>1, <2>2, <2>5
<1>9. directory(n) = q
  <2>1. \A x, y \in parents(n) : x <= y /\ y <= x => x = y
    <3>1. \A x \in parents(n) : x \in Int
      BY ParentsAre, Shape
    <3> QED BY <3>1
  <2> QED BY <1>7, <1>8, <2>1 DEF directory
<1> QED BY <1>6, <1>7, <1>8, <1>9

LEMMA RootHasNone ==
    ASSUME tree \in Trees, NEW n \in Entry, parents(n) /= {}
    PROVE  n > 1
<1>1. PICK m : m \in parents(n)
  OBVIOUS
<1>2. m \in Entry /\ m < n
  BY <1>1, ParentsAre
<1> QED BY <1>2, Shape

-----------------------------------------------------------------------------
(* Where a checker's files are met *)

Walker == {"migrations", "structtags", "protobuf", "sqlnow"}

\* The entry at which the checker's walk meets what it looks at: migrations takes the
\* files of a directory all at once.
at(k, n) == IF k = "migrations" THEN directory(n) ELSE n

\* Those of entry q: the checker looks at them when its walk comes there.
own(k, q) == {n \in Entry : isFor(k, n) /\ at(k, n) = q}

LEMMA FilesOfAre ==
    ASSUME tree \in Trees, NEW q \in Entry, tree[q].kind = "dir", tree[q].name = "migrations",
           NEW n
    PROVE  n \in own("migrations", q) <=>
             /\ n \in q + 1 .. after(q) - 1
             /\ tree[n].depth = tree[q].depth + 1 /\ tree[n].kind /= "dir"
<1>1. /\ q \in Int /\ q >= 1 /\ after(q) \in Int /\ after(q) <= Len(tree) + 1 /\ Len(tree) \in Nat
      /\ after(q) > q /\ tree[q].depth \in Nat
      /\ \A k \in q + 1 .. after(q) - 1 : tree[k].depth > tree[q].depth
  BY Shape, AfterIs
<1>2. ASSUME n \in own("migrations", q)
      PROVE  /\ n \in q + 1 .. after(q) - 1
             /\ tree[n].depth = tree[q].depth + 1 /\ tree[n].kind /= "dir"
  <2>1. n \in Entry /\ tree[n].kind /= "dir" /\ parents(n) /= {} /\ directory(n) = q
    BY <1>2 DEF own, isFor, at
  <2>2. n > 1
    BY <2>1, RootHasNone
  <2>3. q \in parents(n) /\ tree[n].depth = tree[q].depth + 1
    BY <2>1, <2>2, DirectoryIs
  <2>4. q < n /\ after(q) > n /\ n \in Int
    BY <2>1, <2>3, ParentsAre, Shape
  <2> QED BY <1>1, <2>1, <2>3, <2>4
<1>3. ASSUME n \in q + 1 .. after(q) - 1, tree[n].depth = tree[q].depth + 1, tree[n].kind /= "dir"
      PROVE  n \in own("migrations", q)
  <2>1. n \in Entry /\ n > 1 /\ n \in Int /\ q < n /\ after(q) > n
    BY <1>1, <1>3 DEF Entry
  <2>2. q \in parents(n)
    BY <2>1, ParentsAre
  <2> DEFINE e == directory(n)
  <2>3. /\ parents(n) /= {} /\ e \in parents(n) /\ q <= e
        /\ tree[n].depth = tree[e].depth + 1
    BY <2>1, <2>2, DirectoryIs
  <2>4. e \in Entry /\ e < n
    BY <2>1, <2>3, ParentsAre
  <2>5. e \in Int /\ tree[e].depth \in Nat
    BY <2>4, Shape
  <2> HIDE DEF e
  <2>6. tree[e].depth = tree[q].depth
    BY <1>1, <1>3, <2>3, <2>5
  <2>7. e \notin q + 1 .. after(q) - 1
    BY <1>1, <2>5, <2>6
  <2>8. e = q
    BY <1>1, <2>1, <2>3, <2>4, <2>5, <2>7
  <2> QED BY <1>3, <2>1, <2>3, <2>8 DEF own, isFor, at, e
<1> QED BY <1>2, <1>3

LEMMA WantsAre ==
    ASSUME tree \in Trees, NEW k \in Walker, NEW q \in Entry
    PROVE  /\ wants(k, q) \in Seq(Entry)
           /\ ToSet(wants(k, q)) = own(k, q)
           /\ IsInjective(wants(k, q))
<1>1. <<>> \in Seq(Entry)
  OBVIOUS
<1>2. CASE k = "migrations"
  <2>1. CASE tree[q].kind = "dir" /\ tree[q].name = "migrations"
    <3> DEFINE S == {m \in q + 1 .. after(q) - 1 :
                        tree[m].depth = tree[q].depth + 1 /\ tree[m].kind /= "dir"}
    <3>1. S \subseteq Entry /\ Len(tree) \in Nat
      <4>1. /\ q \in Int /\ q >= 1 /\ after(q) \in Int /\ after(q) <= Len(tree) + 1
            /\ Len(tree) \in Nat
        BY Shape, AfterIs
      <4> QED BY <4>1 DEF Entry
    <3>2. wants(k, q) = inOrder(S)
      BY <1>2, <2>1 DEF wants, filesOf
    <3>3. S = own(k, q)
      BY <1>2, <2>1, FilesOfAre
    <3> HIDE DEF S
    <3>4. inOrder(S) \in Seq(S) /\ ToSet(inOrder(S)) = S /\ IsInjective(inOrder(S))
      BY <3>1, InOrder DEF Entry
    <3>5. inOrder(S) \in Seq(Entry)
      BY <3>1, <3>4, SeqMonotonic
    <3> QED BY <3>2, <3>3, <3>4, <3>5
  <2>2. CASE ~(tree[q].kind = "dir" /\ tree[q].name = "migrations")
    <3>1. wants(k, q) = <<>>
      BY <1>2, <2>2 DEF wants
    <3>2. ASSUME NEW n \in own(k, q) PROVE FALSE
      <4>1. n \in Entry /\ parents(n) /= {} /\ directory(n) = q /\ tree[directory(n)].name = "migrations"
        BY <1>2, <3>2 DEF own, isFor, at
      <4>2. q \in parents(n)
        BY <4>1, RootHasNone, DirectoryIs
      <4>3. tree[q].kind = "dir"
        BY <4>1, <4>2, ParentsAre
      <4> QED BY <2>2, <4>1, <4>3
    <3> QED BY <1>1, <3>1, <3>2, Empty
  <2> QED BY <2>1, <2>2
<1>3. CASE k /= "migrations"
  <2>1. own(k, q) = IF isFor(k, q) THEN {q} ELSE {}
    BY <1>3 DEF own, at
  <2>2. wants(k, q) = IF isFor(k, q) THEN <<q>> ELSE <<>>
    BY <1>3 DEF wants, isFor, Walker
  <2>3. CASE isFor(k, q)
    <3>1. wants(k, q) = <<q>> /\ own(k, q) = {q}
      BY <2>1, <2>2, <2>3
    <3>2. <<q>> \in Seq(Entry) /\ ToSet(<<q>>) = {q} /\ IsInjective(<<q>>)
      BY OneEntry
    <3> QED BY <3>1, <3>2
  <2>4. CASE ~isFor(k, q)
    <3>1. wants(k, q) = <<>> /\ own(k, q) = {}
      BY <2>1, <2>2, <2>4
    <3> QED BY <1>1, <3>1, Empty
  <2> QED BY <2>3, <2>4
<1> QED BY <1>2, <1>3

skipped(k, q) == tree[q].kind = "dir" /\ tree[q].name \in skips(k)

LEMMA ReachOwn ==
    ASSUME tree \in Trees, NEW k \in Walker, NEW q \in Entry, reaches(k, q), ~skipped(k, q),
           NEW n \in own(k, q)
    PROVE  reaches(k, n)
<1>1. CASE k /= "migrations"
  <2>1. n = q
    BY <1>1 DEF own, at
  <2> QED BY <2>1
<1>2. CASE k = "migrations"
  <2>1. n \in Entry /\ parents(n) /= {} /\ directory(n) = q
    BY <1>2 DEF own, isFor, at
  <2>2. q \in parents(n) /\ \A m \in parents(n) : m <= q
    BY <2>1, RootHasNone, DirectoryIs
  <2>3. q < n /\ q \in Int /\ n \in Int
    BY <2>1, <2>2, ParentsAre, Shape
  <2>4. ASSUME NEW m \in parents(n) PROVE tree[m].name \notin skips(k)
    <3>1. m \in Entry /\ tree[m].kind = "dir" /\ after(m) > n /\ m <= q
      BY <2>1, <2>2, ParentsAre
    <3>2. CASE m = q
      BY <3>1, <3>2 DEF skipped
    <3>3. CASE m /= q
      <4>1. m < q /\ after(m) > q
        BY <2>3, <3>1, <3>3, Shape, AfterIs
      <4>2. m \in parents(q)
        BY <3>1, <4>1, ParentsAre
      <4> QED BY <4>2 DEF reaches
    <3> QED BY <3>2, <3>3
  <2> QED BY <2>4 DEF reaches
<1> QED BY <1>1, <1>2

LEMMA ReachInside ==
    ASSUME tree \in Trees, NEW k, NEW q \in Entry, skipped(k, q),
           NEW n \in Entry, q < n, n < after(q)
    PROVE  ~reaches(k, n)
<1>1. n \in Int /\ after(q) \in Int
  BY Shape, AfterIs
<1>2. q \in parents(n)
  BY <1>1, ParentsAre DEF skipped
<1> QED BY <1>2 DEF reaches, skipped

\* Nothing that the walk would meet in a directory it skips is to be looked at.
LEMMA SkipLosesNothing ==
    ASSUME tree \in Trees, NEW k \in Walker, NEW q \in Entry, skipped(k, q),
           NEW n \in Entry, isFor(k, n), q <= at(k, n), at(k, n) < after(q)
    PROVE  ~reaches(k, n)
<1>1. q \in Int /\ n \in Int /\ after(q) \in Int /\ Len(tree) \in Nat
  BY Shape, AfterIs
<1>2. CASE k /= "migrations"
  <2>1. at(k, n) = n
    BY <1>2 DEF at
  <2>2. tree[n].kind /= "dir"
    BY <1>2 DEF isFor, Walker
  <2>3. n /= q
    BY <2>2 DEF skipped
  <2>4. q < n /\ n < after(q)
    BY <1>1, <2>1, <2>3
  <2> QED BY <2>4, ReachInside
<1>3. CASE k = "migrations"
  <2> DEFINE e == directory(n)
  <2>1. parents(n) /= {} /\ at(k, n) = e
    BY <1>3 DEF isFor, at
  <2>2. e \in parents(n)
    BY <2>1, RootHasNone, DirectoryIs
  <2>3. e \in Entry /\ e < n /\ tree[e].kind = "dir" /\ after(e) > n
    BY <2>2, ParentsAre
  <2>4. e \in Int /\ after(e) \in Int /\ tree[e].depth \in Nat /\ tree[q].depth \in Nat
    BY <2>3, Shape, AfterIs
  <2>5. q <= e /\ e < after(q)
    BY <2>1
  <2> HIDE DEF e
  <2>6. CASE e = q
    <3>1. q < n /\ n < after(q)
      BY <1>1, <2>3, <2>6
    <3> QED BY <3>1, ReachInside
  <2>7. CASE e /= q
    <3>1. e \in q + 1 .. after(q) - 1 /\ q < n
      BY <1>1, <2>3, <2>4, <2>5, <2>7
    <3>2. tree[e].depth > tree[q].depth
      BY <3>1, AfterIs
    <3>3. CASE after(q) <= Len(tree)
      <4> DEFINE r == after(q)
      <4>1. r \in Entry
        BY <1>1, <2>3, <2>4, <2>5, <3>3, Shape DEF Entry
      <4>2. tree[r].depth <= tree[q].depth /\ tree[r].depth \in Nat
        BY <3>3, <4>1, AfterIs, Shape
      <4>3. tree[r].depth <= tree[e].depth
        BY <2>4, <3>2, <4>2
      <4>4. e < r
        BY <2>5
      <4> HIDE DEF r
      <4>5. after(e) <= r
        BY <2>3, <4>1, <4>3, <4>4, NotBeyond
      <4>6. n < r
        <5>1. r \in Int
          BY <4>1, Shape
        <5> QED BY <1>1, <2>3, <2>4, <4>5, <5>1
      <4>7. n < after(q)
        BY <4>6 DEF r
      <4> QED BY <3>1, <4>7, ReachInside
    <3>4. CASE ~(after(q) <= Len(tree))
      <4>1. n < after(q)
        BY <1>1, <3>4, Shape
      <4> QED BY <3>1, <4>1, ReachInside
    <3> QED BY <3>3, <3>4
  <2> QED BY <2>6, <2>7
<1> QED BY <1>2, <1>3

LEMMA ReachNext ==
    ASSUME tree \in Trees, NEW k, NEW q \in Entry, q + 1 \in Entry, reaches(k, q), ~skipped(k, q)
    PROVE  reaches(k, q + 1)
<1> SUFFICES ASSUME NEW m \in parents(q + 1) PROVE tree[m].name \notin skips(k)
  BY DEF reaches
<1>1. m \in parents(q) \/ (m = q /\ tree[q].kind = "dir")
  BY ParentsNext
<1> QED BY <1>1 DEF reaches, skipped

LEMMA ReachPast ==
    ASSUME tree \in Trees, NEW k, NEW q \in Entry, after(q) \in Entry, reaches(k, q)
    PROVE  reaches(k, after(q))
BY ParentsPast DEF reaches

\* migrations skips the fewest directories.
LEMMA ReachedByAll ==
    ASSUME NEW k \in Walker, NEW n, reaches(k, n)
    PROVE  reaches("migrations", n)
BY DEF reaches, skips, Walker

-----------------------------------------------------------------------------
(* A walk *)

\* What the checker is to look at, and what its walk meets before entry q.
mine(k) == {n \in Entry : isFor(k, n) /\ (k = "gomodreplace" \/ reaches(k, n))}
metBefore(k, q) == {n \in Entry : isFor(k, n) /\ reaches(k, n) /\ at(k, n) < q}

LEMMA MetPlace ==
    ASSUME tree \in Trees, NEW k \in Walker, NEW n \in Entry, isFor(k, n)
    PROVE  at(k, n) \in Entry
<1>1. CASE k /= "migrations"
  BY <1>1 DEF at
<1>2. CASE k = "migrations"
  <2>1. parents(n) /= {}
    BY <1>2 DEF isFor
  <2>2. directory(n) \in Entry
    BY <2>1, RootHasNone, DirectoryIs, ParentsAre
  <2> QED BY <1>2, <2>2 DEF at
<1> QED BY <1>1, <1>2

LEMMA MetNothing ==
    ASSUME tree \in Trees, NEW k \in Walker
    PROVE  metBefore(k, 1) = {}
<1> SUFFICES ASSUME NEW n \in metBefore(k, 1) PROVE FALSE
  OBVIOUS
<1>1. n \in Entry /\ isFor(k, n) /\ at(k, n) < 1
  BY DEF metBefore
<1> QED BY <1>1, MetPlace, Shape

LEMMA MetAll ==
    ASSUME tree \in Trees, NEW k \in Walker, NEW q \in Int, q > Len(tree)
    PROVE  metBefore(k, q) = mine(k)
<1>1. ASSUME NEW n \in Entry, isFor(k, n) PROVE at(k, n) < q
  <2>1. at(k, n) \in Entry
    BY <1>1, MetPlace
  <2>2. at(k, n) \in Int /\ at(k, n) <= Len(tree) /\ Len(tree) \in Nat
    BY <2>1, Shape
  <2> QED BY <2>2
<1>2. k /= "gomodreplace"
  BY DEF Walker
<1> QED BY <1>1, <1>2 DEF metBefore, mine

LEMMA MetNext ==
    ASSUME tree \in Trees, NEW k \in Walker, NEW q \in Entry, reaches(k, q), ~skipped(k, q)
    PROVE  /\ metBefore(k, q + 1) = metBefore(k, q) \union own(k, q)
           /\ \A n \in metBefore(k, q) : n \notin own(k, q)
<1>1. ASSUME NEW n \in Entry, isFor(k, n)
      PROVE  /\ at(k, n) < q + 1 <=> at(k, n) < q \/ at(k, n) = q
             /\ ~(at(k, n) < q /\ at(k, n) = q)
  <2>1. at(k, n) \in Entry
    BY <1>1, MetPlace
  <2>2. at(k, n) \in Int /\ q \in Int
    BY <2>1, Shape
  <2> QED BY <2>2
<1>2. \A n \in own(k, q) : reaches(k, n)
  BY ReachOwn
<1> QED BY <1>1, <1>2 DEF metBefore, own

LEMMA MetPast ==
    ASSUME tree \in Trees, NEW k \in Walker, NEW q \in Entry, skipped(k, q)
    PROVE  metBefore(k, after(q)) = metBefore(k, q)
<1>1. ASSUME NEW n \in Entry, isFor(k, n), reaches(k, n)
      PROVE  at(k, n) < after(q) <=> at(k, n) < q
  <2>1. at(k, n) \in Entry
    BY <1>1, MetPlace
  <2>2. at(k, n) \in Int /\ q \in Int /\ after(q) \in Int /\ q < after(q)
    BY <2>1, Shape, AfterIs
  <2>3. ~(q <= at(k, n) /\ at(k, n) < after(q))
    BY <1>1, SkipLosesNothing
  <2> QED BY <2>2, <2>3
<1> QED BY <1>1 DEF metBefore

-----------------------------------------------------------------------------
(* The run *)

checker == checkers[c]
faultsOf(k) == {x \in faulty : x.checker = k}
faultsBefore(j) == {x \in faulty : \E l \in 1 .. j - 1 : checkers[l] = x.checker}

walkErrors == \E n \in Entry : ~tree[n].walkable /\ reaches("migrations", n)
modError == \E n \in goMod : ~tree[n].readable

\* The numbers of the checkers, and the first that walks finds the errors of all.
TypeInv ==
    /\ tree \in Trees
    /\ pc \in {"next", "walk", "look", "print", "exit"}
    /\ c \in 1 .. 6
    /\ pc = "walk" => c /= 5
    /\ pc \in {"next", "walk", "look"} => c /= 6
    /\ pc = "print" => c = 6
    /\ pc /= "exit" => printed = <<>> /\ code = -1

\* The walk is at an entry that the checker reaches, met no error at any before it, and has
\* found just what the checker is to look at up to there, each file once.
WalkInv == pc = "walk" =>
    /\ p \in Int
    /\ p <= Len(tree) => p \in Entry /\ reaches(checker, p)
    /\ \A n \in Entry : n < p /\ reaches(checker, n) => tree[n].walkable
    /\ returned = <<>>
    /\ found \in Seq(Entry) /\ IsInjective(found)
    /\ ToSet(found) = metBefore(checker, p)

\* What was returned and what is yet to be looked at make up the faults of the checker.
LookInv == pc = "look" =>
    /\ found \in Seq(Entry) /\ IsInjective(found)
    /\ ToSet(found) \subseteq mine(checker)
    /\ returned \in Seq(due) /\ IsInjective(returned)
    /\ ToSet(returned) = {x \in faultsOf(checker) : x.entry \notin ToSet(found)}

ErrorInv ==
    /\ pc /= "exit" /\ (c > 1 \/ pc = "look") => ~walkErrors
    /\ pc /= "exit" /\ (c = 6 \/ (c = 5 /\ pc = "look")) => ~modError

DiagsInv == pc /= "exit" =>
    /\ diags \in Seq(due) /\ IsInjective(diags)
    /\ ToSet(diags) = faultsBefore(c)

ExitInv == pc = "exit" =>
    \/ code = 1 /\ printed = <<>> /\ (walkErrors \/ modError)
    \/ /\ code = IF printed = <<>> THEN 0 ELSE 1
       /\ ~walkErrors /\ ~modError
       /\ ToSet(printed) = faulty /\ IsInjective(printed)

Inv == TypeInv /\ WalkInv /\ LookInv /\ ErrorInv /\ DiagsInv /\ ExitInv

LEMMA CheckerIs ==
    /\ Len(checkers) = 5
    /\ \A j \in 1 .. 4 : checkers[j] \in Walker
    /\ checkers[1] = "migrations" /\ checkers[5] = "gomodreplace"
    /\ \A j, k \in 1 .. 5 : checkers[j] = checkers[k] => j = k
    /\ Checker = {checkers[j] : j \in 1 .. 5}
<1>1. /\ checkers[1] = "migrations" /\ checkers[2] = "structtags" /\ checkers[3] = "protobuf"
      /\ checkers[4] = "sqlnow" /\ checkers[5] = "gomodreplace" /\ Len(checkers) = 5
      /\ DOMAIN checkers = 1 .. 5
  BY DEF checkers
<1>2. \A j \in 1 .. 5 : j = 1 \/ j = 2 \/ j = 3 \/ j = 4 \/ j = 5
  OBVIOUS
<1>3. \A j \in 1 .. 4 : j = 1 \/ j = 2 \/ j = 3 \/ j = 4
  OBVIOUS
<1>4. \A j \in 1 .. 4 : checkers[j] \in Walker
  BY <1>1, <1>3 DEF Walker
<1>5. \A j, k \in 1 .. 5 : checkers[j] = checkers[k] => j = k
  BY <1>1, <1>2
<1>6. Checker = {checkers[j] : j \in 1 .. 5}
  BY <1>1 DEF Checker, ToSet
<1> QED BY <1>1, <1>4, <1>5, <1>6

\* The repository does not change under the run.
LEMMA Still ==
    ASSUME tree' = tree
    PROVE  /\ Entry' = Entry /\ due' = due /\ faulty' = faulty /\ goMod' = goMod
           /\ walkErrors' = walkErrors /\ modError' = modError
           /\ \A k, n : reaches(k, n)' = reaches(k, n)
           /\ \A k, q : metBefore(k, q)' = metBefore(k, q)
           /\ \A k : mine(k)' = mine(k)
           /\ \A k : faultsOf(k)' = faultsOf(k)
           /\ \A j : faultsBefore(j)' = faultsBefore(j)
           /\ \A n : after(n)' = after(n)
<1>1. Entry' = Entry /\ goMod' = goMod
  BY DEF Entry, goMod
<1>2. \A n : after(n)' = after(n)
  BY DEF after
<1>3. \A n : parents(n)' = parents(n)
  BY <1>2 DEF parents
<1>4. \A n : directory(n)' = directory(n)
  BY <1>3 DEF directory
<1>5. \A k, n : reaches(k, n)' = reaches(k, n)
  BY <1>3 DEF reaches
<1>6. \A k, n : isFor(k, n)' = isFor(k, n)
  BY <1>1, <1>3, <1>4 DEF isFor
<1>7. \A k, n : at(k, n)' = at(k, n)
  BY <1>4 DEF at
<1>8. \A k, q : metBefore(k, q)' = metBefore(k, q)
  BY <1>1, <1>5, <1>6, <1>7 DEF metBefore
<1>9. \A k : mine(k)' = mine(k)
  BY <1>1, <1>5, <1>6 DEF mine
<1>10. due' = due
  BY DEF due
<1>11. faulty' = faulty
  BY <1>5, <1>6, <1>10 DEF faulty
<1>12. \A k : faultsOf(k)' = faultsOf(k)
  BY <1>11 DEF faultsOf
<1>13. \A j : faultsBefore(j)' = faultsBefore(j)
  BY <1>11 DEF faultsBefore
<1>14. walkErrors' = walkErrors /\ modError' = modError
  BY <1>1, <1>5 DEF walkErrors, modError
<1> QED BY <1>1, <1>2, <1>5, <1>8, <1>9, <1>10, <1>11, <1>12, <1>13, <1>14

LEMMA InitInv == Init => Inv
<1> SUFFICES ASSUME Init PROVE Inv
  OBVIOUS
<1>1. faultsBefore(1) = {}
  BY DEF faultsBefore
<1>2. diags \in Seq(due) /\ IsInjective(diags) /\ ToSet(diags) = {}
  BY Empty DEF Init
<1>3. DiagsInv
  BY <1>1, <1>2 DEF Init, DiagsInv
<1>4. TypeInv
  BY DEF Init, TypeInv
<1>5. WalkInv /\ LookInv /\ ErrorInv /\ ExitInv
  BY DEF Init, WalkInv, LookInv, ErrorInv, ExitInv
<1> QED BY <1>3, <1>4, <1>5 DEF Inv

LEMMA StartStep ==
    ASSUME Inv, StartWalk \/ StartGoMod
    PROVE  Inv'
<1>1. /\ pc = "next" /\ returned' = <<>> /\ UNCHANGED <<tree, c, diags, printed, code>>
      /\ pc' \in {"walk", "look"}
  BY DEF StartWalk, StartGoMod, output
<1>2. tree \in Trees /\ c \in 1 .. 5 /\ c \in Int
  BY <1>1 DEF Inv, TypeInv
<1>3. Len(checkers) = 5
  BY CheckerIs
<1>4. TypeInv'
  BY <1>1, <1>2, <1>3 DEF Inv, TypeInv, StartWalk, StartGoMod
<1>5. DiagsInv' /\ ExitInv'
  BY <1>1, Still DEF Inv, DiagsInv, ExitInv
<1>6. <<>> \in Seq(Entry) /\ <<>> \in Seq(due) /\ ToSet(<<>>) = {} /\ IsInjective(<<>>)
  BY Empty
<1>7. CASE StartWalk
  <2>1. c < 5 /\ p' = 1 /\ found' = <<>> /\ pc' = "walk" /\ checker' = checker
    BY <1>1, <1>3, <1>7 DEF StartWalk, checker
  <2>2. checker \in Walker
    BY <1>2, <2>1, CheckerIs DEF checker
  <2>3. metBefore(checker, 1) = {}
    BY <1>2, <2>2, MetNothing
  <2>4. 1 <= Len(tree) => 1 \in Entry /\ reaches(checker, 1)
    <3> SUFFICES ASSUME 1 <= Len(tree) PROVE 1 \in Entry /\ reaches(checker, 1)
      OBVIOUS
    <3>1. 1 \in Entry
      BY <1>2, Shape DEF Entry
    <3>2. parents(1) = {}
      BY DEF parents
    <3> QED BY <3>1, <3>2 DEF reaches
  <2>5. \A n \in Entry : ~(n < 1)
    BY <1>2, Shape
  <2>6. WalkInv'
    <3>1. /\ p' \in Int /\ (p' <= Len(tree) => p' \in Entry /\ reaches(checker, p'))
          /\ \A n \in Entry : ~(n < p')
          /\ found' \in Seq(Entry) /\ IsInjective(found')
          /\ ToSet(found') = metBefore(checker, p')
      BY <1>6, <2>1, <2>3, <2>4, <2>5
    <3> QED BY <1>1, <2>1, <3>1, Still DEF WalkInv
  <2>7. LookInv' /\ ErrorInv'
    BY <1>1, <2>1, Still DEF Inv, LookInv, ErrorInv
  <2> QED BY <1>4, <1>5, <2>6, <2>7 DEF Inv
<1>8. CASE StartGoMod
  <2>1. /\ c = 5 /\ found' = inOrder(goMod) /\ pc' = "look" /\ ~modError
        /\ checker' = checker /\ checker = "gomodreplace"
    BY <1>1, <1>3, <1>8, CheckerIs DEF StartGoMod, checker, modError
  <2>2. goMod = mine(checker) /\ goMod \subseteq Entry
    BY <2>1 DEF mine, isFor, goMod, Entry
  <2>3. inOrder(goMod) \in Seq(goMod) /\ ToSet(inOrder(goMod)) = goMod /\ IsInjective(inOrder(goMod))
    BY <1>2, <2>2, InOrder, Shape DEF Entry
  <2>4. inOrder(goMod) \in Seq(Entry)
    BY <2>2, <2>3, SeqMonotonic
  <2>5. {x \in faultsOf(checker) : x.entry \notin goMod} = {}
    BY <2>1 DEF faultsOf, faulty, isFor
  <2>6. LookInv'
    BY <1>1, <1>6, <2>1, <2>2, <2>3, <2>4, <2>5, Still DEF LookInv
  <2>7. WalkInv' /\ ErrorInv'
    BY <1>1, <2>1, Still DEF Inv, WalkInv, ErrorInv
  <2> QED BY <1>4, <1>5, <2>6, <2>7 DEF Inv
<1> QED BY <1>7, <1>8

LEMMA VisitStep ==
    ASSUME Inv, Visit
    PROVE  Inv'
<1> DEFINE k == checkers[c]
<1>1. /\ pc = "walk" /\ pc' = "walk" /\ p <= Len(tree) /\ tree[p].walkable
      /\ UNCHANGED <<tree, c, returned, diags, printed, code>>
      /\ checker = k /\ checker' = k
  BY DEF Visit, output, checker
<1>2. /\ tree \in Trees /\ k \in Walker
      /\ p \in Entry /\ reaches(k, p) /\ p \in Int
      /\ \A n \in Entry : n < p /\ reaches(k, n) => tree[n].walkable
      /\ returned = <<>>
      /\ found \in Seq(Entry) /\ IsInjective(found) /\ ToSet(found) = metBefore(k, p)
  <2>1. c \in 1 .. 4
    BY <1>1 DEF Inv, TypeInv
  <2>2. k \in Walker
    BY <2>1, CheckerIs
  <2> HIDE DEF k
  <2> QED BY <1>1, <2>2 DEF Inv, TypeInv, WalkInv
<1>3. IF skipped(k, p) THEN p' = after(p) /\ found' = found
                       ELSE p' = p + 1 /\ found' = found \o wants(k, p)
  BY DEF Visit, skipped
<1> HIDE DEF k
<1>4. /\ found' \in Seq(Entry) /\ IsInjective(found') /\ ToSet(found') = metBefore(k, p')
      /\ p' \in Int /\ Len(tree) \in Nat
      /\ p' <= Len(tree) => p' \in Entry /\ reaches(k, p')
      /\ \A n \in Entry : n < p' /\ reaches(k, n) => tree[n].walkable
  <2>1. /\ \A n \in Entry : n \in Int
        /\ p >= 1 /\ Len(tree) \in Nat /\ after(p) \in Int /\ after(p) > p
    BY <1>2, Shape, AfterIs
  <2>2. CASE skipped(k, p)
    <3>1. metBefore(k, after(p)) = metBefore(k, p)
      BY <1>2, <2>2, MetPast
    <3>2. after(p) <= Len(tree) => after(p) \in Entry
      BY <2>1, <1>2 DEF Entry
    <3>3. after(p) <= Len(tree) => reaches(k, after(p))
      BY <1>2, <3>2, ReachPast
    <3>4. ASSUME NEW n \in Entry, n < after(p), reaches(k, n) PROVE tree[n].walkable
      <4>1. ~(p < n)
        BY <1>2, <2>2, <3>4, ReachInside
      <4>2. n = p \/ n < p
        BY <1>2, <2>1, <4>1
      <4> QED BY <1>1, <1>2, <3>4, <4>2
    <3> QED BY <1>2, <1>3, <2>1, <2>2, <3>1, <3>2, <3>3, <3>4
  <2>3. CASE ~skipped(k, p)
    <3>1. /\ metBefore(k, p + 1) = metBefore(k, p) \union own(k, p)
          /\ \A n \in metBefore(k, p) : n \notin own(k, p)
      BY <1>2, <2>3, MetNext
    <3>2. wants(k, p) \in Seq(Entry) /\ ToSet(wants(k, p)) = own(k, p) /\ IsInjective(wants(k, p))
      BY <1>2, WantsAre
    <3>3. /\ found \o wants(k, p) \in Seq(Entry) /\ IsInjective(found \o wants(k, p))
          /\ ToSet(found \o wants(k, p)) = ToSet(found) \union own(k, p)
      BY <1>2, <3>1, <3>2, ConcatNew
    <3>4. p + 1 <= Len(tree) => p + 1 \in Entry
      BY <2>1, <1>2 DEF Entry
    <3>5. p + 1 <= Len(tree) => reaches(k, p + 1)
      BY <1>2, <2>3, <3>4, ReachNext
    <3>6. \A n \in Entry : n < p + 1 /\ reaches(k, n) => tree[n].walkable
      <4>1. \A n \in Entry : n < p + 1 => n = p \/ n < p
        BY <1>2, <2>1
      <4> QED BY <1>1, <1>2, <4>1
    <3>7. p' = p + 1 /\ found' = found \o wants(k, p) /\ p' \in Int
      BY <1>2, <1>3, <2>3
    <3>8. found' \in Seq(Entry) /\ IsInjective(found') /\ ToSet(found') = metBefore(k, p')
      BY <1>2, <3>1, <3>3, <3>7
    <3> QED BY <2>1, <3>4, <3>5, <3>6, <3>7, <3>8
  <2> QED BY <2>2, <2>3
<1>5. TypeInv' /\ LookInv' /\ ErrorInv' /\ DiagsInv' /\ ExitInv'
  BY <1>1, Still DEF Inv, TypeInv, LookInv, ErrorInv, DiagsInv, ExitInv
<1>6. WalkInv'
  BY <1>1, <1>2, <1>4, Still DEF WalkInv
<1> QED BY <1>5, <1>6 DEF Inv

LEMMA DueIs ==
    ASSUME NEW x \in due
    PROVE  /\ x.checker \in Checker /\ x.entry \in Entry
           /\ x = [checker |-> x.checker, entry |-> x.entry]
BY DEF due, Entry

LEMMA EndWalkStep ==
    ASSUME Inv, EndWalk
    PROVE  Inv'
<1> DEFINE k == checkers[c]
<1>1. /\ pc = "walk" /\ p > Len(tree) /\ pc' = "look"
      /\ UNCHANGED <<tree, c, p, found, returned, diags, printed, code>>
      /\ checker = k /\ checker' = k
  BY DEF EndWalk, output, checker
<1>2. /\ tree \in Trees /\ c \in 1 .. 4 /\ p \in Int
      /\ \A n \in Entry : n < p /\ reaches(k, n) => tree[n].walkable
      /\ returned = <<>>
      /\ found \in Seq(Entry) /\ IsInjective(found) /\ ToSet(found) = metBefore(k, p)
  BY <1>1 DEF Inv, TypeInv, WalkInv
<1>3. k \in Walker /\ (c = 1 => k = "migrations")
  BY <1>2, CheckerIs
<1> HIDE DEF k
<1>4. ToSet(found) = mine(k)
  BY <1>1, <1>2, <1>3, MetAll
<1>5. \A n \in Entry : n < p
  BY <1>1, <1>2, Shape
<1>6. {x \in faultsOf(k) : x.entry \notin mine(k)} = {}
  <2> SUFFICES ASSUME NEW x \in faultsOf(k) PROVE x.entry \in mine(k)
    OBVIOUS
  <2>1. x \in due /\ x.checker = k
    BY DEF faultsOf, faulty
  <2>2. isFor(k, x.entry) /\ (k = "gomodreplace" \/ reaches(k, x.entry))
    BY <2>1 DEF faultsOf, faulty
  <2> QED BY <2>1, <2>2, DueIs DEF mine
<1>7. <<>> \in Seq(due) /\ ToSet(<<>>) = {} /\ IsInjective(<<>>)
  BY Empty
<1>8. LookInv'
  <2>1. /\ found' \in Seq(Entry) /\ IsInjective(found') /\ ToSet(found') \subseteq mine(k)
        /\ returned' \in Seq(due) /\ IsInjective(returned')
        /\ ToSet(returned') = {x \in faultsOf(k) : x.entry \notin ToSet(found')}
    BY <1>1, <1>2, <1>4, <1>6, <1>7
  <2> QED BY <1>1, <2>1, Still DEF LookInv
<1>9. ErrorInv'
  <2>1. c = 1 => ~walkErrors
    BY <1>2, <1>3, <1>5 DEF walkErrors
  <2>2. c > 1 => ~walkErrors
    BY <1>1 DEF Inv, ErrorInv
  <2>3. ~walkErrors /\ c /= 5 /\ c /= 6
    BY <1>2, <2>1, <2>2
  <2> QED BY <1>1, <2>3, Still DEF ErrorInv
<1>10. TypeInv' /\ WalkInv' /\ DiagsInv' /\ ExitInv'
  BY <1>1, <1>2, Still DEF Inv, TypeInv, WalkInv, DiagsInv, ExitInv
<1> QED BY <1>8, <1>9, <1>10 DEF Inv

LEMMA LookStep ==
    ASSUME Inv, Look
    PROVE  Inv'
<1> DEFINE k == checkers[c]
           n == Head(found)
           x0 == [checker |-> k, entry |-> n]
<1>1. /\ pc = "look" /\ pc' = "look" /\ found /= <<>> /\ found' = Tail(found)
      /\ UNCHANGED <<tree, c, p, diags, printed, code>>
      /\ checker = k /\ checker' = k
      /\ returned' = IF examines(k, n) /\ k \in tree[n].faults THEN Append(returned, x0)
                                                               ELSE returned
  BY DEF Look, output, checker
<1>2. /\ tree \in Trees /\ c \in 1 .. 5
      /\ found \in Seq(Entry) /\ IsInjective(found) /\ ToSet(found) \subseteq mine(k)
      /\ returned \in Seq(due) /\ IsInjective(returned)
      /\ ToSet(returned) = {x \in faultsOf(k) : x.entry \notin ToSet(found)}
  BY <1>1 DEF Inv, TypeInv, LookInv
<1>3. k \in Checker
  BY <1>2, CheckerIs
<1>4. x0.checker = k /\ x0.entry = n
  OBVIOUS
<1>5. /\ n \in Entry /\ n \in ToSet(found) /\ Tail(found) \in Seq(Entry) /\ IsInjective(Tail(found))
      /\ ToSet(Tail(found)) = ToSet(found) \ {n}
  BY <1>1, <1>2, HeadTail
<1>6. x0 \in due
  BY <1>3, <1>5 DEF due, Entry
<1>7. x0 \in faulty <=> examines(k, n) /\ k \in tree[n].faults
  <2>1. n \in mine(k)
    BY <1>2, <1>5
  <2>2. isFor(k, n) /\ (k = "gomodreplace" \/ reaches(k, n))
    BY <2>1 DEF mine
  <2>3. x0 \in faulty <=> /\ isFor(k, n) /\ (k = "gomodreplace" \/ reaches(k, n))
                          /\ examines(k, n) /\ k \in tree[n].faults
    BY <1>4, <1>6 DEF faulty, examines
  <2> QED BY <2>2, <2>3
<1>8. \A x \in faultsOf(k) : x.entry = n <=> x = x0
  <2> SUFFICES ASSUME NEW x \in faultsOf(k), x.entry = n PROVE x = x0
    BY <1>4
  <2>1. x \in due /\ x.checker = k
    BY DEF faultsOf, faulty
  <2>2. x = [checker |-> x.checker, entry |-> x.entry]
    BY <2>1, DueIs
  <2> QED BY <2>1, <2>2
<1>9. x0 \in faultsOf(k) <=> x0 \in faulty
  BY <1>4 DEF faultsOf
<1> HIDE DEF k, n, x0
<1>10. x0 \notin ToSet(returned)
  BY <1>2, <1>4, <1>5
<1>11. /\ returned' \in Seq(due) /\ IsInjective(returned')
       /\ ToSet(returned') = ToSet(returned) \union (IF x0 \in faulty THEN {x0} ELSE {})
  <2>1. CASE x0 \in faulty
    <3>1. returned' = Append(returned, x0)
      BY <1>1, <1>7, <2>1
    <3> QED BY <1>2, <1>6, <1>10, <2>1, <3>1, AppendNew
  <2>2. CASE x0 \notin faulty
    BY <1>1, <1>2, <1>7, <2>2
  <2> QED BY <2>1, <2>2
<1>12. ToSet(returned') = {x \in faultsOf(k) : x.entry \notin ToSet(found')}
  BY <1>1, <1>2, <1>4, <1>5, <1>8, <1>9, <1>11
<1>13. LookInv'
  <2>1. found' \in Seq(Entry) /\ IsInjective(found') /\ ToSet(found') \subseteq mine(k)
    BY <1>1, <1>2, <1>5
  <2> QED BY <1>1, <1>11, <1>12, <2>1, Still DEF LookInv
<1>14. TypeInv' /\ WalkInv' /\ ErrorInv' /\ DiagsInv' /\ ExitInv'
  BY <1>1, Still DEF Inv, TypeInv, WalkInv, ErrorInv, DiagsInv, ExitInv
<1> QED BY <1>13, <1>14 DEF Inv

LEMMA EndCheckStep ==
    ASSUME Inv, EndCheck
    PROVE  Inv'
<1> DEFINE k == checkers[c]
<1>1. /\ pc = "look" /\ found = <<>> /\ diags' = diags \o returned /\ c' = c + 1
      /\ pc' = (IF c = 5 THEN "print" ELSE "next")
      /\ UNCHANGED <<tree, printed, code>> /\ checker = k
  BY CheckerIs DEF EndCheck, output, checker
<1>2. /\ tree \in Trees /\ c \in 1 .. 5
      /\ returned \in Seq(due) /\ IsInjective(returned)
      /\ diags \in Seq(due) /\ IsInjective(diags) /\ ToSet(diags) = faultsBefore(c)
      /\ ToSet(returned) = faultsOf(k)
  <2>1. tree \in Trees /\ c \in 1 .. 5
    BY <1>1 DEF Inv, TypeInv
  <2>2. diags \in Seq(due) /\ IsInjective(diags) /\ ToSet(diags) = faultsBefore(c)
    BY <1>1 DEF Inv, DiagsInv
  <2>3. /\ returned \in Seq(due) /\ IsInjective(returned)
        /\ ToSet(returned) = {x \in faultsOf(k) : x.entry \notin ToSet(found)}
    BY <1>1 DEF Inv, LookInv
  <2>4. ToSet(found) = {}
    BY <1>1, Empty
  <2> QED BY <2>1, <2>2, <2>3, <2>4
<1>3. \A l \in 1 .. c - 1 : checkers[l] /= k
  <2>1. \A l \in 1 .. c - 1 : l \in 1 .. 5 /\ l /= c
    BY <1>2
  <2> QED BY <1>2, <2>1, CheckerIs
<1>4. \A l : l \in 1 .. (c + 1) - 1 <=> l \in 1 .. c - 1 \/ l = c
  BY <1>2
<1>5. /\ faultsBefore(c + 1) = faultsBefore(c) \union faultsOf(k)
      /\ \A x \in faultsBefore(c) : x \notin faultsOf(k)
  BY <1>3, <1>4 DEF faultsBefore, faultsOf
<1>6. /\ diags' \in Seq(due) /\ IsInjective(diags') /\ ToSet(diags') = faultsBefore(c')
  <2>1. \A x \in ToSet(diags) : x \notin ToSet(returned)
    BY <1>2, <1>5
  <2>2. /\ diags \o returned \in Seq(due) /\ IsInjective(diags \o returned)
        /\ ToSet(diags \o returned) = ToSet(diags) \union ToSet(returned)
    BY <1>2, <2>1, ConcatNew
  <2> HIDE DEF k
  <2> QED BY <1>1, <1>2, <1>5, <2>2
<1>7. DiagsInv'
  BY <1>1, <1>6, Still DEF DiagsInv
<1>8. TypeInv' /\ WalkInv' /\ LookInv' /\ ExitInv'
  BY <1>1, <1>2, Still DEF Inv, TypeInv, WalkInv, LookInv, ExitInv
<1>9. ErrorInv'
  <2>1. ~walkErrors /\ (c = 5 => ~modError) /\ (c' = 6 => c = 5)
    BY <1>1, <1>2 DEF Inv, ErrorInv
  <2>2. pc' /= "look"
    BY <1>1
  <2> QED BY <1>1, <2>1, <2>2, Still DEF ErrorInv
<1> QED BY <1>7, <1>8, <1>9 DEF Inv

LEMMA FailStep ==
    ASSUME Inv, Fail
    PROVE  Inv'
<1>1. /\ pc' = "exit" /\ code' = 1
      /\ UNCHANGED <<tree, c, p, found, returned, diags, printed>>
      /\ pc /= "exit"
  BY DEF Fail, cannotGoOn
<1>2. walkErrors \/ modError
  <2>1. ASSUME pc = "walk", p <= Len(tree), ~tree[p].walkable PROVE walkErrors
    <3>1. p \in Entry /\ reaches(checker, p) /\ c \in 1 .. 4
      BY <2>1 DEF Inv, TypeInv, WalkInv
    <3>2. checker \in Walker
      BY <3>1, CheckerIs DEF checker
    <3>3. reaches("migrations", p)
      BY <3>1, <3>2, ReachedByAll
    <3> QED BY <2>1, <3>1, <3>3 DEF walkErrors
  <2> QED BY <2>1 DEF Fail, cannotGoOn, modError
<1>3. printed = <<>>
  BY <1>1 DEF Inv, TypeInv
<1>4. ExitInv'
  BY <1>1, <1>2, <1>3, Still DEF ExitInv
<1>5. TypeInv' /\ WalkInv' /\ LookInv' /\ ErrorInv' /\ DiagsInv'
  BY <1>1 DEF Inv, TypeInv, WalkInv, LookInv, ErrorInv, DiagsInv
<1> QED BY <1>4, <1>5 DEF Inv

LEMMA ExitStep ==
    ASSUME Inv, Exit
    PROVE  Inv'
<1>1. /\ pc = "print" /\ pc' = "exit" /\ printed' = diags
      /\ code' = (IF diags = <<>> THEN 0 ELSE 1)
      /\ UNCHANGED <<tree, c, p, found, returned, diags>>
  BY DEF Exit
<1>2. c = 6 /\ ~walkErrors /\ ~modError /\ IsInjective(diags) /\ ToSet(diags) = faultsBefore(6)
  BY <1>1 DEF Inv, TypeInv, ErrorInv, DiagsInv
<1>3. faultsBefore(6) = faulty
  <2>1. \A x \in faulty : \E l \in 1 .. 5 : checkers[l] = x.checker
    <3>1. \A x \in faulty : x.checker \in Checker
      BY DueIs DEF faulty
    <3> QED BY <3>1, CheckerIs
  <2> QED BY <2>1 DEF faultsBefore
<1>4. ExitInv'
  BY <1>1, <1>2, <1>3, Still DEF ExitInv
<1>5. TypeInv' /\ WalkInv' /\ LookInv' /\ ErrorInv' /\ DiagsInv'
  BY <1>1 DEF Inv, TypeInv, WalkInv, LookInv, ErrorInv, DiagsInv
<1> QED BY <1>4, <1>5 DEF Inv

LEMMA InvStep == Inv /\ [Next]_vars => Inv'
<1> SUFFICES ASSUME Inv, [Next]_vars PROVE Inv'
  OBVIOUS
<1>1. CASE StartWalk \/ StartGoMod
  BY <1>1, StartStep
<1>2. CASE Visit
  BY <1>2, VisitStep
<1>3. CASE EndWalk
  BY <1>3, EndWalkStep
<1>4. CASE Look
  BY <1>4, LookStep
<1>5. CASE EndCheck
  BY <1>5, EndCheckStep
<1>6. CASE Fail
  BY <1>6, FailStep
<1>7. CASE Exit
  BY <1>7, ExitStep
<1>8. CASE UNCHANGED vars
  <2>1. UNCHANGED <<tree, pc, c, p, found, returned, diags, printed, code>> /\ checker' = checker
    BY <1>8 DEF vars, checker
  <2>2. TypeInv' /\ ErrorInv' /\ ExitInv'
    BY <2>1, Still DEF Inv, TypeInv, ErrorInv, ExitInv
  <2>3. WalkInv'
    BY <2>1, Still DEF Inv, WalkInv
  <2>4. LookInv' /\ DiagsInv'
    BY <2>1, Still DEF Inv, LookInv, DiagsInv
  <2> QED BY <2>2, <2>3, <2>4 DEF Inv
<1> QED BY <1>1, <1>2, <1>3, <1>4, <1>5, <1>6, <1>7, <1>8 DEF Next, Terminated

-----------------------------------------------------------------------------
(* What the exit code and the output tell, of every repository *)

\* moovlint repo exits with 0 only if no checker had anything to report (main.go, RunAll).
THEOREM RepoSuccessMeansClean == Spec => []SuccessMeansClean
<1>1. Inv => SuccessMeansClean
  BY Empty DEF Inv, TypeInv, ExitInv, SuccessMeansClean
<1> QED BY <1>1, InitInv, InvStep, PTL DEF Spec

\* What is printed is nothing, or all the faults of all the checkers, each once.
THEOREM RepoAllOrNothing == Spec => []AllOrNothing
<1>1. Inv => AllOrNothing
  BY DEF Inv, ExitInv, AllOrNothing
<1> QED BY <1>1, InitInv, InvStep, PTL DEF Spec

\* The run ends with an error exactly if a place that the widest walk looks at has one, or
\* go.mod has: each of the other walks goes to fewer places.
THEOREM RepoFailsOnErrors == Spec => []FailsOnErrors
<1>1. Inv => FailsOnErrors
  BY DEF Inv, ExitInv, FailsOnErrors, walkErrors, modError, Entry
<1> QED BY <1>1, InitInv, InvStep, PTL DEF Spec
=============================================================================
