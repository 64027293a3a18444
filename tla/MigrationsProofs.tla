--------------------------- MODULE MigrationsProofs ---------------------------
(* What the silence of the migrations checker means, for every directory.           *)
EXTENDS Migrations, FiniteSetTheorems, SequenceTheorems, TLAPS

-----------------------------------------------------------------------------
(* Induction over the naturals, for sets of them. *)

LEMMA Least ==
    ASSUME NEW T \in SUBSET Nat, T /= {}
    PROVE  \E x \in T : \A y \in T : x <= y
<1>1. PICK x \in T : \A y \in T : <<y, x>> \notin OpToRel(<, Nat)
  BY NatLessThanWellFounded, WFMin
<1>2. \A y \in T : ~(y < x)
  BY <1>1 DEF OpToRel
<1>3. \A y \in T : y \in Int
  OBVIOUS
<1>4. \A y, z \in Int : ~(y < z) => z <= y
  OBVIOUS
<1>5. \A y \in T : x <= y
  BY <1>2, <1>3, <1>4
<1> QED BY <1>5

LEMMA SetInduction ==
    ASSUME NEW S, 0 \in S, \A n \in Nat : n \in S => n + 1 \in S
    PROVE  Nat \subseteq S
<1> DEFINE T == Nat \ S
<1> SUFFICES ASSUME T /= {} PROVE FALSE
  OBVIOUS
<1>1. PICK x \in T : \A y \in T : x <= y
  BY Least
<1>2. x /= 0
  BY <1>1
<1>3. x - 1 \in Nat /\ x - 1 \notin T
  BY <1>1, <1>2
<1>4. x - 1 \in S /\ (x - 1) + 1 = x
  BY <1>1, <1>3
<1> QED BY <1>1, <1>3, <1>4

-----------------------------------------------------------------------------
(* Numbers: the fold of seq, digit by digit. *)

value(digits) == FoldLeft(LAMBDA v, digit : 10 * v + digit, 0, digits)

\* g gives the number made of the digits at the places of a set.
Folds(g, places, digits) ==
    g = [s \in SUBSET places |-> IF s = {} THEN 0 ELSE 10 * g[s \ {Max(s)}] + digits[Max(s)]]

LEMMA ValueIsFold ==
    ASSUME NEW digits
    PROVE  value(digits) = (CHOOSE g : Folds(g, DOMAIN digits, digits))[DOMAIN digits]
BY DEF value, FoldLeft, MapThenFoldSet, Folds

LEMMA LastPlace ==
    ASSUME NEW m \in Nat, NEW s \in SUBSET (1 .. m), m \in s
    PROVE  Max(s) = m
<1>1. \A y \in s : m >= y
  OBVIOUS
<1>2. \E x \in s : \A y \in s : x >= y
  BY <1>1
<1>3. Max(s) \in s /\ \A y \in s : Max(s) >= y
  BY <1>2 DEF Max
<1>4. Max(s) \in 1 .. m /\ Max(s) >= m
  BY <1>3
<1>5. \A x \in 1 .. m : x >= m => x = m
  OBVIOUS
<1> QED BY <1>4, <1>5

\* A fold over one place more is an extension of the fold before it.
LEMMA FoldExists ==
    ASSUME NEW digits
    PROVE  \A n \in Nat : \E g : Folds(g, 1 .. n, digits)
<1> DEFINE S == {n \in Nat : \E g : Folds(g, 1 .. n, digits)}
<1>1. 0 \in S
  <2> DEFINE g == [s \in SUBSET (1 .. 0) |-> 0]
  <2>1. 1 .. 0 = {}
    OBVIOUS
  <2>2. \A s \in SUBSET (1 .. 0) : s = {}
    BY <2>1
  <2>3. g = [s \in SUBSET (1 .. 0) |->
               IF s = {} THEN 0 ELSE 10 * g[s \ {Max(s)}] + digits[Max(s)]]
    BY <2>2
  <2> HIDE DEF g
  <2> QED BY <2>3 DEF Folds
<1>2. ASSUME NEW n \in Nat, n \in S PROVE n + 1 \in S
  <2>1. PICK g : Folds(g, 1 .. n, digits)
    BY <1>2
  <2> DEFINE P == SUBSET (1 .. n)
             Q == SUBSET (1 .. n + 1)
             h == [s \in Q |-> IF n + 1 \in s THEN 10 * g[s \ {n + 1}] + digits[n + 1] ELSE g[s]]
  <2>2. \A s \in P : s \in Q /\ n + 1 \notin s
    OBVIOUS
  <2>3. \A s \in P : h[s] = g[s]
    BY <2>2
  <2>4. ASSUME NEW s \in Q
        PROVE  h[s] = IF s = {} THEN 0 ELSE 10 * h[s \ {Max(s)}] + digits[Max(s)]
    <3>1. CASE n + 1 \in s
      <4>1. Max(s) = n + 1
        BY <3>1, LastPlace
      <4>2. s \ {n + 1} \in P
        <5>1. \A k \in 1 .. n + 1 : k /= n + 1 => k \in 1 .. n
          OBVIOUS
        <5> QED BY <5>1
      <4>3. h[s] = 10 * g[s \ {n + 1}] + digits[n + 1]
        BY <3>1
      <4> QED BY <2>3, <3>1, <4>1, <4>2, <4>3
    <3>2. CASE n + 1 \notin s
      <4>1. s \in P
        <5>1. \A k \in 1 .. n + 1 : k /= n + 1 => k \in 1 .. n
          OBVIOUS
        <5> QED BY <3>2, <5>1
      <4>2. s \ {Max(s)} \in P
        BY <4>1
      <4>3. g[s] = IF s = {} THEN 0 ELSE 10 * g[s \ {Max(s)}] + digits[Max(s)]
        BY <2>1, <4>1 DEF Folds
      <4> QED BY <2>3, <4>1, <4>2, <4>3
    <3> QED BY <3>1, <3>2
  <2>5. h = [s \in Q |-> h[s]]
    OBVIOUS
  <2>6. h = [s \in Q |-> IF s = {} THEN 0 ELSE 10 * h[s \ {Max(s)}] + digits[Max(s)]]
    <3> HIDE DEF h, Q
    <3> QED BY <2>4, <2>5
  <2>7. Folds(h, 1 .. n + 1, digits)
    <3> HIDE DEF h
    <3> QED BY <2>6 DEF Folds
  <2> QED BY <2>7
<1> HIDE DEF S
<1>3. Nat \subseteq S
  BY <1>1, <1>2, SetInduction
<1> QED BY <1>3 DEF S

\* The value of a number, read from left to right.
LEMMA ValueReads ==
    ASSUME NEW digits \in Seq(0 .. 9)
    PROVE  \E v \in [0 .. Len(digits) -> Nat] :
              /\ v[0] = 0
              /\ \A m \in 1 .. Len(digits) : v[m] = 10 * v[m - 1] + digits[m]
              /\ value(digits) = v[Len(digits)]
<1> DEFINE n == Len(digits)
           g == CHOOSE x : Folds(x, 1 .. n, digits)
           v == [m \in 0 .. n |-> g[1 .. m]]
<1>1. n \in Nat /\ DOMAIN digits = 1 .. n /\ \A m \in 1 .. n : digits[m] \in 0 .. 9
  OBVIOUS
<1>2. Folds(g, 1 .. n, digits)
  BY <1>1, FoldExists
<1> HIDE DEF n, g
<1>3. v[0] = 0
  <2>1. 1 .. 0 = {} /\ 0 \in 0 .. n
    BY <1>1
  <2> QED BY <1>2, <2>1 DEF Folds
<1>4. ASSUME NEW m \in 1 .. n PROVE v[m] = 10 * v[m - 1] + digits[m]
  <2>1. m \in Nat /\ m \in 1 .. m /\ m \in 0 .. n /\ m - 1 \in 0 .. n
    BY <1>1
  <2>2. 1 .. m \in SUBSET (1 .. n) /\ 1 .. m /= {}
    <3>1. m <= n /\ m \in Int /\ n \in Int
      BY <1>1
    <3>2. \A x \in 1 .. m : x \in 1 .. n
      BY <3>1
    <3> QED BY <2>1, <3>2
  <2>3. Max(1 .. m) = m
    BY <2>1, LastPlace
  <2>4. (1 .. m) \ {m} = 1 .. m - 1
    BY <2>1
  <2>5. g[1 .. m] = 10 * g[1 .. m - 1] + digits[m]
    BY <1>2, <2>2, <2>3, <2>4 DEF Folds
  <2> QED BY <2>1, <2>5
<1>5. value(digits) = v[n]
  BY <1>1, ValueIsFold DEF g
<1>6. \A m \in 0 .. n : v[m] \in Nat
  <2> HIDE DEF v
  <2> DEFINE S == {m \in Nat : m <= n => v[m] \in Nat}
  <2>1. 0 \in S
    BY <1>3
  <2>2. ASSUME NEW m \in Nat, m \in S PROVE m + 1 \in S
    <3> SUFFICES ASSUME m + 1 <= n PROVE v[m + 1] \in Nat
      OBVIOUS
    <3>1. m + 1 \in 1 .. n /\ (m + 1) - 1 = m /\ v[m] \in Nat
      BY <1>1, <2>2
    <3>2. v[m + 1] = 10 * v[m] + digits[m + 1] /\ digits[m + 1] \in 0 .. 9
      BY <1>1, <1>4, <3>1
    <3>3. \A x \in Nat, y \in 0 .. 9 : 10 * x + y \in Nat
      OBVIOUS
    <3> QED BY <3>1, <3>2, <3>3
  <2> HIDE DEF S
  <2>3. Nat \subseteq S
    BY <2>1, <2>2, SetInduction
  <2> QED BY <1>1, <2>3 DEF S
<1>7. v \in [0 .. n -> Nat]
  BY <1>6
<1> HIDE DEF v
<1> QED BY <1>3, <1>4, <1>5, <1>7 DEF n

\* Of two numbers of the same width the one with the smaller digit where they part is
\* the smaller.
LEMMA WidthOrder ==
    ASSUME NEW a \in Seq(0 .. 9), NEW b \in Seq(0 .. 9), Len(a) = Len(b), NEW k \in 1 .. Len(a),
           \A j \in 1 .. k - 1 : a[j] = b[j], a[k] < b[k]
    PROVE  value(a) \in Nat /\ value(b) \in Nat /\ value(a) < value(b)
<1> DEFINE n == Len(a)
<1>1. PICK v \in [0 .. n -> Nat] :
         /\ v[0] = 0
         /\ \A m \in 1 .. n : v[m] = 10 * v[m - 1] + a[m]
         /\ value(a) = v[n]
  BY ValueReads
<1>2. PICK w \in [0 .. n -> Nat] :
         /\ w[0] = 0
         /\ \A m \in 1 .. n : w[m] = 10 * w[m - 1] + b[m]
         /\ value(b) = w[n]
  BY ValueReads
<1>3. n \in Nat /\ \A m \in 1 .. n : a[m] \in 0 .. 9 /\ b[m] \in 0 .. 9
  OBVIOUS
<1> HIDE DEF n
<1> DEFINE S == {m \in Nat : m <= n => IF m < k THEN v[m] = w[m] ELSE v[m] + 1 <= w[m]}
<1>4. 0 \in S
  BY <1>1, <1>2 DEF n
<1>5. ASSUME NEW m \in Nat, m \in S PROVE m + 1 \in S
  <2> SUFFICES ASSUME m + 1 <= n
               PROVE  IF m + 1 < k THEN v[m + 1] = w[m + 1] ELSE v[m + 1] + 1 <= w[m + 1]
    OBVIOUS
  <2>1. m + 1 \in 1 .. n /\ (m + 1) - 1 = m /\ m \in 0 .. n /\ m <= n
    BY <1>3
  <2>2. /\ v[m + 1] = 10 * v[m] + a[m + 1] /\ w[m + 1] = 10 * w[m] + b[m + 1]
        /\ v[m] \in Nat /\ w[m] \in Nat
        /\ a[m + 1] \in 0 .. 9 /\ b[m + 1] \in 0 .. 9
    BY <1>1, <1>2, <1>3, <2>1
  <2>3. IF m < k THEN v[m] = w[m] ELSE v[m] + 1 <= w[m]
    BY <1>5, <2>1
  <2>4. \A x, y \in Nat, p, q \in 0 .. 9 :
           x + 1 <= y \/ (x = y /\ p < q) => (10 * x + p) + 1 <= 10 * y + q
    OBVIOUS
  <2>5. k \in Int /\ m \in Int
    BY DEF n
  <2>6. CASE m + 1 < k
    <3>1. m + 1 \in 1 .. k - 1 /\ m < k
      BY <2>5, <2>6
    <3>2. a[m + 1] = b[m + 1] /\ v[m] = w[m]
      BY <2>3, <3>1
    <3> QED BY <2>2, <2>6, <3>2
  <2>7. CASE m + 1 = k
    <3>1. m < k /\ ~(m + 1 < k)
      BY <2>5, <2>7
    <3>2. a[m + 1] < b[m + 1] /\ v[m] = w[m]
      BY <2>3, <2>7, <3>1
    <3> QED BY <2>2, <2>4, <3>1, <3>2
  <2>8. CASE m + 1 > k
    <3>1. ~(m < k) /\ ~(m + 1 < k)
      BY <2>5, <2>8
    <3>2. v[m] + 1 <= w[m]
      BY <2>3, <3>1
    <3> QED BY <2>2, <2>4, <3>1, <3>2
  <2> QED BY <2>5, <2>6, <2>7, <2>8
<1> HIDE DEF S
<1>6. Nat \subseteq S
  BY <1>4, <1>5, SetInduction
<1>7. v[n] + 1 <= w[n] /\ v[n] \in Nat /\ w[n] \in Nat
  BY <1>3, <1>6 DEF S, n
<1> QED BY <1>1, <1>2, <1>7

-----------------------------------------------------------------------------
(* Names: Before is a strict order, so a directory can be sorted by it. *)

LEMMA BeforeOrders ==
    ASSUME NEW s \in Seq(Int), NEW t \in Seq(Int), NEW u \in Seq(Int)
    PROVE  /\ ~Before(s, s)
           /\ Before(s, t) /\ Before(t, u) => Before(s, u)
           /\ s /= t => Before(s, t) \/ Before(t, s)
<1>1. /\ Len(s) \in Nat /\ Len(t) \in Nat /\ Len(u) \in Nat
      /\ \A j \in 1 .. Len(s) : s[j] \in Int
      /\ \A j \in 1 .. Len(t) : t[j] \in Int
      /\ \A j \in 1 .. Len(u) : u[j] \in Int
  OBVIOUS
<1>2. ~Before(s, s)
  BY <1>1 DEF Before
<1>3. ASSUME Before(s, t), Before(t, u) PROVE Before(s, u)
  <2>1. PICK k \in 1 .. Len(t) :
            /\ k <= Len(s) + 1
            /\ \A j \in 1 .. k - 1 : s[j] = t[j]
            /\ k = Len(s) + 1 \/ s[k] < t[k]
    BY <1>3 DEF Before
  <2>2. PICK l \in 1 .. Len(u) :
            /\ l <= Len(t) + 1
            /\ \A j \in 1 .. l - 1 : t[j] = u[j]
            /\ l = Len(t) + 1 \/ t[l] < u[l]
    BY <1>3 DEF Before
  <2>3. k \in Int /\ l \in Int /\ k >= 1 /\ l >= 1
    BY <1>1
  <2>4. CASE k < l
    <3>1. k \in 1 .. Len(u) /\ k \in 1 .. l - 1 /\ \A j \in 1 .. k - 1 : j \in 1 .. l - 1
      BY <1>1, <2>3, <2>4
    <3>2. \A j \in 1 .. k - 1 : s[j] = u[j]
      BY <2>1, <2>2, <3>1
    <3>3. k = Len(s) + 1 \/ s[k] < u[k]
      BY <2>1, <2>2, <3>1
    <3> QED BY <2>1, <3>1, <3>2, <3>3 DEF Before
  <2>5. CASE l < k
    <3>1. /\ l \in 1 .. k - 1 /\ l <= Len(t) /\ l <= Len(s) /\ l <= Len(s) + 1
          /\ \A j \in 1 .. l - 1 : j \in 1 .. k - 1
      BY <1>1, <2>1, <2>3, <2>5
    <3>2. \A j \in 1 .. l - 1 : s[j] = u[j]
      BY <2>1, <2>2, <3>1
    <3>3. s[l] = t[l] /\ l /= Len(t) + 1
      BY <1>1, <2>1, <2>3, <3>1
    <3>4. s[l] < u[l]
      BY <2>2, <3>3
    <3> QED BY <3>1, <3>2, <3>4 DEF Before
  <2>6. CASE k = l
    <3>1. k /= Len(t) + 1 /\ k <= Len(s) + 1
      BY <1>1, <2>1, <2>3
    <3>2. t[k] < u[k]
      BY <2>2, <2>6, <3>1
    <3>3. \A j \in 1 .. k - 1 : s[j] = u[j]
      BY <2>1, <2>2, <2>6
    <3>4. k = Len(s) + 1 \/ s[k] < u[k]
      <4> SUFFICES ASSUME k /= Len(s) + 1 PROVE s[k] < u[k]
        OBVIOUS
      <4>1. k \in 1 .. Len(s) /\ k \in 1 .. Len(t) /\ k \in 1 .. Len(u)
        BY <1>1, <2>3, <2>6, <3>1
      <4>2. s[k] \in Int /\ t[k] \in Int /\ u[k] \in Int /\ s[k] < t[k]
        BY <1>1, <2>1, <4>1
      <4> QED BY <3>2, <4>2
    <3>5. k \in 1 .. Len(u)
      BY <2>6
    <3> QED BY <3>1, <3>3, <3>4, <3>5 DEF Before
  <2> QED BY <2>3, <2>4, <2>5, <2>6
<1>4. ASSUME s /= t PROVE Before(s, t) \/ Before(t, s)
  <2> DEFINE Parts(k) == k = Len(s) + 1 \/ k = Len(t) + 1 \/ s[k] /= t[k]
             P == {k \in Nat \ {0} : Parts(k)}
  <2>1. Len(s) + 1 \in P
    BY <1>1
  <2>2. PICK k \in P : \A j \in P : k <= j
    <3>1. P \in SUBSET Nat /\ P /= {}
      BY <2>1
    <3> HIDE DEF P
    <3> QED BY <3>1, Least
  <2>3. /\ k \in Nat \ {0} /\ Parts(k) /\ k <= Len(s) + 1
        /\ k \in Int /\ Len(s) \in Int /\ Len(t) \in Int /\ k >= 1
    <3>1. k <= Len(s) + 1
      <4> HIDE DEF P
      <4> QED BY <2>1, <2>2
    <3>2. k \in Nat \ {0} /\ Parts(k)
      <4> HIDE DEF Parts
      <4> QED OBVIOUS
    <3> HIDE DEF Parts, P
    <3> QED BY <1>1, <3>1, <3>2
  <2>4. \A j \in 1 .. k - 1 : j \in Nat \ {0} /\ ~(k <= j)
    BY <2>3
  <2>5. \A j \in 1 .. k - 1 : ~Parts(j)
    <3> HIDE DEF Parts
    <3> QED BY <2>2, <2>4
  <2>6. k <= Len(t) + 1
    <3> SUFFICES ASSUME ~(k <= Len(t) + 1) PROVE FALSE
      OBVIOUS
    <3>1. Len(t) + 1 \in 1 .. k - 1
      BY <1>1, <2>3
    <3> QED BY <2>5, <3>1
  <2>7. \A j \in 1 .. k - 1 : s[j] = t[j]
    BY <2>5
  <2>8. CASE k = Len(s) + 1 /\ k = Len(t) + 1
    <3>1. Len(s) = Len(t) /\ k - 1 = Len(s)
      BY <1>1, <2>8
    <3>2. \A j \in 1 .. Len(s) : s[j] = t[j]
      BY <2>7, <3>1
    <3>3. s = [j \in 1 .. Len(s) |-> s[j]] /\ t = [j \in 1 .. Len(t) |-> t[j]]
      OBVIOUS
    <3>4. s = t
      BY <3>1, <3>2, <3>3
    <3> QED BY <1>4, <3>4
  <2>9. CASE k = Len(s) + 1 /\ k /= Len(t) + 1
    <3>1. k \in 1 .. Len(t)
      BY <1>1, <2>3, <2>6, <2>9
    <3> QED BY <2>3, <2>7, <2>9, <3>1 DEF Before
  <2>10. CASE k /= Len(s) + 1 /\ k = Len(t) + 1
    <3>1. k \in 1 .. Len(s)
      BY <1>1, <2>3, <2>10
    <3> QED BY <2>6, <2>7, <2>10, <3>1 DEF Before
  <2>11. CASE k /= Len(s) + 1 /\ k /= Len(t) + 1
    <3>1. k \in 1 .. Len(s) /\ k \in 1 .. Len(t)
      <4> HIDE DEF Parts, P
      <4> QED BY <2>3, <2>6, <2>11
    <3>2. s[k] \in Int /\ t[k] \in Int /\ s[k] /= t[k]
      BY <1>1, <2>3, <2>11, <3>1
    <3>3. s[k] < t[k] \/ t[k] < s[k]
      BY <3>2
    <3> QED BY <2>3, <2>6, <2>7, <3>1, <3>3 DEF Before
  <2> QED BY <2>8, <2>9, <2>10, <2>11
<1> QED BY <1>2, <1>3, <1>4

\* What sorting needs of the files of a directory.
Listable(files) ==
    /\ IsFiniteSet(files)
    /\ \A f, g \in files :
          /\ f.digits \in Seq(0 .. 9) /\ f.rest \in Seq(Dash .. Letter)
          /\ key(f) = key(g) => f = g

LEMMA ConcatShape ==
    ASSUME NEW A, NEW B, NEW a \in Seq(A), NEW b \in Seq(B)
    PROVE  /\ Len(a) \in Nat /\ Len(b) \in Nat /\ Len(a \o b) = Len(a) + Len(b)
           /\ \A j \in 1 .. Len(a) : (a \o b)[j] = a[j]
OBVIOUS

LEMMA KeyType ==
    ASSUME NEW f, f.digits \in Seq(0 .. 9), f.rest \in Seq(Dash .. Letter)
    PROVE  key(f) \in Seq(Int)
<1>1. f.digits \in Seq(Int)
  <2>1. 0 .. 9 \subseteq Int
    OBVIOUS
  <2> QED BY <2>1, SeqMonotonic
<1>2. f.rest \in Seq(Int)
  <2>1. Dash .. Letter \subseteq Int
    BY DEF Dash, Letter
  <2> QED BY <2>1, SeqMonotonic
<1> QED BY <1>1, <1>2, ConcatProperties DEF key

LEMMA KeyShape ==
    ASSUME NEW f, f.digits \in Seq(0 .. 9), f.rest \in Seq(Dash .. Letter)
    PROVE  /\ Len(f.digits) \in Nat /\ Len(f.rest) \in Nat
           /\ Len(key(f)) = Len(f.digits) + Len(f.rest)
           /\ \A j \in 1 .. Len(f.digits) : key(f)[j] = f.digits[j]
<1> DEFINE a == f.digits
           b == f.rest
           A == 0 .. 9
           B == Dash .. Letter
<1>1. a \in Seq(A) /\ b \in Seq(B) /\ key(f) = a \o b
  BY DEF key
<1> HIDE DEF a, b, A, B
<1>2. /\ Len(a) \in Nat /\ Len(b) \in Nat /\ Len(a \o b) = Len(a) + Len(b)
      /\ \A j \in 1 .. Len(a) : (a \o b)[j] = a[j]
  BY <1>1, ConcatShape
<1>3. /\ Len(a) \in Nat /\ Len(b) \in Nat /\ Len(key(f)) = Len(a) + Len(b)
      /\ \A j \in 1 .. Len(a) : key(f)[j] = a[j]
  BY <1>1, <1>2
<1> QED BY <1>3 DEF a, b

\* A file's place is the number of files that come no later.
LEMMA SortedSorts ==
    ASSUME NEW files, Listable(files)
    PROVE  /\ sorted(files) \in [1 .. Cardinality(files) -> files]
           /\ \A j, k \in 1 .. Cardinality(files) :
                 j < k => Before(key(sorted(files)[j]), key(sorted(files)[k]))
           /\ Cardinality(files) \in Nat
<1> DEFINE n == Cardinality(files)
           upto(f) == {g \in files : g = f \/ Before(key(g), key(f))}
           rank == [f \in files |-> Cardinality(upto(f))]
<1>1. n \in Nat /\ IsFiniteSet(files)
  BY FS_CardinalityType DEF Listable
<1>2. ASSUME NEW f \in files, NEW g \in files, NEW h \in files
      PROVE  /\ ~Before(key(f), key(f))
             /\ Before(key(f), key(g)) /\ Before(key(g), key(h)) => Before(key(f), key(h))
             /\ f /= g => Before(key(f), key(g)) \/ Before(key(g), key(f))
  <2>1. key(f) \in Seq(Int) /\ key(g) \in Seq(Int) /\ key(h) \in Seq(Int)
    BY KeyType DEF Listable
  <2>2. f /= g => key(f) /= key(g)
    BY DEF Listable
  <2> QED BY <2>1, <2>2, BeforeOrders
<1>3. ASSUME NEW f \in files
      PROVE  IsFiniteSet(upto(f)) /\ Cardinality(upto(f)) \in Nat /\ Cardinality(upto(f)) \in 1 .. n
  <2>1. upto(f) \in SUBSET files /\ f \in upto(f)
    OBVIOUS
  <2> HIDE DEF upto
  <2>2. IsFiniteSet(upto(f)) /\ Cardinality(upto(f)) <= n
    BY <1>1, <2>1, FS_Subset
  <2>3. Cardinality(upto(f)) \in Nat /\ Cardinality(upto(f)) /= 0
    BY <2>1, <2>2, FS_CardinalityType, FS_EmptySet
  <2> HIDE DEF n
  <2> QED BY <1>1, <2>2, <2>3
<1>4. ASSUME NEW f \in files, NEW g \in files, Before(key(f), key(g))
      PROVE  rank[f] < rank[g]
  <2>1. upto(f) \in SUBSET upto(g)
    BY <1>2, <1>4
  <2>2. g \in upto(g) /\ g \notin upto(f)
    BY <1>2, <1>4
  <2> HIDE DEF upto
  <2>3. Cardinality(upto(f)) <= Cardinality(upto(g)) /\ Cardinality(upto(f)) /= Cardinality(upto(g))
    BY <1>3, <2>1, <2>2, FS_Subset
  <2> QED BY <1>3, <2>3
<1>5. rank \in [files -> 1 .. n]
  BY <1>3
<1> HIDE DEF rank, upto
<1>6. rank \in Injection(files, 1 .. n)
  <2>1. \A f, g \in files : rank[f] = rank[g] => f = g
    <3> SUFFICES ASSUME NEW f \in files, NEW g \in files, rank[f] = rank[g], f /= g PROVE FALSE
      OBVIOUS
    <3>1. rank[f] < rank[g] \/ rank[g] < rank[f]
      BY <1>2, <1>4
    <3>2. rank[f] \in Int
      BY <1>5
    <3> QED BY <3>1, <3>2
  <2> QED BY <1>5, <2>1 DEF Injection, IsInjective
<1>7. IsFiniteSet(1 .. n) /\ Cardinality(1 .. n) = n
  <2> HIDE DEF n
  <2> QED BY <1>1, FS_Interval
<1>8. rank \in Surjection(files, 1 .. n)
  BY <1>1, <1>6, <1>7, FS_Injection
<1>9. \A r \in 1 .. n : \E f \in files : rank[f] = r
  BY <1>8 DEF Surjection
<1> DEFINE s == [r \in 1 .. n |-> CHOOSE f \in files : rank[f] = r]
<1>10. \A r \in 1 .. n : s[r] \in files /\ rank[s[r]] = r
  BY <1>9
<1>11. s \in [1 .. n -> files] /\ DOMAIN s = 1 .. n
  BY <1>10
<1> HIDE DEF s, n
<1>12. ASSUME NEW j \in 1 .. n, NEW k \in 1 .. n, j < k
       PROVE  Before(key(s[j]), key(s[k]))
  <2>1. /\ s[j] \in files /\ s[k] \in files /\ rank[s[j]] = j /\ rank[s[k]] = k
        /\ ~(k < j) /\ j /= k
    BY <1>1, <1>10, <1>12
  <2>2. s[j] /= s[k]
    BY <2>1
  <2> QED BY <1>2, <1>4, <2>1, <2>2
<1> DEFINE Sorts(x) == \A j, k \in DOMAIN x : j < k => Before(key(x[j]), key(x[k]))
<1>13. Sorts(s)
  BY <1>11, <1>12
<1>14. sorted(files) = CHOOSE x \in [1 .. n -> files] : Sorts(x)
  BY DEF sorted, n
<1>15. sorted(files) \in [1 .. n -> files] /\ Sorts(sorted(files))
  <2> HIDE DEF Sorts
  <2> QED BY <1>11, <1>13, <1>14
<1>16. DOMAIN sorted(files) = 1 .. n
  BY <1>15
<1> QED BY <1>1, <1>15, <1>16 DEF n

\* Of two files whose numbers have the same width the one listed first has the smaller number.
LEMMA ListedInOrder ==
    ASSUME NEW files, Listable(files), MaxInt \in Nat,
           NEW f \in files, NEW g \in files, Before(key(f), key(g)),
           Len(f.digits) = Len(g.digits), seq(f) /= seq(g)
    PROVE  seq(f) < seq(g)
<1> DEFINE a == f.digits
           b == g.digits
<1>1. a \in Seq(0 .. 9) /\ b \in Seq(0 .. 9) /\ f.rest \in Seq(Dash .. Letter) /\ g.rest \in Seq(Dash .. Letter)
  BY DEF Listable
<1>2. /\ Len(a) \in Nat /\ Len(a) = Len(b) /\ Len(key(f)) \in Nat /\ Len(key(g)) \in Nat
      /\ Len(a) <= Len(key(f))
      /\ \A j \in 1 .. Len(a) : key(f)[j] = a[j] /\ key(g)[j] = b[j]
  <2>1. /\ Len(a) \in Nat /\ Len(f.rest) \in Nat /\ Len(key(f)) = Len(a) + Len(f.rest)
        /\ \A j \in 1 .. Len(a) : key(f)[j] = a[j]
    BY <1>1, KeyShape
  <2>2. /\ Len(b) \in Nat /\ Len(g.rest) \in Nat /\ Len(key(g)) = Len(b) + Len(g.rest)
        /\ \A j \in 1 .. Len(b) : key(g)[j] = b[j]
    BY <1>1, KeyShape
  <2>3. Len(a) = Len(b)
    OBVIOUS
  <2> HIDE DEF a, b
  <2> QED BY <2>1, <2>2, <2>3
<1>3. PICK k \in 1 .. Len(key(g)) :
          /\ k <= Len(key(f)) + 1
          /\ \A j \in 1 .. k - 1 : key(f)[j] = key(g)[j]
          /\ k = Len(key(f)) + 1 \/ key(f)[k] < key(g)[k]
  BY DEF Before
<1>4. /\ seq(f) = IF value(a) > MaxInt THEN MaxInt ELSE value(a)
      /\ seq(g) = IF value(b) > MaxInt THEN MaxInt ELSE value(b)
  BY DEF seq, number, value
<1> HIDE DEF a, b
<1>5. CASE k <= Len(a)
  <2>1. k \in 1 .. Len(a) /\ k /= Len(key(f)) + 1 /\ \A j \in 1 .. k - 1 : j \in 1 .. Len(a)
    BY <1>2, <1>5
  <2>2. a[k] < b[k] /\ \A j \in 1 .. k - 1 : a[j] = b[j]
    BY <1>2, <1>3, <2>1
  <2>3. value(a) \in Nat /\ value(b) \in Nat /\ value(a) < value(b)
    BY <1>1, <1>2, <2>1, <2>2, WidthOrder
  <2> QED BY <1>4, <2>3
<1>6. CASE ~(k <= Len(a))
  <2>1. \A j \in 1 .. Len(a) : j \in 1 .. k - 1
    BY <1>2, <1>6
  <2>2. \A j \in 1 .. Len(a) : a[j] = b[j]
    BY <1>2, <1>3, <2>1
  <2>3. a = [j \in 1 .. Len(a) |-> a[j]] /\ b = [j \in 1 .. Len(b) |-> b[j]]
    BY <1>1
  <2>4. a = b
    BY <1>2, <2>2, <2>3
  <2> QED BY <1>4, <2>4
<1> QED BY <1>5, <1>6

-----------------------------------------------------------------------------
(* A directory in which nothing is reported. *)

\* Nothing is reported yet of the directories and files to come; the names are those
\* of the directory.
Bookkeeping ==
    /\ tree \in Trees
    /\ pc \in {"walk", "list", "files", "done", "error"}
    /\ d \in Nat \ {0}
    /\ pc = "files" =>
          /\ d \in 1 .. Len(tree)
          /\ tree[d] /= Unlistable
          /\ names = sorted(tree[d])
          /\ i \in Nat \ {0}

\* As long as the directory is clean the number expected is the index of the file:
\* the step from one file to the next needs it, the property alone does not give it.
Clean == \A k \in looked : ~reported(k, "name") /\ ~reported(k, "order")
ExpectedIsIndex == pc = "files" /\ Clean => expectedSeq = i

Inv == Bookkeeping /\ ExpectedIsIndex /\ CleanIsSequential

\* The length of the directory's list of names is a number below MaxInt.
LEMMA FewNames ==
    ASSUME Bookkeeping, pc = "files"
    PROVE  MaxInt \in Nat /\ Len(names) \in Nat /\ Len(names) < MaxInt
<1>1. MaxInt \in Nat /\ Cardinality(tree[d]) < MaxInt /\ Listable(tree[d])
  BY FewFiles, FileNames DEF Bookkeeping, Listable
<1>2. names = sorted(tree[d])
  BY DEF Bookkeeping
<1>3. names \in [1 .. Cardinality(tree[d]) -> tree[d]] /\ Cardinality(tree[d]) \in Nat
  BY <1>1, <1>2, SortedSorts
<1>4. Len(names) = Cardinality(tree[d])
  BY <1>3
<1> QED BY <1>1, <1>3, <1>4

LEMMA InitInv == Init => Inv
BY DEF Init, Inv, Bookkeeping, ExpectedIsIndex, CleanIsSequential, looked

\* Looking at one more file keeps the clean directory's numbers in step.
LEMMA FileStep ==
    ASSUME Inv, BadName \/ CheckFile
    PROVE  Inv'
<1>1. /\ pc = "files" /\ pc' = "files" /\ i <= Len(names) /\ i' = i + 1
      /\ tree' = tree /\ d' = d /\ names' = names
  BY DEF BadName, CheckFile, NextFile
<1>2. i \in Nat \ {0} /\ MaxInt \in Nat /\ i < MaxInt /\ i \in Int
  BY <1>1, FewNames DEF Inv, Bookkeeping
<1>3. Bookkeeping'
  BY <1>1, <1>2 DEF Inv, Bookkeeping
<1>4. looked = 1 .. i - 1 /\ looked' = 1 .. i
  BY <1>1, <1>2 DEF looked
<1> DEFINE fault(k, w) == [dir |-> d, file |-> k, what |-> w]
<1>5. diags \subseteq diags'
  BY DEF BadName, CheckFile, Report
<1>6. Clean' => Clean
  BY <1>1, <1>2, <1>4, <1>5 DEF Clean, reported
<1>7. Clean' => fault(i, "name") \notin diags' /\ fault(i, "order") \notin diags'
  <2>1. i \in looked'
    BY <1>2, <1>4
  <2> QED BY <1>1, <2>1 DEF Clean, reported
<1>8. ASSUME Clean'
      PROVE  expectedSeq' = i + 1 /\ \A k \in 1 .. i : number(names[k]) = k
  <2>1. expectedSeq = i /\ \A k \in 1 .. i - 1 : number(names[k]) = k
    BY <1>1, <1>4, <1>6, <1>8 DEF Inv, ExpectedIsIndex, CleanIsSequential, Clean
  <2>2. ~BadName
    <3>1. ASSUME BadName PROVE fault(i, "name") \in diags'
      BY <3>1 DEF BadName, Report
    <3> QED BY <1>7, <1>8, <3>1
  <2>3. CheckFile
    BY <2>2
  <2>4. seq(file) = expectedSeq
    <3>1. ASSUME seq(file) /= expectedSeq PROVE fault(i, "order") \in diags'
      BY <2>3, <3>1 DEF CheckFile, Report
    <3> QED BY <1>7, <1>8, <3>1
  <2>5. next(expectedSeq) = i + 1
    BY <1>2, <2>1 DEF next
  <2>6. afterFile(seq(file)) = i + 1
    BY <1>2, <2>1, <2>4, <2>5 DEF afterFile
  <2>7. expectedSeq' = i + 1
    BY <2>3, <2>6 DEF CheckFile
  <2>8. number(names[i]) = i
    BY <1>2, <2>1, <2>4 DEF file, seq
  <2> QED BY <1>2, <2>1, <2>7, <2>8
<1>9. ExpectedIsIndex'
  BY <1>1, <1>8 DEF ExpectedIsIndex
<1>10. CleanIsSequential'
  BY <1>1, <1>4, <1>8 DEF CleanIsSequential, Clean
<1> QED BY <1>3, <1>9, <1>10 DEF Inv

LEMMA InvStep == Inv /\ [Next]_vars => Inv'
<1> SUFFICES ASSUME Inv, [Next]_vars PROVE Inv'
  OBVIOUS
<1> USE DEF Inv
<1>1. CASE Walk
  BY <1>1 DEF Walk, Bookkeeping, ExpectedIsIndex, CleanIsSequential, looked
<1>2. CASE SkipDir
  BY <1>2 DEF SkipDir, Bookkeeping, ExpectedIsIndex, CleanIsSequential, looked
<1>3. CASE ListDir
  <2>1. Bookkeeping'
    <3>1. d \in 1 .. Len(tree)
      BY <1>3, FewFiles DEF ListDir, Bookkeeping
    <3> QED BY <1>3, <3>1 DEF ListDir, Bookkeeping
  <2>2. looked' = {}
    BY <1>3 DEF ListDir, looked
  <2>3. ExpectedIsIndex' /\ CleanIsSequential'
    BY <1>3, <2>2 DEF ListDir, ExpectedIsIndex, CleanIsSequential
  <2> QED BY <2>1, <2>3
<1>4. CASE BadName \/ CheckFile
  BY <1>4, FileStep
<1>5. CASE EndDir
  BY <1>5 DEF EndDir, Bookkeeping, ExpectedIsIndex, CleanIsSequential, looked
<1>6. CASE Return
  BY <1>6 DEF Return, Bookkeeping, ExpectedIsIndex, CleanIsSequential, looked
<1>7. CASE UNCHANGED vars
  BY <1>7
  DEF vars, Bookkeeping, ExpectedIsIndex, CleanIsSequential, Clean, looked, reported
<1> QED BY <1>1, <1>2, <1>3, <1>4, <1>5, <1>6, <1>7 DEF Next, Terminated

\* A directory in which no name and no number is reported holds the numbers 1, 2, 3
\* and so on in the order of its names (checkMigrationDir), whatever its size.
THEOREM MigrationsCleanIsSequential == Spec => []CleanIsSequential
<1>1. Inv => CleanIsSequential
  BY DEF Inv
<1> QED BY <1>1, InitInv, InvStep, PTL DEF Spec
-----------------------------------------------------------------------------
(* What a file contains is reported. *)

\* Every file the loop has passed has been reported for all that its text shows.
ContentInv == \A k \in looked : names[k].matches => \A w \in contentFaults(names[k]) : reported(k, w)

LEMMA ContentStep ==
    ASSUME Inv, ContentInv, [Next]_vars
    PROVE  ContentInv'
<1> USE DEF ContentInv
<1>1. CASE Walk \/ SkipDir \/ EndDir \/ Return
  <2>1. pc' /= "files"
    BY <1>1 DEF Walk, SkipDir, EndDir, Return
  <2> QED BY <2>1 DEF looked
<1>2. CASE ListDir
  <2>1. looked' = {}
    BY <1>2 DEF ListDir, looked
  <2> QED BY <2>1
<1>3. CASE BadName \/ CheckFile
  <2>1. /\ pc = "files" /\ pc' = "files" /\ i' = i + 1 /\ i \in Nat \ {0}
        /\ UNCHANGED <<tree, d, names>>
    BY <1>3 DEF BadName, CheckFile, NextFile, Inv, Bookkeeping
  <2>2. looked = 1 .. i - 1 /\ looked' = 1 .. i
    BY <2>1 DEF looked
  <2>3. \A k \in looked' : k \in looked \/ k = i
    BY <2>1, <2>2
  <2>4. \A k, w : reported(k, w) => reported(k, w)'
    BY <1>3, <2>1 DEF BadName, CheckFile, Report, reported
  <2>5. \A k : contentFaults(names[k])' = contentFaults(names[k])
    BY <2>1
  <2>6. ASSUME NEW k, k = i, names[k].matches, NEW w \in contentFaults(names[k])
        PROVE  reported(k, w)'
    <3>1. CheckFile
      BY <1>3, <2>6 DEF BadName, file
    <3>2. w \in (IF seq(file) /= expectedSeq THEN {"order"} ELSE {}) \union contentFaults(file)
      BY <2>6 DEF file
    <3> QED BY <3>2, <2>1, <2>6, <3>1 DEF CheckFile, Report, reported, file
  <2> QED BY <2>1, <2>3, <2>4, <2>5, <2>6
<1>4. CASE UNCHANGED vars
  BY <1>4 DEF vars, looked, reported, contentFaults, checkEmptyStringGuards, guarded, has
<1> QED BY <1>1, <1>2, <1>3, <1>4 DEF Next, Terminated

\* The statement is told by the words of the single statements, the code by the whole text.
LEMMA ContentShows == ContentInv => ContentComplete
<1> SUFFICES ASSUME ContentInv, NEW k \in looked, names[k].matches, names[k].readable,
                    NEW s \in 1 .. Len(names[k].sql)
             PROVE  LET statement == names[k].sql[s] IN
                    /\ "IF NOT EXISTS" \in statement.words => reported(k, "exists")
                    /\ {"ALTER TABLE", "RENAME"} \subseteq statement.words => reported(k, "rename")
                    /\ \A column \in statement.declares \intersect KeyColumn :
                          reported(k, "guard")
                            \/ \E t \in 1 .. Len(names[k].sql) : column \in names[k].sql[t].guards
  BY DEF ContentComplete
<1> DEFINE sql == names[k].sql
<1>1. \A w \in contentFaults(names[k]) : reported(k, w)
  BY DEF ContentInv
<1>2. /\ has(sql, "IF NOT EXISTS") => "exists" \in contentFaults(names[k])
      /\ has(sql, "ALTER TABLE") /\ has(sql, "RENAME") => "rename" \in contentFaults(names[k])
      /\ checkEmptyStringGuards(sql) => "guard" \in contentFaults(names[k])
  BY DEF contentFaults
<1>3. \A word \in sql[s].words : has(sql, word)
  BY DEF has
<1>4. ASSUME NEW column \in sql[s].declares \intersect KeyColumn, ~guarded(sql, column)
      PROVE  checkEmptyStringGuards(sql)
  BY <1>4 DEF checkEmptyStringGuards
<1> QED BY <1>1, <1>2, <1>3, <1>4 DEF guarded

\* Whatever was said of its number, a readable, well-named file is reported for every
\* IF NOT EXISTS, rename and unguarded key column it holds (checkMigrationDir, l. 94-128).
THEOREM MigrationsContentComplete == Spec => []ContentComplete
<1>1. Init => ContentInv
  BY DEF Init, ContentInv, looked
<1>2. Inv /\ ContentInv /\ [Next]_vars => Inv' /\ ContentInv'
  BY InvStep, ContentStep
<1> QED BY <1>1, <1>2, InitInv, ContentShows, PTL DEF Spec
-----------------------------------------------------------------------------
(* One gap is one report. *)

\* Nothing is reported yet of the files and directories to come.
Fresh ==
    \A x \in diags : x.dir \in Int /\ x.file \in Int
        /\ (x.dir < d \/ (x.dir = d /\ pc = "files" /\ x.file < i))

\* The number expected is the one after the file before: GapsReportedOnce alone does not
\* tell what the next file is compared with.
before(k) == IF k = 1 THEN 1 ELSE seq(names[k - 1]) + 1
GapInv == pc = "files" /\ sameWidth =>
    /\ expectedSeq = before(i)
    /\ \A k \in looked : reported(k, "order") <=> seq(names[k]) /= before(k)

LEMMA FreshStep ==
    ASSUME Inv, Fresh, [Next]_vars
    PROVE  Fresh'
<1>1. d \in Int /\ (pc = "files" => i \in Int)
  BY DEF Inv, Bookkeeping
<1>2. CASE Walk \/ SkipDir \/ ListDir \/ EndDir \/ Return
  BY <1>1, <1>2 DEF Walk, SkipDir, ListDir, EndDir, Return, Fresh
<1>3. CASE BadName \/ CheckFile
  <2>1. pc = "files" /\ pc' = "files" /\ i' = i + 1 /\ d' = d
    BY <1>3 DEF BadName, CheckFile, NextFile
  <2>2. \A x \in diags' : x \in diags \/ (x.dir = d /\ x.file = i)
    BY <1>3 DEF BadName, CheckFile, Report
  <2> QED BY <1>1, <2>1, <2>2 DEF Fresh
<1>4. CASE UNCHANGED vars
  BY <1>4 DEF vars, Fresh
<1> QED BY <1>2, <1>3, <1>4 DEF Next, Terminated

\* In a directory of one width the next file's number is at least the number expected.
LEMMA NotTooSmall ==
    ASSUME Inv, pc = "files", i <= Len(names), sameWidth', names' = names, looked' = 1 .. i
    PROVE  /\ i \in Nat \ {0} /\ seq(names[i]) \in 1 .. MaxInt - 1 /\ MaxInt \in Nat
           /\ before(i) \in Int /\ before(i) <= seq(names[i])
<1>1. i \in Nat \ {0} /\ i \in Int /\ MaxInt \in Nat
  BY FewNames DEF Inv, Bookkeeping
<1>2. i \in 1 .. i
  BY <1>1
<1>3. seq(names[i]) \in 1 .. MaxInt - 1
  BY <1>2 DEF sameWidth
<1>4. CASE i = 1
  BY <1>1, <1>3, <1>4 DEF before
<1>5. CASE i /= 1
  <2>1. /\ i - 1 \in 1 .. i /\ i - 1 /= i /\ i - 1 < i
        /\ i - 1 \in Nat \ {0}
    BY <1>1, <1>5
  <2>2. /\ Len(names[i - 1].digits) = Len(names[i].digits)
        /\ seq(names[i - 1]) /= seq(names[i])
        /\ seq(names[i - 1]) \in 1 .. MaxInt - 1
    BY <1>2, <2>1 DEF sameWidth
  <2> DEFINE files == tree[d]
  <2>3. Listable(files) /\ names = sorted(files)
    BY FewFiles, FileNames DEF Inv, Bookkeeping, Listable
  <2> HIDE DEF files
  <2>4. /\ names \in [1 .. Cardinality(files) -> files] /\ Cardinality(files) \in Nat
        /\ \A j, k \in 1 .. Cardinality(files) : j < k => Before(key(names[j]), key(names[k]))
    BY <2>3, SortedSorts
  <2>5. Len(names) = Cardinality(files)
    BY <2>4
  <2>6. i \in 1 .. Cardinality(files) /\ i - 1 \in 1 .. Cardinality(files)
    BY <1>1, <2>1, <2>4, <2>5
  <2>7. names[i] \in files /\ names[i - 1] \in files /\ Before(key(names[i - 1]), key(names[i]))
    BY <2>1, <2>4, <2>6
  <2>8. seq(names[i - 1]) < seq(names[i])
    BY <1>1, <2>2, <2>3, <2>7, ListedInOrder
  <2>9. \A x, y \in 1 .. MaxInt - 1 : x < y => x + 1 \in Int /\ x + 1 <= y
    BY <1>1
  <2> QED BY <1>1, <1>3, <1>5, <2>2, <2>8, <2>9 DEF before
<1> QED BY <1>4, <1>5

LEMMA GapStep ==
    ASSUME Inv, Fresh, GapInv, [Next]_vars
    PROVE  GapInv'
<1>1. CASE Walk \/ SkipDir \/ EndDir \/ Return
  <2>1. pc' /= "files"
    BY <1>1 DEF Walk, SkipDir, EndDir, Return
  <2> QED BY <2>1 DEF GapInv
<1>2. CASE ListDir
  <2>1. looked' = {} /\ expectedSeq' = 1 /\ i' = 1
    BY <1>2 DEF ListDir, looked
  <2>2. before(i)' = 1
    BY <2>1 DEF before
  <2> QED BY <2>1, <2>2 DEF GapInv
<1>3. ASSUME BadName \/ CheckFile, sameWidth'
      PROVE  /\ expectedSeq' = before(i)'
             /\ \A k \in looked' : reported(k, "order")' <=> seq(names[k])' /= before(k)'
  <2>1. /\ pc = "files" /\ pc' = "files" /\ i <= Len(names) /\ i' = i + 1 /\ i \in Nat \ {0}
        /\ tree' = tree /\ d' = d /\ names' = names /\ i \in Int
    BY <1>3 DEF BadName, CheckFile, NextFile, Inv, Bookkeeping
  <2>2. looked = 1 .. i - 1 /\ looked' = 1 .. i
    BY <2>1 DEF looked
  <2>3. i \in looked' /\ looked \subseteq looked' /\ \A k \in looked' : k \in looked \/ k = i
    BY <2>1, <2>2
  <2>4. CheckFile
    BY <1>3, <2>1, <2>3 DEF BadName, file, sameWidth
  <2>5. sameWidth
    BY <1>3, <2>1, <2>3 DEF sameWidth
  <2>6. /\ expectedSeq = before(i)
        /\ \A k \in looked : reported(k, "order") <=> seq(names[k]) /= before(k)
    BY <2>1, <2>5 DEF GapInv
  <2> DEFINE n == seq(names[i])
  <2>7. n \in 1 .. MaxInt - 1 /\ MaxInt \in Nat /\ expectedSeq \in Int /\ expectedSeq <= n
    BY <1>3, <2>1, <2>2, <2>6, NotTooSmall
  <2>8. expectedSeq' = afterFile(n)
    BY <2>4 DEF CheckFile, file
  <2> HIDE DEF n
  <2>9. afterFile(n) = n + 1
    <3>1. n /= MaxInt /\ next(n) = n + 1 /\ ~(n > n + 1)
      BY <2>7 DEF next
    <3>2. CASE n = expectedSeq
      BY <3>1, <3>2 DEF afterFile
    <3>3. CASE n /= expectedSeq
      <4>1. n > expectedSeq
        BY <2>7, <3>3
      <4> QED BY <3>1, <3>3, <4>1 DEF afterFile
    <3> QED BY <3>2, <3>3
  <2>10. before(i)' = n + 1
    <3>1. i + 1 /= 1 /\ (i + 1) - 1 = i
      BY <2>1
    <3> QED BY <2>1, <3>1 DEF before, n
  <2>11. \A k : seq(names[k])' = seq(names[k])
    BY <2>1
  <2>12. diags' = diags \union {[dir |-> d, file |-> i, what |-> w] :
                          w \in (IF n /= expectedSeq THEN {"order"} ELSE {}) \union contentFaults(names[i])}
    BY <2>4 DEF CheckFile, Report, file, n
  <2>13. "order" \notin contentFaults(names[i])
    BY DEF contentFaults
  <2>14. ASSUME NEW k \in looked'
         PROVE  reported(k, "order")' <=> seq(names[k])' /= before(k)'
    <3>1. before(k)' = before(k) /\ seq(names[k])' = seq(names[k])
      BY <2>1 DEF before
    <3>2. reported(k, "order")' <=> [dir |-> d, file |-> k, what |-> "order"] \in diags'
      BY <2>1 DEF reported
    <3>3. CASE k \in looked
      <4>1. k /= i
        BY <2>1, <2>2, <3>3
      <4>2. [dir |-> d, file |-> k, what |-> "order"] \in diags'
              <=> [dir |-> d, file |-> k, what |-> "order"] \in diags
        BY <2>12, <4>1
      <4> QED BY <2>6, <3>1, <3>2, <3>3, <4>2 DEF reported
    <3>4. CASE k = i
      <4> DEFINE x == [dir |-> d, file |-> i, what |-> "order"]
      <4>1. x \notin diags
        <5>1. d \in Int /\ i \in Int
          BY <2>1 DEF Inv, Bookkeeping
        <5>2. x.dir = d /\ x.file = i
          OBVIOUS
        <5> HIDE DEF x
        <5> QED BY <5>1, <5>2 DEF Fresh
      <4>2. x \in diags' <=> n /= expectedSeq
        BY <2>12, <2>13, <4>1
      <4> QED BY <2>6, <3>1, <3>2, <3>4, <4>2 DEF n
    <3> QED BY <2>3, <3>3, <3>4
  <2> QED BY <2>8, <2>9, <2>10, <2>14
<1>4. CASE UNCHANGED vars
  BY <1>4 DEF vars, GapInv, looked, reported, sameWidth, before
<1> QED BY <1>1, <1>2, <1>3, <1>4 DEF Next, Terminated, GapInv

\* Names of one width with different numbers are reported only where a number is missing
\* just before them, however many there are (checkMigrationDir, l. 66-88).
THEOREM MigrationsGapsReportedOnce == Spec => []GapsReportedOnce
<1>1. Init => Fresh /\ GapInv
  BY DEF Init, Fresh, GapInv
<1>2. Inv /\ Fresh /\ GapInv /\ [Next]_vars => Inv' /\ Fresh' /\ GapInv'
  BY InvStep, FreshStep, GapStep
<1>3. GapInv => GapsReportedOnce
  BY DEF GapInv, GapsReportedOnce, before, looked
<1> QED BY <1>1, <1>2, <1>3, InitInv, PTL DEF Spec
=============================================================================
