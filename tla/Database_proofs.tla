--------------------------- MODULE Database_proofs ---------------------------
(***************************************************************************)
(* Proofs about the databases.  The array, trie and hash of AS numbers     *)
(* agree, for every base and range of numbers.  The Patricia tree is sound *)
(* for every address length and every set of texts: a node's address is    *)
(* the string of its bits, so that what the tree looks like around a node  *)
(* can be said from its address alone.                                     *)
(***************************************************************************)
EXTENDS Patricia, AsTables, FiniteSetTheorems, SequenceTheorems, WellFoundedInduction, TLAPS

(***************************************************************************)
(* Recursive definitions.  A function may be defined by an equation whose  *)
(* right side uses it at one other argument, when some measure of the      *)
(* argument goes down: nxt[x] is that argument, step[x] what is made of    *)
(* the value there, and init[x] the value where there is no recursion.     *)
(***************************************************************************)

LEMMA LeastExists ==
  ASSUME NEW T \in SUBSET Nat, T # {}
  PROVE  \E x \in T : \A y \in T : x <= y
<1>1. PICK x \in T : \A y \in T : <<y, x>> \notin OpToRel(<, Nat)
  BY NatLessThanWellFounded, WFMin, Zenon
<1>2. \A y \in T : ~(y < x)
  BY <1>1 DEF OpToRel
<1> QED BY <1>2

\* f satisfies the equation for the arguments in P.
Solves(f, P, base, init, nxt, step) ==
  \A x \in P : f[x] = IF x \in base THEN init[x] ELSE step[x][f[nxt[x]]]

Recursion(D, S, m, base, init, nxt, step) ==
  /\ m \in [D -> Nat] /\ init \in [D -> S] /\ nxt \in [D -> D] /\ step \in [D -> [S -> S]]
  /\ \A x \in D : x \notin base => m[nxt[x]] < m[x]

Below(D, m, n) == {x \in D : m[x] < n}

Hereditary(D, m, G) == \A x \in D : (\A y \in D : m[y] < m[x] => y \in G) => x \in G

\* A measure below which nothing is wrong carries every argument.
LEMMA MeasureInduction ==
  ASSUME NEW D, NEW m, NEW G, m \in [D -> Nat], G \in SUBSET D, Hereditary(D, m, G)
  PROVE  G = D
<1>1. SUFFICES ASSUME NEW z \in D, z \notin G  PROVE FALSE
  OBVIOUS
<1> DEFINE T == {m[x] : x \in D \ G}
<1>2. T \in SUBSET Nat /\ m[z] \in T
  BY <1>1
<1>3. PICK t \in T : \A y \in T : t <= y
  <2> HIDE DEF T
  <2> QED BY <1>2, LeastExists
<1>4. PICK x \in D \ G : t = m[x]
  BY <1>3
<1>5. \A y \in D : m[y] < m[x] => y \in G
  <2> SUFFICES ASSUME NEW y \in D, m[y] < m[x], y \notin G  PROVE FALSE
    OBVIOUS
  <2>1. m[y] \in T
    OBVIOUS
  <2>2. m[x] <= m[y] /\ m[x] \in Nat /\ m[y] \in Nat
    BY <2>1, <1>3, <1>4
  <2> QED BY <2>2
<1> QED BY <1>4, <1>5 DEF Hereditary

\* The same for numbers.
LEMMA StrongInduction ==
  ASSUME NEW G \in SUBSET Nat, \A x \in Nat : (\A y \in 0 .. x - 1 : y \in G) => x \in G
  PROVE  \A x \in Nat : x \in G
<1>1. SUFFICES ASSUME Nat \ G # {}  PROVE FALSE
  OBVIOUS
<1>2. PICK x \in Nat \ G : \A y \in Nat \ G : x <= y
  BY <1>1, LeastExists
<1>3. ASSUME NEW y \in 0 .. x - 1  PROVE y \in G
  BY <1>2
<1> QED BY <1>2, <1>3

\* Two solutions agree wherever both solve.
LEMMA SolutionUnique ==
  ASSUME NEW D, NEW S, NEW m, NEW base, NEW init, NEW nxt, NEW step,
         Recursion(D, S, m, base, init, nxt, step),
         NEW n \in Nat, NEW f, NEW g,
         Solves(f, Below(D, m, n), base, init, nxt, step),
         Solves(g, Below(D, m, n), base, init, nxt, step)
  PROVE  \A x \in D : m[x] < n => f[x] = g[x]
<1> USE DEF Recursion, Below
<1> DEFINE G == {x \in D : m[x] < n => f[x] = g[x]}
<1>1. ASSUME NEW x \in D, \A y \in D : m[y] < m[x] => y \in G  PROVE x \in G
  <2>1. SUFFICES ASSUME m[x] < n  PROVE f[x] = g[x]
    OBVIOUS
  <2>2. CASE x \in base
    BY <2>1, <2>2 DEF Solves
  <2>3. CASE x \notin base
    <3>1. nxt[x] \in D /\ m[nxt[x]] < m[x] /\ m[x] \in Nat /\ m[nxt[x]] \in Nat
      BY <2>3
    <3>2. nxt[x] \in G /\ m[nxt[x]] < n
      BY <3>1, <1>1, <2>1
    <3>3. f[nxt[x]] = g[nxt[x]]
      BY <3>2
    <3> QED BY <3>3, <2>1, <2>3 DEF Solves
  <2> QED BY <2>2, <2>3
<1>2. G = D
  <2>1. G \in SUBSET D /\ m \in [D -> Nat]
    OBVIOUS
  <2> HIDE DEF G, Recursion
  <2>2. Hereditary(D, m, G)
    BY <1>1 DEF Hereditary
  <2> QED BY <2>1, <2>2, MeasureInduction
<1> QED BY <1>2

\* There is a solution up to every measure.
LEMMA SolutionBelow ==
  ASSUME NEW D, NEW S, NEW m, NEW base, NEW init, NEW nxt, NEW step,
         Recursion(D, S, m, base, init, nxt, step), NEW n \in Nat
  PROVE  \E f \in [D -> S] : Solves(f, Below(D, m, n), base, init, nxt, step)
<1> USE DEF Recursion, Below
<1> DEFINE T == {k \in Nat : ~ \E f \in [D -> S] : Solves(f, Below(D, m, k), base, init, nxt, step)}
<1>1. SUFFICES ASSUME T # {}  PROVE FALSE
  OBVIOUS
<1>2. PICK k \in T : \A j \in T : k <= j
  <2> T \in SUBSET Nat
    OBVIOUS
  <2> HIDE DEF T
  <2> QED BY <1>1, LeastExists
<1>3. k # 0
  <2>1. Below(D, m, 0) = {}
    OBVIOUS
  <2>2. Solves(init, Below(D, m, 0), base, init, nxt, step)
    BY <2>1 DEF Solves
  <2>3. 0 \notin T
    BY <2>2
  <2> QED BY <2>3, <1>2
<1>4. k - 1 \in Nat /\ k - 1 \notin T
  <2>1. k \in Nat
    BY <1>2
  <2>2. k - 1 \in Nat /\ ~(k <= k - 1)
    BY <2>1, <1>3
  <2> HIDE DEF T
  <2> QED BY <2>2, <1>2
<1>5. PICK f \in [D -> S] : Solves(f, Below(D, m, k - 1), base, init, nxt, step)
  BY <1>4
<1> DEFINE g == [x \in D |-> IF x \in base THEN init[x] ELSE step[x][f[nxt[x]]]]
<1>6. g \in [D -> S]
  <2>1. \A x \in D : init[x] \in S /\ step[x][f[nxt[x]]] \in S
    OBVIOUS
  <2> QED BY <2>1
<1>7. \A x \in Below(D, m, k - 1) : g[x] = f[x]
  BY <1>5 DEF Solves
<1>8. ASSUME NEW x \in Below(D, m, k)
      PROVE  g[x] = IF x \in base THEN init[x] ELSE step[x][g[nxt[x]]]
  <2>1. CASE x \in base
    BY <2>1
  <2>2. CASE x \notin base
    <3>1. m[nxt[x]] < m[x] /\ m[x] < k /\ m[x] \in Nat /\ m[nxt[x]] \in Nat /\ nxt[x] \in D /\ k \in Nat
      BY <2>2
    <3>2. nxt[x] \in Below(D, m, k - 1)
      BY <3>1
    <3>3. g[nxt[x]] = f[nxt[x]]
      BY <3>2, <1>7
    <3>4. g[x] = step[x][f[nxt[x]]]
      BY <2>2
    <3> HIDE DEF g
    <3> QED BY <3>3, <3>4, <2>2
  <2> QED BY <2>1, <2>2
<1>9. Solves(g, Below(D, m, k), base, init, nxt, step)
  <2> HIDE DEF g
  <2> QED BY <1>8 DEF Solves
<1> QED BY <1>2, <1>6, <1>9

\* There is a solution for all arguments.
LEMMA SolutionExists ==
  ASSUME NEW D, NEW S, NEW m, NEW base, NEW init, NEW nxt, NEW step,
         Recursion(D, S, m, base, init, nxt, step)
  PROVE  \E f \in [D -> S] : Solves(f, D, base, init, nxt, step)
<1> DEFINE h == [k \in Nat |-> CHOOSE f \in [D -> S] : Solves(f, Below(D, m, k), base, init, nxt, step)]
           g == [x \in D |-> h[m[x] + 1][x]]
<1>0. \A x \in D : m[x] \in Nat /\ nxt[x] \in D /\ (x \notin base => m[nxt[x]] < m[x])
  BY DEF Recursion
<1>1. \A k \in Nat : h[k] \in [D -> S] /\ Solves(h[k], Below(D, m, k), base, init, nxt, step)
  <2> SUFFICES ASSUME NEW k \in Nat
               PROVE  h[k] \in [D -> S] /\ Solves(h[k], Below(D, m, k), base, init, nxt, step)
    OBVIOUS
  <2>1. \E f \in [D -> S] : Solves(f, Below(D, m, k), base, init, nxt, step)
    BY SolutionBelow
  <2>2. h[k] = CHOOSE f \in [D -> S] : Solves(f, Below(D, m, k), base, init, nxt, step)
    OBVIOUS
  <2> HIDE DEF h
  <2> QED BY <2>1, <2>2
<1>2. g \in [D -> S]
  <2>1. \A x \in D : m[x] + 1 \in Nat
    BY <1>0
  <2> HIDE DEF h
  <2> QED BY <1>1, <2>1
<1>3. ASSUME NEW x \in D, NEW k \in Nat, m[x] < k  PROVE h[k][x] = g[x]
  <2> DEFINE j == m[x] + 1
  <2>1. j \in Nat /\ m[x] < j /\ j <= k
    BY <1>0, <1>3
  <2>2. Solves(h[k], Below(D, m, j), base, init, nxt, step)
    <3>1. Below(D, m, j) \subseteq Below(D, m, k)
      BY <1>0, <2>1 DEF Below
    <3> HIDE DEF h, j
    <3> QED BY <3>1, <1>1 DEF Solves
  <2>3. Solves(h[j], Below(D, m, j), base, init, nxt, step)
    <3> HIDE DEF h, j
    <3> QED BY <2>1, <1>1
  <2>4. h[k][x] = h[j][x]
    <3> HIDE DEF h, j
    <3>1. \A y \in D : m[y] < j => h[k][y] = h[j][y]
      BY <2>1, <2>2, <2>3, SolutionUnique
    <3> QED BY <2>1, <3>1
  <2> QED BY <2>4
<1>4. ASSUME NEW x \in D
      PROVE  g[x] = IF x \in base THEN init[x] ELSE step[x][g[nxt[x]]]
  <2> DEFINE k == m[x] + 1
  <2>1. k \in Nat /\ m[x] < k /\ x \in Below(D, m, k)
    BY <1>0 DEF Below
  <2>2. g[x] = IF x \in base THEN init[x] ELSE step[x][h[k][nxt[x]]]
    <3>1. g[x] = h[k][x]
      OBVIOUS
    <3> HIDE DEF h, k, g
    <3> QED BY <3>1, <2>1, <1>1 DEF Solves
  <2>3. x \notin base => h[k][nxt[x]] = g[nxt[x]]
    <3>1. nxt[x] \in D /\ m[nxt[x]] \in Nat /\ m[x] \in Nat
      BY <1>0
    <3>2. x \notin base => m[nxt[x]] < k
      BY <1>0, <3>1, <2>1
    <3> HIDE DEF h, k, g
    <3> QED BY <3>1, <3>2, <2>1, <1>3
  <2> HIDE DEF h, k, g
  <2> QED BY <2>2, <2>3
<1> QED
  <2> HIDE DEF h, g
  <2> QED BY <1>2, <1>4 DEF Solves

(***************************************************************************)
(* Numerals.                                                               *)
(***************************************************************************)

LEMMA Division ==
  ASSUME NEW n \in Nat \ {0}, NEW k \in Nat
  PROVE  k \div n \in Nat /\ k % n \in 0 .. n - 1 /\ k = n * (k \div n) + (k % n)
<1>1. PICK q \in Int : q = k \div n
  OBVIOUS
<1>2. PICK r \in Int : r = k % n
  OBVIOUS
<1>3. k = n * q + r
  BY <1>1, <1>2
<1>4. r \in 0 .. n - 1
  BY <1>2
<1>5. q >= 0
  <2>1. SUFFICES ASSUME q <= -1  PROVE FALSE
    OBVIOUS
  <2>2. n * q <= n * (-1)
    BY <2>1
  <2> QED BY <2>2, <1>3, <1>4
<1> QED BY <1>1, <1>2, <1>3, <1>4, <1>5

LEMMA QuotientSmaller ==
  ASSUME NEW n \in Nat \ {0, 1}, NEW k \in Nat \ {0}
  PROVE  k \div n < k
<1>1. k \div n \in Nat /\ k % n \in 0 .. n - 1 /\ k = n * (k \div n) + (k % n)
  BY Division
<1>2. PICK q \in Nat, r \in Nat : q = k \div n /\ r = k % n /\ k = n * q + r
  BY <1>1
<1>3. n * q >= 2 * q
  BY <1>2
<1>4. SUFFICES ASSUME q >= k  PROVE FALSE
  BY <1>2
<1> QED BY <1>2, <1>3, <1>4

\* sprintf writes the digits one by one, the last one last.
LEMMA DigitsEquation ==
  /\ digits \in [Nat -> Seq(0 .. N - 1)]
  /\ \A k \in Nat : digits[k] = IF k < N THEN <<k>> ELSE Append(digits[k \div N], k % N)
<1> DEFINE S    == Seq(0 .. N - 1)
           m    == [k \in Nat |-> k]
           base == 0 .. N - 1
           init == [k \in Nat |-> IF k < N THEN <<k>> ELSE << >>]
           nxt  == [k \in Nat |-> k \div N]
           step == [k \in Nat |-> [s \in S |-> Append(s, k % N)]]
           F(f) == [k \in Nat |-> IF k < N THEN <<k>> ELSE Append(f[k \div N], k % N)]
<1>0. N \in Nat \ {0, 1}
  BY TablesAssumption
<1>1. \A k \in Nat : k \div N \in Nat /\ k % N \in 0 .. N - 1 /\ (~(k < N) => k \div N < k)
  <2> SUFFICES ASSUME NEW k \in Nat
               PROVE  k \div N \in Nat /\ k % N \in 0 .. N - 1 /\ (~(k < N) => k \div N < k)
    OBVIOUS
  <2>1. k \div N \in Nat /\ k % N \in 0 .. N - 1
    BY <1>0, Division
  <2>2. ~(k < N) => k \in Nat \ {0}
    BY <1>0
  <2> QED BY <2>1, <2>2, <1>0, QuotientSmaller
<1>2. Recursion(Nat, S, m, base, init, nxt, step)
  <2>1. m \in [Nat -> Nat] /\ nxt \in [Nat -> Nat]
    BY <1>1
  <2>2. init \in [Nat -> S]
    <3> SUFFICES ASSUME NEW k \in Nat  PROVE init[k] \in S
      OBVIOUS
    <3>1. CASE k < N
      <4>1. k \in 0 .. N - 1
        BY <1>0, <3>1
      <4> QED BY <3>1, <4>1
    <3>2. CASE ~(k < N)
      BY <3>2
    <3> QED BY <3>1, <3>2
  <2>3. step \in [Nat -> [S -> S]]
    <3> SUFFICES ASSUME NEW k \in Nat, NEW s \in S  PROVE Append(s, k % N) \in S
      OBVIOUS
    <3>1. k % N \in 0 .. N - 1
      BY <1>1
    <3> QED BY <3>1, AppendProperties
  <2>4. \A x \in Nat : x \notin base => m[nxt[x]] < m[x]
    BY <1>0, <1>1
  <2> HIDE DEF S, m, base, init, nxt, step
  <2> QED BY <2>1, <2>2, <2>3, <2>4 DEF Recursion
<1>3. PICK f \in [Nat -> S] : Solves(f, Nat, base, init, nxt, step)
  <2> HIDE DEF S, m, base, init, nxt, step
  <2> QED BY <1>2, SolutionExists
<1>4. f = F(f)
  <2>1. ASSUME NEW k \in Nat
        PROVE  f[k] = IF k < N THEN <<k>> ELSE Append(f[k \div N], k % N)
    <3>1. f[k] = IF k \in base THEN init[k] ELSE step[k][f[nxt[k]]]
      <4> HIDE DEF S, m, base, init, nxt, step
      <4> QED BY <1>3 DEF Solves
    <3>2. f[nxt[k]] \in S /\ nxt[k] = k \div N
      BY <1>1
    <3>3. CASE k < N
      <4>1. k \in base /\ init[k] = <<k>>
        BY <3>3, <1>0
      <4> QED BY <3>1, <4>1, <3>3
    <3>4. CASE ~(k < N)
      <4>1. k \notin base /\ step[k] = [s \in S |-> Append(s, k % N)]
        BY <3>4, <1>0
      <4>2. f[k] = step[k][f[nxt[k]]]
        <5> HIDE DEF base, init, nxt, step
        <5> QED BY <4>1, <3>1
      <4>3. step[k][f[nxt[k]]] = Append(f[nxt[k]], k % N)
        <5> HIDE DEF S, nxt, step
        <5> QED BY <4>1, <3>2
      <4> QED BY <4>2, <4>3, <3>2, <3>4
    <3> QED BY <3>3, <3>4
  <2> QED BY <2>1
<1>5. digits = F(digits)
  <2>1. digits = CHOOSE g : g = F(g)
    BY DEF digits
  <2> QED BY <1>4, <2>1
<1>6. \A k \in Nat : digits[k] = IF k < N THEN <<k>> ELSE Append(digits[k \div N], k % N)
  <2> HIDE DEF digits
  <2> QED BY <1>5
<1> HIDE DEF m, base, init, nxt, step, F, digits
<1> DEFINE G == {k \in Nat : digits[k] \in S}
<1>7. ASSUME NEW x \in Nat, \A y \in 0 .. x - 1 : y \in G  PROVE x \in G
  <2>1. CASE x < N
    <3>1. x \in 0 .. N - 1
      BY <2>1, <1>0
    <3>2. digits[x] = <<x>>
      BY <2>1, <1>6
    <3>3. <<x>> \in S
      BY <3>1
    <3> QED BY <3>2, <3>3
  <2>2. CASE ~(x < N)
    <3>1. x \div N \in 0 .. x - 1 /\ x % N \in 0 .. N - 1
      BY <2>2, <1>1
    <3>2. digits[x \div N] \in S
      BY <3>1, <1>7
    <3>3. digits[x] = Append(digits[x \div N], x % N)
      BY <2>2, <1>6
    <3>4. Append(digits[x \div N], x % N) \in S
      BY <3>1, <3>2, AppendProperties
    <3> QED BY <3>3, <3>4
  <2> QED BY <2>1, <2>2
<1>8. \A k \in Nat : k \in G
  <2>1. G \in SUBSET Nat
    OBVIOUS
  <2> HIDE DEF G
  <2> QED BY <1>7, <2>1, StrongInduction
<1>9. \A k \in Nat : digits[k] \in S
  BY <1>8
<1> QED BY <1>9, <1>5, <1>6 DEF F

\* f[i] is the value of the first i digits of w, for the first n digits.
ValuesUpTo(f, w, n) == \A i \in 0 .. n : f[i] = IF i = 0 THEN 0 ELSE N * f[i - 1] + w[i]

Alike(w, u, n) == \A i \in 1 .. n : w[i] = u[i]

\* Numerals that begin alike have the same values as far as they do.
LEMMA ValuesAgree ==
  ASSUME NEW w, NEW u, NEW n \in Nat, NEW f, NEW g, Alike(w, u, n),
         ValuesUpTo(f, w, n), ValuesUpTo(g, u, n)
  PROVE  \A i \in 0 .. n : f[i] = g[i]
<1> USE DEF ValuesUpTo, Alike
<1> DEFINE G == {i \in Nat : i <= n => f[i] = g[i]}
<1>1. ASSUME NEW x \in Nat, \A y \in 0 .. x - 1 : y \in G  PROVE x \in G
  <2>1. SUFFICES ASSUME x <= n  PROVE f[x] = g[x]
    OBVIOUS
  <2>2. x \in 0 .. n
    BY <2>1
  <2>3. CASE x = 0
    BY <2>2, <2>3
  <2>4. CASE x # 0
    <3>1. x - 1 \in 0 .. x - 1 /\ x - 1 <= n /\ x \in 1 .. n
      BY <2>2, <2>4
    <3>2. f[x - 1] = g[x - 1] /\ w[x] = u[x]
      BY <3>1, <1>1
    <3>3. f[x] = N * f[x - 1] + w[x] /\ g[x] = N * g[x - 1] + u[x]
      BY <2>2, <2>4
    <3> QED BY <3>2, <3>3
  <2> QED BY <2>3, <2>4
<1>2. \A x \in Nat : x \in G
  <2>1. G \in SUBSET Nat
    OBVIOUS
  <2> HIDE DEF G
  <2> QED BY <1>1, <2>1, StrongInduction
<1> QED BY <1>2

\* What atoi computes: its value for a numeral with one digit more.
LEMMA ValueExists ==
  ASSUME NEW w \in Seq(Nat)
  PROVE  \E f \in [0 .. Len(w) -> Nat] : atoi(w) = f[Len(w)] /\ ValuesUpTo(f, w, Len(w))
<1> DEFINE D    == 0 .. Len(w)
           m    == [i \in D |-> i]
           base == {0}
           init == [i \in D |-> 0]
           nxt  == [i \in D |-> IF i = 0 THEN 0 ELSE i - 1]
           step == [i \in D |-> [v \in Nat |-> IF i = 0 THEN 0 ELSE N * v + w[i]]]
           F(f) == [i \in 0 .. Len(w) |-> IF i = 0 THEN 0 ELSE N * f[i - 1] + w[i]]
<1>0. N \in Nat \ {0, 1} /\ Len(w) \in Nat
  BY TablesAssumption
<1>1. Recursion(D, Nat, m, base, init, nxt, step)
  <2>1. m \in [D -> Nat] /\ nxt \in [D -> D] /\ init \in [D -> Nat]
    BY <1>0
  <2>2. step \in [D -> [Nat -> Nat]]
    <3> SUFFICES ASSUME NEW i \in D, NEW v \in Nat
                 PROVE  (IF i = 0 THEN 0 ELSE N * v + w[i]) \in Nat
      OBVIOUS
    <3>1. CASE i # 0
      <4>1. i \in 1 .. Len(w)
        BY <3>1, <1>0
      <4>2. w[i] \in Nat
        BY <4>1
      <4>3. N * v \in Nat
        BY <1>0
      <4> QED BY <4>2, <4>3
    <3> QED BY <3>1
  <2>3. \A x \in D : x \notin base => m[nxt[x]] < m[x]
    BY <1>0
  <2> HIDE DEF D, m, base, init, nxt, step
  <2> QED BY <2>1, <2>2, <2>3 DEF Recursion
<1>2. PICK f \in [D -> Nat] : Solves(f, D, base, init, nxt, step)
  <2> HIDE DEF D, m, base, init, nxt, step
  <2> QED BY <1>1, SolutionExists
<1>3. f = F(f)
  <2>1. ASSUME NEW i \in D  PROVE f[i] = IF i = 0 THEN 0 ELSE N * f[i - 1] + w[i]
    <3>1. f[i] = IF i \in base THEN init[i] ELSE step[i][f[nxt[i]]]
      <4> HIDE DEF D, m, base, init, nxt, step
      <4> QED BY <1>2 DEF Solves
    <3>2. CASE i = 0
      BY <3>1, <3>2
    <3>3. CASE i # 0
      <4>1. nxt[i] = i - 1 /\ f[nxt[i]] \in Nat
        BY <3>3, <1>0
      <4>2. step[i] = [v \in Nat |-> N * v + w[i]]
        BY <3>3
      <4>3. step[i][f[nxt[i]]] = N * f[nxt[i]] + w[i]
        <5> HIDE DEF nxt, step
        <5> QED BY <4>1, <4>2
      <4>4. f[i] = step[i][f[nxt[i]]]
        <5> HIDE DEF init, nxt, step
        <5> QED BY <3>1, <3>3
      <4> HIDE DEF nxt, step
      <4> QED BY <4>1, <4>3, <4>4, <3>3
    <3> QED BY <3>2, <3>3
  <2> QED BY <2>1
<1> DEFINE value == CHOOSE g : g = F(g)
<1>4. value = F(value)
  <2> HIDE DEF F
  <2> QED BY <1>3
<1>5. atoi(w) = value[Len(w)]
  BY DEF atoi
<1> QED
  <2>1. ValuesUpTo(value, w, Len(w))
    <3> HIDE DEF value
    <3> QED BY <1>4 DEF ValuesUpTo
  <2>2. ValuesUpTo(f, w, Len(w))
    BY <1>3 DEF ValuesUpTo
  <2>3. \A i \in 0 .. Len(w) : f[i] = value[i]
    <3> HIDE DEF value
    <3>1. Alike(w, w, Len(w))
      BY DEF Alike
    <3> QED BY <2>1, <2>2, <3>1, <1>0, ValuesAgree
  <2>4. atoi(w) = f[Len(w)]
    <3> HIDE DEF value
    <3> QED BY <2>3, <1>5, <1>0
  <2> QED BY <2>2, <2>4

LEMMA AtoiAppend ==
  ASSUME NEW w \in Seq(Nat), NEW d \in Nat
  PROVE  atoi(w) \in Nat /\ atoi(Append(w, d)) = N * atoi(w) + d /\ atoi(<<d>>) = d
<1>0. PICK u : u = Append(w, d)
  OBVIOUS
<1>1. u \in Seq(Nat) /\ Len(u) = Len(w) + 1 /\ Len(w) \in Nat /\ u[Len(w) + 1] = d
      /\ \A i \in 1 .. Len(w) : w[i] = u[i]
  BY <1>0, AppendProperties
<1>2. PICK f \in [0 .. Len(w) -> Nat] :
        atoi(w) = f[Len(w)] /\ ValuesUpTo(f, w, Len(w))
  BY ValueExists
<1>3. PICK g \in [0 .. Len(u) -> Nat] :
        atoi(u) = g[Len(u)] /\ ValuesUpTo(g, u, Len(u))
  BY <1>1, ValueExists
<1>4. \A i \in 0 .. Len(w) : f[i] = g[i]
  <2>1. ValuesUpTo(g, u, Len(w))
    BY <1>1, <1>3 DEF ValuesUpTo
  <2>2. PICK n \in Nat : n = Len(w)
    BY <1>1
  <2>3. ValuesUpTo(f, w, n) /\ ValuesUpTo(g, u, n)
    BY <1>2, <2>1, <2>2
  <2>4. Alike(w, u, n)
    BY <1>1, <2>2 DEF Alike
  <2>5. \A i \in 0 .. n : f[i] = g[i]
    BY <2>3, <2>4, ValuesAgree
  <2> QED BY <2>2, <2>5
<1>5. atoi(w) \in Nat
  <2>1. Len(w) \in 0 .. Len(w)
    BY <1>1
  <2>2. f[Len(w)] \in Nat
    BY <2>1
  <2> QED BY <2>2, <1>2
<1>6. atoi(u) = N * g[Len(w)] + d
  <2>1. Len(w) + 1 \in 0 .. Len(u) /\ Len(w) + 1 # 0 /\ Len(w) + 1 - 1 = Len(w)
    BY <1>1
  <2>2. g[Len(w) + 1] = N * g[Len(w)] + u[Len(w) + 1]
    BY <1>3, <2>1 DEF ValuesUpTo
  <2> QED BY <1>1, <1>3, <2>2
<1>7. g[Len(w)] = atoi(w)
  BY <1>1, <1>2, <1>4
<1>8. atoi(<<d>>) = d
  <2>1. <<d>> \in Seq(Nat) /\ Len(<<d>>) = 1 /\ <<d>>[1] = d
    OBVIOUS
  <2>2. PICK h \in [0 .. Len(<<d>>) -> Nat] :
          atoi(<<d>>) = h[Len(<<d>>)] /\ ValuesUpTo(h, <<d>>, Len(<<d>>))
    BY <2>1, ValueExists
  <2>3. h[0] = 0 /\ h[1] = N * h[1 - 1] + <<d>>[1]
    BY <2>1, <2>2 DEF ValuesUpTo
  <2>4. N * 0 = 0
    BY TablesAssumption
  <2> QED BY <2>1, <2>2, <2>3, <2>4
<1> QED BY <1>0, <1>5, <1>6, <1>7, <1>8

\* atoi undoes sprintf: equal numerals are of equal numbers.
LEMMA NumeralRead ==
  \A n \in Nat : sprintf(n) \in Seq(0 .. N - 1) /\ atoi(sprintf(n)) = n
<1>0. N \in Nat \ {0, 1} /\ Seq(0 .. N - 1) \subseteq Seq(Nat)
  BY TablesAssumption
<1>1. \A n \in Nat : digits[n] \in Seq(0 .. N - 1)
  BY DigitsEquation
<1> DEFINE G == {n \in Nat : atoi(digits[n]) = n}
<1>2. ASSUME NEW x \in Nat, \A y \in 0 .. x - 1 : y \in G  PROVE x \in G
  <2>1. digits[x] = IF x < N THEN <<x>> ELSE Append(digits[x \div N], x % N)
    BY DigitsEquation
  <2>2. CASE x < N
    <3>1. << >> \in Seq(Nat)
      OBVIOUS
    <3>2. atoi(<<x>>) = x
      BY <3>1, AtoiAppend
    <3> QED BY <2>1, <2>2, <3>2
  <2>3. CASE ~(x < N)
    <3>1. x \in Nat \ {0} /\ N \in Nat \ {0}
      BY <2>3, <1>0
    <3>2. x \div N \in Nat /\ x % N \in 0 .. N - 1 /\ x = N * (x \div N) + (x % N)
      BY <3>1, Division
    <3>3. x \div N < x
      BY <1>0, <3>1, QuotientSmaller
    <3>4. PICK q \in Nat, r \in Nat : q = x \div N /\ r = x % N
      BY <3>2
    <3>5. q \in 0 .. x - 1 /\ x = N * q + r
      BY <3>2, <3>3, <3>4
    <3>6. atoi(digits[q]) = q /\ digits[q] \in Seq(Nat)
      BY <3>5, <1>0, <1>1, <1>2
    <3>7. atoi(Append(digits[q], r)) = N * atoi(digits[q]) + r
      BY <3>6, <3>4, AtoiAppend
    <3>8. digits[x] = Append(digits[q], r)
      BY <2>1, <2>3, <3>4
    <3> QED BY <3>5, <3>6, <3>7, <3>8
  <2> QED BY <2>2, <2>3
<1>3. \A n \in Nat : n \in G
  <2>1. G \in SUBSET Nat
    OBVIOUS
  <2> HIDE DEF G
  <2> QED BY <1>2, <2>1, StrongInduction
<1> QED BY <1>1, <1>3 DEF sprintf

(***************************************************************************)
(* Binary search.                                                          *)
(***************************************************************************)

Sorted(arr) == \A i, j \in 1 .. Len(arr) : i <= j => arr[i] <= arr[j]

\* The sections of the array, <<l, r>>, and their middles.
Sections(arr) == (0 .. Len(arr)) \X (-1 .. Len(arr) - 1)
Mid(lr) == lr[1] + (lr[2] - lr[1]) \div 2

LEMMA MidInside ==
  ASSUME NEW arr \in Seq(Int), NEW lr \in Sections(arr), ~(lr[2] < lr[1])
  PROVE  /\ Mid(lr) \in lr[1] .. lr[2] /\ Mid(lr) \in Nat
         /\ Mid(lr) + 1 \in 1 .. Len(arr) /\ arr[Mid(lr) + 1] \in Int
         /\ lr[1] \in Nat /\ lr[2] \in Nat /\ lr[2] <= Len(arr) - 1 /\ Len(arr) \in Nat
<1>1. PICK l \in 0 .. Len(arr), r \in -1 .. Len(arr) - 1 : l = lr[1] /\ r = lr[2]
  BY DEF Sections
<1>2. Len(arr) \in Nat /\ l <= r /\ l \in Nat /\ r \in Nat /\ r <= Len(arr) - 1
  BY <1>1
<1>3. (r - l) \div 2 \in 0 .. r - l
  BY <1>2
<1>4. l + (r - l) \div 2 \in l .. r
  BY <1>2, <1>3
<1>5. Mid(lr) = l + (r - l) \div 2
  BY <1>1 DEF Mid
<1>6. Mid(lr) + 1 \in 1 .. Len(arr)
  BY <1>2, <1>4, <1>5
<1>7. arr[Mid(lr) + 1] \in Int
  BY <1>6, ElementOfSeq
<1>8. Mid(lr) \in lr[1] .. lr[2] /\ Mid(lr) \in Nat
  BY <1>1, <1>2, <1>4, <1>5
<1> QED BY <1>1, <1>2, <1>6, <1>7, <1>8

\* One call of binarySearch in terms of its callee.
Search(f, arr, x, lr) ==
  IF lr[2] < lr[1] THEN -1
  ELSE IF arr[Mid(lr) + 1] = x THEN Mid(lr)
  ELSE IF arr[Mid(lr) + 1] > x THEN f[<<lr[1], Mid(lr) - 1>>] ELSE f[<<Mid(lr) + 1, lr[2]>>]

\* The length of a section; the halves are shorter.
Span(arr) == [lr \in Sections(arr) |-> IF lr[2] < lr[1] THEN 0 ELSE lr[2] - lr[1] + 1]

LEMMA HalvesShorter ==
  ASSUME NEW arr \in Seq(Int), NEW lr \in Sections(arr)
  PROVE  /\ Span(arr)[lr] \in Nat
         /\ ~(lr[2] < lr[1]) =>
              /\ <<lr[1], Mid(lr) - 1>> \in Sections(arr)
              /\ <<Mid(lr) + 1, lr[2]>> \in Sections(arr)
              /\ Span(arr)[<<lr[1], Mid(lr) - 1>>] < Span(arr)[lr]
              /\ Span(arr)[<<Mid(lr) + 1, lr[2]>>] < Span(arr)[lr]
<1>1. PICK l \in 0 .. Len(arr), r \in -1 .. Len(arr) - 1 : l = lr[1] /\ r = lr[2]
  BY DEF Sections
<1>2. Span(arr)[lr] = IF r < l THEN 0 ELSE r - l + 1
  BY <1>1 DEF Span
<1>3. Span(arr)[lr] \in Nat
  BY <1>1, <1>2
<1>4. ASSUME ~(r < l)
      PROVE  /\ <<l, Mid(lr) - 1>> \in Sections(arr) /\ <<Mid(lr) + 1, r>> \in Sections(arr)
             /\ Span(arr)[<<l, Mid(lr) - 1>>] < Span(arr)[lr]
             /\ Span(arr)[<<Mid(lr) + 1, r>>] < Span(arr)[lr]
  <2>1. PICK c \in Nat : c = Mid(lr) /\ c \in l .. r /\ r <= Len(arr) - 1 /\ Len(arr) \in Nat
    BY <1>1, <1>4, MidInside
  <2>2. <<l, c - 1>> \in Sections(arr) /\ <<c + 1, r>> \in Sections(arr)
    <3>1. c - 1 \in -1 .. Len(arr) - 1 /\ c + 1 \in 0 .. Len(arr)
      BY <2>1
    <3> QED BY <3>1 DEF Sections
  <2>3. Span(arr)[<<l, c - 1>>] = IF c - 1 < l THEN 0 ELSE c - 1 - l + 1
    BY <2>2 DEF Span
  <2>4. Span(arr)[<<c + 1, r>>] = IF r < c + 1 THEN 0 ELSE r - (c + 1) + 1
    BY <2>2 DEF Span
  <2>5. Span(arr)[<<l, c - 1>>] < Span(arr)[lr] /\ Span(arr)[<<c + 1, r>>] < Span(arr)[lr]
    <3>1. PICK n : n = Span(arr)[lr]
      OBVIOUS
    <3>2. PICK a, b : a = Span(arr)[<<l, c - 1>>] /\ b = Span(arr)[<<c + 1, r>>]
      OBVIOUS
    <3>3. l \in Int /\ r \in Int /\ l <= c /\ c <= r
      BY <2>1
    <3>4. n = r - l + 1
      BY <1>2, <1>4, <3>1
    <3>5. a = (IF c - 1 < l THEN 0 ELSE c - 1 - l + 1) /\ b = IF r < c + 1 THEN 0 ELSE r - (c + 1) + 1
      BY <2>3, <2>4, <3>2
    <3>6. a < n /\ b < n
      BY <3>3, <3>4, <3>5
    <3> QED BY <3>1, <3>2, <3>6
  <2> QED BY <2>1, <2>2, <2>5
<1> QED BY <1>1, <1>3, <1>4

LEMMA SearchExists ==
  ASSUME NEW arr \in Seq(Int), NEW x \in Int
  PROVE  \E f : /\ binarySearch(arr, x) = f[<<0, Len(arr) - 1>>]
                /\ \A lr \in Sections(arr) : f[lr] = Search(f, arr, x, lr)
<1> DEFINE D    == Sections(arr)
           m    == Span(arr)
           base == {lr \in D : lr[2] < lr[1] \/ arr[Mid(lr) + 1] = x}
           init == [lr \in D |-> IF lr[2] < lr[1] THEN -1 ELSE Mid(lr)]
           nxt  == [lr \in D |-> IF lr \in base THEN lr
                                 ELSE IF arr[Mid(lr) + 1] > x THEN <<lr[1], Mid(lr) - 1>>
                                 ELSE <<Mid(lr) + 1, lr[2]>>]
           step == [lr \in D |-> [v \in Int |-> v]]
           F(f) == [lr \in (0 .. Len(arr)) \X (-1 .. Len(arr) - 1) |->
                      LET l == lr[1]
                          r == lr[2]
                          mid == l + (r - l) \div 2
                      IN  IF r < l THEN -1
                          ELSE IF arr[mid + 1] = x THEN mid
                          ELSE IF arr[mid + 1] > x THEN f[<<l, mid - 1>>] ELSE f[<<mid + 1, r>>]]
<1>1. Recursion(D, Int, m, base, init, nxt, step)
  <2>1. m \in [D -> Nat]
    <3>1. m = [lr \in D |-> m[lr]]
      BY DEF Span
    <3>2. \A lr \in D : m[lr] \in Nat
      BY HalvesShorter
    <3> HIDE DEF D, m
    <3> QED BY <3>1, <3>2
  <2>2. init \in [D -> Int]
    <3> SUFFICES ASSUME NEW lr \in D  PROVE init[lr] \in Int
      OBVIOUS
    <3>1. CASE lr[2] < lr[1]
      BY <3>1
    <3>2. CASE ~(lr[2] < lr[1])
      <4>1. Mid(lr) \in Nat
        BY <3>2, MidInside
      <4> QED BY <3>2, <4>1
    <3> QED BY <3>1, <3>2
  <2>3. ASSUME NEW lr \in D  PROVE nxt[lr] \in D /\ (lr \notin base => m[nxt[lr]] < m[lr])
    <3>1. CASE lr \in base
      BY <3>1
    <3>2. CASE lr \notin base
      <4>1. ~(lr[2] < lr[1])
        BY <3>2
      <4>2. nxt[lr] = <<lr[1], Mid(lr) - 1>> \/ nxt[lr] = <<Mid(lr) + 1, lr[2]>>
        BY <3>2
      <4> HIDE DEF base, nxt
      <4> QED BY <4>1, <4>2, HalvesShorter
    <3> QED BY <3>1, <3>2
  <2>4. nxt \in [D -> D]
    <3>1. nxt = [lr \in D |-> nxt[lr]]
      OBVIOUS
    <3> HIDE DEF D, nxt
    <3> QED BY <2>3, <3>1
  <2>5. step \in [D -> [Int -> Int]]
    OBVIOUS
  <2> HIDE DEF D, m, base, init, nxt, step
  <2> QED BY <2>1, <2>2, <2>3, <2>4, <2>5 DEF Recursion
<1>2. PICK f \in [D -> Int] : Solves(f, D, base, init, nxt, step)
  <2> HIDE DEF D, m, base, init, nxt, step
  <2> QED BY <1>1, SolutionExists
<1>3. ASSUME NEW lr \in D  PROVE f[lr] = Search(f, arr, x, lr)
  <2>1. f[lr] = IF lr \in base THEN init[lr] ELSE step[lr][f[nxt[lr]]]
    <3> HIDE DEF D, m, base, init, nxt, step
    <3> QED BY <1>2 DEF Solves
  <2>2. CASE lr \in base
    <3>1. f[lr] = init[lr] /\ (lr[2] < lr[1] \/ arr[Mid(lr) + 1] = x)
      BY <2>1, <2>2
    <3>2. init[lr] = IF lr[2] < lr[1] THEN -1 ELSE Mid(lr)
      OBVIOUS
    <3> HIDE DEF init
    <3> QED BY <3>1, <3>2 DEF Search
  <2>3. CASE lr \notin base
    <3>1. ~(lr[2] < lr[1]) /\ arr[Mid(lr) + 1] # x
      BY <2>3
    <3>2. nxt[lr] = IF arr[Mid(lr) + 1] > x THEN <<lr[1], Mid(lr) - 1>> ELSE <<Mid(lr) + 1, lr[2]>>
      BY <2>3
    <3>3. nxt[lr] \in D
      <4> HIDE DEF nxt, base
      <4> QED BY <3>1, <3>2, HalvesShorter
    <3>4. step[lr] = [v \in Int |-> v] /\ f[nxt[lr]] \in Int
      <4> HIDE DEF nxt
      <4> QED BY <3>3
    <3>5. step[lr][f[nxt[lr]]] = f[nxt[lr]]
      <4> HIDE DEF nxt, step
      <4> QED BY <3>4
    <3>6. f[lr] = f[nxt[lr]]
      <4> HIDE DEF nxt, step, base, init
      <4> QED BY <2>1, <2>3, <3>5
    <3> HIDE DEF nxt, base
    <3> QED BY <3>1, <3>2, <3>6 DEF Search
  <2> QED BY <2>2, <2>3
<1>4. \A g : F(g) = [lr \in D |-> Search(g, arr, x, lr)]
  BY DEF Search, Sections, Mid
<1>5. f = F(f)
  <2> HIDE DEF F, D
  <2>1. f = [lr \in D |-> f[lr]]
    BY <1>2
  <2>2. f = [lr \in D |-> Search(f, arr, x, lr)]
    BY <1>3, <2>1
  <2> QED BY <1>4, <2>2
<1> DEFINE search == CHOOSE g : g = F(g)
<1>6. binarySearch(arr, x) = search[<<0, Len(arr) - 1>>]
  BY DEF binarySearch
<1>7. search = F(search)
  <2> HIDE DEF F
  <2> QED BY <1>5
<1>8. \A lr \in D : search[lr] = Search(search, arr, x, lr)
  <2> HIDE DEF F, search, D
  <2> QED BY <1>4, <1>7
<1> QED
  <2> HIDE DEF search
  <2> QED BY <1>6, <1>8

\* The search finds what is in a sorted array, and nothing else.
LEMMA SearchFinds ==
  ASSUME NEW arr \in Seq(Int), Sorted(arr), NEW x \in Int
  PROVE  binarySearch(arr, x) # -1 <=> \E i \in 1 .. Len(arr) : arr[i] = x
<1>1. PICK f : /\ binarySearch(arr, x) = f[<<0, Len(arr) - 1>>]
               /\ \A lr \in Sections(arr) : f[lr] = Search(f, arr, x, lr)
  BY SearchExists
<1> DEFINE Within(lr) == \E i \in lr[1] .. lr[2] : arr[i + 1] = x
           G == {lr \in Sections(arr) : f[lr] # -1 <=> Within(lr)}
<1>2. ASSUME NEW lr \in Sections(arr),
             \A y \in Sections(arr) : Span(arr)[y] < Span(arr)[lr] => y \in G
      PROVE  lr \in G
  <2>1. f[lr] = Search(f, arr, x, lr)
    BY <1>1
  <2>2. CASE lr[2] < lr[1]
    <3>1. f[lr] = -1
      BY <2>1, <2>2 DEF Search
    <3>2. ~Within(lr)
      BY <2>2 DEF Sections
    <3> QED BY <3>1, <3>2
  <2>3. CASE ~(lr[2] < lr[1])
    <3>1. PICK l \in Nat, r \in Nat, c \in Nat :
            l = lr[1] /\ r = lr[2] /\ c = Mid(lr) /\ c \in l .. r /\ r <= Len(arr) - 1
            /\ arr[c + 1] \in Int /\ Len(arr) \in Nat
      BY <2>3, MidInside
    <3>2. f[lr] = IF arr[c + 1] = x THEN c
                  ELSE IF arr[c + 1] > x THEN f[<<l, c - 1>>] ELSE f[<<c + 1, r>>]
      BY <2>1, <2>3, <3>1 DEF Search
    <3>3. /\ <<l, c - 1>> \in G /\ <<c + 1, r>> \in G
      BY <2>3, <3>1, <1>2, HalvesShorter
    <3>4. /\ f[<<l, c - 1>>] # -1 <=> \E i \in l .. c - 1 : arr[i + 1] = x
          /\ f[<<c + 1, r>>] # -1 <=> \E i \in c + 1 .. r : arr[i + 1] = x
      BY <3>3
    <3>5. Within(lr) <=> \E i \in l .. r : arr[i + 1] = x
      BY <3>1
    <3>6. \A i \in l .. r : i + 1 \in 1 .. Len(arr) /\ arr[i + 1] \in Int
                           /\ (i <= c => arr[i + 1] <= arr[c + 1])
                           /\ (c <= i => arr[c + 1] <= arr[i + 1])
      <4> SUFFICES ASSUME NEW i \in l .. r
                   PROVE  i + 1 \in 1 .. Len(arr) /\ arr[i + 1] \in Int
                           /\ (i <= c => arr[i + 1] <= arr[c + 1])
                           /\ (c <= i => arr[c + 1] <= arr[i + 1])
        OBVIOUS
      <4>0. i \in Nat /\ i <= r /\ c <= r
        BY <3>1
      <4>1. i + 1 \in 1 .. Len(arr) /\ c + 1 \in 1 .. Len(arr) /\ i \in Int
        BY <4>0, <3>1
      <4>2. arr[i + 1] \in Int
        BY <4>1, ElementOfSeq
      <4>3. (i + 1 <= c + 1 => arr[i + 1] <= arr[c + 1]) /\ (c + 1 <= i + 1 => arr[c + 1] <= arr[i + 1])
        BY <4>1 DEF Sorted
      <4>4. (i <= c => i + 1 <= c + 1) /\ (c <= i => c + 1 <= i + 1)
        BY <4>1
      <4> QED BY <4>1, <4>2, <4>3, <4>4
    <3>7. CASE arr[c + 1] = x
      <4>1. f[lr] = c /\ c # -1
        BY <3>1, <3>2, <3>7
      <4>2. c \in l .. r
        BY <3>1
      <4>3. Within(lr)
        BY <3>5, <3>7, <4>2
      <4> QED BY <4>1, <4>3
    <3>v. PICK v \in Int : v = arr[c + 1]
      BY <3>1
    <3>8. CASE v # x /\ v > x
      <4>1. (\E i \in l .. r : arr[i + 1] = x) <=> \E i \in l .. c - 1 : arr[i + 1] = x
        <5>1. ASSUME NEW i \in l .. r, arr[i + 1] = x  PROVE i \in l .. c - 1
          <6>1. c <= i => v <= x
            BY <3>6, <3>v, <5>1
          <6>2. i \in Int /\ l <= i /\ ~(c <= i)
            BY <6>1, <3>1, <3>8
          <6> QED BY <3>1, <6>2
        <5>2. \A i \in l .. c - 1 : i \in l .. r
          BY <3>1
        <5> QED BY <5>1, <5>2
      <4>2. f[lr] = f[<<l, c - 1>>]
        BY <3>2, <3>v, <3>8
      <4> QED BY <4>1, <4>2, <3>4, <3>5
    <3>9. CASE v # x /\ ~(v > x)
      <4>1. (\E i \in l .. r : arr[i + 1] = x) <=> \E i \in c + 1 .. r : arr[i + 1] = x
        <5>1. ASSUME NEW i \in l .. r, arr[i + 1] = x  PROVE i \in c + 1 .. r
          <6>1. i <= c => x <= v
            BY <3>6, <3>v, <5>1
          <6>2. i \in Int /\ i <= r /\ ~(i <= c)
            BY <6>1, <3>1, <3>9
          <6> QED BY <3>1, <6>2
        <5>2. \A i \in c + 1 .. r : i \in l .. r
          BY <3>1
        <5> QED BY <5>1, <5>2
      <4>2. f[lr] = f[<<c + 1, r>>]
        BY <3>2, <3>v, <3>9
      <4> QED BY <4>1, <4>2, <3>4, <3>5
    <3> QED BY <3>7, <3>8, <3>9, <3>v
  <2> QED BY <2>2, <2>3
<1>3. G = Sections(arr)
  <2>1. Span(arr) \in [Sections(arr) -> Nat]
    <3>1. Span(arr) = [lr \in Sections(arr) |-> Span(arr)[lr]]
      BY DEF Span
    <3>2. \A lr \in Sections(arr) : Span(arr)[lr] \in Nat
      BY HalvesShorter
    <3> QED BY <3>1, <3>2
  <2>2. G \in SUBSET Sections(arr)
    OBVIOUS
  <2> HIDE DEF G
  <2>3. Hereditary(Sections(arr), Span(arr), G)
    BY <1>2 DEF Hereditary
  <2> QED BY <2>1, <2>2, <2>3, MeasureInduction
<1>4. Len(arr) \in Nat /\ <<0, Len(arr) - 1>> \in Sections(arr)
  BY DEF Sections
<1>5. f[<<0, Len(arr) - 1>>] # -1 <=> \E i \in 0 .. Len(arr) - 1 : arr[i + 1] = x
  BY <1>3, <1>4
<1>6. (\E i \in 0 .. Len(arr) - 1 : arr[i + 1] = x) <=> \E i \in 1 .. Len(arr) : arr[i] = x
  <2>1. ASSUME NEW i \in 0 .. Len(arr) - 1, arr[i + 1] = x
        PROVE  \E j \in 1 .. Len(arr) : arr[j] = x
    <3>1. i + 1 \in 1 .. Len(arr)
      BY <1>4
    <3> QED BY <3>1, <2>1
  <2>2. ASSUME NEW i \in 1 .. Len(arr), arr[i] = x
        PROVE  \E j \in 0 .. Len(arr) - 1 : arr[j + 1] = x
    <3>1. i - 1 \in 0 .. Len(arr) - 1 /\ (i - 1) + 1 = i
      BY <1>4
    <3> QED BY <3>1, <2>2
  <2> QED BY <2>1, <2>2
<1> QED BY <1>1, <1>5, <1>6

(***************************************************************************)
(* The three databases.                                                    *)
(***************************************************************************)

\* The array holds 1 .. max_int.
LEMMA ArrayHolds ==
  ASSUME NEW x \in Int
  PROVE  binarySearch(as_list, x) # -1 <=> x \in 1 .. max_int
<1>1. max_int \in Nat
  BY TablesAssumption
<1>2. as_list \in Seq(Int) /\ Len(as_list) = max_int /\ \A i \in 1 .. max_int : as_list[i] = i
  BY <1>1 DEF as_list
<1>3. Sorted(as_list)
  BY <1>1, <1>2 DEF Sorted
<1>4. binarySearch(as_list, x) # -1 <=> \E i \in 1 .. Len(as_list) : as_list[i] = x
  BY <1>2, <1>3, SearchFinds
<1> QED BY <1>1, <1>2, <1>4

\* What is in the trie and in the hash, and what the answers to the last question were.
Says(b) == IF b THEN "found" ELSE "missing"
AsInv ==
  /\ \E a, b \in 0 .. max_int :
       /\ loaded = <<a, b>>
       /\ \A w \in Seq(0 .. N - 1) : search_trie(trie, w) <=> \E n \in 0 .. a - 1 : w = sprintf(n)
       /\ DOMAIN users = 0 .. b - 1
  /\ asked \in Typed \union {<< >>}
  /\ asked # << >> => found = <<Says(\E n \in 0 .. max_int - 1 : asked = sprintf(n)),
                                Says(atoi(asked) \in 0 .. max_int - 1),
                                Says(atoi(asked) \in 1 .. max_int), "found">>

\* A numeral that is inserted is found from then on, and nothing else is.
LEMMA InsertFinds ==
  ASSUME NEW t, NEW w \in Seq(0 .. N - 1), NEW x
  PROVE  search_trie(insert_trie(t, w), x) <=> x = w \/ search_trie(t, x)
<1> DEFINE P == {SubSeq(w, 1, i) : i \in 0 .. Len(w)}
           u == insert_trie(t, w)
<1>1. w \in P
  <2>1. SubSeq(w, 1, Len(w)) = w
    OBVIOUS
  <2>2. Len(w) \in 0 .. Len(w)
    OBVIOUS
  <2>3. SubSeq(w, 1, Len(w)) \in P
    BY <2>2, Zenon
  <2> QED BY <2>1, <2>3
<1>2. /\ DOMAIN u = DOMAIN t \cup P
      /\ \A y \in DOMAIN t \cup P : u[y] = IF y = w THEN 1 ELSE IF y \in DOMAIN t THEN t[y] ELSE 0
  BY DEF insert_trie
<1> HIDE DEF P, u
<1>3. CASE x = w
  <2>1. x \in DOMAIN u /\ u[x] = 1
    BY <1>1, <1>2, <1>3
  <2> QED BY <1>3, <2>1 DEF search_trie, u
<1>4. CASE x # w /\ x \in DOMAIN t
  <2>1. x \in DOMAIN u /\ u[x] = t[x]
    BY <1>2, <1>4
  <2> QED BY <1>4, <2>1 DEF search_trie, u
<1>5. CASE x # w /\ x \notin DOMAIN t
  <2>1. x \in DOMAIN u => u[x] = 0
    BY <1>2, <1>5
  <2> QED BY <1>5, <2>1 DEF search_trie, u
<1> QED BY <1>3, <1>4, <1>5

LEMMA AsInitially == AsInit => AsInv
<1> SUFFICES ASSUME AsInit  PROVE AsInv
  OBVIOUS
<1>1. 0 \in 0 .. max_int
  BY TablesAssumption
<1>2. loaded = <<0, 0>> /\ users = << >> /\ asked = << >> /\ trie = [w \in {<< >>} |-> 0]
  BY DEF AsInit
<1>3. \A w : ~search_trie(trie, w)
  <2> SUFFICES ASSUME NEW w, w \in DOMAIN trie  PROVE trie[w] # 1
    BY DEF search_trie
  <2>1. trie[w] = 0
    BY <1>2
  <2> QED BY <2>1
<1>4. DOMAIN users = 0 .. 0 - 1
  <2>1. 0 .. 0 - 1 = {}
    OBVIOUS
  <2>2. DOMAIN << >> = {}
    OBVIOUS
  <2> QED BY <1>2, <2>1, <2>2
<1>5. \A w \in Seq(0 .. N - 1) : search_trie(trie, w) <=> \E n \in 0 .. 0 - 1 : w = sprintf(n)
  BY <1>3
<1> QED BY <1>1, <1>2, <1>4, <1>5 DEF AsInv

LEMMA TrieLoadKeeps == AsInv /\ TrieLoad => AsInv'
<1> SUFFICES ASSUME AsInv, TrieLoad  PROVE AsInv'
  OBVIOUS
<1>1. PICK a \in 0 .. max_int, b \in 0 .. max_int :
        /\ loaded = <<a, b>>
        /\ \A w \in Seq(0 .. N - 1) : search_trie(trie, w) <=> \E n \in 0 .. a - 1 : w = sprintf(n)
        /\ DOMAIN users = 0 .. b - 1
  BY DEF AsInv
<1>2. a < max_int /\ trie' = insert_trie(trie, sprintf(a)) /\ loaded' = <<a + 1, b>>
      /\ UNCHANGED <<users, asked, found>>
  BY <1>1 DEF TrieLoad
<1>3. a \in Nat /\ a + 1 \in 0 .. max_int /\ max_int \in Nat
  BY <1>2, TablesAssumption
<1>4. ASSUME NEW w \in Seq(0 .. N - 1)
      PROVE  search_trie(trie', w) <=> \E n \in 0 .. (a + 1) - 1 : w = sprintf(n)
  <2>1. sprintf(a) \in Seq(0 .. N - 1)
    BY <1>3, NumeralRead
  <2>2. search_trie(trie', w) <=> w = sprintf(a) \/ search_trie(trie, w)
    BY <1>2, <2>1, InsertFinds
  <2>3. search_trie(trie, w) <=> \E n \in 0 .. a - 1 : w = sprintf(n)
    BY <1>1
  <2>4. 0 .. (a + 1) - 1 = (0 .. a - 1) \union {a}
    BY <1>3
  <2> QED BY <2>2, <2>3, <2>4
<1>5. asked' \in Typed \union {<< >>} /\ (asked' # << >> =>
        found' = <<Says(\E n \in 0 .. max_int - 1 : asked' = sprintf(n)),
                   Says(atoi(asked') \in 0 .. max_int - 1),
                   Says(atoi(asked') \in 1 .. max_int), "found">>)
  BY <1>2 DEF AsInv
<1>6. DOMAIN users' = 0 .. b - 1
  BY <1>1, <1>2
<1>7. \E p, q \in 0 .. max_int :
       /\ loaded' = <<p, q>>
       /\ \A w \in Seq(0 .. N - 1) : search_trie(trie', w) <=> \E n \in 0 .. p - 1 : w = sprintf(n)
       /\ DOMAIN users' = 0 .. q - 1
  BY <1>2, <1>3, <1>4, <1>6
<1> QED BY <1>5, <1>7 DEF AsInv

LEMMA UsersLoadKeeps == AsInv /\ UsersLoad => AsInv'
<1> SUFFICES ASSUME AsInv, UsersLoad  PROVE AsInv'
  OBVIOUS
<1>1. PICK a \in 0 .. max_int, b \in 0 .. max_int :
        /\ loaded = <<a, b>>
        /\ \A w \in Seq(0 .. N - 1) : search_trie(trie, w) <=> \E n \in 0 .. a - 1 : w = sprintf(n)
        /\ DOMAIN users = 0 .. b - 1
  BY DEF AsInv
<1>2. b < max_int /\ users' = add_user(users, b, sprintf(b)) /\ loaded' = <<a, b + 1>>
      /\ UNCHANGED <<trie, asked, found>>
  BY <1>1 DEF UsersLoad
<1>3. b \in Nat /\ b + 1 \in 0 .. max_int /\ max_int \in Nat
  BY <1>2, TablesAssumption
<1>4. DOMAIN users' = 0 .. (b + 1) - 1
  <2>1. DOMAIN users' = (DOMAIN users) \union {b}
    BY <1>2 DEF add_user
  <2>2. 0 .. (b + 1) - 1 = (0 .. b - 1) \union {b}
    BY <1>3
  <2> QED BY <1>1, <2>1, <2>2
<1>5. asked' \in Typed \union {<< >>} /\ (asked' # << >> =>
        found' = <<Says(\E n \in 0 .. max_int - 1 : asked' = sprintf(n)),
                   Says(atoi(asked') \in 0 .. max_int - 1),
                   Says(atoi(asked') \in 1 .. max_int), "found">>)
  BY <1>2 DEF AsInv
<1>6. \A w \in Seq(0 .. N - 1) : search_trie(trie', w) <=> \E n \in 0 .. a - 1 : w = sprintf(n)
  BY <1>1, <1>2
<1>7. \E p, q \in 0 .. max_int :
       /\ loaded' = <<p, q>>
       /\ \A w \in Seq(0 .. N - 1) : search_trie(trie', w) <=> \E n \in 0 .. p - 1 : w = sprintf(n)
       /\ DOMAIN users' = 0 .. q - 1
  BY <1>2, <1>3, <1>4, <1>6
<1> QED BY <1>5, <1>7 DEF AsInv

LEMMA QueryKeeps ==
  ASSUME AsInv, NEW w \in Typed, Query(w)
  PROVE  AsInv'
<1>1. PICK a \in 0 .. max_int, b \in 0 .. max_int :
        /\ loaded = <<a, b>>
        /\ \A u \in Seq(0 .. N - 1) : search_trie(trie, u) <=> \E n \in 0 .. a - 1 : u = sprintf(n)
        /\ DOMAIN users = 0 .. b - 1
  BY DEF AsInv
<1>2. a = max_int /\ b = max_int /\ asked' = w /\ UNCHANGED <<trie, users, loaded>>
  BY <1>1 DEF Query
<1>3. found' = <<Says(search_trie(trie, w)), Says(find_user(users, atoi(w)) # << >>),
                 Says(binarySearch(as_list, atoi(w)) # -1), "found">>
  BY DEF Query, Says, array_test
<1>4. w \in Seq(0 .. N - 1) /\ atoi(w) \in Nat
  <2>1. w \in Seq(0 .. N - 1) /\ w \in Seq(Nat) /\ 0 \in Nat
    BY TablesAssumption
  <2> QED BY <2>1, AtoiAppend
<1>5. search_trie(trie, w) <=> \E n \in 0 .. max_int - 1 : w = sprintf(n)
  BY <1>1, <1>2, <1>4
<1>6. find_user(users, atoi(w)) # << >> <=> atoi(w) \in 0 .. max_int - 1
  <2>1. \A e : <<e>> # << >>
    OBVIOUS
  <2> QED BY <1>1, <1>2, <2>1 DEF find_user
<1>7. binarySearch(as_list, atoi(w)) # -1 <=> atoi(w) \in 1 .. max_int
  BY <1>4, ArrayHolds
<1>8. found' = <<Says(\E n \in 0 .. max_int - 1 : asked' = sprintf(n)),
                 Says(atoi(asked') \in 0 .. max_int - 1),
                 Says(atoi(asked') \in 1 .. max_int), "found">>
  BY <1>2, <1>3, <1>5, <1>6, <1>7 DEF Says
<1>9. \E p, q \in 0 .. max_int :
       /\ loaded' = <<p, q>>
       /\ \A u \in Seq(0 .. N - 1) : search_trie(trie', u) <=> \E n \in 0 .. p - 1 : u = sprintf(n)
       /\ DOMAIN users' = 0 .. q - 1
  BY <1>1, <1>2
<1>10. asked' \in Typed \union {<< >>}
  BY <1>2
<1> QED BY <1>8, <1>9, <1>10 DEF AsInv

LEMMA AsInvExact == AsInv => LookupsExact
<1> SUFFICES ASSUME AsInv  PROVE LookupsExact
  OBVIOUS
<1>0. max_int \in Nat \ {0} /\ Typed \subseteq Seq(0 .. N - 1) /\ N \in Nat
  BY TablesAssumption
<1>1. SUFFICES ASSUME asked # << >>
               PROVE  /\ found[2] = "found" <=> atoi(asked) < max_int
                      /\ found[1] = "found" <=> found[2] = "found" /\ asked = sprintf(atoi(asked))
                      /\ found[3] = "found" <=> atoi(asked) \in 1 .. max_int
                      /\ found[4] = found[2] <=> atoi(asked) < max_int
  BY DEF LookupsExact
<1>2. asked \in Seq(Nat)
  <2>1. asked \in Seq(0 .. N - 1)
    BY <1>0, <1>1 DEF AsInv
  <2> QED BY <2>1, <1>0
<1>3. PICK v \in Nat : v = atoi(asked)
  <2>1. 0 \in Nat
    OBVIOUS
  <2> QED BY <2>1, <1>2, AtoiAppend
<1>4. /\ found[1] = Says(\E n \in 0 .. max_int - 1 : asked = sprintf(n))
      /\ found[2] = Says(v \in 0 .. max_int - 1)
      /\ found[3] = Says(v \in 1 .. max_int) /\ found[4] = "found"
  <2>1. found = <<Says(\E n \in 0 .. max_int - 1 : asked = sprintf(n)),
                  Says(atoi(asked) \in 0 .. max_int - 1), Says(atoi(asked) \in 1 .. max_int),
                  "found">>
    BY <1>1 DEF AsInv
  <2>2. /\ found[1] = Says(\E n \in 0 .. max_int - 1 : asked = sprintf(n))
        /\ found[2] = Says(atoi(asked) \in 0 .. max_int - 1)
        /\ found[3] = Says(atoi(asked) \in 1 .. max_int) /\ found[4] = "found"
    BY <2>1
  <2> QED BY <2>2, <1>3
<1>5. (\E n \in 0 .. max_int - 1 : asked = sprintf(n))
        <=> v \in 0 .. max_int - 1 /\ asked = sprintf(v)
  <2>1. ASSUME NEW n \in 0 .. max_int - 1, asked = sprintf(n)  PROVE v = n
    <3>1. n \in Nat
      BY <1>0
    <3>2. atoi(sprintf(n)) = n
      BY <3>1, NumeralRead
    <3> QED BY <3>2, <2>1, <1>3
  <2> QED BY <2>1
<1>6. v \in 0 .. max_int - 1 <=> v < max_int
  BY <1>0
<1>8. found[2] = "found" <=> v < max_int
  BY <1>4, <1>6 DEF Says
<1>9. found[1] = "found" <=> found[2] = "found" /\ asked = sprintf(v)
  BY <1>4, <1>5 DEF Says
<1>10. found[3] = "found" <=> v \in 1 .. max_int
  BY <1>4 DEF Says
<1> QED BY <1>3, <1>4, <1>8, <1>9, <1>10

\* For every base, every range and whatever is typed: what the trie, the hash, the binary
\* search and array_test say of a number, and on which numbers they agree.
THEOREM LookupsCorrect == AsSpec => []LookupsExact
<1>1. AsInit => AsInv
  BY AsInitially
<1>2. AsInv /\ [AsNext]_asvars => AsInv'
  <2> SUFFICES ASSUME AsInv, [AsNext]_asvars  PROVE AsInv'
    OBVIOUS
  <2>1. CASE TrieLoad
    BY <2>1, TrieLoadKeeps
  <2>2. CASE UsersLoad
    BY <2>2, UsersLoadKeeps
  <2>3. CASE \E w \in Typed : Query(w)
    BY <2>3, QueryKeeps
  <2>4. CASE UNCHANGED asvars
    BY <2>4 DEF AsInv, asvars, search_trie
  <2> QED BY <2>1, <2>2, <2>3, <2>4 DEF AsNext
<1>3. AsInv => LookupsExact
  BY AsInvExact
<1> QED BY <1>1, <1>2, <1>3, PTL DEF AsSpec

(***************************************************************************)
(* The patricia tree: a node is where its bits say, and so is its prefix.  *)
(***************************************************************************)

NodeOf == [bit : -1 .. maxbits, prefix : Object \cup {Nil},
           l : Node \cup {Nil}, r : Node \cup {Nil}, parent : Node \cup {Nil}]
Bits == [1 .. maxbits -> {0, 1}]
PrefixRec == [add : Bits, bitlen : 0 .. maxbits, ref_count : Nat]
TreeOf == [head : Node \cup {Nil}, num_active_node : Int, broken : BOOLEAN,
           node : [Node -> NodeOf], prefix : [Object -> PrefixRec]]

Alive(t) == {n \in Node : t.node[n] # Free}

\* c is a longer string of bits that begins with n.
Under(n, c) == Len(n) < Len(c) /\ \A i \in 1 .. Len(n) : c[i] = n[i]

Kid(t, n, s) == IF s = 1 THEN t.node[n].r ELSE t.node[n].l

\* Children are longer strings, on the side that their next bit says.
Linked(t) ==
  /\ t.head # Nil => t.head \in Alive(t) /\ t.node[t.head].parent = Nil
  /\ \A n \in Alive(t) : t.node[n].bit = Len(n)
  /\ \A n \in Alive(t) : n # t.head =>
       /\ t.node[n].parent \in Alive(t) /\ Under(t.node[n].parent, n)
       /\ Kid(t, t.node[n].parent, n[Len(t.node[n].parent) + 1]) = n
  /\ \A n \in Alive(t) : \A s \in {0, 1} : Kid(t, n, s) # Nil =>
       /\ Kid(t, n, s) \in Alive(t) /\ t.node[Kid(t, n, s)].parent = n
       /\ Under(n, Kid(t, n, s)) /\ Kid(t, n, s)[Len(n) + 1] = s
       /\ Kid(t, n, s) # t.head

\* A node without a prefix has two children.
Needed(t) ==
  \A n \in Alive(t) : t.node[n].prefix = Nil => \A s \in {0, 1} : Kid(t, n, s) # Nil

\* A node's prefix is the object that has the node's bits.
Filed(t) ==
  /\ \A n \in Alive(t) : t.node[n].prefix # Nil =>
       /\ t.node[n].prefix = n /\ t.prefix[n].ref_count = 1 /\ t.prefix[n].bitlen = Len(n)
       /\ \A i \in 1 .. Len(n) : t.prefix[n].add[i] = n[i]
  /\ \A o \in Object : t.prefix[o].ref_count # 0 => o \in Alive(t) /\ t.node[o].prefix = o

Counted(t) == IsFiniteSet(Alive(t)) /\ t.num_active_node = Cardinality(Alive(t))

Sound(t) == /\ t \in TreeOf /\ ~t.broken /\ Linked(t) /\ Needed(t) /\ Filed(t)
            /\ Counted(t)

PatInv == Sound(tree) /\ OnlyBadTextStops

LEMMA NodeFacts ==
  ASSUME NEW n \in Node
  PROVE  /\ n \in Seq({0, 1}) /\ Len(n) \in 0 .. maxbits /\ Len(n) \in Nat /\ n \in [1 .. Len(n) -> {0, 1}]
         /\ \A i \in 1 .. Len(n) : n[i] \in {0, 1}
<1>1. PICK k \in 0 .. maxbits : n \in [1 .. k -> {0, 1}]
  BY DEF Node
<1>2. k \in Nat /\ maxbits \in Nat
  BY PatriciaAssumption
<1>3. n \in Seq({0, 1}) /\ Len(n) = k
  BY <1>1, <1>2
<1> QED BY <1>1, <1>2, <1>3

LEMMA NodeEqual ==
  ASSUME NEW n \in Node, NEW m \in Node, Len(n) = Len(m), \A i \in 1 .. Len(n) : n[i] = m[i]
  PROVE  n = m
<1>1. n \in [1 .. Len(n) -> {0, 1}] /\ m \in [1 .. Len(n) -> {0, 1}]
  BY NodeFacts
<1> QED BY <1>1

\* Two beginnings of one string are beginnings of each other.
LEMMA Comparable ==
  ASSUME NEW a \in Node, NEW b \in Node, NEW c \in Node,
         a = c \/ Under(a, c), b = c \/ Under(b, c)
  PROVE  a = b \/ Under(a, b) \/ Under(b, a)
<1>1. Len(a) \in Nat /\ Len(b) \in Nat /\ Len(c) \in Nat
  BY NodeFacts
<1>2. /\ Len(a) <= Len(c) /\ Len(b) <= Len(c)
      /\ \A i \in 1 .. Len(a) : a[i] = c[i]
      /\ \A i \in 1 .. Len(b) : b[i] = c[i]
  BY <1>1 DEF Under
<1>3. CASE Len(a) < Len(b)
  <2>1. \A i \in 1 .. Len(a) : i \in 1 .. Len(b)
    BY <1>1, <1>3
  <2> QED BY <1>2, <1>3, <2>1 DEF Under
<1>4. CASE Len(b) < Len(a)
  <2>1. \A i \in 1 .. Len(b) : i \in 1 .. Len(a)
    BY <1>1, <1>4
  <2> QED BY <1>2, <1>4, <2>1 DEF Under
<1>5. CASE Len(a) = Len(b)
  BY <1>2, <1>5, NodeEqual
<1> QED BY <1>1, <1>3, <1>4, <1>5

LEMMA UnderTransitive ==
  ASSUME NEW a \in Node, NEW b \in Node, NEW c \in Node, Under(a, b), Under(b, c)
  PROVE  Under(a, c) /\ c[Len(a) + 1] = b[Len(a) + 1]
<1>1. Len(a) \in Nat /\ Len(b) \in Nat /\ Len(c) \in Nat
  BY NodeFacts
<1>2. \A i \in 1 .. Len(a) : i \in 1 .. Len(b)
  BY <1>1 DEF Under
<1>3. Len(a) + 1 \in 1 .. Len(b) /\ Len(a) < Len(c)
  BY <1>1 DEF Under
<1> QED BY <1>2, <1>3 DEF Under

LEMMA UnderOrder ==
  ASSUME NEW a \in Node, NEW b \in Node
  PROVE  ~(Under(a, b) /\ Under(b, a)) /\ (Under(a, b) => a # b /\ Len(a) + 1 \in 1 .. Len(b)
         /\ b[Len(a) + 1] \in {0, 1} /\ Len(a) < maxbits)
<1>1. /\ Len(a) \in Nat /\ Len(b) \in Nat /\ Len(b) <= maxbits /\ maxbits \in Nat
      /\ \A i \in 1 .. Len(b) : b[i] \in {0, 1}
  BY NodeFacts, PatriciaAssumption
<1>2. Under(a, b) => Len(a) + 1 \in 1 .. Len(b)
  BY <1>1 DEF Under
<1> QED BY <1>1, <1>2 DEF Under

LEMMA AddressFacts ==
  ASSUME NEW p, p.add \in Bits, NEW n \in 0 .. maxbits
  PROVE  /\ Address(p, n) \in Node /\ Len(Address(p, n)) = n
         /\ \A i \in 1 .. n : Address(p, n)[i] = p.add[i]
<1>1. n \in Nat /\ \A i \in 1 .. n : i \in 1 .. maxbits
  BY PatriciaAssumption
<1>2. \A i \in 1 .. n : p.add[i] \in {0, 1}
  BY <1>1 DEF Bits
<1>3. Address(p, n) \in [1 .. n -> {0, 1}]
  BY <1>2 DEF Address
<1>4. Address(p, n) \in Node
  BY <1>3 DEF Node
<1>5. Len(Address(p, n)) = n
  BY <1>1, <1>3
<1> QED BY <1>4, <1>5 DEF Address

LEMMA TreeFields ==
  ASSUME NEW t \in TreeOf
  PROVE  /\ t.head \in Node \cup {Nil} /\ t.num_active_node \in Int /\ t.broken \in BOOLEAN
         /\ t.node \in [Node -> NodeOf] /\ t.prefix \in [Object -> PrefixRec]
         /\ \A n \in Node : /\ t.node[n] \in NodeOf
                            /\ t.node[n].bit \in -1 .. maxbits
                            /\ t.node[n].prefix \in Object \cup {Nil}
                            /\ t.node[n].l \in Node \cup {Nil} /\ t.node[n].r \in Node \cup {Nil}
                            /\ t.node[n].parent \in Node \cup {Nil}
         /\ \A o \in Object : /\ t.prefix[o] \in PrefixRec /\ t.prefix[o].add \in Bits
                              /\ t.prefix[o].bitlen \in 0 .. maxbits
                              /\ t.prefix[o].ref_count \in Nat
<1>1. /\ t.head \in Node \cup {Nil} /\ t.num_active_node \in Int /\ t.broken \in BOOLEAN
      /\ t.node \in [Node -> NodeOf] /\ t.prefix \in [Object -> PrefixRec]
  BY DEF TreeOf
<1>2. /\ \A n \in Node : t.node[n] \in NodeOf
      /\ \A o \in Object : t.prefix[o] \in PrefixRec
  BY <1>1
<1> QED BY <1>1, <1>2 DEF NodeOf, PrefixRec

(***************************************************************************)
(* Where a node is, the way down leads.                                    *)
(***************************************************************************)

LEMMA HeadOnTop ==
  ASSUME NEW t \in TreeOf, Linked(t), NEW n \in Alive(t)
  PROVE  t.head \in Alive(t) /\ (n = t.head \/ Under(t.head, n))
<1> DEFINE m == [x \in Alive(t) |-> Len(x)]
           G == {x \in Alive(t) : t.head \in Alive(t) /\ (x = t.head \/ Under(t.head, x))}
<1>1. \A x \in Alive(t) : x \in Node /\ Len(x) \in Nat
  BY NodeFacts DEF Alive
<1>2. ASSUME NEW x \in Alive(t), \A y \in Alive(t) : m[y] < m[x] => y \in G  PROVE x \in G
  <2>1. CASE x = t.head
    BY <2>1
  <2>2. CASE x # t.head
    <3>1. PICK q \in Alive(t) : q = t.node[x].parent /\ Under(q, x)
      BY <2>2 DEF Linked
    <3>2. m[q] < m[x]
      BY <3>1 DEF Under
    <3>3. q \in G
      BY <1>2, <3>2
    <3>4. t.head \in Node /\ q \in Node /\ x \in Node
      BY <1>1, <3>3
    <3> QED BY <3>1, <3>3, <3>4, UnderTransitive
  <2> QED BY <2>1, <2>2
<1>3. G = Alive(t)
  <2>1. m \in [Alive(t) -> Nat] /\ G \in SUBSET Alive(t)
    BY <1>1
  <2> HIDE DEF m, G
  <2>2. Hereditary(Alive(t), m, G)
    BY <1>2 DEF Hereditary
  <2> QED BY <2>1, <2>2, MeasureInduction
<1> QED BY <1>3

\* A node that lies below another is found on the side of its next bit.
LEMMA WayDown ==
  ASSUME NEW t \in TreeOf, Linked(t), NEW n \in Alive(t), NEW a \in Alive(t), Under(a, n)
  PROVE  LET c == Kid(t, a, n[Len(a) + 1]) IN c \in Alive(t) /\ (c = n \/ Under(c, n))
<1> DEFINE m == [x \in Alive(t) |-> Len(x)]
           Found(q, x) == LET c == Kid(t, q, x[Len(q) + 1]) IN c \in Alive(t) /\ (c = x \/ Under(c, x))
           G == {x \in Alive(t) : \A q \in Alive(t) : Under(q, x) => Found(q, x)}
<1>1. \A x \in Alive(t) : x \in Node /\ Len(x) \in Nat
  BY NodeFacts DEF Alive
<1>2. ASSUME NEW x \in Alive(t), \A y \in Alive(t) : m[y] < m[x] => y \in G  PROVE x \in G
  <2>1. SUFFICES ASSUME NEW q \in Alive(t), Under(q, x)  PROVE Found(q, x)
    OBVIOUS
  <2>2. x # t.head
    <3>1. q = t.head \/ Under(t.head, q)
      BY HeadOnTop
    <3> QED BY <3>1, <2>1, <1>1, UnderOrder
  <2>3. PICK r \in Alive(t) : r = t.node[x].parent /\ Under(r, x) /\ Kid(t, r, x[Len(r) + 1]) = x
    BY <2>2 DEF Linked
  <2>4. q \in Node /\ r \in Node /\ x \in Node
    BY <1>1
  <2>5. m[r] < m[x] /\ m[q] < m[x]
    BY <2>1, <2>3 DEF Under
  <2>6. q = r \/ Under(q, r) \/ Under(r, q)
    BY <2>1, <2>3, <2>4, Comparable
  <2>7. CASE q = r
    BY <2>3, <2>7
  <2>8. CASE Under(q, r)
    <3>1. r \in G
      BY <1>2, <2>5
    <3>2. Found(q, r)
      BY <3>1, <2>8
    <3>3. x[Len(q) + 1] = r[Len(q) + 1]
      BY <2>3, <2>4, <2>8, UnderTransitive
    <3>4. PICK c \in Alive(t) : c = Kid(t, q, x[Len(q) + 1]) /\ (c = r \/ Under(c, r))
      BY <3>2, <3>3
    <3>5. Under(c, x)
      BY <3>4, <1>1, <2>3, UnderTransitive
    <3> QED BY <3>4, <3>5
  <2>9. CASE Under(r, q)
    <3>1. q \in G
      BY <1>2, <2>5
    <3>2. Found(r, q)
      BY <3>1, <2>9
    <3>3. x[Len(r) + 1] = q[Len(r) + 1]
      BY <2>1, <2>4, <2>9, UnderTransitive
    <3>4. x = q \/ Under(x, q)
      BY <3>2, <3>3, <2>3
    <3> QED BY <3>4, <2>1, <2>4, UnderOrder
  <2> QED BY <2>6, <2>7, <2>8, <2>9
<1>3. G = Alive(t)
  <2>1. m \in [Alive(t) -> Nat] /\ G \in SUBSET Alive(t)
    BY <1>1
  <2> HIDE DEF m, G
  <2>2. Hereditary(Alive(t), m, G)
    BY <1>2 DEF Hereditary
  <2> QED BY <2>1, <2>2, MeasureInduction
<1> QED BY <1>3

\* Nothing lies between a node and its child.
LEMMA NothingBetween ==
  ASSUME NEW t \in TreeOf, Linked(t), NEW a \in Alive(t), NEW n \in Alive(t), Under(a, n),
         n # t.head, t.node[n].parent = a, NEW x \in Alive(t), Under(a, x), Under(x, n)
  PROVE  FALSE
<1>1. a \in Node /\ n \in Node /\ x \in Node
  BY DEF Alive
<1>2. n[Len(a) + 1] = x[Len(a) + 1]
  BY <1>1, UnderTransitive
<1>3. Kid(t, a, n[Len(a) + 1]) = n
  BY DEF Linked
<1>4. n = x \/ Under(n, x)
  BY <1>2, <1>3, WayDown
<1> QED BY <1>1, <1>4, UnderOrder

(***************************************************************************)
(* What the small operations do to the fields.                             *)
(***************************************************************************)

\* f with another value at n.
At(f, n, x) == [f EXCEPT ![n] = x]
WithKid(x, s, c) == IF s = 1 THEN [x EXCEPT !.r = c] ELSE [x EXCEPT !.l = c]

LEMMA NewNodeFields ==
  ASSUME NEW t \in TreeOf, NEW n \in Node, NEW b \in 0 .. maxbits, NEW o \in Object \cup {Nil},
         NEW q \in Node \cup {Nil}
  PROVE  LET u == NewNode(t, n, b, o, q)
         IN  /\ u \in TreeOf /\ u.head = t.head /\ u.broken = t.broken /\ u.prefix = t.prefix
             /\ u.num_active_node = t.num_active_node + 1
             /\ u.node = At(t.node, n, [bit |-> b, prefix |-> o, l |-> Nil, r |-> Nil, parent |-> q])
<1> DEFINE x == [bit |-> b, prefix |-> o, l |-> Nil, r |-> Nil, parent |-> q]
           u == NewNode(t, n, b, o, q)
<1>1. x \in NodeOf
  BY PatriciaAssumption DEF NodeOf
<1>2. /\ u = [t EXCEPT !.node = At(t.node, n, x), !.num_active_node = t.num_active_node + 1]
  BY DEF NewNode, At
<1> HIDE DEF x, u
<1>3. At(t.node, n, x) \in [Node -> NodeOf]
  BY <1>1, TreeFields DEF At
<1>4. u \in TreeOf
  <2>1. t.num_active_node + 1 \in Int
    BY TreeFields
  <2> QED BY <1>2, <1>3, <2>1 DEF TreeOf
<1>5. /\ u.head = t.head /\ u.broken = t.broken /\ u.prefix = t.prefix
      /\ u.num_active_node = t.num_active_node + 1 /\ u.node = At(t.node, n, x)
  BY <1>2 DEF TreeOf
<1> QED BY <1>4, <1>5 DEF x, u

SetKid(t, n, s, c) == [t EXCEPT !.node[n] = WithKid(t.node[n], s, c)]

LEMMA SetKidFields ==
  ASSUME NEW t \in TreeOf, NEW n \in Node, NEW s, NEW c \in Node \cup {Nil}
  PROVE  LET u == SetKid(t, n, s, c)
         IN  /\ u \in TreeOf /\ u.head = t.head /\ u.broken = t.broken /\ u.prefix = t.prefix
             /\ u.num_active_node = t.num_active_node
             /\ u.node = At(t.node, n, WithKid(t.node[n], s, c))
<1> DEFINE x == WithKid(t.node[n], s, c)
           u == SetKid(t, n, s, c)
<1>1. x \in NodeOf
  <2>1. t.node[n] \in NodeOf
    BY TreeFields
  <2> QED BY <2>1 DEF NodeOf, WithKid
<1>2. u = [t EXCEPT !.node = At(t.node, n, x)]
  BY DEF SetKid, At
<1> HIDE DEF x, u
<1>3. At(t.node, n, x) \in [Node -> NodeOf]
  BY <1>1, TreeFields DEF At
<1>4. u \in TreeOf
  BY <1>2, <1>3 DEF TreeOf
<1>5. /\ u.head = t.head /\ u.broken = t.broken /\ u.prefix = t.prefix
      /\ u.num_active_node = t.num_active_node /\ u.node = At(t.node, n, x)
  BY <1>2 DEF TreeOf
<1> QED BY <1>4, <1>5 DEF x, u

SetParent(t, n, q) == [t EXCEPT !.node[n].parent = q]

LEMMA SetParentFields ==
  ASSUME NEW t \in TreeOf, NEW n \in Node, NEW q \in Node \cup {Nil}
  PROVE  LET u == SetParent(t, n, q)
         IN  /\ u \in TreeOf /\ u.head = t.head /\ u.broken = t.broken /\ u.prefix = t.prefix
             /\ u.num_active_node = t.num_active_node
             /\ u.node = At(t.node, n, [t.node[n] EXCEPT !.parent = q])
<1> DEFINE x == [t.node[n] EXCEPT !.parent = q]
           u == SetParent(t, n, q)
<1>1. x \in NodeOf
  <2>1. t.node[n] \in NodeOf
    BY TreeFields
  <2> QED BY <2>1 DEF NodeOf
<1>2. u = [t EXCEPT !.node = At(t.node, n, x)]
  BY DEF SetParent, At
<1> HIDE DEF x, u
<1>3. At(t.node, n, x) \in [Node -> NodeOf]
  BY <1>1, TreeFields DEF At
<1>4. u \in TreeOf
  BY <1>2, <1>3 DEF TreeOf
<1>5. /\ u.head = t.head /\ u.broken = t.broken /\ u.prefix = t.prefix
      /\ u.num_active_node = t.num_active_node /\ u.node = At(t.node, n, x)
  BY <1>2 DEF TreeOf
<1> QED BY <1>4, <1>5 DEF x, u

LEMMA DeleteFields ==
  ASSUME NEW t \in TreeOf, NEW n \in Node
  PROVE  LET u == Delete(t, n)
         IN  /\ u \in TreeOf /\ u.head = t.head /\ u.broken = t.broken /\ u.prefix = t.prefix
             /\ u.num_active_node = t.num_active_node - 1
             /\ u.node = At(t.node, n, Free)
<1> DEFINE u == Delete(t, n)
<1>1. Free \in NodeOf
  BY PatriciaAssumption DEF NodeOf, Free
<1>2. u = [t EXCEPT !.node = At(t.node, n, Free), !.num_active_node = t.num_active_node - 1]
  BY DEF Delete, At
<1> HIDE DEF u
<1>3. At(t.node, n, Free) \in [Node -> NodeOf]
  BY <1>1, TreeFields DEF At
<1>4. u \in TreeOf
  <2>1. t.num_active_node - 1 \in Int
    BY TreeFields
  <2> QED BY <1>2, <1>3, <2>1 DEF TreeOf
<1>5. /\ u.head = t.head /\ u.broken = t.broken /\ u.prefix = t.prefix
      /\ u.num_active_node = t.num_active_node - 1 /\ u.node = At(t.node, n, Free)
  BY <1>2 DEF TreeOf
<1> QED BY <1>4, <1>5 DEF u

\* Whatever pointed to n now points to c; the assertion holds.
LEMMA ReplaceFields ==
  ASSUME NEW t \in TreeOf, NEW n \in Node, NEW c \in Node \cup {Nil},
         t.node[n].parent = Nil => t.head = n
  PROVE  LET u == Replace(t, n, c)
             q == t.node[n].parent
         IN  /\ u \in TreeOf /\ u.broken = t.broken /\ u.prefix = t.prefix
             /\ u.num_active_node = t.num_active_node
             /\ u.head = IF q = Nil THEN c ELSE t.head
             /\ u.node = IF q = Nil THEN t.node
                         ELSE At(t.node, q, WithKid(t.node[q], IF t.node[q].r = n THEN 1 ELSE 0, c))
<1> DEFINE q == t.node[n].parent
           u == Replace(t, n, c)
<1>0. q \in Node \cup {Nil}
  BY TreeFields
<1>1. CASE q = Nil
  <2>1. u = [t EXCEPT !.broken = t.broken \/ ~(t.head = n), !.head = c]
    BY <1>1 DEF Replace, Asserting
  <2>2. (t.broken \/ ~(t.head = n)) = t.broken
    BY <1>1, TreeFields
  <2>3. u = [t EXCEPT !.broken = t.broken, !.head = c]
    BY <2>1, <2>2
  <2> HIDE DEF u
  <2>4. u \in TreeOf
    BY <2>3 DEF TreeOf
  <2>5. /\ u.head = c /\ u.broken = t.broken /\ u.prefix = t.prefix
        /\ u.num_active_node = t.num_active_node /\ u.node = t.node
    BY <2>3 DEF TreeOf
  <2> QED BY <1>1, <2>4, <2>5 DEF u
<1>2. CASE q # Nil
  <2>1. PICK s \in {0, 1} : s = IF t.node[q].r = n THEN 1 ELSE 0
    OBVIOUS
  <2>2. u = SetKid(t, q, s, c) /\ q \in Node
    BY <1>0, <1>2, <2>1 DEF Replace, SetChild, SetKid, WithKid, At
  <2> HIDE DEF q, u
  <2>3. /\ u \in TreeOf /\ u.head = t.head /\ u.broken = t.broken /\ u.prefix = t.prefix
        /\ u.num_active_node = t.num_active_node
        /\ u.node = At(t.node, q, WithKid(t.node[q], s, c))
    BY <2>2, SetKidFields
  <2> QED BY <1>2, <2>1, <2>3 DEF q, u
<1> QED BY <1>1, <1>2

\* Counting references changes prefixes only.
PrefixesOnly(t, u) ==
  /\ u \in TreeOf /\ u.head = t.head /\ u.broken = t.broken /\ u.node = t.node
  /\ u.num_active_node = t.num_active_node

LEMMA RefFields ==
  ASSUME NEW t \in TreeOf, NEW o \in Object
  PROVE  /\ PrefixesOnly(t, Ref_Prefix(t, o))
         /\ Ref_Prefix(t, o).prefix =
              At(t.prefix, o, [t.prefix[o] EXCEPT !.ref_count = t.prefix[o].ref_count + 1])
<1> DEFINE x == [t.prefix[o] EXCEPT !.ref_count = t.prefix[o].ref_count + 1]
           u == Ref_Prefix(t, o)
<1>1. x \in PrefixRec
  <2>1. t.prefix[o] \in PrefixRec
    BY TreeFields
  <2> QED BY <2>1 DEF PrefixRec
<1>2. u = [t EXCEPT !.prefix = At(t.prefix, o, x)]
  BY DEF Ref_Prefix, At
<1> HIDE DEF x, u
<1>3. At(t.prefix, o, x) \in [Object -> PrefixRec]
  BY <1>1, TreeFields DEF At
<1>4. PrefixesOnly(t, u) /\ u.prefix = At(t.prefix, o, x)
  BY <1>2, <1>3 DEF TreeOf, PrefixesOnly
<1> QED BY <1>4 DEF x, u

LEMMA DerefFields ==
  ASSUME NEW t \in TreeOf, NEW o \in Object, t.prefix[o].ref_count # 0
  PROVE  /\ PrefixesOnly(t, Deref_Prefix(t, o))
         /\ Deref_Prefix(t, o).prefix =
              At(t.prefix, o, IF t.prefix[o].ref_count = 1 THEN NoPrefix
                              ELSE [t.prefix[o] EXCEPT !.ref_count = t.prefix[o].ref_count - 1])
<1> DEFINE x == IF t.prefix[o].ref_count = 1 THEN NoPrefix
                ELSE [t.prefix[o] EXCEPT !.ref_count = t.prefix[o].ref_count - 1]
           u == Deref_Prefix(t, o)
<1>1. x \in PrefixRec
  <2>1. t.prefix[o] \in PrefixRec
    BY TreeFields
  <2>2. NoPrefix \in PrefixRec
    BY PatriciaAssumption DEF NoPrefix, PrefixRec, Bits
  <2> QED BY <2>1, <2>2 DEF PrefixRec
<1>2. u = [t EXCEPT !.prefix = At(t.prefix, o, x)]
  BY PatriciaAssumption DEF Deref_Prefix, At
<1> HIDE DEF x, u
<1>3. At(t.prefix, o, x) \in [Object -> PrefixRec]
  BY <1>1, TreeFields DEF At
<1>4. PrefixesOnly(t, u) /\ u.prefix = At(t.prefix, o, x)
  BY <1>2, <1>3 DEF TreeOf, PrefixesOnly
<1> QED BY <1>4 DEF x, u

LEMMA FreshPrefixFields ==
  ASSUME NEW t, Sound(t), NEW p, p.add \in Bits, p.bitlen \in 0 .. maxbits
  PROVE  LET o == FreshPrefix(t, p)
             u == New_Prefix2(t, p)
             a == Address(p, p.bitlen)
         IN  /\ o \in Object /\ t.prefix[o].ref_count = 0
             /\ (a \in Alive(t) => t.node[a].prefix = Nil) => o = a
             /\ PrefixesOnly(t, u)
             /\ u.prefix = At(t.prefix, o, [add |-> p.add, bitlen |-> p.bitlen, ref_count |-> 1])
<1> DEFINE a == Address(p, p.bitlen)
           free == {x \in Object : t.prefix[x].ref_count = 0}
           o == FreshPrefix(t, p)
           u == New_Prefix2(t, p)
           x == [add |-> p.add, bitlen |-> p.bitlen, ref_count |-> 1]
<1>0. t \in TreeOf /\ Filed(t)
  BY DEF Sound
<1>1. a \in Node
  BY AddressFacts
<1>2. Spare \in free
  <2>1. Spare \in Object /\ Spare \notin Alive(t)
    BY PatriciaAssumption DEF Object, Alive
  <2> QED BY <2>1, <1>0 DEF Filed
<1>3. o = IF a \in free THEN a ELSE CHOOSE y \in free : TRUE
  BY DEF FreshPrefix, Calloc
<1>4. o \in free
  <2> HIDE DEF free, o, a
  <2> QED BY <1>2, <1>3
<1>5. (a \in Alive(t) => t.node[a].prefix = Nil) => a \in free
  <2>1. a \in Object
    BY <1>1 DEF Object
  <2>2. a # Nil
    BY <2>1, PatriciaAssumption
  <2> QED BY <2>1, <2>2, <1>0 DEF Filed
<1>6. x \in PrefixRec
  BY DEF PrefixRec
<1>7. u = [t EXCEPT !.prefix = At(t.prefix, o, x)]
  BY DEF New_Prefix2, At
<1>8. At(t.prefix, o, x) \in [Object -> PrefixRec]
  <2> HIDE DEF x, o
  <2> QED BY <1>0, <1>6, TreeFields DEF At
<1>9. PrefixesOnly(t, u) /\ u.prefix = At(t.prefix, o, x)
  <2> HIDE DEF x, u, o
  <2> QED BY <1>0, <1>7, <1>8 DEF TreeOf, PrefixesOnly
<1>10. o \in Object /\ t.prefix[o].ref_count = 0
  <2> HIDE DEF o
  <2> QED BY <1>4
<1>11. (a \in Alive(t) => t.node[a].prefix = Nil) => o = a
  <2> HIDE DEF o, free
  <2> QED BY <1>3, <1>5
<1> HIDE DEF o, u, a, x
<1> QED BY <1>9, <1>10, <1>11 DEF o, u, a, x

(***************************************************************************)
(* The four changes of shape: a leaf more or less, a node between two      *)
(* others more or less.                                                    *)
(***************************************************************************)

Kept(t, u, m)     == u.node[m].bit = t.node[m].bit /\ u.node[m].prefix = t.node[m].prefix
SameKids(t, u, m) == \A z \in {0, 1} : Kid(u, m, z) = Kid(t, m, z)
OneKid(t, u, m, s, c) == Kid(u, m, s) = c /\ Kid(u, m, 1 - s) = Kid(t, m, 1 - s)

\* The side of a on which b lies.
Side(a, b) == b[Len(a) + 1]

LEMMA FreeFields ==
  /\ Free.bit = -1 /\ Free.prefix = Nil /\ Free.l = Nil /\ Free.r = Nil /\ Free.parent = Nil
BY DEF Free

LEMMA AliveBit ==
  ASSUME NEW u, NEW m \in Node, u.node[m].bit = Len(m)
  PROVE  m \in Alive(u)
<1>1. Len(m) \in Nat
  BY NodeFacts
<1>2. u.node[m].bit # -1
  BY <1>1
<1> QED BY <1>2, FreeFields DEF Alive

\* x is a new leaf below n.
LeafAdded(t, u, n, x) ==
  /\ u.head = t.head
  /\ \A m \in Node \ {n, x} : u.node[m] = t.node[m]
  /\ Kept(t, u, n) /\ u.node[n].parent = t.node[n].parent /\ OneKid(t, u, n, Side(n, x), x)
  /\ u.node[x].bit = Len(x) /\ u.node[x].parent = n /\ \A z \in {0, 1} : Kid(u, x, z) = Nil

LEMMA LeafAddedLinked ==
  ASSUME NEW t \in TreeOf, NEW u \in TreeOf, Linked(t), NEW n \in Alive(t), NEW x \in Node,
         x \notin Alive(t), Under(n, x), Kid(t, n, Side(n, x)) = Nil, LeafAdded(t, u, n, x)
  PROVE  Linked(u) /\ Alive(u) = Alive(t) \cup {x}
<1>0. n \in Node /\ n # x /\ \A m \in Alive(t) : m \in Node
  BY DEF Alive
<1>s. PICK s \in {0, 1} : s = Side(n, x)
  BY <1>0, UnderOrder DEF Side
<1>1. Alive(u) = Alive(t) \cup {x}
  <2>1. x \in Alive(u) /\ n \in Alive(u)
    <3>1. u.node[n].bit = Len(n)
      BY DEF LeafAdded, Kept, Linked
    <3> QED BY <1>0, <3>1, AliveBit DEF LeafAdded
  <2>2. \A m \in Node \ {n, x} : m \in Alive(u) <=> m \in Alive(t)
    BY DEF LeafAdded, Alive
  <2> QED BY <2>1, <2>2, <1>0 DEF Alive
<1>2. \A m \in Alive(t) : u.node[m].bit = t.node[m].bit /\ u.node[m].parent = t.node[m].parent
  BY <1>0 DEF LeafAdded, Kept
<1>3. /\ \A m \in Alive(t) : m # n => \A z \in {0, 1} : Kid(u, m, z) = Kid(t, m, z)
      /\ \A z \in {0, 1} : Kid(u, n, z) = IF z = s THEN x ELSE Kid(t, n, z)
      /\ \A z \in {0, 1} : Kid(u, x, z) = Nil
  <2>1. \A m \in Alive(t) : m # n => u.node[m] = t.node[m]
    BY <1>0 DEF LeafAdded
  <2>2. \A z \in {0, 1} : z # s => z = 1 - s
    OBVIOUS
  <2> QED BY <2>1, <2>2, <1>s DEF LeafAdded, OneKid, Kid
<1>4. u.head = t.head /\ u.node[x].bit = Len(x) /\ u.node[x].parent = n /\ x # Nil
  BY PatriciaAssumption DEF LeafAdded, Object
<1>5. u.head # Nil => u.head \in Alive(u) /\ u.node[u.head].parent = Nil
  BY <1>1, <1>2, <1>4 DEF Linked
<1>6. \A m \in Alive(u) : u.node[m].bit = Len(m)
  BY <1>1, <1>2, <1>4 DEF Linked
<1>7. ASSUME NEW m \in Alive(u), m # u.head
      PROVE  /\ u.node[m].parent \in Alive(u) /\ Under(u.node[m].parent, m)
             /\ Kid(u, u.node[m].parent, m[Len(u.node[m].parent) + 1]) = m
  <2>1. CASE m = x
    BY <2>1, <1>1, <1>3, <1>4, <1>s DEF Side
  <2>2. CASE m \in Alive(t)
    <3>1. PICK q \in Alive(t) : q = t.node[m].parent /\ Under(q, m) /\ Kid(t, q, m[Len(q) + 1]) = m
      BY <2>2, <1>4, <1>7 DEF Linked
    <3>2. u.node[m].parent = q
      BY <2>2, <3>1, <1>2
    <3>3. m[Len(q) + 1] \in {0, 1}
      BY <1>0, <2>2, <3>1, UnderOrder
    <3>4. m # Nil
      BY <1>0, <2>2, PatriciaAssumption DEF Object
    <3>5. Kid(u, q, m[Len(q) + 1]) = m
      <4>1. CASE q # n
        BY <4>1, <1>3, <3>1, <3>3
      <4>2. CASE q = n
        <5>1. m[Len(q) + 1] # s
          BY <4>2, <3>1, <3>4, <1>s
        <5> QED BY <4>2, <5>1, <1>3, <3>1, <3>3
      <4> QED BY <4>1, <4>2
    <3> QED BY <3>1, <3>2, <3>5, <1>1
  <2> QED BY <2>1, <2>2, <1>1
<1>8. ASSUME NEW m \in Alive(u), NEW z \in {0, 1}, Kid(u, m, z) # Nil
      PROVE  /\ Kid(u, m, z) \in Alive(u) /\ u.node[Kid(u, m, z)].parent = m
             /\ Under(m, Kid(u, m, z)) /\ Kid(u, m, z)[Len(m) + 1] = z
             /\ Kid(u, m, z) # u.head
  <2>1. CASE m = n /\ z = s
    <3>1. Kid(u, m, z) = x
      BY <2>1, <1>3
    <3>2. x # u.head
      BY <1>4 DEF Linked
    <3> QED BY <3>1, <3>2, <2>1, <1>1, <1>4, <1>s DEF Side
  <2>2. CASE ~(m = n /\ z = s)
    <3>1. m # x
      BY <1>3, <1>8
    <3>2. m \in Alive(t) /\ Kid(u, m, z) = Kid(t, m, z)
      BY <2>2, <3>1, <1>1, <1>3
    <3> QED BY <3>2, <1>1, <1>2, <1>4, <1>8 DEF Linked
  <2> QED BY <2>1, <2>2
<1>9. Linked(u)
  BY <1>5, <1>6, <1>7, <1>8 DEF Linked
<1> QED BY <1>1, <1>9

\* x is a new node between n and n's parent, if it has one.
SplicedIn(t, u, n, x) ==
  LET q == t.node[n].parent
  IN  /\ u.head = IF q = Nil THEN x ELSE t.head
      /\ \A m \in Node \ {n, x, q} : u.node[m] = t.node[m]
      /\ Kept(t, u, n) /\ u.node[n].parent = x /\ SameKids(t, u, n)
      /\ u.node[x].bit = Len(x) /\ u.node[x].parent = q
      /\ Kid(u, x, Side(x, n)) = n /\ Kid(u, x, 1 - Side(x, n)) = Nil
      /\ q # Nil => /\ Kept(t, u, q) /\ u.node[q].parent = t.node[q].parent
                    /\ OneKid(t, u, q, Side(q, n), x)

LEMMA SplicedInLinked ==
  ASSUME NEW t \in TreeOf, NEW u \in TreeOf, Linked(t), NEW n \in Alive(t), NEW x \in Node,
         x \notin Alive(t), Under(x, n), t.node[n].parent # Nil => Under(t.node[n].parent, x),
         SplicedIn(t, u, n, x)
  PROVE  Linked(u) /\ Alive(u) = Alive(t) \cup {x}
<1>0. n \in Node /\ n # x /\ x # Nil /\ n # Nil /\ \A m \in Alive(t) : m \in Node /\ m # Nil
  BY PatriciaAssumption DEF Alive, Object
<1>q. PICK q : q = t.node[n].parent
  OBVIOUS
<1>h. /\ q = Nil => t.head = n
      /\ q # Nil => /\ q \in Alive(t) /\ q # n /\ q # x /\ Under(q, n) /\ Kid(t, q, Side(q, n)) = n
                    /\ n # t.head
  <2>1. q = Nil => t.head = n
    BY <1>0, <1>q DEF Linked
  <2>2. ASSUME q # Nil
        PROVE  n # t.head
    BY <2>2, <1>0, <1>q DEF Linked
  <2>3. ASSUME q # Nil
        PROVE  q \in Alive(t) /\ Under(q, n) /\ Kid(t, q, Side(q, n)) = n
    BY <2>2, <2>3, <1>q DEF Linked, Side
  <2>4. ASSUME q # Nil
        PROVE  q # n /\ q # x
    BY <2>3, <2>4, <1>0, UnderOrder
  <2> QED BY <2>1, <2>2, <2>3, <2>4
<1>s. PICK s \in {0, 1} : s = Side(x, n)
  BY <1>0, UnderOrder DEF Side
<1>v. PICK v \in {0, 1} : q # Nil => v = Side(q, n) /\ v = Side(q, x)
  <2>1. CASE q = Nil
    BY <2>1
  <2>2. CASE q # Nil
    <3>1. q \in Node /\ Under(q, x)
      BY <2>2, <1>0, <1>h, <1>q
    <3> QED BY <2>2, <3>1, <1>0, UnderOrder, UnderTransitive DEF Side
  <2> QED BY <2>1, <2>2
<1>f. /\ u.head = IF q = Nil THEN x ELSE t.head
      /\ \A m \in Node \ {n, x, q} : u.node[m] = t.node[m]
      /\ u.node[n].bit = t.node[n].bit /\ u.node[n].parent = x
      /\ \A z \in {0, 1} : Kid(u, n, z) = Kid(t, n, z)
      /\ u.node[x].bit = Len(x) /\ u.node[x].parent = q
      /\ \A z \in {0, 1} : Kid(u, x, z) = IF z = s THEN n ELSE Nil
      /\ q # Nil => /\ u.node[q].bit = t.node[q].bit /\ u.node[q].parent = t.node[q].parent
                    /\ \A z \in {0, 1} : Kid(u, q, z) = IF z = v THEN x ELSE Kid(t, q, z)
  <2>1. \A z \in {0, 1} : (z # s => z = 1 - s) /\ (z # v => z = 1 - v)
    OBVIOUS
  <2> QED BY <2>1, <1>q, <1>s, <1>v DEF SplicedIn, Kept, SameKids, OneKid
<1>1. Alive(u) = Alive(t) \cup {x}
  <2>1. x \in Alive(u) /\ n \in Alive(u) /\ (q # Nil => q \in Alive(u))
    <3>1. u.node[n].bit = Len(n) /\ (q # Nil => q \in Node /\ u.node[q].bit = Len(q))
      BY <1>0, <1>f, <1>h DEF Linked
    <3> QED BY <1>0, <1>f, <3>1, AliveBit
  <2>2. \A m \in Node \ {n, x, q} : m \in Alive(u) <=> m \in Alive(t)
    BY <1>f DEF Alive
  <2>n. Nil \notin Node
    BY PatriciaAssumption DEF Object
  <2>3. \A m \in Node : m \in Alive(u) <=> m \in Alive(t) \cup {x}
    BY <2>1, <2>2, <2>n, <1>0, <1>h
  <2>4. Alive(u) \subseteq Node /\ Alive(t) \cup {x} \subseteq Node
    BY DEF Alive
  <2> QED BY <2>3, <2>4
<1>2. \A m \in Alive(t) : /\ u.node[m].bit = t.node[m].bit
                          /\ m # n => u.node[m].parent = t.node[m].parent
  <2> SUFFICES ASSUME NEW m \in Alive(t)
               PROVE  u.node[m].bit = t.node[m].bit /\ (m # n => u.node[m].parent = t.node[m].parent)
    OBVIOUS
  <2>1. m # Nil /\ m \in Node
    BY <1>0
  <2>2. CASE m = n \/ m = q
    BY <2>1, <2>2, <1>f
  <2>3. CASE ~(m = n \/ m = q)
    BY <2>1, <2>3, <1>f
  <2> QED BY <2>2, <2>3
<1>3. \A m \in Alive(t) : m # q => \A z \in {0, 1} : Kid(u, m, z) = Kid(t, m, z)
  <2>1. \A m \in Alive(t) : m # n /\ m # q => u.node[m] = t.node[m]
    BY <1>0, <1>f
  <2> QED BY <2>1, <1>f DEF Kid
<1>5. u.head # Nil => u.head \in Alive(u) /\ u.node[u.head].parent = Nil
  <2>1. CASE q = Nil
    BY <2>1, <1>1, <1>f
  <2>2. CASE q # Nil
    BY <2>2, <1>1, <1>2, <1>f, <1>h DEF Linked
  <2> QED BY <2>1, <2>2
<1>6. \A m \in Alive(u) : u.node[m].bit = Len(m)
  BY <1>1, <1>2, <1>f DEF Linked
<1>7. ASSUME NEW m \in Alive(u), m # u.head
      PROVE  /\ u.node[m].parent \in Alive(u) /\ Under(u.node[m].parent, m)
             /\ Kid(u, u.node[m].parent, m[Len(u.node[m].parent) + 1]) = m
  <2>1. CASE m = x
    <3>1. q # Nil
      BY <2>1, <1>7, <1>f
    <3>2. q \in Alive(u) /\ Under(q, x) /\ Kid(u, q, v) = x /\ x[Len(q) + 1] = v
      BY <3>1, <1>1, <1>f, <1>h, <1>q, <1>v DEF Side
    <3> QED BY <2>1, <3>2, <1>f
  <2>2. CASE m = n
    <3>1. n[Len(x) + 1] = s /\ Kid(u, x, s) = n
      BY <1>s, <1>f DEF Side
    <3> QED BY <2>2, <3>1, <1>1, <1>f
  <2>3. CASE m \in Alive(t) /\ m # n
    <3>0. m # t.head
      BY <2>3, <1>7, <1>f, <1>h
    <3>1. PICK a \in Alive(t) : a = t.node[m].parent /\ Under(a, m) /\ Kid(t, a, m[Len(a) + 1]) = m
      BY <2>3, <3>0 DEF Linked
    <3>2. u.node[m].parent = a
      BY <2>3, <3>1, <1>2
    <3>3. m[Len(a) + 1] \in {0, 1}
      BY <1>0, <2>3, <3>1, UnderOrder
    <3>5. Kid(u, a, m[Len(a) + 1]) = m
      <4>1. CASE a # q
        BY <4>1, <1>3, <3>1, <3>3
      <4>2. CASE a = q
        <5>1. q # Nil
          BY <4>2, <1>0
        <5>2. m[Len(a) + 1] # v
          BY <4>2, <5>1, <3>1, <2>3, <1>h, <1>v DEF Side
        <5> QED BY <4>2, <5>1, <5>2, <1>f, <3>1, <3>3
      <4> QED BY <4>1, <4>2
    <3> QED BY <3>1, <3>2, <3>5, <1>1
  <2> QED BY <2>1, <2>2, <2>3, <1>1
<1>8. ASSUME NEW m \in Alive(u), NEW z \in {0, 1}, Kid(u, m, z) # Nil
      PROVE  /\ Kid(u, m, z) \in Alive(u) /\ u.node[Kid(u, m, z)].parent = m
             /\ Under(m, Kid(u, m, z)) /\ Kid(u, m, z)[Len(m) + 1] = z
             /\ Kid(u, m, z) # u.head
  <2>1. CASE m = x
    <3>1. Kid(u, m, z) = n /\ z = s
      BY <2>1, <1>8, <1>f
    <3>2. n # u.head
      BY <1>0, <1>f, <1>h
    <3> QED BY <3>1, <3>2, <2>1, <1>1, <1>f, <1>s DEF Side
  <2>2. CASE m = q /\ z = v
    <3>1. q # Nil
      BY <2>2, <1>1, <1>0
    <3>2. Kid(u, m, z) = x
      BY <2>2, <3>1, <1>f
    <3>3. x # u.head
      BY <3>1, <1>0, <1>f DEF Linked
    <3>4. Under(q, x) /\ x[Len(q) + 1] = v
      BY <3>1, <1>q, <1>v DEF Side
    <3> QED BY <3>1, <3>2, <3>3, <3>4, <2>2, <1>1, <1>f
  <2>3. CASE m # x /\ ~(m = q /\ z = v)
    <3>1. m \in Alive(t) /\ m # Nil
      BY <2>3, <1>0, <1>1
    <3>2. Kid(u, m, z) = Kid(t, m, z)
      BY <2>3, <3>1, <1>3, <1>f
    <3>3. PICK c \in Alive(t) : /\ c = Kid(t, m, z) /\ t.node[c].parent = m /\ Under(m, c)
                                /\ c[Len(m) + 1] = z /\ c # t.head
      BY <3>1, <3>2, <1>8 DEF Linked
    <3>4. c # n
      <4>1. SUFFICES ASSUME c = n  PROVE FALSE
        OBVIOUS
      <4>2. q = m /\ q # Nil
        BY <4>1, <3>1, <3>3, <1>q
      <4>3. z = v
        BY <4>1, <4>2, <3>3, <1>v DEF Side
      <4> QED BY <4>2, <4>3, <2>3
    <3>5. u.node[c].parent = m /\ c # u.head
      BY <3>3, <3>4, <1>2, <1>f
    <3> QED BY <3>2, <3>3, <3>5, <1>1
  <2> QED BY <2>1, <2>2, <2>3
<1>9. Linked(u)
  BY <1>5, <1>6, <1>7, <1>8 DEF Linked
<1> QED BY <1>1, <1>9

\* x, with n as its only child, is gone; n has taken its place.
SplicedOut(t, u, n, x) ==
  LET q == t.node[x].parent
  IN  /\ u.head = IF q = Nil THEN n ELSE t.head
      /\ \A m \in Node \ {n, x, q} : u.node[m] = t.node[m]
      /\ Kept(t, u, n) /\ u.node[n].parent = q /\ SameKids(t, u, n)
      /\ u.node[x] = Free
      /\ q # Nil => /\ Kept(t, u, q) /\ u.node[q].parent = t.node[q].parent
                    /\ OneKid(t, u, q, Side(q, x), n)

LEMMA SplicedOutLinked ==
  ASSUME NEW t \in TreeOf, NEW u \in TreeOf, Linked(t), NEW n \in Alive(t), NEW x \in Alive(t),
         t.node[n].parent = x, n # t.head, \A z \in {0, 1} : Kid(t, x, z) \in {n, Nil},
         SplicedOut(t, u, n, x)
  PROVE  Linked(u) /\ Alive(u) = Alive(t) \ {x}
<1>0. n \in Node /\ x # Nil /\ n # Nil /\ x \in Node /\ \A m \in Alive(t) : m \in Node /\ m # Nil
  BY PatriciaAssumption DEF Alive, Object
<1>x. Under(x, n) /\ x # n
  BY <1>0, UnderOrder DEF Linked
<1>q. PICK q : q = t.node[x].parent
  OBVIOUS
<1>h. /\ q = Nil => t.head = x
      /\ q # Nil => /\ q \in Alive(t) /\ q # n /\ q # x /\ Under(q, x) /\ Kid(t, q, Side(q, x)) = x
                    /\ x # t.head /\ Under(q, n) /\ Side(q, n) = Side(q, x)
  <2>1. q = Nil => t.head = x
    BY <1>0, <1>q DEF Linked
  <2>2. ASSUME q # Nil
        PROVE  x # t.head
    BY <2>2, <1>0, <1>q DEF Linked
  <2>3. ASSUME q # Nil
        PROVE  q \in Alive(t) /\ Under(q, x) /\ Kid(t, q, Side(q, x)) = x
    BY <2>2, <2>3, <1>q DEF Linked, Side
  <2>4. ASSUME q # Nil
        PROVE  Under(q, n) /\ Side(q, n) = Side(q, x)
    BY <2>3, <2>4, <1>0, <1>x, UnderTransitive DEF Side
  <2>5. ASSUME q # Nil
        PROVE  q # n /\ q # x
    BY <2>3, <2>4, <2>5, <1>0, UnderOrder
  <2> QED BY <2>1, <2>2, <2>3, <2>4, <2>5
<1>v. PICK v \in {0, 1} : q # Nil => v = Side(q, x) /\ v = Side(q, n)
  <2>1. CASE q = Nil
    BY <2>1
  <2>2. CASE q # Nil
    BY <2>2, <1>0, <1>h, UnderOrder DEF Side
  <2> QED BY <2>1, <2>2
<1>f. /\ u.head = IF q = Nil THEN n ELSE t.head
      /\ \A m \in Node \ {n, x, q} : u.node[m] = t.node[m]
      /\ u.node[n].bit = t.node[n].bit /\ u.node[n].parent = q
      /\ \A z \in {0, 1} : Kid(u, n, z) = Kid(t, n, z)
      /\ u.node[x] = Free
      /\ q # Nil => /\ u.node[q].bit = t.node[q].bit /\ u.node[q].parent = t.node[q].parent
                    /\ \A z \in {0, 1} : Kid(u, q, z) = IF z = v THEN n ELSE Kid(t, q, z)
  <2>1. \A z \in {0, 1} : z # v => z = 1 - v
    OBVIOUS
  <2> QED BY <2>1, <1>q, <1>v DEF SplicedOut, Kept, SameKids, OneKid
<1>1. Alive(u) = Alive(t) \ {x}
  <2>1. n \in Alive(u) /\ (q # Nil => q \in Alive(u)) /\ x \notin Alive(u)
    <3>1. u.node[n].bit = Len(n) /\ (q # Nil => q \in Node /\ u.node[q].bit = Len(q))
      BY <1>0, <1>f, <1>h DEF Linked
    <3>2. x \notin Alive(u)
      BY <1>f DEF Alive
    <3> QED BY <1>0, <1>f, <3>1, <3>2, AliveBit
  <2>2. \A m \in Node \ {n, x, q} : m \in Alive(u) <=> m \in Alive(t)
    BY <1>f DEF Alive
  <2>n. Nil \notin Node
    BY PatriciaAssumption DEF Object
  <2>3. \A m \in Node : m \in Alive(u) <=> m \in Alive(t) \ {x}
    BY <2>1, <2>2, <2>n, <1>0, <1>h, <1>x
  <2>4. Alive(u) \subseteq Node /\ Alive(t) \ {x} \subseteq Node
    BY DEF Alive
  <2> QED BY <2>3, <2>4
<1>2. \A m \in Alive(u) : /\ m \in Alive(t) /\ u.node[m].bit = t.node[m].bit
                          /\ m # n => u.node[m].parent = t.node[m].parent
  <2> SUFFICES ASSUME NEW m \in Alive(u)
               PROVE  /\ m \in Alive(t) /\ u.node[m].bit = t.node[m].bit
                      /\ m # n => u.node[m].parent = t.node[m].parent
    OBVIOUS
  <2>1. m # Nil /\ m \in Node /\ m \in Alive(t) /\ m # x
    BY <1>0, <1>1
  <2>2. CASE m = n \/ m = q
    BY <2>1, <2>2, <1>f
  <2>3. CASE ~(m = n \/ m = q)
    BY <2>1, <2>3, <1>f
  <2> QED BY <2>2, <2>3
<1>3. \A m \in Alive(u) : m # q => \A z \in {0, 1} : Kid(u, m, z) = Kid(t, m, z)
  <2>1. \A m \in Alive(u) : m # n /\ m # q => u.node[m] = t.node[m]
    BY <1>0, <1>1, <1>f
  <2> QED BY <2>1, <1>f DEF Kid
<1>5. u.head # Nil => u.head \in Alive(u) /\ u.node[u.head].parent = Nil
  <2>1. CASE q = Nil
    BY <2>1, <1>1, <1>f, <1>x
  <2>2. CASE q # Nil
    <3>1. u.head # Nil => u.head \in Alive(u) /\ u.head # n
      BY <2>2, <1>1, <1>f, <1>h DEF Linked
    <3> QED BY <2>2, <3>1, <1>2, <1>f DEF Linked
  <2> QED BY <2>1, <2>2
<1>6. \A m \in Alive(u) : u.node[m].bit = Len(m)
  BY <1>2 DEF Linked
<1>7. ASSUME NEW m \in Alive(u), m # u.head
      PROVE  /\ u.node[m].parent \in Alive(u) /\ Under(u.node[m].parent, m)
             /\ Kid(u, u.node[m].parent, m[Len(u.node[m].parent) + 1]) = m
  <2>2. CASE m = n
    <3>1. q # Nil
      BY <2>2, <1>7, <1>f
    <3>2. n[Len(q) + 1] = v /\ Kid(u, q, v) = n
      BY <3>1, <1>v, <1>f DEF Side
    <3> QED BY <2>2, <3>1, <3>2, <1>1, <1>f, <1>h
  <2>3. CASE m # n
    <3>0. m # t.head /\ m \in Alive(t) /\ m # x
      BY <2>3, <1>1, <1>7, <1>f, <1>h
    <3>1. PICK a \in Alive(t) : a = t.node[m].parent /\ Under(a, m) /\ Kid(t, a, m[Len(a) + 1]) = m
      BY <3>0 DEF Linked
    <3>2. u.node[m].parent = a
      BY <2>3, <3>1, <1>2
    <3>3. m[Len(a) + 1] \in {0, 1}
      BY <1>0, <3>0, <3>1, UnderOrder
    <3>4. a # x
      BY <3>0, <3>1, <3>3, <2>3, <1>0
    <3>5. Kid(u, a, m[Len(a) + 1]) = m
      <4>1. CASE a # q
        BY <4>1, <1>1, <1>3, <3>1, <3>3, <3>4
      <4>2. CASE a = q
        <5>1. q # Nil
          BY <4>2, <1>0
        <5>2. m[Len(a) + 1] # v
          BY <4>2, <5>1, <3>0, <3>1, <1>h, <1>v DEF Side
        <5> QED BY <4>2, <5>1, <5>2, <1>f, <3>1, <3>3
      <4> QED BY <4>1, <4>2
    <3> QED BY <3>1, <3>2, <3>4, <3>5, <1>1
  <2> QED BY <2>2, <2>3
<1>8. ASSUME NEW m \in Alive(u), NEW z \in {0, 1}, Kid(u, m, z) # Nil
      PROVE  /\ Kid(u, m, z) \in Alive(u) /\ u.node[Kid(u, m, z)].parent = m
             /\ Under(m, Kid(u, m, z)) /\ Kid(u, m, z)[Len(m) + 1] = z
             /\ Kid(u, m, z) # u.head
  <2>0. m \in Alive(t) /\ m # Nil /\ m # x
    BY <1>0, <1>1
  <2>2. CASE m = q /\ z = v
    <3>1. q # Nil /\ Kid(u, m, z) = n
      BY <2>0, <2>2, <1>f
    <3>3. n # u.head
      BY <3>1, <1>f
    <3>4. Under(q, n) /\ n[Len(q) + 1] = v
      BY <3>1, <1>h, <1>v DEF Side
    <3> QED BY <3>1, <3>3, <3>4, <2>2, <1>1, <1>f, <1>x
  <2>3. CASE ~(m = q /\ z = v)
    <3>2. Kid(u, m, z) = Kid(t, m, z)
      BY <2>0, <2>3, <1>3, <1>f
    <3>3. PICK c \in Alive(t) : /\ c = Kid(t, m, z) /\ t.node[c].parent = m /\ Under(m, c)
                                /\ c[Len(m) + 1] = z /\ c # t.head
      BY <2>0, <3>2, <1>8 DEF Linked
    <3>4. c # n
      BY <3>3, <2>0
    <3>5. c # x
      <4>1. SUFFICES ASSUME c = x  PROVE FALSE
        OBVIOUS
      <4>2. q = m /\ q # Nil
        BY <4>1, <2>0, <3>3, <1>q
      <4>3. z = v
        BY <4>1, <4>2, <3>3, <1>v DEF Side
      <4> QED BY <4>2, <4>3, <2>3
    <3>6. c \in Alive(u) /\ u.node[c].parent = m /\ c # u.head
      BY <3>3, <3>4, <3>5, <1>1, <1>2, <1>f
    <3> QED BY <3>2, <3>3, <3>6
  <2> QED BY <2>2, <2>3
<1>9. Linked(u)
  BY <1>5, <1>6, <1>7, <1>8 DEF Linked
<1> QED BY <1>1, <1>9

\* The leaf x is gone.
LeafDropped(t, u, x) ==
  LET q == t.node[x].parent
  IN  /\ u.head = IF q = Nil THEN Nil ELSE t.head
      /\ \A m \in Node \ {x, q} : u.node[m] = t.node[m]
      /\ u.node[x] = Free
      /\ q # Nil => /\ Kept(t, u, q) /\ u.node[q].parent = t.node[q].parent
                    /\ OneKid(t, u, q, Side(q, x), Nil)

LEMMA LeafDroppedLinked ==
  ASSUME NEW t \in TreeOf, NEW u \in TreeOf, Linked(t), NEW x \in Alive(t),
         \A z \in {0, 1} : Kid(t, x, z) = Nil, LeafDropped(t, u, x)
  PROVE  Linked(u) /\ Alive(u) = Alive(t) \ {x}
<1>0. x # Nil /\ x \in Node /\ \A m \in Alive(t) : m \in Node /\ m # Nil
  BY PatriciaAssumption DEF Alive, Object
<1>q. PICK q : q = t.node[x].parent
  OBVIOUS
<1>h. /\ q = Nil => t.head = x
      /\ q # Nil => /\ q \in Alive(t) /\ q # x /\ Under(q, x) /\ Kid(t, q, Side(q, x)) = x
                    /\ x # t.head
  <2>1. q = Nil => t.head = x
    BY <1>0, <1>q DEF Linked
  <2>2. ASSUME q # Nil
        PROVE  x # t.head
    BY <2>2, <1>0, <1>q DEF Linked
  <2>3. ASSUME q # Nil
        PROVE  q \in Alive(t) /\ Under(q, x) /\ Kid(t, q, Side(q, x)) = x
    BY <2>2, <2>3, <1>q DEF Linked, Side
  <2>5. ASSUME q # Nil
        PROVE  q # x
    BY <2>3, <2>5, <1>0, UnderOrder
  <2> QED BY <2>1, <2>2, <2>3, <2>5
<1>v. PICK v \in {0, 1} : q # Nil => v = Side(q, x)
  <2>1. CASE q = Nil
    BY <2>1
  <2>2. CASE q # Nil
    BY <2>2, <1>0, <1>h, UnderOrder DEF Side
  <2> QED BY <2>1, <2>2
<1>f. /\ u.head = IF q = Nil THEN Nil ELSE t.head
      /\ \A m \in Node \ {x, q} : u.node[m] = t.node[m]
      /\ u.node[x] = Free
      /\ q # Nil => /\ u.node[q].bit = t.node[q].bit /\ u.node[q].parent = t.node[q].parent
                    /\ \A z \in {0, 1} : Kid(u, q, z) = IF z = v THEN Nil ELSE Kid(t, q, z)
  <2>1. \A z \in {0, 1} : z # v => z = 1 - v
    OBVIOUS
  <2> QED BY <2>1, <1>q, <1>v DEF LeafDropped, Kept, OneKid
<1>1. Alive(u) = Alive(t) \ {x}
  <2>1. (q # Nil => q \in Alive(u)) /\ x \notin Alive(u)
    <3>1. q # Nil => q \in Node /\ u.node[q].bit = Len(q)
      BY <1>0, <1>f, <1>h DEF Linked
    <3>2. x \notin Alive(u)
      BY <1>f DEF Alive
    <3> QED BY <3>1, <3>2, AliveBit
  <2>2. \A m \in Node \ {x, q} : m \in Alive(u) <=> m \in Alive(t)
    BY <1>f DEF Alive
  <2>n. Nil \notin Node
    BY PatriciaAssumption DEF Object
  <2>3. \A m \in Node : m \in Alive(u) <=> m \in Alive(t) \ {x}
    BY <2>1, <2>2, <2>n, <1>0, <1>h
  <2>4. Alive(u) \subseteq Node /\ Alive(t) \ {x} \subseteq Node
    BY DEF Alive
  <2> QED BY <2>3, <2>4
<1>2. \A m \in Alive(u) : /\ m \in Alive(t) /\ m # x /\ u.node[m].bit = t.node[m].bit
                          /\ u.node[m].parent = t.node[m].parent
  <2> SUFFICES ASSUME NEW m \in Alive(u)
               PROVE  /\ m \in Alive(t) /\ m # x /\ u.node[m].bit = t.node[m].bit
                      /\ u.node[m].parent = t.node[m].parent
    OBVIOUS
  <2>1. m # Nil /\ m \in Node /\ m \in Alive(t) /\ m # x
    BY <1>0, <1>1
  <2>2. CASE m = q
    BY <2>1, <2>2, <1>f
  <2>3. CASE m # q
    BY <2>1, <2>3, <1>f
  <2> QED BY <2>2, <2>3
<1>3. \A m \in Alive(u) : m # q => \A z \in {0, 1} : Kid(u, m, z) = Kid(t, m, z)
  <2>1. \A m \in Alive(u) : m # q => u.node[m] = t.node[m]
    BY <1>0, <1>1, <1>f
  <2> QED BY <2>1 DEF Kid
<1>5. u.head # Nil => u.head \in Alive(u) /\ u.node[u.head].parent = Nil
  <2>1. CASE q = Nil
    BY <2>1, <1>f
  <2>2. CASE q # Nil
    <3>1. u.head # Nil => u.head \in Alive(u)
      BY <2>2, <1>1, <1>f, <1>h DEF Linked
    <3> QED BY <2>2, <3>1, <1>2, <1>f DEF Linked
  <2> QED BY <2>1, <2>2
<1>6. \A m \in Alive(u) : u.node[m].bit = Len(m)
  BY <1>2 DEF Linked
<1>c. q = Nil => Alive(u) = {}
  <2>1. SUFFICES ASSUME q = Nil, NEW m \in Alive(t), m # x  PROVE FALSE
    BY <1>1
  <2>2. Under(x, m)
    BY <2>1, <1>h, HeadOnTop
  <2>3. Kid(t, x, m[Len(x) + 1]) \in Alive(t) /\ m[Len(x) + 1] \in {0, 1}
    BY <2>2, <1>0, WayDown, UnderOrder
  <2> QED BY <2>3, <1>0
<1>7. ASSUME NEW m \in Alive(u), m # u.head
      PROVE  /\ u.node[m].parent \in Alive(u) /\ Under(u.node[m].parent, m)
             /\ Kid(u, u.node[m].parent, m[Len(u.node[m].parent) + 1]) = m
  <2>0. q # Nil /\ m # t.head /\ m \in Alive(t) /\ m # x
    BY <1>c, <1>1, <1>7, <1>f
  <2>1. PICK a \in Alive(t) : a = t.node[m].parent /\ Under(a, m) /\ Kid(t, a, m[Len(a) + 1]) = m
    BY <2>0 DEF Linked
  <2>2. u.node[m].parent = a
    BY <2>1, <1>2
  <2>3. m[Len(a) + 1] \in {0, 1}
    BY <1>0, <2>0, <2>1, UnderOrder
  <2>4. a # x
    BY <2>0, <2>1, <2>3, <1>0
  <2>5. Kid(u, a, m[Len(a) + 1]) = m
    <3>1. CASE a # q
      BY <3>1, <1>1, <1>3, <2>1, <2>3, <2>4
    <3>2. CASE a = q
      <4>2. m[Len(a) + 1] # v
        BY <3>2, <2>0, <2>1, <1>h, <1>v DEF Side
      <4> QED BY <3>2, <4>2, <1>f, <2>0, <2>1, <2>3
    <3> QED BY <3>1, <3>2
  <2> QED BY <2>1, <2>2, <2>4, <2>5, <1>1
<1>8. ASSUME NEW m \in Alive(u), NEW z \in {0, 1}, Kid(u, m, z) # Nil
      PROVE  /\ Kid(u, m, z) \in Alive(u) /\ u.node[Kid(u, m, z)].parent = m
             /\ Under(m, Kid(u, m, z)) /\ Kid(u, m, z)[Len(m) + 1] = z
             /\ Kid(u, m, z) # u.head
  <2>0. m \in Alive(t) /\ m # Nil /\ m # x
    BY <1>0, <1>1
  <2>1. ~(m = q /\ z = v)
    BY <2>0, <1>8, <1>f
  <2>2. Kid(u, m, z) = Kid(t, m, z)
    BY <2>0, <2>1, <1>3, <1>f
  <2>3. PICK c \in Alive(t) : /\ c = Kid(t, m, z) /\ t.node[c].parent = m /\ Under(m, c)
                              /\ c[Len(m) + 1] = z /\ c # t.head
    BY <2>0, <2>2, <1>8 DEF Linked
  <2>4. c # x
    <3>1. SUFFICES ASSUME c = x  PROVE FALSE
      OBVIOUS
    <3>2. q = m /\ q # Nil
      BY <3>1, <2>0, <2>3, <1>q
    <3>3. z = v
      BY <3>1, <3>2, <2>3, <1>v DEF Side
    <3> QED BY <3>2, <3>3, <2>1
  <2>5. c \in Alive(u) /\ u.node[c].parent = m /\ c # u.head
    <3>1. q # Nil
      BY <1>c
    <3> QED BY <2>3, <2>4, <3>1, <1>1, <1>2, <1>f
  <2> QED BY <2>2, <2>3, <2>5
<1>9. Linked(u)
  BY <1>5, <1>6, <1>7, <1>8 DEF Linked
<1> QED BY <1>1, <1>9

(***************************************************************************)
(* Searches.                                                               *)
(***************************************************************************)

\* Going on from one place to the next, with a measure that goes down, ends in base; a
\* follower says where, and stays among places that one leads to from another.
Way(D, m, base, nxt) ==
  m \in [D -> Nat] /\ nxt \in [D -> D] /\ \A x \in D : x \notin base => m[nxt[x]] < m[x]
Follower(f, D, base, nxt) == \A x \in D : f[x] = IF x \in base THEN x ELSE f[nxt[x]]
Closed(I, D, base, nxt) == I \in SUBSET D /\ \A x \in I : x \notin base => nxt[x] \in I

LEMMA FollowExists ==
  ASSUME NEW D, NEW m, NEW base, NEW nxt, Way(D, m, base, nxt)
  PROVE  \E f \in [D -> D] : Follower(f, D, base, nxt)
<1> USE DEF Way
<1> DEFINE init == [x \in D |-> x]
           step == [x \in D |-> [v \in D |-> v]]
<1>1. Recursion(D, D, m, base, init, nxt, step)
  BY DEF Recursion
<1>2. PICK f \in [D -> D] : Solves(f, D, base, init, nxt, step)
  <2> HIDE DEF init, step
  <2> QED BY <1>1, SolutionExists
<1>3. ASSUME NEW x \in D  PROVE f[x] = IF x \in base THEN x ELSE f[nxt[x]]
  <2>1. f[x] = IF x \in base THEN init[x] ELSE step[x][f[nxt[x]]]
    BY <1>2 DEF Solves
  <2>2. nxt[x] \in D /\ f[nxt[x]] \in D
    OBVIOUS
  <2>3. init[x] = x /\ step[x][f[nxt[x]]] = f[nxt[x]]
    BY <2>2
  <2> HIDE DEF init, step
  <2> QED BY <2>1, <2>3
<1> QED BY <1>3 DEF Follower

LEMMA FollowEnds ==
  ASSUME NEW D, NEW m, NEW base, NEW nxt, Way(D, m, base, nxt),
         NEW f, Follower(f, D, base, nxt), NEW I, Closed(I, D, base, nxt)
  PROVE  \A x \in I : f[x] \in I /\ f[x] \in base
<1> USE DEF Way, Follower, Closed
<1> DEFINE G == {x \in D : x \in I => f[x] \in I /\ f[x] \in base}
<1>1. ASSUME NEW x \in D, \A y \in D : m[y] < m[x] => y \in G  PROVE x \in G
  <2>1. SUFFICES ASSUME x \in I  PROVE f[x] \in I /\ f[x] \in base
    OBVIOUS
  <2>2. CASE x \in base
    BY <2>1, <2>2
  <2>3. CASE x \notin base
    <3>1. nxt[x] \in G /\ nxt[x] \in I
      BY <2>1, <2>3, <1>1
    <3> QED BY <3>1, <2>3
  <2> QED BY <2>2, <2>3
<1>2. G = D
  <2>1. G \in SUBSET D
    OBVIOUS
  <2>3. m \in [D -> Nat]
    OBVIOUS
  <2> HIDE DEF G, Way, Follower, Closed
  <2>2. Hereditary(D, m, G)
    BY <1>1 DEF Hereditary
  <2> QED BY <2>1, <2>2, <2>3, MeasureInduction
<1> QED BY <1>2

\* The child a search for p goes to.
Ahead(t, p, n) == Child(t, n, Right(n, t, p))

LEMMA AheadFacts ==
  ASSUME NEW t \in TreeOf, Linked(t), NEW p, p.add \in Bits, NEW n \in Node
  PROVE  /\ n \notin Alive(t) => Ahead(t, p, n) = Nil
         /\ n \in Alive(t) /\ Len(n) < maxbits =>
              p.add[Len(n) + 1] \in {0, 1} /\ Ahead(t, p, n) = Kid(t, n, p.add[Len(n) + 1])
         /\ Ahead(t, p, n) # Nil =>
              /\ n \in Alive(t) /\ Ahead(t, p, n) \in Alive(t) /\ Under(n, Ahead(t, p, n))
              /\ Len(n) < maxbits /\ Ahead(t, p, n)[Len(n) + 1] = p.add[Len(n) + 1]
              /\ t.node[Ahead(t, p, n)].parent = n /\ Ahead(t, p, n) # t.head
<1> DEFINE c == Ahead(t, p, n)
<1>0. Len(n) \in Nat /\ maxbits \in Nat /\ Len(n) <= maxbits
  BY NodeFacts, PatriciaAssumption
<1>1. n \notin Alive(t) => c = Nil
  BY FreeFields DEF Ahead, Child, Alive
<1>2. ASSUME n \in Alive(t), Len(n) < maxbits
      PROVE  p.add[Len(n) + 1] \in {0, 1} /\ c = Kid(t, n, p.add[Len(n) + 1])
  <2>1. Len(n) + 1 \in 1 .. maxbits
    BY <1>0, <1>2
  <2>2. p.add[Len(n) + 1] \in {0, 1}
    BY <2>1 DEF Bits
  <2>3. t.node[n].bit = Len(n)
    BY <1>2 DEF Linked
  <2> QED BY <1>2, <2>2, <2>3 DEF Ahead, Child, Right, Bit, Kid
<1>3. ASSUME c # Nil, n \in Alive(t)
      PROVE  Len(n) < maxbits
  <2>1. PICK z \in {0, 1} : c = Kid(t, n, z)
    <3>1. c = Kid(t, n, 1) \/ c = Kid(t, n, 0)
      BY DEF Ahead, Child, Kid
    <3> QED BY <3>1
  <2>2. c \in Alive(t) /\ Under(n, c)
    BY <2>1, <1>3 DEF Linked
  <2>3. c \in Node
    BY <2>2 DEF Alive
  <2> QED BY <2>2, <2>3, UnderOrder
<1>4. ASSUME c # Nil
      PROVE  /\ n \in Alive(t) /\ c \in Alive(t) /\ Under(n, c)
             /\ Len(n) < maxbits /\ c[Len(n) + 1] = p.add[Len(n) + 1]
             /\ t.node[c].parent = n /\ c # t.head
  <2>1. n \in Alive(t) /\ Len(n) < maxbits
    BY <1>1, <1>3, <1>4
  <2>2. p.add[Len(n) + 1] \in {0, 1} /\ c = Kid(t, n, p.add[Len(n) + 1])
    BY <2>1, <1>2
  <2> HIDE DEF c
  <2> QED BY <2>1, <2>2, <1>4 DEF Linked
<1> QED BY <1>1, <1>2, <1>4

\* Where a search for p may have come to: nodes above it were left on the side of p.
Reached(t, p, n) == \A a \in Alive(t) : Under(a, n) => n[Len(a) + 1] = p.add[Len(a) + 1]

LEMMA HeadReached ==
  ASSUME NEW t \in TreeOf, Linked(t), NEW p, t.head # Nil
  PROVE  t.head \in Alive(t) /\ Reached(t, p, t.head)
<1>1. t.head \in Alive(t)
  BY DEF Linked
<1>2. ASSUME NEW a \in Alive(t), Under(a, t.head)  PROVE FALSE
  <2>1. a = t.head \/ Under(t.head, a)
    BY HeadOnTop
  <2>2. a \in Node /\ t.head \in Node
    BY <1>1 DEF Alive
  <2> QED BY <2>1, <2>2, <1>2, UnderOrder
<1> QED BY <1>1, <1>2 DEF Reached

LEMMA AheadReached ==
  ASSUME NEW t \in TreeOf, Linked(t), NEW p, p.add \in Bits, NEW n \in Alive(t),
         Reached(t, p, n), Ahead(t, p, n) # Nil
  PROVE  Reached(t, p, Ahead(t, p, n))
<1>1. PICK c \in Alive(t) : /\ c = Ahead(t, p, n) /\ Under(n, c) /\ c[Len(n) + 1] = p.add[Len(n) + 1]
                            /\ t.node[c].parent = n /\ c # t.head
  BY AheadFacts DEF Alive
<1>2. ASSUME NEW a \in Alive(t), Under(a, c)  PROVE c[Len(a) + 1] = p.add[Len(a) + 1]
  <2>0. a \in Node /\ n \in Node /\ c \in Node
    BY DEF Alive
  <2>1. a = n \/ Under(a, n) \/ Under(n, a)
    BY <1>1, <1>2, <2>0, Comparable
  <2>2. CASE Under(a, n)
    BY <1>1, <2>0, <2>2, UnderTransitive DEF Reached
  <2>3. CASE Under(n, a)
    BY <1>1, <1>2, <2>3, NothingBetween
  <2> QED BY <1>1, <2>1, <2>2, <2>3
<1> QED BY <1>1, <1>2 DEF Reached

Halts(t, p, n) == (t.node[n].bit >= p.bitlen /\ t.node[n].prefix # Nil) \/ Ahead(t, p, n) = Nil

LEMMA StopFound ==
  ASSUME NEW t \in TreeOf, Linked(t), NEW p, p.add \in Bits, t.head # Nil
  PROVE  Stop(t, p) \in Alive(t) /\ Reached(t, p, Stop(t, p)) /\ Halts(t, p, Stop(t, p))
<1> DEFINE m == [n \in Node |-> maxbits - Len(n)]
           base == {n \in Node : Halts(t, p, n)}
           nxt == [n \in Node |-> IF n \in base THEN n ELSE Ahead(t, p, n)]
           I == {n \in Alive(t) : Reached(t, p, n)}
           F(f) == [n \in Node |->
                      LET c == Child(t, n, Right(n, t, p))
                      IN  IF (t.node[n].bit >= p.bitlen /\ t.node[n].prefix # Nil) \/ c = Nil
                          THEN n ELSE f[c]]
           down == CHOOSE f : f = F(f)
<1>0. \A n \in Node : Len(n) \in Nat /\ Len(n) <= maxbits /\ maxbits \in Nat
  BY NodeFacts, PatriciaAssumption
<1>1. m \in [Node -> Nat]
  BY <1>0
<1>2. ASSUME NEW n \in Node, n \notin base
      PROVE  /\ Ahead(t, p, n) \in Node /\ m[Ahead(t, p, n)] < m[n]
             /\ n \in I => Ahead(t, p, n) \in I
  <2>1. Ahead(t, p, n) # Nil
    BY <1>2 DEF Halts
  <2>2. Ahead(t, p, n) \in Alive(t) /\ Under(n, Ahead(t, p, n))
    BY <2>1, AheadFacts
  <2>3. Ahead(t, p, n) \in Node
    BY <2>2 DEF Alive
  <2>4. m[Ahead(t, p, n)] < m[n]
    BY <2>2, <2>3, <1>0 DEF Under
  <2>5. n \in I => Ahead(t, p, n) \in I
    BY <2>1, <2>2, AheadReached
  <2> QED BY <2>3, <2>4, <2>5
<1>3. nxt \in [Node -> Node]
  BY <1>2
<1>4. /\ \A n \in Node : n \notin base => m[nxt[n]] < m[n]
      /\ \A n \in I : n \notin base => nxt[n] \in I
      /\ I \in SUBSET Node
  BY <1>2 DEF Alive
<1>w. Way(Node, m, base, nxt) /\ Closed(I, Node, base, nxt)
  <2> HIDE DEF m, base, nxt, I
  <2> QED BY <1>1, <1>3, <1>4 DEF Way, Closed
<1>5. \A f : F(f) = [n \in Node |-> IF n \in base THEN n ELSE f[nxt[n]]]
  BY DEF Halts, Ahead
<1>6. \E f : f = F(f)
  <2> HIDE DEF m, base, nxt, I, F
  <2>1. PICK f \in [Node -> Node] : Follower(f, Node, base, nxt)
    BY <1>w, FollowExists
  <2>2. f = [n \in Node |-> IF n \in base THEN n ELSE f[nxt[n]]]
    BY <2>1 DEF Follower
  <2> QED BY <2>2, <1>5
<1>7. down = F(down)
  <2> HIDE DEF F
  <2> QED BY <1>6
<1>8. Follower(down, Node, base, nxt)
  <2> HIDE DEF F, base, nxt, down
  <2> QED BY <1>5, <1>7 DEF Follower
<1>9. \A n \in I : down[n] \in I /\ down[n] \in base
  <2> HIDE DEF m, base, nxt, I, down
  <2> QED BY <1>w, <1>8, FollowEnds
<1>10. Stop(t, p) = down[t.head]
  BY DEF Stop
<1>11. t.head \in I
  BY HeadReached
<1> HIDE DEF down
<1> QED BY <1>9, <1>10, <1>11

\* From s up to where the bit is below d.
LEMMA ClimbFound ==
  ASSUME NEW t \in TreeOf, Linked(t), NEW s \in Alive(t), NEW d \in Nat
  PROVE  LET n == Climb(t, s, d)
             q == t.node[n].parent
         IN  /\ n \in Alive(t) /\ (n = s \/ (Under(n, s) /\ Len(n) >= d))
             /\ q # Nil => q \in Alive(t) /\ Under(q, n) /\ n # t.head /\ Len(q) < d
<1> DEFINE m == [n \in Node |-> Len(n)]
           Goes(n) == t.node[n].parent # Nil /\ t.node[t.node[n].parent].bit >= d
           base == {n \in Node : ~Goes(n)}
           nxt == [n \in Node |-> IF n \in base THEN n ELSE t.node[n].parent]
           I == {n \in Alive(t) : n = s \/ (Under(n, s) /\ Len(n) >= d)}
           F(f) == [n \in Node |->
                      LET q == t.node[n].parent
                      IN  IF q # Nil /\ t.node[q].bit >= d THEN f[q] ELSE n]
           up == CHOOSE f : f = F(f)
<1>0. \A n \in Node : Len(n) \in Nat
  BY NodeFacts
<1>1. m \in [Node -> Nat]
  BY <1>0
<1>p. ASSUME NEW n \in Node, t.node[n].parent # Nil
      PROVE  n \in Alive(t) /\ t.node[n].parent \in Alive(t) /\ Under(t.node[n].parent, n) /\ n # t.head
  <2>1. n \in Alive(t)
    BY <1>p, FreeFields DEF Alive
  <2>2. n # t.head
    BY <1>p, <2>1, PatriciaAssumption DEF Linked, Alive, Object
  <2> QED BY <2>1, <2>2 DEF Linked
<1>2. ASSUME NEW n \in Node, n \notin base
      PROVE  /\ t.node[n].parent \in Node /\ m[t.node[n].parent] < m[n]
             /\ n \in I => t.node[n].parent \in I
  <2>1. PICK q \in Alive(t) : q = t.node[n].parent /\ Under(q, n) /\ t.node[q].bit >= d /\ q \in Node
    BY <1>2, <1>p DEF Alive
  <2>2. m[q] < m[n]
    BY <2>1, <1>0 DEF Under
  <2>3. n \in I => q \in I
    <3>1. SUFFICES ASSUME n \in I  PROVE Under(q, s) /\ Len(q) >= d
      OBVIOUS
    <3>2. Len(q) >= d
      BY <2>1 DEF Linked
    <3>3. s \in Node
      BY DEF Alive
    <3> QED BY <2>1, <3>1, <3>2, <3>3, UnderTransitive
  <2> QED BY <2>1, <2>2, <2>3
<1>3. nxt \in [Node -> Node]
  BY <1>2
<1>4. /\ \A n \in Node : n \notin base => m[nxt[n]] < m[n]
      /\ \A n \in I : n \notin base => nxt[n] \in I
      /\ I \in SUBSET Node
  BY <1>2 DEF Alive
<1>w. Way(Node, m, base, nxt) /\ Closed(I, Node, base, nxt)
  <2> HIDE DEF m, base, nxt, I
  <2> QED BY <1>1, <1>3, <1>4 DEF Way, Closed
<1>5. \A f : F(f) = [n \in Node |-> IF n \in base THEN n ELSE f[nxt[n]]]
  OBVIOUS
<1>6. \E f : f = F(f)
  <2> HIDE DEF m, base, nxt, I, F
  <2>1. PICK f \in [Node -> Node] : Follower(f, Node, base, nxt)
    BY <1>w, FollowExists
  <2>2. f = [n \in Node |-> IF n \in base THEN n ELSE f[nxt[n]]]
    BY <2>1 DEF Follower
  <2> QED BY <2>2, <1>5
<1>7. up = F(up)
  <2> HIDE DEF F
  <2> QED BY <1>6
<1>8. Follower(up, Node, base, nxt)
  <2> HIDE DEF F, base, nxt, up
  <2> QED BY <1>5, <1>7 DEF Follower
<1>9. \A n \in I : up[n] \in I /\ up[n] \in base
  <2> HIDE DEF m, base, nxt, I, up
  <2> QED BY <1>w, <1>8, FollowEnds
<1>10. Climb(t, s, d) = up[s]
  BY DEF Climb
<1>11. PICK n : n = Climb(t, s, d) /\ n \in I /\ n \in base
  <2>1. s \in I
    <3> HIDE DEF F, base, nxt, m, up
    <3> QED OBVIOUS
  <2> HIDE DEF up
  <2> QED BY <1>9, <1>10, <2>1
<1>12. ASSUME t.node[n].parent # Nil
       PROVE  /\ t.node[n].parent \in Alive(t) /\ Under(t.node[n].parent, n) /\ n # t.head
              /\ Len(t.node[n].parent) < d
  <2>1. n \in Node
    BY <1>11
  <2>2. PICK q \in Alive(t) : q = t.node[n].parent /\ Under(q, n) /\ n # t.head /\ q \in Node
    BY <1>12, <1>p, <2>1 DEF Alive
  <2>3. ~(t.node[q].bit >= d) /\ t.node[q].bit = Len(q) /\ Len(q) \in Nat
    BY <1>11, <1>12, <2>2, <1>0 DEF Linked
  <2> QED BY <2>2, <2>3
<1> QED BY <1>11, <1>12

(***************************************************************************)
(* Where patricia_lookup puts a prefix.                                    *)
(***************************************************************************)

LEMMA SameShape ==
  ASSUME NEW t, NEW u, PrefixesOnly(t, u)
  PROVE  /\ Alive(u) = Alive(t) /\ (Linked(t) => Linked(u)) /\ (Needed(t) => Needed(u))
<1>1. u.node = t.node /\ u.head = t.head
  BY DEF PrefixesOnly
<1>2. Alive(u) = Alive(t) /\ \A n, s : Kid(u, n, s) = Kid(t, n, s)
  BY <1>1 DEF Alive, Kid
<1>3. Linked(t) => Linked(u)
  <2>1. SUFFICES ASSUME Linked(t)  PROVE Linked(u)
    OBVIOUS
  <2> QED BY <2>1, <1>1, <1>2 DEF Linked
<1>4. Needed(t) => Needed(u)
  BY <1>1, <1>2 DEF Needed
<1> QED BY <1>2, <1>3, <1>4

\* The bits of the prefix at s are those of s.
Carries(t, s) == /\ t.node[s].prefix # Nil
                 /\ \A i \in 1 .. Len(s) : PrefixOf(t, s).add[i] = s[i]

LEMMA DifferFacts ==
  ASSUME NEW t \in TreeOf, Linked(t), NEW p, p.bitlen \in 0 .. maxbits,
         NEW s \in Alive(t), Carries(t, s)
  PROVE  LET d == DifferBit(t, p, s)
         IN  /\ d \in Nat /\ d <= p.bitlen /\ d <= Len(s)
             /\ \A i \in 1 .. d : p.add[i] = s[i]
             /\ d < p.bitlen /\ d < Len(s) => p.add[d + 1] # s[d + 1]
<1> DEFINE cb == IF t.node[s].bit < p.bitlen THEN t.node[s].bit ELSE p.bitlen
           q == PrefixOf(t, s)
           D == {b \in 0 .. cb - 1 : Bit(p, b) # Bit(q, b)}
           d == DifferBit(t, p, s)
<1>0. /\ s \in Node /\ Len(s) \in Nat /\ t.node[s].bit = Len(s) /\ p.bitlen \in Nat
  BY NodeFacts, PatriciaAssumption DEF Alive, Linked
<1>1. cb \in Nat /\ cb <= p.bitlen /\ cb <= Len(s) /\ (cb = p.bitlen \/ cb = Len(s))
  BY <1>0
<1>2. d = IF D = {} THEN cb ELSE CHOOSE b \in D : \A c \in D : b <= c
  BY DEF DifferBit
<1>3. \A b \in 0 .. cb - 1 : b \in D <=> p.add[b + 1] # s[b + 1]
  <2> SUFFICES ASSUME NEW b \in 0 .. cb - 1  PROVE b \in D <=> p.add[b + 1] # s[b + 1]
    OBVIOUS
  <2>1. b + 1 \in 1 .. Len(s)
    BY <1>0, <1>1
  <2>2. q.add[b + 1] = s[b + 1]
    BY <2>1 DEF Carries
  <2> QED BY <2>2 DEF Bit
<1>4. D \subseteq 0 .. cb - 1
  OBVIOUS
<1> HIDE DEF cb, D, d
<1>5. CASE D = {}
  <2>1. d = cb
    BY <1>2, <1>5
  <2>2. ASSUME NEW i \in 1 .. d  PROVE p.add[i] = s[i]
    <3>1. i - 1 \in 0 .. cb - 1 /\ (i - 1) + 1 = i
      BY <2>1, <1>1
    <3> QED BY <3>1, <1>3, <1>5
  <2>3. ~(d < p.bitlen /\ d < Len(s))
    BY <2>1, <1>0, <1>1
  <2> QED BY <2>1, <2>2, <2>3, <1>1 DEF d
<1>6. CASE D # {}
  <2>1. D \in SUBSET Nat
    BY <1>1, <1>4
  <2>2. \E b \in D : \A c \in D : b <= c
    BY <2>1, <1>6, LeastExists
  <2>3. d \in D /\ \A c \in D : d <= c
    BY <2>2, <1>2, <1>6
  <2>4. d \in 0 .. cb - 1 /\ p.add[d + 1] # s[d + 1]
    BY <2>3, <1>3, <1>4
  <2>5. d \in Nat /\ d <= p.bitlen /\ d <= Len(s)
    BY <2>4, <1>0, <1>1
  <2>6. ASSUME NEW i \in 1 .. d  PROVE p.add[i] = s[i]
    <3>1. i - 1 \in 0 .. cb - 1 /\ (i - 1) + 1 = i /\ ~(d <= i - 1)
      BY <2>4, <1>1
    <3> QED BY <3>1, <2>3, <1>3
  <2> QED BY <2>4, <2>5, <2>6 DEF d
<1> QED BY <1>5, <1>6

\* What is known of the node that the search and the way back have led to.
Place(t, p, s, d, n) ==
  /\ d \in Nat /\ d <= p.bitlen /\ n \in Alive(t) /\ s \in Alive(t) /\ (n = s \/ Under(n, s))
  /\ d <= Len(n) /\ \A i \in 1 .. d : n[i] = p.add[i]
  /\ d < p.bitlen /\ d < Len(s) => p.add[d + 1] # s[d + 1]
  /\ t.node[n].parent # Nil =>
       /\ t.node[n].parent \in Alive(t) /\ Under(t.node[n].parent, n)
       /\ Len(t.node[n].parent) < d /\ n # t.head

LEMMA PlaceFound ==
  ASSUME NEW t \in TreeOf, Linked(t), NEW p, p.add \in Bits, p.bitlen \in 0 .. maxbits,
         NEW s \in Alive(t), Carries(t, s)
  PROVE  Place(t, p, s, DifferBit(t, p, s), Climb(t, s, DifferBit(t, p, s)))
<1>1. PICK d \in Nat : /\ d = DifferBit(t, p, s) /\ d <= p.bitlen /\ d <= Len(s)
                       /\ \A i \in 1 .. d : p.add[i] = s[i]
                       /\ d < p.bitlen /\ d < Len(s) => p.add[d + 1] # s[d + 1]
  BY DifferFacts
<1>2. PICK n \in Alive(t) :
        /\ n = Climb(t, s, d) /\ (n = s \/ (Under(n, s) /\ Len(n) >= d))
        /\ t.node[n].parent # Nil =>
             /\ t.node[n].parent \in Alive(t) /\ Under(t.node[n].parent, n) /\ n # t.head
             /\ Len(t.node[n].parent) < d
  BY ClimbFound
<1>3. n \in Node /\ s \in Node /\ Len(n) \in Nat /\ Len(s) \in Nat
  BY NodeFacts DEF Alive
<1>4. d <= Len(n)
  BY <1>1, <1>2, <1>3
<1>5. ASSUME NEW i \in 1 .. d  PROVE n[i] = p.add[i]
  <2>1. i \in 1 .. Len(n)
    BY <1>3, <1>4
  <2>2. n[i] = s[i]
    BY <2>1, <1>2 DEF Under
  <2> QED BY <2>2, <1>1
<1>6. Place(t, p, s, d, n)
  BY <1>1, <1>2, <1>4, <1>5 DEF Place
<1> QED BY <1>1, <1>2, <1>6

\* The prefix has a node.
LEMMA PlaceIsNode ==
  ASSUME NEW t \in TreeOf, NEW p, p.add \in Bits, p.bitlen \in 0 .. maxbits,
         NEW s, NEW d, NEW n, Place(t, p, s, d, n), d = p.bitlen, Len(n) = p.bitlen
  PROVE  n = Address(p, p.bitlen)
<1>1. /\ Address(p, p.bitlen) \in Node /\ Len(Address(p, p.bitlen)) = p.bitlen
      /\ \A i \in 1 .. p.bitlen : Address(p, p.bitlen)[i] = p.add[i]
  BY AddressFacts
<1>2. n \in Node /\ \A i \in 1 .. p.bitlen : n[i] = p.add[i]
  BY DEF Place, Alive
<1> QED BY <1>1, <1>2, NodeEqual

\* It belongs below a node that has no child on that side.
LEMMA PlaceBelow ==
  ASSUME NEW t \in TreeOf, Linked(t), NEW p, p.add \in Bits, p.bitlen \in 0 .. maxbits,
         NEW s, NEW d, NEW n, Place(t, p, s, d, n), Reached(t, p, s), Halts(t, p, s),
         Len(n) = d, d < p.bitlen
  PROVE  LET a == Address(p, p.bitlen)
         IN  /\ a \in Node /\ a \notin Alive(t) /\ Under(n, a) /\ Ahead(t, p, n) = Nil
             /\ Len(n) < maxbits /\ Side(n, a) = p.add[Len(n) + 1] /\ Kid(t, n, Side(n, a)) = Nil
<1>0. /\ n \in Alive(t) /\ s \in Alive(t) /\ n \in Node /\ s \in Node /\ Len(n) \in Nat /\ Len(s) \in Nat
      /\ maxbits \in Nat /\ p.bitlen \in Nat /\ p.bitlen <= maxbits
  BY NodeFacts, PatriciaAssumption DEF Place, Alive
<1>1. n = s
  <2>1. SUFFICES ASSUME Under(n, s)  PROVE FALSE
    BY DEF Place
  <2>2. d < Len(s)
    BY <2>1 DEF Under
  <2>3. p.add[d + 1] # s[d + 1]
    BY <2>2 DEF Place
  <2>4. s[Len(n) + 1] = p.add[Len(n) + 1]
    BY <2>1, <1>0 DEF Reached
  <2> QED BY <2>3, <2>4
<1>2. Ahead(t, p, n) = Nil
  <2>1. t.node[s].bit = Len(s)
    BY <1>0 DEF Linked
  <2>2. ~(t.node[s].bit >= p.bitlen)
    BY <2>1, <1>0, <1>1
  <2> QED BY <2>2, <1>1 DEF Halts
<1>3. PICK a \in Node : /\ a = Address(p, p.bitlen) /\ Len(a) = p.bitlen
                        /\ \A i \in 1 .. p.bitlen : a[i] = p.add[i]
  BY AddressFacts
<1>4. Under(n, a)
  <2>1. Len(n) < Len(a)
    BY <1>3
  <2>2. ASSUME NEW i \in 1 .. Len(n)  PROVE a[i] = n[i]
    <3>1. i \in 1 .. p.bitlen /\ i \in 1 .. d
      BY <1>0
    <3> QED BY <3>1, <1>3 DEF Place
  <2> QED BY <2>1, <2>2 DEF Under
<1>5. Len(n) < maxbits /\ Side(n, a) = p.add[Len(n) + 1]
  <2>1. Len(n) + 1 \in 1 .. p.bitlen
    BY <1>0
  <2> QED BY <2>1, <1>0, <1>3 DEF Side
<1>6. Kid(t, n, Side(n, a)) = Nil
  BY <1>0, <1>2, <1>5, AheadFacts
<1>7. a \notin Alive(t)
  <2>1. SUFFICES ASSUME a \in Alive(t)  PROVE FALSE
    OBVIOUS
  <2>2. Kid(t, n, a[Len(n) + 1]) \in Alive(t)
    BY <2>1, <1>0, <1>4, WayDown
  <2> QED BY <2>2, <1>6, PatriciaAssumption DEF Side, Alive, Object
<1> QED BY <1>2, <1>3, <1>4, <1>5, <1>6, <1>7

\* The first d bits of p lie between the node and its parent, and are no node.
LEMMA PlaceBetween ==
  ASSUME NEW t \in TreeOf, Linked(t), NEW p, p.add \in Bits, p.bitlen \in 0 .. maxbits,
         NEW s, NEW d, NEW n, Place(t, p, s, d, n), d < Len(n)
  PROVE  LET g == Address(p, d)
         IN  /\ g \in Node /\ Len(g) = d /\ g \notin Alive(t) /\ Under(g, n)
             /\ t.node[n].parent # Nil => Under(t.node[n].parent, g)
<1>0. /\ n \in Alive(t) /\ n \in Node /\ Len(n) \in Nat /\ d \in 0 .. maxbits /\ d \in Nat
      /\ d <= p.bitlen
  BY NodeFacts, PatriciaAssumption DEF Place, Alive
<1>1. PICK g \in Node : g = Address(p, d) /\ Len(g) = d /\ \A i \in 1 .. d : g[i] = p.add[i]
  BY <1>0, AddressFacts
<1>2. Under(g, n)
  BY <1>1 DEF Place, Under
<1>3. ASSUME t.node[n].parent # Nil
      PROVE  t.node[n].parent \in Alive(t) /\ Under(t.node[n].parent, g) /\ n # t.head
             /\ Under(t.node[n].parent, n)
  <2>1. PICK q \in Alive(t) : q = t.node[n].parent /\ Under(q, n) /\ Len(q) < d /\ q \in Node /\ n # t.head
    BY <1>3 DEF Place, Alive
  <2>2. q = g \/ Under(q, g) \/ Under(g, q)
    BY <1>0, <1>2, <2>1, Comparable
  <2>3. Len(q) \in Nat /\ Len(q) < Len(g)
    BY <2>1, <1>1, NodeFacts
  <2>4. q # g /\ ~Under(g, q)
    BY <2>3, <1>0, <1>1 DEF Under
  <2> QED BY <2>1, <2>2, <2>4
<1>4. g \notin Alive(t)
  <2>1. SUFFICES ASSUME g \in Alive(t)  PROVE FALSE
    OBVIOUS
  <2>2. CASE t.node[n].parent = Nil
    <3>1. n = t.head
      BY <2>2, <1>0, PatriciaAssumption DEF Linked, Alive, Object
    <3>2. g = n \/ Under(n, g)
      BY <2>1, <3>1, HeadOnTop
    <3> QED BY <3>2, <1>0, <1>2, UnderOrder
  <2>3. CASE t.node[n].parent # Nil
    BY <2>1, <2>3, <1>0, <1>2, <1>3, NothingBetween
  <2> QED BY <2>2, <2>3
<1> QED BY <1>1, <1>2, <1>3, <1>4

\* It belongs beside the node.
LEMMA PlaceBeside ==
  ASSUME NEW t \in TreeOf, Linked(t), NEW p, p.add \in Bits, p.bitlen \in 0 .. maxbits,
         NEW s, NEW d, NEW n, Place(t, p, s, d, n), d < Len(n), d < p.bitlen
  PROVE  LET a == Address(p, p.bitlen)
             g == Address(p, d)
         IN  /\ a \in Node /\ Len(a) = p.bitlen /\ a \notin Alive(t) /\ a # g
             /\ Under(g, a) /\ Side(g, a) = p.add[d + 1] /\ Side(g, n) # Side(g, a)
             /\ Side(g, a) \in {0, 1} /\ Side(g, n) \in {0, 1}
<1>0. /\ n \in Alive(t) /\ s \in Alive(t) /\ n \in Node /\ s \in Node /\ Len(n) \in Nat /\ Len(s) \in Nat
      /\ d \in Nat /\ p.bitlen \in Nat
  BY NodeFacts, PatriciaAssumption DEF Place, Alive
<1>1. PICK a \in Node : /\ a = Address(p, p.bitlen) /\ Len(a) = p.bitlen
                        /\ \A i \in 1 .. p.bitlen : a[i] = p.add[i]
  BY AddressFacts
<1>2. PICK g \in Node : /\ g = Address(p, d) /\ Len(g) = d /\ Under(g, n)
                        /\ t.node[n].parent # Nil => Under(t.node[n].parent, g)
  BY PlaceBetween
<1>3. \A i \in 1 .. d : g[i] = p.add[i]
  BY <1>2, <1>0 DEF Address
<1>4. Under(g, a)
  <2>1. \A i \in 1 .. d : i \in 1 .. p.bitlen
    BY <1>0
  <2> QED BY <2>1, <1>1, <1>2, <1>3 DEF Under
<1>5. d + 1 \in 1 .. p.bitlen /\ d + 1 \in 1 .. Len(n) /\ d < Len(s)
  BY <1>0 DEF Place, Under
<1>6. n[d + 1] = s[d + 1] /\ p.add[d + 1] # s[d + 1] /\ a[d + 1] = p.add[d + 1]
  BY <1>1, <1>5 DEF Place, Under
<1>7. Side(g, a) = p.add[d + 1] /\ Side(g, n) # Side(g, a) /\ Side(g, a) \in {0, 1} /\ Side(g, n) \in {0, 1}
  BY <1>2, <1>4, <1>6, <1>0, UnderOrder DEF Side
<1>8. a \notin Alive(t)
  <2>1. SUFFICES ASSUME a \in Alive(t)  PROVE FALSE
    OBVIOUS
  <2>2. ~(a = n \/ Under(n, a))
    BY <1>5, <1>6 DEF Under
  <2>3. CASE t.node[n].parent = Nil
    <3>1. n = t.head
      BY <2>3, <1>0, PatriciaAssumption DEF Linked, Alive, Object
    <3> QED BY <3>1, <2>1, <2>2, HeadOnTop
  <2>4. CASE t.node[n].parent # Nil
    <3>1. PICK q \in Alive(t) : q = t.node[n].parent /\ q \in Node /\ Under(q, g) /\ Under(q, n) /\ n # t.head
      BY <2>4, <1>2 DEF Place, Alive
    <3>2. Under(q, a) /\ a[Len(q) + 1] = g[Len(q) + 1] /\ n[Len(q) + 1] = g[Len(q) + 1]
      BY <3>1, <1>0, <1>2, <1>4, UnderTransitive
    <3>3. Kid(t, q, n[Len(q) + 1]) = n
      BY <3>1, <1>0 DEF Linked
    <3>4. n = a \/ Under(n, a)
      BY <3>1, <3>2, <3>3, <2>1, WayDown
    <3> QED BY <3>4, <2>2
  <2> QED BY <2>3, <2>4
<1>9. a # g
  BY <1>4, UnderOrder
<1> QED BY <1>1, <1>2, <1>4, <1>7, <1>8, <1>9

(***************************************************************************)
(* patricia_lookup.                                                        *)
(***************************************************************************)

\* Node a, with prefix o, has been added, and perhaps a node without prefix.
Grown(t, u, a, o) ==
  /\ u \in TreeOf /\ u.broken = t.broken /\ u.prefix = t.prefix /\ Linked(u) /\ Needed(u) /\ Counted(u)
  /\ a \in Alive(u) /\ u.node[a].prefix = o /\ Alive(t) \subseteq Alive(u)
  /\ \A m \in Alive(u) : m # a =>
       u.node[m].prefix = IF m \in Alive(t) THEN t.node[m].prefix ELSE Nil

LEMMA FreshNodeAt ==
  ASSUME NEW t, NEW p, NEW n, Address(p, n) \in Node, Address(p, n) \notin Alive(t)
  PROVE  FreshNode(t, p, n) = Address(p, n)
<1>1. Address(p, n) \in {m \in Node : t.node[m] = Free}
  BY DEF Alive
<1> QED BY <1>1 DEF FreshNode, Calloc

LEMMA KidsOf ==
  ASSUME NEW u \in TreeOf, NEW n \in Node
  PROVE  Kid(u, n, 0) = u.node[n].l /\ Kid(u, n, 1) = u.node[n].r
BY DEF Kid

LEMMA WithKidFields ==
  ASSUME NEW x \in NodeOf, NEW s, NEW c
  PROVE  LET y == WithKid(x, s, c)
         IN  /\ y.bit = x.bit /\ y.prefix = x.prefix /\ y.parent = x.parent
             /\ y.l = (IF s = 1 THEN x.l ELSE c) /\ y.r = (IF s = 1 THEN c ELSE x.r)
BY DEF WithKid, NodeOf

LEMMA CountOneMore ==
  ASSUME NEW t \in TreeOf, NEW u \in TreeOf, Counted(t), NEW x, x \notin Alive(t),
         Alive(u) = Alive(t) \cup {x}, u.num_active_node = t.num_active_node + 1
  PROVE  Counted(u)
BY FS_AddElement DEF Counted

LEMMA CountOneLess ==
  ASSUME NEW t \in TreeOf, NEW u \in TreeOf, Counted(t), NEW x \in Alive(t),
         Alive(u) = Alive(t) \ {x}, u.num_active_node = t.num_active_node - 1
  PROVE  Counted(u)
BY FS_RemoveElement DEF Counted

\* The first node.
LEMMA HeadAdded ==
  ASSUME NEW t \in TreeOf, Linked(t), Counted(t), t.head = Nil,
         NEW p, p.add \in Bits, p.bitlen \in 0 .. maxbits, NEW o \in Object
  PROVE  LET a == FreshNode(t, p, p.bitlen)
         IN  Grown(t, [NewNode(t, a, p.bitlen, o, Nil) EXCEPT !.head = a], Address(p, p.bitlen), o)
<1>0. Alive(t) = {} /\ Nil \notin Object /\ Nil \notin Node
  <2>1. Nil \notin Object /\ Nil \notin Node
    BY PatriciaAssumption DEF Object
  <2>2. ASSUME NEW n \in Alive(t)  PROVE FALSE
    <3>1. t.head \in Alive(t)
      BY HeadOnTop
    <3> QED BY <3>1, <2>1 DEF Alive
  <2> QED BY <2>1, <2>2
<1>1. PICK a \in Node : a = Address(p, p.bitlen) /\ a = FreshNode(t, p, p.bitlen) /\ Len(a) = p.bitlen
  BY <1>0, AddressFacts, FreshNodeAt
<1> DEFINE x == [bit |-> p.bitlen, prefix |-> o, l |-> Nil, r |-> Nil, parent |-> Nil]
           v == NewNode(t, a, p.bitlen, o, Nil)
           u == [v EXCEPT !.head = a]
<1>2. /\ v \in TreeOf /\ v.broken = t.broken /\ v.prefix = t.prefix
      /\ v.num_active_node = t.num_active_node + 1 /\ v.node = At(t.node, a, x)
  BY NewNodeFields
<1>3. /\ u \in TreeOf /\ u.broken = t.broken /\ u.prefix = t.prefix /\ u.head = a
      /\ u.num_active_node = t.num_active_node + 1 /\ u.node = At(t.node, a, x)
  <2> HIDE DEF v, x
  <2> QED BY <1>2 DEF TreeOf
<1> HIDE DEF u, v
<1>4. u.node[a] = x /\ \A m \in Node \ {a} : u.node[m] = t.node[m]
  <2> HIDE DEF x
  <2> QED BY <1>3, TreeFields DEF At
<1>5. /\ u.node[a].bit = Len(a) /\ u.node[a].prefix = o /\ u.node[a].parent = Nil
      /\ \A z \in {0, 1} : Kid(u, a, z) = Nil
  BY <1>1, <1>4 DEF Kid
<1>6. Alive(u) = {a}
  <2>1. a \in Alive(u)
    BY <1>5, AliveBit
  <2>2. \A m \in Node \ {a} : m \notin Alive(u)
    BY <1>0, <1>4 DEF Alive
  <2> QED BY <2>1, <2>2 DEF Alive
<1>7. Linked(u)
  BY <1>3, <1>5, <1>6 DEF Linked
<1>8. Needed(u)
  BY <1>0, <1>5, <1>6 DEF Needed
<1>9. Counted(u)
  BY <1>0, <1>3, <1>6, CountOneMore
<1>10. Grown(t, u, a, o)
  BY <1>0, <1>3, <1>5, <1>6, <1>7, <1>8, <1>9 DEF Grown
<1> QED BY <1>1, <1>10 DEF u, v

LEMMA ChildAdded ==
  ASSUME NEW t \in TreeOf, Linked(t), Needed(t), Counted(t), NEW p, p.add \in Bits, p.bitlen \in 0 .. maxbits,
         NEW o \in Object, NEW n \in Alive(t), NEW a, a = Address(p, p.bitlen),
         a \in Node, a \notin Alive(t), Under(n, a), Ahead(t, p, n) = Nil,
         Len(n) < maxbits, Side(n, a) = p.add[Len(n) + 1], Kid(t, n, Side(n, a)) = Nil
  PROVE  Grown(t, AddChild(t, o, p, n), a, o)
<1>0. n \in Node /\ a = FreshNode(t, p, p.bitlen) /\ Len(a) = p.bitlen /\ Nil \notin Object /\ n # a
  BY AddressFacts, FreshNodeAt, PatriciaAssumption DEF Alive
<1>s. PICK s \in {0, 1} : s = Side(n, a)
  BY <1>0, UnderOrder DEF Side
<1> DEFINE x == [bit |-> p.bitlen, prefix |-> o, l |-> Nil, r |-> Nil, parent |-> n]
           v == NewNode(t, a, p.bitlen, o, n)
           u == AddChild(t, o, p, n)
<1>1. /\ v \in TreeOf /\ v.broken = t.broken /\ v.prefix = t.prefix /\ v.head = t.head
      /\ v.num_active_node = t.num_active_node + 1 /\ v.node = At(t.node, a, x)
  BY <1>0, NewNodeFields
<1>2. u = SetKid(v, n, s, a)
  <2>1. t.node[n].bit = Len(n)
    BY DEF Linked
  <2>2. Right(n, t, p) <=> s = 1
    BY <2>1, <1>s DEF Right, Bit
  <2>3. Asserting(v, Child(t, n, Right(n, t, p)) = Nil) = v
    <3>1. Asserting(v, Child(t, n, Right(n, t, p)) = Nil) = [v EXCEPT !.broken = v.broken \/ ~(Ahead(t, p, n) = Nil)]
      BY DEF Asserting, Ahead
    <3>2. (v.broken \/ ~(Ahead(t, p, n) = Nil)) = v.broken
      BY <1>1, TreeFields
    <3>3. [v EXCEPT !.broken = v.broken] = v
      <4> HIDE DEF v
      <4> QED BY <1>1 DEF TreeOf
    <3> HIDE DEF v
    <3> QED BY <3>1, <3>2, <3>3
  <2>4. u = SetChild(Asserting(v, Child(t, n, Right(n, t, p)) = Nil), n, Right(n, t, p), a)
    BY <1>0 DEF AddChild
  <2>5. u = SetChild(v, n, Right(n, t, p), a)
    <3> HIDE DEF v, u
    <3> QED BY <2>3, <2>4
  <2> HIDE DEF v, u
  <2> QED BY <2>2, <2>5 DEF SetChild, SetKid, WithKid
<1> HIDE DEF v
<1>3. v.node[a] = x /\ \A m \in Node \ {a} : v.node[m] = t.node[m]
  <2> HIDE DEF x
  <2> QED BY <1>1, TreeFields DEF At
<1>4. /\ u \in TreeOf /\ u.broken = t.broken /\ u.prefix = t.prefix /\ u.head = t.head
      /\ u.num_active_node = t.num_active_node + 1
      /\ u.node = At(v.node, n, WithKid(v.node[n], s, a))
  <2> HIDE DEF u, x
  <2>1. LET w == SetKid(v, n, s, a)
        IN  /\ w \in TreeOf /\ w.broken = v.broken /\ w.prefix = v.prefix /\ w.head = v.head
            /\ w.num_active_node = v.num_active_node
            /\ w.node = At(v.node, n, WithKid(v.node[n], s, a))
    <3>1. v \in TreeOf /\ n \in Node /\ a \in Node \cup {Nil}
      BY <1>0, <1>1
    <3> QED BY <3>1, SetKidFields
  <2> QED BY <1>1, <1>2, <2>1
<1> HIDE DEF u
<1>5. /\ u.node[a] = x /\ u.node[n] = WithKid(t.node[n], s, a)
      /\ \A m \in Node \ {a, n} : u.node[m] = t.node[m]
  <2> HIDE DEF x
  <2> QED BY <1>0, <1>1, <1>3, <1>4, TreeFields DEF At
<1>6. /\ u.node[a].bit = Len(a) /\ u.node[a].prefix = o /\ u.node[a].parent = n
      /\ \A z \in {0, 1} : Kid(u, a, z) = Nil
  BY <1>0, <1>5 DEF Kid
<1>7. Kept(t, u, n) /\ u.node[n].parent = t.node[n].parent /\ OneKid(t, u, n, s, a)
  <2>1. t.node[n] \in NodeOf
    BY <1>0, TreeFields
  <2>2. /\ u.node[n].bit = t.node[n].bit /\ u.node[n].prefix = t.node[n].prefix
        /\ u.node[n].parent = t.node[n].parent
        /\ u.node[n].l = (IF s = 1 THEN t.node[n].l ELSE a)
        /\ u.node[n].r = (IF s = 1 THEN a ELSE t.node[n].r)
    BY <1>5, <2>1, WithKidFields
  <2> QED BY <2>2 DEF Kept, OneKid, Kid
<1>8. LeafAdded(t, u, n, a)
  BY <1>4, <1>5, <1>6, <1>7, <1>s DEF LeafAdded
<1>9. Linked(u) /\ Alive(u) = Alive(t) \cup {a}
  BY <1>4, <1>8, LeafAddedLinked
<1>10. \A m \in Alive(t) : u.node[m].prefix = t.node[m].prefix
  BY <1>5, <1>7 DEF Kept, Alive
<1>11. Needed(u)
  <2> SUFFICES ASSUME NEW m \in Alive(u), u.node[m].prefix = Nil, NEW z \in {0, 1}  PROVE Kid(u, m, z) # Nil
    BY DEF Needed
  <2>1. m # a /\ m \in Alive(t) /\ t.node[m].prefix = Nil /\ m \in Node
    BY <1>0, <1>6, <1>9, <1>10 DEF Alive
  <2>2. m # n
    BY <2>1, <1>s DEF Needed
  <2>3. Kid(u, m, z) = Kid(t, m, z)
    BY <2>1, <2>2, <1>5 DEF Kid
  <2> QED BY <2>1, <2>3 DEF Needed
<1>12. Counted(u)
  BY <1>4, <1>9, CountOneMore
<1>13. Grown(t, u, a, o)
  BY <1>4, <1>6, <1>9, <1>10, <1>11, <1>12 DEF Grown
<1> QED BY <1>13 DEF u

LEMMA ParentFields ==
  ASSUME NEW t \in TreeOf, Linked(t), NEW n \in Alive(t)
  PROVE  LET q == t.node[n].parent
         IN  /\ n \in Node /\ n # Nil /\ q \in Node \cup {Nil} /\ (q = Nil <=> n = t.head)
             /\ q # Nil => /\ q \in Alive(t) /\ q \in Node /\ q # n /\ Under(q, n)
                           /\ Side(q, n) \in {0, 1} /\ Kid(t, q, Side(q, n)) = n
                           /\ (t.node[q].r = n <=> Side(q, n) = 1)
<1> DEFINE q == t.node[n].parent
<1>0. n \in Node /\ n # Nil /\ Nil \notin Node /\ \A m \in Alive(t) : m \in Node
  BY PatriciaAssumption DEF Alive, Object
<1>1. q \in Node \cup {Nil}
  BY <1>0, TreeFields
<1>2. n = t.head => q = Nil
  BY <1>0 DEF Linked
<1>3. ASSUME n # t.head
      PROVE  /\ q \in Alive(t) /\ q \in Node /\ q # Nil /\ q # n /\ Under(q, n)
             /\ Side(q, n) \in {0, 1} /\ Kid(t, q, Side(q, n)) = n
             /\ (t.node[q].r = n <=> Side(q, n) = 1)
  <2>1. q \in Alive(t) /\ Under(q, n) /\ Kid(t, q, Side(q, n)) = n
    BY <1>3 DEF Linked, Side
  <2>2. q \in Node /\ q # Nil
    BY <1>0, <2>1
  <2>3. q # n /\ Side(q, n) \in {0, 1}
    BY <1>0, <2>1, <2>2, UnderOrder DEF Side
  <2>4. Kid(t, q, 1) # Nil => Kid(t, q, 1)[Len(q) + 1] = 1
    BY <2>1 DEF Linked
  <2>5. t.node[q].r = n <=> Side(q, n) = 1
    BY <1>0, <2>1, <2>4 DEF Kid, Side
  <2> QED BY <2>1, <2>2, <2>3, <2>5
<1> QED BY <1>0, <1>1, <1>2, <1>3

\* A new node x, with bit b and prefix o, takes the place of a child of q on side s.
TakesPlace(t, u, x, b, o, q, s) ==
  /\ u \in TreeOf /\ u.broken = t.broken /\ u.prefix = t.prefix
  /\ u.num_active_node = t.num_active_node + 1
  /\ u.head = IF q = Nil THEN x ELSE t.head
  /\ \A m \in Node \ {x, q} : u.node[m] = t.node[m]
  /\ u.node[x] = [bit |-> b, prefix |-> o, l |-> Nil, r |-> Nil, parent |-> q]
  /\ q # Nil => u.node[q] = WithKid(t.node[q], s, x)

LEMMA PlaceTaken ==
  ASSUME NEW t \in TreeOf, NEW n \in Node, NEW x \in Node, n # x,
         NEW q \in Node \cup {Nil}, q = t.node[n].parent, q = Nil => t.head = n, q # n, q # x,
         NEW s, q # Nil => (t.node[q].r = n <=> s = 1),
         NEW b \in 0 .. maxbits, NEW o \in Object \cup {Nil}
  PROVE  TakesPlace(t, Replace(NewNode(t, x, b, o, q), n, x), x, b, o, q, s)
<1> DEFINE y == [bit |-> b, prefix |-> o, l |-> Nil, r |-> Nil, parent |-> q]
           v == NewNode(t, x, b, o, q)
           u == Replace(v, n, x)
<1>1. /\ v \in TreeOf /\ v.broken = t.broken /\ v.prefix = t.prefix /\ v.head = t.head
      /\ v.num_active_node = t.num_active_node + 1 /\ v.node = At(t.node, x, y)
  BY NewNodeFields
<1> HIDE DEF v
<1>2. v.node[x] = y /\ \A m \in Node \ {x} : v.node[m] = t.node[m]
  <2> HIDE DEF y
  <2> QED BY <1>1, TreeFields DEF At
<1> HIDE DEF y
<1>3. v.node[n].parent = q
  BY <1>2
<1>4. /\ u \in TreeOf /\ u.broken = v.broken /\ u.prefix = v.prefix
      /\ u.num_active_node = v.num_active_node
      /\ u.head = IF q = Nil THEN x ELSE v.head
      /\ u.node = IF q = Nil THEN v.node
                  ELSE At(v.node, q, WithKid(v.node[q], IF v.node[q].r = n THEN 1 ELSE 0, x))
  <2>1. v.node[n].parent = Nil => v.head = n
    BY <1>1, <1>3
  <2> QED BY <1>1, <1>3, <2>1, ReplaceFields
<1> HIDE DEF u
<1>5. ASSUME q # Nil
      PROVE  /\ \A m \in Node \ {x, q} : u.node[m] = t.node[m]
             /\ u.node[x] = y /\ u.node[q] = WithKid(t.node[q], s, x)
  <2>1. q \in Node /\ v.node[q] = t.node[q]
    BY <1>2, <1>5
  <2>2. WithKid(v.node[q], IF v.node[q].r = n THEN 1 ELSE 0, x) = WithKid(t.node[q], s, x)
    BY <2>1, <1>5 DEF WithKid
  <2>3. v.node \in [Node -> NodeOf]
    BY <1>1, TreeFields
  <2>4. u.node = At(v.node, q, WithKid(t.node[q], s, x))
    BY <1>4, <1>5, <2>2
  <2>5. u.node[q] = WithKid(t.node[q], s, x) /\ \A m \in Node \ {q} : u.node[m] = v.node[m]
    BY <2>1, <2>3, <2>4 DEF At
  <2> QED BY <1>2, <2>5
<1>6. /\ u \in TreeOf /\ u.broken = t.broken /\ u.prefix = t.prefix
      /\ u.num_active_node = t.num_active_node + 1
      /\ u.head = IF q = Nil THEN x ELSE t.head
      /\ \A m \in Node \ {x, q} : u.node[m] = t.node[m]
      /\ u.node[x] = y
      /\ q # Nil => u.node[q] = WithKid(t.node[q], s, x)
  BY <1>1, <1>2, <1>4, <1>5
<1> QED BY <1>6 DEF TakesPlace, u, v, y

LEMMA WithParentFields ==
  ASSUME NEW x \in NodeOf, NEW q
  PROVE  LET y == [x EXCEPT !.parent = q]
         IN  y.bit = x.bit /\ y.prefix = x.prefix /\ y.l = x.l /\ y.r = x.r /\ y.parent = q
BY DEF NodeOf

\* The tree in which the new node x lies between n, on its side s, and n's parent.
Splice(t, n, x, o, s) ==
  SetParent(SetKid(Replace(NewNode(t, x, Len(x), o, t.node[n].parent), n, x), x, s, n), n, x)

Between(t, n, x) ==
  /\ n \in Alive(t) /\ x \in Node /\ x \notin Alive(t) /\ Under(x, n)
  /\ t.node[n].parent # Nil => Under(t.node[n].parent, x)

LEMMA BetweenFacts ==
  ASSUME NEW t \in TreeOf, Linked(t), NEW n, NEW x, Between(t, n, x)
  PROVE  LET q == t.node[n].parent
         IN  /\ n \in Node /\ n # x /\ q # n /\ q # x /\ q \in Node \cup {Nil} /\ x # Nil /\ n # Nil
             /\ Len(x) \in 0 .. maxbits /\ Side(x, n) \in {0, 1}
             /\ q = Nil => t.head = n
             /\ q # Nil => q \in Alive(t) /\ Side(q, n) \in {0, 1} /\ (t.node[q].r = n <=> Side(q, n) = 1)
<1> DEFINE q == t.node[n].parent
<1>1. n \in Alive(t) /\ x \in Node /\ x \notin Alive(t) /\ Under(x, n) /\ (q # Nil => Under(q, x))
  BY DEF Between
<1>2. /\ n \in Node /\ n # Nil /\ q \in Node \cup {Nil} /\ (q = Nil <=> n = t.head)
      /\ q # Nil => /\ q \in Alive(t) /\ q \in Node /\ q # n /\ Side(q, n) \in {0, 1}
                    /\ (t.node[q].r = n <=> Side(q, n) = 1)
  BY <1>1, ParentFields
<1>3. x # Nil /\ q # n
  BY <1>1, <1>2, PatriciaAssumption DEF Object
<1>4. Len(x) \in 0 .. maxbits /\ Side(x, n) \in {0, 1}
  BY <1>1, <1>2, NodeFacts, UnderOrder DEF Side
<1> QED BY <1>1, <1>2, <1>3, <1>4

LEMMA SpliceNodes ==
  ASSUME NEW t \in TreeOf, Linked(t), NEW n, NEW x, Between(t, n, x),
         NEW o \in Object \cup {Nil}, NEW s, s = Side(x, n)
  PROVE  LET u == Splice(t, n, x, o, s)
             q == t.node[n].parent
         IN  /\ u \in TreeOf /\ u.broken = t.broken /\ u.prefix = t.prefix
             /\ u.num_active_node = t.num_active_node + 1
             /\ u.head = IF q = Nil THEN x ELSE t.head
             /\ \A m \in Node \ {n, x, q} : u.node[m] = t.node[m]
             /\ u.node[n] = [t.node[n] EXCEPT !.parent = x]
             /\ u.node[x] = WithKid([bit |-> Len(x), prefix |-> o, l |-> Nil, r |-> Nil, parent |-> q], s, n)
             /\ q # Nil => u.node[q] = WithKid(t.node[q], Side(q, n), x)
<1> DEFINE q == t.node[n].parent
           y == [bit |-> Len(x), prefix |-> o, l |-> Nil, r |-> Nil, parent |-> q]
           v == Replace(NewNode(t, x, Len(x), o, q), n, x)
           w == SetKid(v, x, s, n)
           u == SetParent(w, n, x)
<1>0. /\ n \in Node /\ n # x /\ q # n /\ q # x /\ q \in Node \cup {Nil} /\ x \in Node
      /\ Len(x) \in 0 .. maxbits /\ (q = Nil => t.head = n)
      /\ q # Nil => (t.node[q].r = n <=> Side(q, n) = 1)
  BY BetweenFacts DEF Between
<1>1. /\ v \in TreeOf /\ v.broken = t.broken /\ v.prefix = t.prefix
      /\ v.num_active_node = t.num_active_node + 1
      /\ v.head = IF q = Nil THEN x ELSE t.head
      /\ \A m \in Node \ {x, q} : v.node[m] = t.node[m]
      /\ v.node[x] = y
      /\ q # Nil => v.node[q] = WithKid(t.node[q], Side(q, n), x)
  <2>1. q = t.node[n].parent
    OBVIOUS
  <2> HIDE DEF q
  <2>2. TakesPlace(t, v, x, Len(x), o, q, Side(q, n))
    BY <1>0, <2>1, PlaceTaken
  <2> QED BY <2>2 DEF TakesPlace
<1> HIDE DEF v, y, q
<1>2. /\ w \in TreeOf /\ w.head = v.head /\ w.broken = v.broken /\ w.prefix = v.prefix
      /\ w.num_active_node = v.num_active_node
      /\ w.node = At(v.node, x, WithKid(v.node[x], s, n))
  BY <1>0, <1>1, SetKidFields
<1> HIDE DEF w
<1>3. w.node[x] = WithKid(y, s, n) /\ \A m \in Node \ {x} : w.node[m] = v.node[m]
  BY <1>0, <1>1, <1>2, TreeFields DEF At
<1>4. /\ u \in TreeOf /\ u.head = w.head /\ u.broken = w.broken /\ u.prefix = w.prefix
      /\ u.num_active_node = w.num_active_node
      /\ u.node = At(w.node, n, [w.node[n] EXCEPT !.parent = x])
  BY <1>0, <1>2, SetParentFields
<1> HIDE DEF u
<1>5. u.node[n] = [w.node[n] EXCEPT !.parent = x] /\ \A m \in Node \ {n} : u.node[m] = w.node[m]
  BY <1>0, <1>2, <1>4, TreeFields DEF At
<1>6. w.node[n] = t.node[n]
  BY <1>0, <1>1, <1>3
<1>7. /\ u \in TreeOf /\ u.broken = t.broken /\ u.prefix = t.prefix
      /\ u.num_active_node = t.num_active_node + 1
      /\ u.head = IF q = Nil THEN x ELSE t.head
      /\ \A m \in Node \ {n, x, q} : u.node[m] = t.node[m]
      /\ u.node[n] = [t.node[n] EXCEPT !.parent = x]
      /\ u.node[x] = WithKid(y, s, n)
  BY <1>0, <1>1, <1>2, <1>3, <1>4, <1>5, <1>6
<1>8. q # Nil => u.node[q] = WithKid(t.node[q], Side(q, n), x)
  BY <1>0, <1>1, <1>3, <1>5
<1> QED BY <1>7, <1>8 DEF Splice, u, w, v, y, q

\* The new node is the only change to who is whose child.
Widened(t, u, x, o) ==
  /\ u \in TreeOf /\ u.broken = t.broken /\ u.prefix = t.prefix
  /\ Linked(u) /\ Counted(u) /\ Alive(u) = Alive(t) \cup {x} /\ u.node[x].prefix = o
  /\ \A m \in Alive(t) : u.node[m].prefix = t.node[m].prefix
  /\ \A m \in Alive(t) : \A z \in {0, 1} : Kid(t, m, z) # Nil => Kid(u, m, z) # Nil

LEMMA SpliceWidens ==
  ASSUME NEW t \in TreeOf, Linked(t), Counted(t), NEW n, NEW x, Between(t, n, x),
         NEW o \in Object \cup {Nil}, NEW s, s = Side(x, n)
  PROVE  LET u == Splice(t, n, x, o, s)
         IN  Widened(t, u, x, o) /\ Kid(u, x, s) = n /\ Kid(u, x, 1 - s) = Nil
<1> DEFINE u == Splice(t, n, x, o, s)
           q == t.node[n].parent
           y == [bit |-> Len(x), prefix |-> o, l |-> Nil, r |-> Nil, parent |-> q]
<1>0. /\ n \in Node /\ n # x /\ q # n /\ q # x /\ q \in Node \cup {Nil} /\ x # Nil /\ x \in Node
      /\ Len(x) \in 0 .. maxbits /\ s \in {0, 1} /\ (q = Nil => t.head = n)
      /\ n \in Alive(t) /\ x \notin Alive(t) /\ Under(x, n) /\ (q # Nil => Under(q, x))
      /\ q # Nil => q \in Alive(t) /\ Side(q, n) \in {0, 1} 
  BY BetweenFacts DEF Between
<1>1. /\ u \in TreeOf /\ u.broken = t.broken /\ u.prefix = t.prefix
      /\ u.num_active_node = t.num_active_node + 1
      /\ u.head = IF q = Nil THEN x ELSE t.head
      /\ \A m \in Node \ {n, x, q} : u.node[m] = t.node[m]
      /\ u.node[n] = [t.node[n] EXCEPT !.parent = x]
      /\ u.node[x] = WithKid(y, s, n)
      /\ q # Nil => u.node[q] = WithKid(t.node[q], Side(q, n), x)
  BY SpliceNodes
<1> HIDE DEF u
<1>2. Kept(t, u, n) /\ u.node[n].parent = x /\ SameKids(t, u, n)
  <2>1. t.node[n] \in NodeOf
    BY <1>0, TreeFields
  <2>2. /\ u.node[n].bit = t.node[n].bit /\ u.node[n].prefix = t.node[n].prefix
        /\ u.node[n].parent = x /\ u.node[n].l = t.node[n].l /\ u.node[n].r = t.node[n].r
    BY <1>1, <2>1, WithParentFields
  <2> QED BY <2>2 DEF Kept, SameKids, Kid
<1>3. /\ u.node[x].bit = Len(x) /\ u.node[x].parent = q /\ u.node[x].prefix = o
      /\ Kid(u, x, s) = n /\ Kid(u, x, 1 - s) = Nil
  <2>1. u.node[x].r = (IF s = 1 THEN n ELSE Nil) /\ u.node[x].l = (IF s = 1 THEN Nil ELSE n)
    BY <1>1 DEF WithKid
  <2>2. u.node[x].bit = Len(x) /\ u.node[x].parent = q /\ u.node[x].prefix = o
    BY <1>1 DEF WithKid
  <2> QED BY <1>0, <2>1, <2>2 DEF Kid
<1> HIDE DEF y
<1>4. q # Nil => /\ Kept(t, u, q) /\ u.node[q].parent = t.node[q].parent
                 /\ OneKid(t, u, q, Side(q, n), x)
  <2> SUFFICES ASSUME q # Nil  PROVE /\ Kept(t, u, q) /\ u.node[q].parent = t.node[q].parent
                                     /\ OneKid(t, u, q, Side(q, n), x)
    OBVIOUS
  <2>1. t.node[q] \in NodeOf
    BY <1>0, TreeFields
  <2>s. PICK z \in {0, 1} : z = Side(q, n)
    BY <1>0
  <2>2. /\ u.node[q].bit = t.node[q].bit /\ u.node[q].prefix = t.node[q].prefix
        /\ u.node[q].parent = t.node[q].parent
        /\ u.node[q].l = (IF z = 1 THEN t.node[q].l ELSE x)
        /\ u.node[q].r = (IF z = 1 THEN x ELSE t.node[q].r)
    BY <1>1, <2>1, <2>s, WithKidFields
  <2> HIDE DEF q
  <2> QED BY <2>2, <2>s DEF Kept, OneKid, Kid
<1>5. SplicedIn(t, u, n, x)
  BY <1>1, <1>2, <1>3, <1>4 DEF SplicedIn
<1>6. Linked(u) /\ Alive(u) = Alive(t) \cup {x}
  BY <1>0, <1>1, <1>5, SplicedInLinked
<1>7. Counted(u)
  BY <1>0, <1>1, <1>6, CountOneMore
<1>8. ASSUME NEW m \in Alive(t)
      PROVE  /\ u.node[m].prefix = t.node[m].prefix
             /\ \A z \in {0, 1} : Kid(t, m, z) # Nil => Kid(u, m, z) # Nil
  <2>0. m \in Node /\ m # x /\ m # Nil
    BY <1>0, PatriciaAssumption DEF Alive, Object
  <2>1. CASE m = n
    BY <2>1, <1>2 DEF Kept, SameKids
  <2>2. CASE m = q
    <3>1. q # Nil
      BY <2>0, <2>2
    <3>2. \A z \in {0, 1} : Kid(u, m, z) = x \/ Kid(u, m, z) = Kid(t, m, z)
      <4> HIDE DEF q
      <4>1. PICK k \in {0, 1} : k = Side(q, n)
        BY <1>0, <3>1
      <4>2. \A z \in {0, 1} : z = k \/ z = 1 - k
        OBVIOUS
      <4>3. Kid(u, m, k) = x /\ Kid(u, m, 1 - k) = Kid(t, m, 1 - k)
        BY <2>2, <3>1, <4>1, <1>4 DEF OneKid
      <4> QED BY <4>2, <4>3
    <3> QED BY <2>2, <3>1, <3>2, <1>0, <1>4 DEF Kept
  <2>3. CASE m # n /\ m # q
    BY <2>0, <2>3, <1>1 DEF Kid
  <2> QED BY <2>1, <2>2, <2>3
<1>9. Widened(t, u, x, o)
  BY <1>1, <1>3, <1>6, <1>7, <1>8 DEF Widened
<1> QED BY <1>3, <1>9 DEF u

LEMMA ParentAdded ==
  ASSUME NEW t \in TreeOf, Linked(t), Needed(t), Counted(t), NEW p, p.add \in Bits, p.bitlen \in 0 .. maxbits,
         NEW o \in Object, NEW n, NEW a, a = Address(p, p.bitlen), Between(t, n, a),
         NEW q, q.add[p.bitlen + 1] = Side(a, n)
  PROVE  Grown(t, AddParent(t, o, p, n, q), a, o)
<1>0. /\ n \in Node /\ a \in Node /\ a \notin Alive(t) /\ n \in Alive(t) /\ Under(a, n)
      /\ Side(a, n) \in {0, 1} /\ Nil \notin Object
  BY BetweenFacts, PatriciaAssumption DEF Between
<1>1. Len(a) = p.bitlen /\ a = FreshNode(t, p, p.bitlen) /\ p.bitlen < maxbits
  BY <1>0, AddressFacts, FreshNodeAt, UnderOrder
<1>s. PICK s \in {0, 1} : s = Side(a, n)
  BY <1>0
<1> DEFINE u == Splice(t, n, a, o, s)
           v == Replace(NewNode(t, a, p.bitlen, o, t.node[n].parent), n, a)
<1>2. AddParent(t, o, p, n, q) = u
  <2>1. (p.bitlen < maxbits /\ Bit(q, p.bitlen) = 1) <=> s = 1
    BY <1>1, <1>s DEF Bit
  <2>2. AddParent(t, o, p, n, q)
          = [SetChild(v, a, p.bitlen < maxbits /\ Bit(q, p.bitlen) = 1, n) EXCEPT !.node[n].parent = a]
    BY <1>1 DEF AddParent
  <2>3. u = SetParent(SetKid(v, a, s, n), n, a)
    BY <1>1 DEF Splice
  <2> HIDE DEF u, v
  <2>4. SetChild(v, a, p.bitlen < maxbits /\ Bit(q, p.bitlen) = 1, n) = SetKid(v, a, s, n)
    BY <2>1 DEF SetChild, SetKid, WithKid
  <2> QED BY <2>2, <2>3, <2>4 DEF SetParent
<1>3. Widened(t, u, a, o)
  BY <1>s, SpliceWidens
<1>4. u \in TreeOf /\ u.broken = t.broken /\ u.prefix = t.prefix
  BY <1>3 DEF Widened
<1> HIDE DEF u
<1>5. Needed(u)
  <2> SUFFICES ASSUME NEW m \in Alive(u), u.node[m].prefix = Nil, NEW z \in {0, 1}  PROVE Kid(u, m, z) # Nil
    BY DEF Needed
  <2>1. m # a /\ m \in Alive(t) /\ t.node[m].prefix = Nil
    BY <1>0, <1>3 DEF Widened
  <2> QED BY <2>1, <1>3 DEF Widened, Needed
<1>6. Grown(t, u, a, o)
  BY <1>3, <1>4, <1>5 DEF Grown, Widened
<1> QED BY <1>2, <1>6

\* u is t with the node g between n and n's parent, and a, with prefix o, on its side s.
Glued(t, u, o, n, g, a, s) ==
  LET q == t.node[n].parent
  IN  /\ u \in TreeOf /\ u.broken = t.broken /\ u.prefix = t.prefix
      /\ u.num_active_node = t.num_active_node + 2
      /\ u.head = IF q = Nil THEN g ELSE t.head
      /\ \A m \in Node \ {n, g, a, q} : u.node[m] = t.node[m]
      /\ u.node[n] = [t.node[n] EXCEPT !.parent = g]
      /\ u.node[a] = [bit |-> Len(a), prefix |-> o, l |-> Nil, r |-> Nil, parent |-> g]
      /\ u.node[g] = WithKid(WithKid([bit |-> Len(g), prefix |-> Nil, l |-> Nil, r |-> Nil,
                                      parent |-> q], s, a), 1 - s, n)
      /\ q # Nil => u.node[q] = WithKid(t.node[q], Side(q, n), g)

LEMMA GlueNodes ==
  ASSUME NEW t \in TreeOf, Linked(t), NEW p, p.add \in Bits, p.bitlen \in 0 .. maxbits,
         NEW o \in Object, NEW d \in Nat, d < p.bitlen, NEW n, NEW g, g = Address(p, d), Between(t, n, g),
         NEW a, a = Address(p, p.bitlen), a \notin Alive(t), a # g,
         NEW s \in {0, 1}, s = p.add[d + 1]
  PROVE  Glued(t, AddGlue(t, o, p, n, d), o, n, g, a, s)
<1> DEFINE q == t.node[n].parent
           x == [bit |-> p.bitlen, prefix |-> o, l |-> Nil, r |-> Nil, parent |-> Nil]
           y == [bit |-> d, prefix |-> Nil, l |-> Nil, r |-> Nil, parent |-> q]
           u == NewNode(t, a, p.bitlen, o, Nil)
           v == Replace(NewNode(u, g, d, Nil, q), n, g)
           w1 == SetKid(v, g, s, a)
           w2 == SetKid(w1, g, 1 - s, n)
           w3 == SetParent(w2, a, g)
           f == SetParent(w3, n, g)
<1>0. /\ n \in Node /\ g \in Node /\ n # g /\ q # n /\ q # g /\ q \in Node \cup {Nil} /\ n \in Alive(t)
      /\ (q = Nil => t.head = n) /\ g \notin Alive(t) /\ d \in 0 .. maxbits
      /\ q # Nil => q \in Alive(t) /\ (t.node[q].r = n <=> Side(q, n) = 1)
  BY BetweenFacts, PatriciaAssumption DEF Between
<1>1. /\ a \in Node /\ Len(a) = p.bitlen /\ Len(g) = d /\ Nil \notin Node /\ a # n /\ a # q
  BY <1>0, AddressFacts, PatriciaAssumption DEF Object
<1>2. a = FreshNode(t, p, p.bitlen)
  BY <1>1, FreshNodeAt
<1>3. /\ u \in TreeOf /\ u.broken = t.broken /\ u.prefix = t.prefix /\ u.head = t.head
      /\ u.num_active_node = t.num_active_node + 1 /\ u.node = At(t.node, a, x)
  BY <1>1, NewNodeFields
<1> HIDE DEF u
<1>4. u.node[a] = x /\ \A m \in Node \ {a} : u.node[m] = t.node[m]
  <2> HIDE DEF x
  <2> QED BY <1>1, <1>3, TreeFields DEF At
<1>5. g = FreshNode(u, p, d)
  <2>1. g \notin Alive(u)
    BY <1>0, <1>4 DEF Alive
  <2> QED BY <1>0, <2>1, FreshNodeAt
<1>6. AddGlue(t, o, p, n, d) = f
  <2>1. AddGlue(t, o, p, n, d)
          = [SetChild(SetChild(v, g, Bit(p, d) = 1, a), g, ~(Bit(p, d) = 1), n)
               EXCEPT !.node[a].parent = g, !.node[n].parent = g]
    BY <1>2, <1>5 DEF AddGlue, u
  <2> HIDE DEF v
  <2>2. SetChild(v, g, Bit(p, d) = 1, a) = w1
    BY DEF Bit, SetChild, SetKid, WithKid
  <2> HIDE DEF w1
  <2>3. SetChild(w1, g, ~(Bit(p, d) = 1), n) = w2
    <3>1. ~(Bit(p, d) = 1) <=> 1 - s = 1
      BY DEF Bit
    <3> QED BY <3>1 DEF SetChild, SetKid, WithKid
  <2> HIDE DEF w2
  <2> QED BY <2>1, <2>2, <2>3 DEF SetParent
<1> HIDE DEF x, y
<1>7. /\ v \in TreeOf /\ v.broken = u.broken /\ v.prefix = u.prefix
      /\ v.num_active_node = u.num_active_node + 1
      /\ v.head = IF q = Nil THEN g ELSE u.head
      /\ \A m \in Node \ {g, q} : v.node[m] = u.node[m]
      /\ v.node[g] = y
      /\ q # Nil => v.node[q] = WithKid(u.node[q], Side(q, n), g)
  <2>1. q = u.node[n].parent /\ (q = Nil => u.head = n) /\ (q # Nil => (u.node[q].r = n <=> Side(q, n) = 1))
    BY <1>0, <1>1, <1>3, <1>4
  <2>2. q \in Node \cup {Nil} /\ q # n /\ q # g /\ n # g /\ Nil \in Object \cup {Nil} /\ d \in 0 .. maxbits
    BY <1>0
  <2> HIDE DEF q
  <2>3. TakesPlace(u, v, g, d, Nil, q, Side(q, n))
    BY <1>0, <1>3, <2>1, <2>2, PlaceTaken
  <2> QED BY <2>3 DEF TakesPlace, y
<1> HIDE DEF v, q
<1>8. /\ w1 \in TreeOf /\ w1.head = v.head /\ w1.broken = v.broken /\ w1.prefix = v.prefix
      /\ w1.num_active_node = v.num_active_node
      /\ w1.node = At(v.node, g, WithKid(v.node[g], s, a))
  BY <1>0, <1>1, <1>7, SetKidFields
<1> HIDE DEF w1
<1>9. w1.node[g] = WithKid(y, s, a) /\ \A m \in Node \ {g} : w1.node[m] = v.node[m]
  BY <1>0, <1>7, <1>8, TreeFields DEF At
<1>10. /\ w2 \in TreeOf /\ w2.head = w1.head /\ w2.broken = w1.broken /\ w2.prefix = w1.prefix
       /\ w2.num_active_node = w1.num_active_node
       /\ w2.node = At(w1.node, g, WithKid(w1.node[g], 1 - s, n))
  BY <1>0, <1>8, SetKidFields
<1> HIDE DEF w2
<1>11. w2.node[g] = WithKid(WithKid(y, s, a), 1 - s, n) /\ \A m \in Node \ {g} : w2.node[m] = w1.node[m]
  BY <1>0, <1>8, <1>9, <1>10, TreeFields DEF At
<1>12. /\ w3 \in TreeOf /\ w3.head = w2.head /\ w3.broken = w2.broken /\ w3.prefix = w2.prefix
       /\ w3.num_active_node = w2.num_active_node
       /\ w3.node = At(w2.node, a, [w2.node[a] EXCEPT !.parent = g])
  BY <1>0, <1>1, <1>10, SetParentFields
<1> HIDE DEF w3
<1>13. w3.node[a] = [w2.node[a] EXCEPT !.parent = g] /\ \A m \in Node \ {a} : w3.node[m] = w2.node[m]
  BY <1>1, <1>10, <1>12, TreeFields DEF At
<1>14. /\ f \in TreeOf /\ f.head = w3.head /\ f.broken = w3.broken /\ f.prefix = w3.prefix
       /\ f.num_active_node = w3.num_active_node
       /\ f.node = At(w3.node, n, [w3.node[n] EXCEPT !.parent = g])
  BY <1>0, <1>12, SetParentFields
<1> HIDE DEF f
<1>15. f.node[n] = [w3.node[n] EXCEPT !.parent = g] /\ \A m \in Node \ {n} : f.node[m] = w3.node[m]
  BY <1>0, <1>12, <1>14, TreeFields DEF At
<1>16. w2.node[a] = x /\ w3.node[n] = t.node[n]
  <2>1. w2.node[a] = x
    BY <1>0, <1>1, <1>4, <1>7, <1>9, <1>11
  <2>2. w3.node[n] = t.node[n]
    BY <1>0, <1>1, <1>4, <1>7, <1>9, <1>11, <1>13
  <2> QED BY <2>1, <2>2
<1>17. f.node[a] = [bit |-> Len(a), prefix |-> o, l |-> Nil, r |-> Nil, parent |-> g]
  <2>1. f.node[a] = [x EXCEPT !.parent = g]
    BY <1>1, <1>13, <1>15, <1>16
  <2> QED BY <1>1, <2>1 DEF x
<1>18. /\ f.node[n] = [t.node[n] EXCEPT !.parent = g]
       /\ f.node[g] = WithKid(WithKid(y, s, a), 1 - s, n)
       /\ \A m \in Node \ {n, g, a, q} : f.node[m] = t.node[m]
       /\ q # Nil => f.node[q] = WithKid(t.node[q], Side(q, n), g)
  <2>1. f.node[n] = [t.node[n] EXCEPT !.parent = g]
    BY <1>15, <1>16
  <2>2. f.node[g] = WithKid(WithKid(y, s, a), 1 - s, n)
    BY <1>0, <1>1, <1>11, <1>13, <1>15
  <2>3. \A m \in Node \ {n, g, a} : f.node[m] = v.node[m]
    BY <1>9, <1>11, <1>13, <1>15
  <2>4. \A m \in Node \ {n, g, a, q} : f.node[m] = t.node[m]
    BY <2>3, <1>4, <1>7
  <2>5. q # Nil => f.node[q] = WithKid(t.node[q], Side(q, n), g)
    BY <2>3, <1>0, <1>1, <1>4, <1>7
  <2> QED BY <2>1, <2>2, <2>4, <2>5
<1>19. /\ f \in TreeOf /\ f.broken = t.broken /\ f.prefix = t.prefix
       /\ f.num_active_node = t.num_active_node + 2
       /\ f.head = IF q = Nil THEN g ELSE t.head
  <2>1. t.num_active_node \in Int
    BY TreeFields
  <2>2. f.broken = v.broken /\ f.prefix = v.prefix /\ f.head = v.head /\ f.num_active_node = v.num_active_node
    BY <1>8, <1>10, <1>12, <1>14
  <2>3. v.num_active_node = t.num_active_node + 2
    BY <2>1, <1>3, <1>7
  <2> QED BY <2>2, <2>3, <1>3, <1>7, <1>14
<1> QED BY <1>1, <1>6, <1>17, <1>18, <1>19 DEF Glued, y, q

LEMMA GlueAdded ==
  ASSUME NEW t \in TreeOf, Linked(t), Needed(t), Counted(t),
         NEW p, p.add \in Bits, p.bitlen \in 0 .. maxbits,
         NEW o \in Object, NEW d \in Nat, d < p.bitlen, NEW n, NEW g, g = Address(p, d), Between(t, n, g),
         NEW a, a = Address(p, p.bitlen), a \notin Alive(t), a # g, Under(g, a),
         NEW s \in {0, 1}, s = p.add[d + 1], Side(g, a) = s, Side(g, n) = 1 - s
  PROVE  Grown(t, AddGlue(t, o, p, n, d), a, o)
<1> DEFINE u == AddGlue(t, o, p, n, d)
           v == Splice(t, n, g, Nil, 1 - s)
           q == t.node[n].parent
<1>0. /\ n \in Node /\ g \in Node /\ n # g /\ q # n /\ q # g /\ q \in Node \cup {Nil} /\ n \in Alive(t)
      /\ g \notin Alive(t) /\ a \in Node /\ a # n /\ Nil \notin Object /\ n # Nil /\ a # Nil
      /\ (q # Nil => q \in Alive(t))
  BY BetweenFacts, AddressFacts, PatriciaAssumption DEF Between, Object
<1>1. /\ v \in TreeOf /\ v.broken = t.broken /\ v.prefix = t.prefix
      /\ v.num_active_node = t.num_active_node + 1
      /\ v.head = IF q = Nil THEN g ELSE t.head
      /\ \A m \in Node \ {n, g, q} : v.node[m] = t.node[m]
      /\ v.node[n] = [t.node[n] EXCEPT !.parent = g]
      /\ v.node[g] = WithKid([bit |-> Len(g), prefix |-> Nil, l |-> Nil, r |-> Nil, parent |-> q], 1 - s, n)
      /\ q # Nil => v.node[q] = WithKid(t.node[q], Side(q, n), g)
  BY SpliceNodes
<1>2. Widened(t, v, g, Nil) /\ Kid(v, g, 1 - s) = n /\ Kid(v, g, s) = Nil
  <2>1. Widened(t, v, g, Nil) /\ Kid(v, g, 1 - s) = n /\ Kid(v, g, 1 - (1 - s)) = Nil
    BY SpliceWidens
  <2>2. 1 - (1 - s) = s
    OBVIOUS
  <2> QED BY <2>1, <2>2
<1>3. /\ u \in TreeOf /\ u.broken = t.broken /\ u.prefix = t.prefix
      /\ u.num_active_node = t.num_active_node + 2
      /\ u.head = IF q = Nil THEN g ELSE t.head
      /\ \A m \in Node \ {n, g, a, q} : u.node[m] = t.node[m]
      /\ u.node[n] = [t.node[n] EXCEPT !.parent = g]
      /\ u.node[a] = [bit |-> Len(a), prefix |-> o, l |-> Nil, r |-> Nil, parent |-> g]
      /\ u.node[g] = WithKid(WithKid([bit |-> Len(g), prefix |-> Nil, l |-> Nil, r |-> Nil,
                                      parent |-> q], s, a), 1 - s, n)
      /\ q # Nil => u.node[q] = WithKid(t.node[q], Side(q, n), g)
  <2>1. Glued(t, u, o, n, g, a, s)
    BY GlueNodes
  <2> QED BY <2>1 DEF Glued
<1> HIDE DEF u, v
<1>4. Linked(v) /\ Counted(v) /\ Alive(v) = Alive(t) \cup {g} /\ g \in Alive(v) /\ a \notin Alive(v)
  BY <1>2 DEF Widened
<1>5. /\ u.node[a].bit = Len(a) /\ u.node[a].parent = g /\ u.node[a].prefix = o
      /\ \A z \in {0, 1} : Kid(u, a, z) = Nil
  BY <1>3 DEF Kid
<1>6. /\ Kept(v, u, g) /\ u.node[g].parent = v.node[g].parent /\ OneKid(v, u, g, s, a)
      /\ Kid(u, g, s) = a /\ Kid(u, g, 1 - s) = n /\ u.node[g].prefix = Nil
  <2>1. /\ u.node[g].bit = Len(g) /\ u.node[g].prefix = Nil /\ u.node[g].parent = q
        /\ u.node[g].r = (IF s = 1 THEN a ELSE n) /\ u.node[g].l = (IF s = 1 THEN n ELSE a)
    BY <1>3 DEF WithKid
  <2>2. v.node[g].bit = Len(g) /\ v.node[g].prefix = Nil /\ v.node[g].parent = q
    BY <1>1 DEF WithKid
  <2>3. Kid(u, g, s) = a /\ Kid(u, g, 1 - s) = n
    BY <2>1 DEF Kid
  <2> QED BY <2>1, <2>2, <2>3, <1>2 DEF Kept, OneKid
<1>7. \A m \in Node \ {g, a} : u.node[m] = v.node[m]
  <2> SUFFICES ASSUME NEW m \in Node \ {g, a}  PROVE u.node[m] = v.node[m]
    OBVIOUS
  <2>1. CASE m = n
    BY <2>1, <1>1, <1>3
  <2>2. CASE m = q
    <3>1. q # Nil
      BY <2>2, PatriciaAssumption DEF Object
    <3>2. u.node[q] = v.node[q]
      BY <3>1, <1>1, <1>3
    <3> QED BY <3>2, <2>2
  <2>3. CASE m # n /\ m # q
    BY <2>3, <1>1, <1>3
  <2> QED BY <2>1, <2>2, <2>3
<1>8. u.head = v.head
  BY <1>1, <1>3
<1>9. LeafAdded(v, u, g, a)
  BY <1>5, <1>6, <1>7, <1>8 DEF LeafAdded
<1>10. Linked(u) /\ Alive(u) = Alive(v) \cup {a}
  <2>1. v \in TreeOf /\ u \in TreeOf /\ Kid(v, g, Side(g, a)) = Nil
    BY <1>1, <1>2, <1>3
  <2> QED BY <2>1, <1>0, <1>4, <1>9, LeafAddedLinked
<1>11. Counted(u)
  <2>1. v \in TreeOf /\ u \in TreeOf /\ u.num_active_node = v.num_active_node + 1
    <3>1. t.num_active_node \in Int
      BY TreeFields
    <3> QED BY <3>1, <1>1, <1>3
  <2> QED BY <2>1, <1>4, <1>10, CountOneMore
<1>12. \A m \in Alive(t) : m # a /\ m # g /\ u.node[m] = v.node[m] /\ u.node[m].prefix = t.node[m].prefix
  BY <1>0, <1>2, <1>7 DEF Alive, Widened
<1>13. Needed(u)
  <2> SUFFICES ASSUME NEW m \in Alive(u), u.node[m].prefix = Nil, NEW z \in {0, 1}  PROVE Kid(u, m, z) # Nil
    BY DEF Needed
  <2>1. m # a
    BY <1>0, <1>5
  <2>2. CASE m = g
    <3>1. z = s \/ z = 1 - s
      OBVIOUS
    <3> QED BY <2>2, <3>1, <1>0, <1>6
  <2>3. CASE m \in Alive(t)
    <3>1. t.node[m].prefix = Nil /\ Kid(t, m, z) # Nil
      BY <2>3, <1>12 DEF Needed
    <3>2. Kid(v, m, z) # Nil
      BY <2>3, <3>1, <1>2 DEF Widened
    <3>3. Kid(u, m, z) = Kid(v, m, z)
      BY <2>3, <1>12 DEF Kid
    <3> QED BY <3>2, <3>3
  <2> QED BY <2>1, <2>2, <2>3, <1>4, <1>10
<1>14. Grown(t, u, a, o)
  <2>1. \A m \in Alive(u) : m # a => u.node[m].prefix = IF m \in Alive(t) THEN t.node[m].prefix ELSE Nil
    BY <1>0, <1>4, <1>6, <1>10, <1>12
  <2>2. a \in Alive(u) /\ Alive(t) \subseteq Alive(u)
    BY <1>4, <1>10
  <2> QED BY <2>1, <2>2, <1>3, <1>5, <1>10, <1>11, <1>13 DEF Grown
<1> QED BY <1>14 DEF u

\* The prefix of n is o, all else as before.
Relabelled(t, u, n, o) ==
  /\ u \in TreeOf /\ u.broken = t.broken /\ u.prefix = t.prefix
  /\ Linked(u) /\ Counted(u) /\ Alive(u) = Alive(t) /\ u.node[n].prefix = o
  /\ \A m \in Alive(t) : m # n => u.node[m].prefix = t.node[m].prefix
  /\ \A m \in Alive(t) : \A z : Kid(u, m, z) = Kid(t, m, z)

LEMMA PrefixSet ==
  ASSUME NEW t \in TreeOf, Linked(t), Counted(t), NEW o \in Object \cup {Nil}, NEW n \in Alive(t)
  PROVE  Relabelled(t, [t EXCEPT !.node[n].prefix = o], n, o)
<1> DEFINE x == [t.node[n] EXCEPT !.prefix = o]
           u == [t EXCEPT !.node[n].prefix = o]
<1>0. n \in Node /\ t.node[n] \in NodeOf
  BY TreeFields DEF Alive
<1>1. /\ x \in NodeOf /\ x.bit = t.node[n].bit /\ x.prefix = o /\ x.l = t.node[n].l /\ x.r = t.node[n].r
      /\ x.parent = t.node[n].parent
  BY <1>0 DEF NodeOf
<1>2. u = [t EXCEPT !.node = At(t.node, n, x)]
  BY DEF At
<1> HIDE DEF x, u
<1>3. At(t.node, n, x) \in [Node -> NodeOf]
  BY <1>0, <1>1, TreeFields DEF At
<1>4. /\ u \in TreeOf /\ u.head = t.head /\ u.broken = t.broken /\ u.prefix = t.prefix
      /\ u.num_active_node = t.num_active_node /\ u.node = At(t.node, n, x)
  BY <1>2, <1>3 DEF TreeOf
<1>5. u.node[n] = x /\ \A m \in Node \ {n} : u.node[m] = t.node[m]
  BY <1>0, <1>4, TreeFields DEF At
<1>6. \A m \in Node : /\ u.node[m].bit = t.node[m].bit /\ u.node[m].parent = t.node[m].parent
                      /\ \A z : Kid(u, m, z) = Kid(t, m, z)
  BY <1>1, <1>5 DEF Kid
<1>7. Alive(u) = Alive(t)
  <2>1. n \in Alive(u)
    BY <1>0, <1>6, AliveBit DEF Linked
  <2>2. \A m \in Node \ {n} : m \in Alive(u) <=> m \in Alive(t)
    BY <1>5 DEF Alive
  <2> QED BY <2>1, <2>2 DEF Alive
<1>8. \A m \in Alive(u) : m \in Node
  BY DEF Alive
<1>9. Linked(u)
  <2>1. \A m \in Alive(t) : m \in Node
    BY DEF Alive
  <2>2. u.head # Nil => u.head \in Alive(u) /\ u.node[u.head].parent = Nil
    BY <2>1, <1>4, <1>6, <1>7 DEF Linked
  <2>3. \A m \in Alive(u) : u.node[m].bit = Len(m)
    BY <2>1, <1>6, <1>7 DEF Linked
  <2>4. ASSUME NEW m \in Alive(u), m # u.head
        PROVE  /\ u.node[m].parent \in Alive(u) /\ Under(u.node[m].parent, m)
               /\ Kid(u, u.node[m].parent, m[Len(u.node[m].parent) + 1]) = m
    <3>1. PICK q \in Alive(t) : q = t.node[m].parent /\ Under(q, m) /\ Kid(t, q, m[Len(q) + 1]) = m
      BY <2>4, <1>4, <1>7 DEF Linked
    <3>2. u.node[m].parent = q /\ Kid(u, q, m[Len(q) + 1]) = Kid(t, q, m[Len(q) + 1])
      BY <2>1, <3>1, <1>6, <1>8
    <3> QED BY <3>1, <3>2, <1>7
  <2>5. ASSUME NEW m \in Alive(u), NEW z \in {0, 1}, Kid(u, m, z) # Nil
        PROVE  /\ Kid(u, m, z) \in Alive(u) /\ u.node[Kid(u, m, z)].parent = m
               /\ Under(m, Kid(u, m, z)) /\ Kid(u, m, z)[Len(m) + 1] = z
               /\ Kid(u, m, z) # u.head
    BY <2>1, <2>5, <1>4, <1>6, <1>7 DEF Linked
  <2> QED BY <2>2, <2>3, <2>4, <2>5 DEF Linked
<1>10. Counted(u)
  BY <1>4, <1>7 DEF Counted
<1>11. Relabelled(t, u, n, o)
  BY <1>1, <1>4, <1>5, <1>6, <1>7, <1>8, <1>9, <1>10 DEF Relabelled
<1> QED BY <1>11 DEF u

\* A node without a prefix gets one.
LEMMA PrefixGiven ==
  ASSUME NEW t \in TreeOf, Linked(t), Needed(t), Counted(t), NEW o \in Object, NEW n \in Alive(t)
  PROVE  Grown(t, [t EXCEPT !.node[n].prefix = o], n, o)
<1> DEFINE u == [t EXCEPT !.node[n].prefix = o]
<1>1. Relabelled(t, u, n, o)
  BY PrefixSet
<1> HIDE DEF u
<1>2. o # Nil
  BY PatriciaAssumption
<1>3. Needed(u)
  BY <1>1, <1>2 DEF Needed, Relabelled
<1>4. Grown(t, u, n, o)
  BY <1>1, <1>3 DEF Relabelled, Grown
<1> QED BY <1>4 DEF u

\* The prefix object o, with node a, is in the tree: it was, or u has it.
LookedUp(t, u, a, o) ==
  \/ u = t /\ a \in Alive(t) /\ t.node[a].prefix # Nil
  \/ (a \in Alive(t) => t.node[a].prefix = Nil) /\ Grown(Ref_Prefix(t, o), u, a, o)

LEMMA RefShape ==
  ASSUME NEW t \in TreeOf, NEW o \in Object
  PROVE  LET r == Ref_Prefix(t, o)
         IN  /\ r \in TreeOf /\ r.head = t.head /\ r.node = t.node /\ Alive(r) = Alive(t)
             /\ (Linked(t) => Linked(r)) /\ (Needed(t) => Needed(r)) /\ (Counted(t) => Counted(r))
             /\ \A n, x : Between(t, n, x) => Between(r, n, x)
             /\ \A n, z : Kid(r, n, z) = Kid(t, n, z)
             /\ \A n, p : Ahead(r, p, n) = Ahead(t, p, n)
<1> DEFINE r == Ref_Prefix(t, o)
<1>1. PrefixesOnly(t, r)
  BY RefFields
<1>2. /\ r \in TreeOf /\ r.head = t.head /\ r.node = t.node /\ r.num_active_node = t.num_active_node
      /\ Alive(r) = Alive(t)
      /\ (Linked(t) => Linked(r)) /\ (Needed(t) => Needed(r))
  BY <1>1, SameShape DEF PrefixesOnly
<1> HIDE DEF r
<1>3. Counted(t) => Counted(r)
  BY <1>2 DEF Counted
<1>4. \A n, x : Between(t, n, x) => Between(r, n, x)
  BY <1>2 DEF Between
<1>5. \A n, z : Kid(r, n, z) = Kid(t, n, z)
  BY <1>2 DEF Kid
<1>6. \A n, p : Ahead(r, p, n) = Ahead(t, p, n)
  BY <1>2 DEF Ahead, Child, Right
<1> QED BY <1>2, <1>3, <1>4, <1>5, <1>6 DEF r

LEMMA HaltsAtPrefix ==
  ASSUME NEW t \in TreeOf, Linked(t), Needed(t), NEW p, NEW s \in Alive(t), Halts(t, p, s)
  PROVE  t.node[s].prefix # Nil
<1>1. CASE Ahead(t, p, s) = Nil
  <2>1. Ahead(t, p, s) = Kid(t, s, 0) \/ Ahead(t, p, s) = Kid(t, s, 1)
    BY DEF Ahead, Child, Kid
  <2> QED BY <1>1, <2>1 DEF Needed
<1> QED BY <1>1 DEF Halts

LEMMA LookupDone ==
  ASSUME NEW t \in TreeOf, Linked(t), Needed(t), Counted(t), NEW o \in Object,
         \A n \in Alive(t) : t.node[n].prefix # Nil => Carries(t, n),
         NEW p, p = t.prefix[o], NEW a, a = Address(p, p.bitlen)
  PROVE  LookedUp(t, patricia_lookup(t, o), a, o)
<1> DEFINE r == Ref_Prefix(t, o)
           u == patricia_lookup(t, o)
           s == Stop(t, p)
           d == DifferBit(t, p, s)
           n == Climb(t, s, d)
<1>0. p.add \in Bits /\ p.bitlen \in 0 .. maxbits /\ p.bitlen \in Nat
  BY TreeFields
<1>1. /\ r \in TreeOf /\ r.head = t.head /\ r.node = t.node /\ Alive(r) = Alive(t)
      /\ Linked(r) /\ Needed(r) /\ Counted(r)
      /\ \A m, x : Between(t, m, x) => Between(r, m, x)
      /\ \A m, z : Kid(r, m, z) = Kid(t, m, z)
      /\ \A m : Ahead(r, p, m) = Ahead(t, p, m)
  BY RefShape
<1>2. CASE t.head = Nil
  <2>1. u = [NewNode(r, FreshNode(r, p, p.bitlen), p.bitlen, o, Nil) EXCEPT !.head = FreshNode(r, p, p.bitlen)]
    BY <1>2 DEF patricia_lookup
  <2> HIDE DEF r, u
  <2>2. Grown(r, u, a, o)
    <3>1. r.head = Nil
      BY <1>1, <1>2
    <3> QED BY <1>0, <1>1, <2>1, <3>1, HeadAdded
  <2>3. a \notin Alive(t)
    <3>1. ASSUME a \in Alive(t)  PROVE FALSE
      <4>1. t.head \in Alive(t)
        BY <3>1, HeadOnTop
      <4> QED BY <4>1, <1>2, PatriciaAssumption DEF Alive, Object
    <3> QED BY <3>1
  <2> QED BY <2>2, <2>3 DEF LookedUp, u, r
<1>3. CASE t.head # Nil
  <2>1. s \in Alive(t) /\ Reached(t, p, s) /\ Halts(t, p, s)
    BY <1>0, <1>3, StopFound
  <2> HIDE DEF s
  <2>2. t.node[s].prefix # Nil /\ Carries(t, s)
    BY <2>1, HaltsAtPrefix
  <2>3. Place(t, p, s, d, n)
    BY <1>0, <2>1, <2>2, PlaceFound
  <2>4. u = IF d = p.bitlen /\ t.node[n].bit = p.bitlen
            THEN IF t.node[n].prefix # Nil THEN t ELSE [r EXCEPT !.node[n].prefix = o]
            ELSE IF t.node[n].bit = d THEN AddChild(r, o, p, n)
            ELSE IF p.bitlen = d THEN AddParent(r, o, p, n, PrefixOf(t, s))
            ELSE AddGlue(r, o, p, n, d)
    BY <1>3, <2>2 DEF patricia_lookup, s
  <2> HIDE DEF r, u, d, n
  <2>5. /\ d \in Nat /\ d <= p.bitlen /\ d <= Len(n) /\ n \in Alive(t) /\ n \in Node /\ s \in Node
        /\ Len(n) \in Nat /\ Len(s) \in Nat /\ (n = s \/ Under(n, s))
    BY <2>1, <2>3, NodeFacts DEF Place, Alive
  <2>6. t.node[n].bit = Len(n)
    BY <2>5 DEF Linked
  <2>7. CASE d = p.bitlen /\ Len(n) = p.bitlen
    <3>1. n = a
      BY <1>0, <2>3, <2>7, PlaceIsNode
    <3>2. CASE t.node[n].prefix # Nil
      <4>1. u = t
        BY <2>4, <2>6, <2>7, <3>2
      <4> QED BY <4>1, <3>1, <3>2, <2>5 DEF LookedUp, u
    <3>3. CASE t.node[n].prefix = Nil
      <4>1. u = [r EXCEPT !.node[n].prefix = o]
        BY <2>4, <2>6, <2>7, <3>3
      <4>2. Grown(r, u, n, o)
        BY <1>1, <2>5, <4>1, PrefixGiven
      <4> QED BY <4>2, <3>1, <3>3 DEF LookedUp, u, r
    <3> QED BY <3>2, <3>3
  <2>8. CASE ~(d = p.bitlen /\ Len(n) = p.bitlen) /\ Len(n) = d
    <3>1. d < p.bitlen
      BY <1>0, <2>5, <2>8
    <3>2. /\ a \in Node /\ a \notin Alive(t) /\ Under(n, a) /\ Ahead(t, p, n) = Nil
          /\ Len(n) < maxbits /\ Side(n, a) = p.add[Len(n) + 1] /\ Kid(t, n, Side(n, a)) = Nil
      BY <1>0, <2>1, <2>3, <2>8, <3>1, PlaceBelow
    <3>3. u = AddChild(r, o, p, n)
      BY <2>4, <2>6, <2>8
    <3>4. a \notin Alive(r) /\ Ahead(r, p, n) = Nil /\ Kid(r, n, Side(n, a)) = Nil /\ n \in Alive(r)
      BY <1>1, <2>5, <3>2
    <3>5. Grown(r, u, a, o)
      BY <1>0, <1>1, <3>2, <3>3, <3>4, ChildAdded
    <3> QED BY <3>2, <3>5 DEF LookedUp, u, r
  <2>9. CASE d < Len(n)
    <3> DEFINE g == Address(p, d)
    <3>1. /\ g \in Node /\ Len(g) = d /\ g \notin Alive(t) /\ Under(g, n)
          /\ t.node[n].parent # Nil => Under(t.node[n].parent, g)
      BY <1>0, <2>3, <2>9, PlaceBetween
    <3>2. Between(t, n, g)
      BY <2>5, <3>1 DEF Between
    <3>3. Between(r, n, g)
      <4> HIDE DEF g
      <4> QED BY <1>1, <3>2
    <3>4. CASE p.bitlen = d
      <4>1. a = g
        BY <3>4
      <4>2. u = AddParent(r, o, p, n, PrefixOf(t, s))
        BY <2>4, <2>6, <2>9, <3>4
      <4>3. PrefixOf(t, s).add[p.bitlen + 1] = Side(g, n)
        <5>1. d + 1 \in 1 .. Len(n) /\ d + 1 \in 1 .. Len(s)
          BY <2>5, <2>9 DEF Under
        <5>2. PrefixOf(t, s).add[d + 1] = s[d + 1] /\ s[d + 1] = n[d + 1]
          BY <2>2, <2>5, <5>1 DEF Carries, Under
        <5> HIDE DEF g
        <5> QED BY <3>1, <3>4, <5>2 DEF Side
      <4> HIDE DEF g
      <4>4. Grown(r, u, a, o)
        BY <1>0, <1>1, <3>3, <4>1, <4>2, <4>3, ParentAdded
      <4> QED BY <3>1, <4>1, <4>4 DEF LookedUp, u, r
    <3>5. CASE p.bitlen # d
      <4>1. d < p.bitlen
        BY <1>0, <2>5, <3>5
      <4>2. /\ a \in Node /\ Len(a) = p.bitlen /\ a \notin Alive(t) /\ a # g
            /\ Under(g, a) /\ Side(g, a) = p.add[d + 1] /\ Side(g, n) # Side(g, a)
            /\ Side(g, a) \in {0, 1} /\ Side(g, n) \in {0, 1}
        BY <1>0, <2>3, <2>9, <4>1, PlaceBeside
      <4>3. u = AddGlue(r, o, p, n, d)
        BY <2>4, <2>6, <2>9, <3>5
      <4> HIDE DEF g
      <4>4. PICK z \in {0, 1} : z = p.add[d + 1]
        BY <4>2
      <4>5. Side(g, a) = z /\ Side(g, n) = 1 - z
        BY <4>2, <4>4
      <4>6. a \notin Alive(r)
        BY <1>1, <4>2
      <4>7. g = Address(p, d)
        BY DEF g
      <4>8. Grown(r, u, a, o)
        BY <1>0, <1>1, <2>5, <3>3, <4>1, <4>2, <4>3, <4>4, <4>5, <4>6, <4>7, GlueAdded
      <4> QED BY <4>2, <4>8 DEF LookedUp, u, r
    <3> QED BY <3>4, <3>5
  <2> QED BY <2>5, <2>7, <2>8, <2>9
<1> QED BY <1>2, <1>3

\* The nodes with a prefix.
Full(t) == {n \in Alive(t) : t.node[n].prefix # Nil}

\* New_Prefix2, patricia_lookup and Deref_Prefix leave a sound tree with the prefix in it.
LEMMA LookupSound ==
  ASSUME NEW t, Sound(t), NEW p, p.add \in Bits, p.bitlen \in 0 .. maxbits
  PROVE  LET o == FreshPrefix(t, p)
             u == Deref_Prefix(patricia_lookup(New_Prefix2(t, p), o), o)
         IN  Sound(u) /\ Full(u) = Full(t) \cup {Address(p, p.bitlen)}
<1> DEFINE o == FreshPrefix(t, p)
           v == New_Prefix2(t, p)
           a == Address(p, p.bitlen)
           w == patricia_lookup(v, o)
           u == Deref_Prefix(w, o)
           x == [add |-> p.add, bitlen |-> p.bitlen, ref_count |-> 1]
<1>0. /\ t \in TreeOf /\ ~t.broken /\ Linked(t) /\ Needed(t) /\ Filed(t) /\ Counted(t)
      /\ \A m \in Alive(t) : m \in Node /\ m \in Object
  BY DEF Sound, Alive, Object
<1>a. a \in Node /\ a \in Object /\ Len(a) = p.bitlen /\ \A i \in 1 .. p.bitlen : a[i] = p.add[i]
  BY AddressFacts DEF Object
<1>1. /\ o \in Object /\ t.prefix[o].ref_count = 0
      /\ (a \in Alive(t) => t.node[a].prefix = Nil) => o = a
      /\ PrefixesOnly(t, v) /\ v.prefix = At(t.prefix, o, x)
  BY FreshPrefixFields
<1> HIDE DEF o, v
<1>2. /\ v \in TreeOf /\ v.node = t.node /\ v.head = t.head /\ ~v.broken
      /\ Alive(v) = Alive(t) /\ Linked(v) /\ Needed(v) /\ Counted(v)
  <2>1. v \in TreeOf /\ v.node = t.node /\ v.head = t.head /\ ~v.broken /\ v.num_active_node = t.num_active_node
    BY <1>0, <1>1 DEF PrefixesOnly
  <2>2. Alive(v) = Alive(t) /\ Linked(v) /\ Needed(v)
    BY <1>0, <1>1, SameShape
  <2>3. Counted(v)
    BY <1>0, <2>1, <2>2 DEF Counted
  <2> QED BY <2>1, <2>2, <2>3
<1>3. v.prefix[o] = x /\ \A z \in Object \ {o} : v.prefix[z] = t.prefix[z]
  <2> HIDE DEF x
  <2> QED BY <1>0, <1>1, TreeFields DEF At
<1>4. \A m \in Full(t) : /\ m # o /\ t.node[m].prefix = m /\ t.prefix[m].ref_count = 1
                         /\ t.prefix[m].bitlen = Len(m) /\ v.prefix[m] = t.prefix[m]
                         /\ \A i \in 1 .. Len(m) : t.prefix[m].add[i] = m[i]
  <2> SUFFICES ASSUME NEW m \in Full(t)
               PROVE  /\ m # o /\ t.node[m].prefix = m /\ t.prefix[m].ref_count = 1
                      /\ t.prefix[m].bitlen = Len(m) /\ v.prefix[m] = t.prefix[m]
                      /\ \A i \in 1 .. Len(m) : t.prefix[m].add[i] = m[i]
    OBVIOUS
  <2>1. /\ t.node[m].prefix = m /\ t.prefix[m].ref_count = 1 /\ m \in Object
        /\ t.prefix[m].bitlen = Len(m) /\ \A i \in 1 .. Len(m) : t.prefix[m].add[i] = m[i]
    BY <1>0 DEF Filed, Full
  <2>2. m # o
    BY <2>1, <1>1
  <2> QED BY <2>1, <2>2, <1>3
<1>5. \A m \in Alive(v) : v.node[m].prefix # Nil => Carries(v, m)
  <2> SUFFICES ASSUME NEW m \in Alive(v), v.node[m].prefix # Nil  PROVE Carries(v, m)
    OBVIOUS
  <2>1. m \in Full(t)
    BY <1>2 DEF Full
  <2>2. v.node[m].prefix = m /\ v.prefix[m] = t.prefix[m] /\ \A i \in 1 .. Len(m) : t.prefix[m].add[i] = m[i]
    BY <2>1, <1>2, <1>4
  <2> QED BY <2>2 DEF Carries, PrefixOf
<1>6. LookedUp(v, w, a, o)
  <2>1. PICK y : y = v.prefix[o]
    OBVIOUS
  <2>2. Address(y, y.bitlen) = a
    BY <2>1, <1>3 DEF Address
  <2> QED BY <2>1, <2>2, <1>1, <1>2, <1>5, LookupDone
<1> HIDE DEF w, a
<1>7. CASE w = v /\ a \in Alive(v) /\ v.node[a].prefix # Nil
  <2>1. v.prefix[o].ref_count = 1
    BY <1>3
  <2>2. PrefixesOnly(v, u) /\ u.prefix = At(v.prefix, o, NoPrefix)
    <3>1. u = Deref_Prefix(v, o)
      BY <1>7
    <3>2. /\ PrefixesOnly(v, Deref_Prefix(v, o))
          /\ Deref_Prefix(v, o).prefix =
               At(v.prefix, o, IF v.prefix[o].ref_count = 1 THEN NoPrefix
                               ELSE [v.prefix[o] EXCEPT !.ref_count = v.prefix[o].ref_count - 1])
      <4>1. v.prefix[o].ref_count # 0
        BY <2>1
      <4> HIDE DEF x
      <4> QED BY <4>1, <1>1, <1>2, DerefFields
    <3> HIDE DEF u
    <3> QED BY <3>1, <3>2, <2>1
  <2> HIDE DEF u
  <2>3. u.prefix[o] = NoPrefix /\ \A z \in Object \ {o} : u.prefix[z] = t.prefix[z]
    BY <2>2, <1>1, <1>2, <1>3, TreeFields DEF At
  <2>4. /\ u \in TreeOf /\ ~u.broken /\ u.node = t.node /\ Alive(u) = Alive(t) /\ Linked(u) /\ Needed(u)
        /\ u.num_active_node = v.num_active_node
    BY <2>2, <1>2, SameShape DEF PrefixesOnly
  <2>5. Counted(u)
    BY <2>4, <1>2 DEF Counted
  <2>6. Filed(u)
    <3>1. u.prefix[o].ref_count = 0
      BY <2>3 DEF NoPrefix
    <3>2. ASSUME NEW m \in Alive(u), u.node[m].prefix # Nil
          PROVE  /\ u.node[m].prefix = m /\ u.prefix[m].ref_count = 1 /\ u.prefix[m].bitlen = Len(m)
                 /\ \A i \in 1 .. Len(m) : u.prefix[m].add[i] = m[i]
      <4>1. m \in Full(t) /\ m \in Object
        BY <2>4, <3>2, <1>0 DEF Full
      <4> QED BY <4>1, <2>3, <2>4, <1>4
    <3>3. ASSUME NEW z \in Object, u.prefix[z].ref_count # 0  PROVE z \in Alive(u) /\ u.node[z].prefix = z
      <4>1. t.prefix[z].ref_count # 0
        BY <3>1, <3>3, <2>3
      <4> QED BY <4>1, <2>4, <1>0 DEF Filed
    <3> QED BY <3>2, <3>3 DEF Filed
  <2>7. Full(u) = Full(t) /\ a \in Full(t)
    BY <2>4, <1>2, <1>7 DEF Full
  <2>8. Sound(u) /\ Full(u) = Full(t) \cup {a}
    BY <2>4, <2>5, <2>6, <2>7 DEF Sound
  <2> QED BY <2>8 DEF u, w, v, o, a
<1>8. CASE (a \in Alive(v) => v.node[a].prefix = Nil) /\ Grown(Ref_Prefix(v, o), w, a, o)
  <2> DEFINE r == Ref_Prefix(v, o)
             y == [add |-> p.add, bitlen |-> p.bitlen, ref_count |-> 2]
  <2>1. o = a
    BY <1>1, <1>2, <1>8
  <2>2. PrefixesOnly(v, r) /\ r.prefix = At(v.prefix, o, [v.prefix[o] EXCEPT !.ref_count = v.prefix[o].ref_count + 1])
    BY <1>1, <1>2, RefFields
  <2>3. [v.prefix[o] EXCEPT !.ref_count = v.prefix[o].ref_count + 1] = y
    BY <1>3
  <2>4. r \in TreeOf /\ r.node = t.node /\ Alive(r) = Alive(t) /\ ~r.broken
    BY <2>2, <1>2, SameShape DEF PrefixesOnly
  <2> HIDE DEF r
  <2>5. r.prefix[o] = y /\ \A z \in Object \ {o} : r.prefix[z] = t.prefix[z]
    <3> HIDE DEF y, x
    <3> QED BY <2>2, <2>3, <1>1, <1>2, <1>3, TreeFields DEF At
  <2>6. /\ w \in TreeOf /\ w.broken = r.broken /\ w.prefix = r.prefix /\ Linked(w) /\ Needed(w) /\ Counted(w)
        /\ a \in Alive(w) /\ w.node[a].prefix = o /\ Alive(r) \subseteq Alive(w)
        /\ \A m \in Alive(w) : m # a =>
             w.node[m].prefix = IF m \in Alive(r) THEN r.node[m].prefix ELSE Nil
    BY <1>8 DEF Grown, r
  <2>7. w.prefix[o] = y /\ w.prefix[o].ref_count = 2
    BY <2>5, <2>6
  <2>8. PrefixesOnly(w, u) /\ u.prefix = At(w.prefix, o, [w.prefix[o] EXCEPT !.ref_count = w.prefix[o].ref_count - 1])
    BY <2>6, <2>7, <1>1, DerefFields
  <2>9. [w.prefix[o] EXCEPT !.ref_count = w.prefix[o].ref_count - 1] = x
    BY <2>7
  <2> HIDE DEF u
  <2>10. u.prefix[o] = x /\ \A z \in Object \ {o} : u.prefix[z] = t.prefix[z]
    <3> HIDE DEF y, x
    <3> QED BY <2>5, <2>6, <2>8, <2>9, <1>1, TreeFields DEF At
  <2>11. /\ u \in TreeOf /\ ~u.broken /\ u.node = w.node /\ Alive(u) = Alive(w) /\ Linked(u) /\ Needed(u)
         /\ u.num_active_node = w.num_active_node
    BY <2>4, <2>6, <2>8, SameShape DEF PrefixesOnly
  <2>12. Counted(u)
    BY <2>6, <2>11 DEF Counted
  <2>13. \A m \in Alive(u) : m # a => (u.node[m].prefix # Nil => m \in Full(t) /\ u.node[m].prefix = t.node[m].prefix)
    BY <2>4, <2>6, <2>11 DEF Full
  <2>14. Filed(u)
    <3>1. ASSUME NEW m \in Alive(u), u.node[m].prefix # Nil
          PROVE  /\ u.node[m].prefix = m /\ u.prefix[m].ref_count = 1 /\ u.prefix[m].bitlen = Len(m)
                 /\ \A i \in 1 .. Len(m) : u.prefix[m].add[i] = m[i]
      <4>1. CASE m = a
        BY <4>1, <2>1, <2>6, <2>10, <2>11, <1>a
      <4>2. CASE m # a
        <5>1. m \in Full(t) /\ u.node[m].prefix = t.node[m].prefix
          BY <4>2, <3>1, <2>13
        <5>2. m \in Object
          BY <5>1, <1>0 DEF Full
        <5> QED BY <5>1, <5>2, <1>4, <2>10
      <4> QED BY <4>1, <4>2
    <3>2. ASSUME NEW z \in Object, u.prefix[z].ref_count # 0  PROVE z \in Alive(u) /\ u.node[z].prefix = z
      <4>1. CASE z = a
        BY <4>1, <2>1, <2>6, <2>11
      <4>2. CASE z # a
        <5>1. t.prefix[z].ref_count # 0
          BY <4>2, <3>2, <2>1, <2>10
        <5>2. z \in Alive(t) /\ t.node[z].prefix = z
          BY <5>1, <1>0 DEF Filed
        <5> QED BY <4>2, <5>2, <2>4, <2>6, <2>11
      <4> QED BY <4>1, <4>2
    <3> QED BY <3>1, <3>2 DEF Filed
  <2>15. Full(u) = Full(t) \cup {a}
    <3>1. a \in Full(u)
      BY <2>6, <2>11, <1>1, PatriciaAssumption DEF Full
    <3>2. ASSUME NEW m \in Full(u), m # a  PROVE m \in Full(t)
      BY <3>2, <2>13 DEF Full
    <3>3. ASSUME NEW m \in Full(t)  PROVE m \in Full(u)
      <4>1. m # a
        BY <2>1, <1>4
      <4> QED BY <4>1, <2>4, <2>6, <2>11 DEF Full
    <3> QED BY <3>1, <3>2, <3>3
  <2>16. Sound(u)
    BY <2>11, <2>12, <2>14 DEF Sound
  <2> QED BY <2>15, <2>16 DEF u, w, v, o, a
<1> QED BY <1>6, <1>7, <1>8 DEF LookedUp

(***************************************************************************)
(* patricia_remove.                                                        *)
(***************************************************************************)

\* Whatever pointed to x points to c.
Swapped(t, u, x, c) ==
  LET q == t.node[x].parent
  IN  /\ u \in TreeOf /\ u.broken = t.broken /\ u.prefix = t.prefix
      /\ u.num_active_node = t.num_active_node
      /\ u.head = IF q = Nil THEN c ELSE t.head
      /\ \A m \in Node \ {q} : u.node[m] = t.node[m]
      /\ q # Nil => u.node[q] = WithKid(t.node[q], Side(q, x), c)

LEMMA ReplaceNodes ==
  ASSUME NEW t \in TreeOf, Linked(t), NEW x \in Alive(t), NEW c \in Node \cup {Nil}
  PROVE  Swapped(t, Replace(t, x, c), x, c)
<1> DEFINE q == t.node[x].parent
           u == Replace(t, x, c)
<1>0. /\ x \in Node /\ q \in Node \cup {Nil} /\ (q = Nil => t.head = x)
      /\ q # Nil => (t.node[q].r = x <=> Side(q, x) = 1)
  BY ParentFields
<1>1. /\ u \in TreeOf /\ u.broken = t.broken /\ u.prefix = t.prefix
      /\ u.num_active_node = t.num_active_node
      /\ u.head = IF q = Nil THEN c ELSE t.head
      /\ u.node = IF q = Nil THEN t.node
                  ELSE At(t.node, q, WithKid(t.node[q], IF t.node[q].r = x THEN 1 ELSE 0, c))
  BY <1>0, ReplaceFields
<1> HIDE DEF u
<1>2. ASSUME q # Nil
      PROVE  /\ \A m \in Node \ {q} : u.node[m] = t.node[m]
             /\ u.node[q] = WithKid(t.node[q], Side(q, x), c)
  <2>1. WithKid(t.node[q], IF t.node[q].r = x THEN 1 ELSE 0, c) = WithKid(t.node[q], Side(q, x), c)
    BY <1>0, <1>2 DEF WithKid
  <2>2. u.node = At(t.node, q, WithKid(t.node[q], Side(q, x), c))
    BY <1>1, <1>2, <2>1
  <2>3. q \in Node /\ t.node \in [Node -> NodeOf]
    BY <1>0, <1>2, TreeFields
  <2> HIDE DEF q
  <2> QED BY <2>2, <2>3 DEF At
<1> QED BY <1>1, <1>2 DEF Swapped, u

\* The assertion of patricia_remove holds: a node is a child of the parent it names.
LEMMA UnhookIs ==
  ASSUME NEW t \in TreeOf, Linked(t), NEW x \in Alive(t), NEW c
  PROVE  Unhook(t, x, c) = Replace(t, x, c)
<1> DEFINE q == t.node[x].parent
           h == q # Nil => x \in {t.node[q].l, t.node[q].r}
<1>1. q # Nil => Side(q, x) \in {0, 1} /\ Kid(t, q, Side(q, x)) = x
  BY ParentFields
<1>2. h
  BY <1>1 DEF Kid
<1>3. Asserting(t, h) = [t EXCEPT !.broken = t.broken \/ ~h]
  BY DEF Asserting
<1>4. Unhook(t, x, c) = Replace(Asserting(t, h), x, c)
  BY DEF Unhook
<1> HIDE DEF h
<1>5. (t.broken \/ ~h) = t.broken
  BY <1>2, TreeFields
<1>6. Asserting(t, h) = t
  BY <1>3, <1>5 DEF TreeOf
<1> QED BY <1>4, <1>6

\* x is gone; no other node lost its prefix, nor a child unless x was its child.
Narrowed(t, u, x) ==
  /\ u \in TreeOf /\ u.broken = t.broken /\ u.prefix = t.prefix
  /\ Linked(u) /\ Counted(u) /\ Alive(u) = Alive(t) \ {x}
  /\ \A m \in Alive(u) : u.node[m].prefix = t.node[m].prefix

LEMMA DropLeaf ==
  ASSUME NEW t \in TreeOf, Linked(t), Counted(t), NEW x \in Alive(t), \A z \in {0, 1} : Kid(t, x, z) = Nil
  PROVE  LET u == Delete(Replace(t, x, Nil), x)
         IN  Narrowed(t, u, x) /\ LeafDropped(t, u, x)
<1> DEFINE q == t.node[x].parent
           v == Replace(t, x, Nil)
           u == Delete(v, x)
<1>0. /\ x \in Node /\ q \in Node \cup {Nil} /\ q # x /\ x # Nil /\ (q = Nil => t.head = x)
      /\ q # Nil => q \in Alive(t) /\ q \in Node /\ Side(q, x) \in {0, 1}
  BY ParentFields
<1>1. /\ v \in TreeOf /\ v.broken = t.broken /\ v.prefix = t.prefix
      /\ v.num_active_node = t.num_active_node
      /\ v.head = IF q = Nil THEN Nil ELSE t.head
      /\ \A m \in Node \ {q} : v.node[m] = t.node[m]
      /\ q # Nil => v.node[q] = WithKid(t.node[q], Side(q, x), Nil)
  <2>1. Swapped(t, v, x, Nil)
    BY ReplaceNodes
  <2> QED BY <2>1 DEF Swapped
<1> HIDE DEF v, q
<1>2. /\ u \in TreeOf /\ u.head = v.head /\ u.broken = v.broken /\ u.prefix = v.prefix
      /\ u.num_active_node = v.num_active_node - 1 /\ u.node = At(v.node, x, Free)
  BY <1>0, <1>1, DeleteFields
<1> HIDE DEF u
<1>3. u.node[x] = Free /\ \A m \in Node \ {x} : u.node[m] = v.node[m]
  BY <1>0, <1>1, <1>2, TreeFields DEF At
<1>4. ASSUME q # Nil
      PROVE  /\ Kept(t, u, q) /\ u.node[q].parent = t.node[q].parent /\ OneKid(t, u, q, Side(q, x), Nil)
  <2>1. t.node[q] \in NodeOf /\ u.node[q] = WithKid(t.node[q], Side(q, x), Nil)
    BY <1>0, <1>1, <1>3, <1>4, TreeFields
  <2>s. PICK z \in {0, 1} : z = Side(q, x)
    BY <1>0, <1>4
  <2>2. /\ u.node[q].bit = t.node[q].bit /\ u.node[q].prefix = t.node[q].prefix
        /\ u.node[q].parent = t.node[q].parent
        /\ u.node[q].l = (IF z = 1 THEN t.node[q].l ELSE Nil)
        /\ u.node[q].r = (IF z = 1 THEN Nil ELSE t.node[q].r)
    BY <2>1, <2>s, WithKidFields
  <2> QED BY <2>2, <2>s DEF Kept, OneKid, Kid
<1>5. LeafDropped(t, u, x)
  BY <1>1, <1>2, <1>3, <1>4 DEF LeafDropped, q
<1>6. Linked(u) /\ Alive(u) = Alive(t) \ {x}
  BY <1>2, <1>5, LeafDroppedLinked
<1>7. Counted(u)
  BY <1>1, <1>2, <1>6, CountOneLess
<1>8. \A m \in Alive(u) : u.node[m].prefix = t.node[m].prefix
  <2> SUFFICES ASSUME NEW m \in Alive(u)  PROVE u.node[m].prefix = t.node[m].prefix
    OBVIOUS
  <2>1. m \in Node /\ m # x /\ m # Nil
    BY <1>6, PatriciaAssumption DEF Alive, Object
  <2>2. CASE m = q
    BY <2>1, <2>2, <1>4 DEF Kept
  <2>3. CASE m # q
    BY <2>1, <2>3, <1>1, <1>3
  <2> QED BY <2>2, <2>3
<1>9. Narrowed(t, u, x)
  BY <1>1, <1>2, <1>6, <1>7, <1>8 DEF Narrowed
<1> QED BY <1>5, <1>9 DEF u, v

\* A node with one child goes and its child moves up.
LEMMA TakeOut ==
  ASSUME NEW t \in TreeOf, Linked(t), Counted(t), NEW x \in Alive(t), NEW c \in Alive(t),
         t.node[c].parent = x, \A z \in {0, 1} : Kid(t, x, z) \in {c, Nil},
         NEW q, q = t.node[x].parent
  PROVE  LET u == Delete([Replace(t, x, c) EXCEPT !.node[c].parent = q], x)
         IN  /\ Narrowed(t, u, x)
             /\ \A m \in Alive(u) : \A z \in {0, 1} : Kid(t, m, z) # Nil => Kid(u, m, z) # Nil
<1> DEFINE v == Replace(t, x, c)
           w == SetParent(v, c, q)
           u == Delete(w, x)
<1>0. /\ x \in Node /\ q \in Node \cup {Nil} /\ q # x /\ x # Nil /\ (q = Nil => t.head = x)
      /\ q # Nil => q \in Alive(t) /\ q \in Node /\ Side(q, x) \in {0, 1} /\ Under(q, x)
  BY ParentFields
<1>c. c \in Node /\ c # Nil /\ c # x /\ c # t.head /\ Under(x, c) /\ c # q
  <2>1. c \in Node /\ c # Nil /\ c # x /\ c # t.head /\ Under(x, c)
    BY <1>0, ParentFields
  <2> QED BY <2>1, <1>0, UnderOrder
<1>1. /\ v \in TreeOf /\ v.broken = t.broken /\ v.prefix = t.prefix
      /\ v.num_active_node = t.num_active_node
      /\ v.head = IF q = Nil THEN c ELSE t.head
      /\ \A m \in Node \ {q} : v.node[m] = t.node[m]
      /\ q # Nil => v.node[q] = WithKid(t.node[q], Side(q, x), c)
  <2>1. Swapped(t, v, x, c)
    BY <1>c, ReplaceNodes
  <2> QED BY <2>1 DEF Swapped
<1> HIDE DEF v
<1>2. /\ w \in TreeOf /\ w.head = v.head /\ w.broken = v.broken /\ w.prefix = v.prefix
      /\ w.num_active_node = v.num_active_node
      /\ w.node = At(v.node, c, [v.node[c] EXCEPT !.parent = q])
  <2>1. v \in TreeOf /\ c \in Node /\ q \in Node \cup {Nil}
    BY <1>0, <1>c, <1>1
  <2> HIDE DEF w
  <2>2. w = SetParent(v, c, q)
    BY DEF w
  <2> QED BY <2>1, <2>2, SetParentFields
<1>3. u = Delete([v EXCEPT !.node[c].parent = q], x)
  BY DEF SetParent
<1> HIDE DEF w
<1>4. w.node[c] = [t.node[c] EXCEPT !.parent = q] /\ \A m \in Node \ {c} : w.node[m] = v.node[m]
  BY <1>c, <1>1, <1>2, TreeFields DEF At
<1>5. /\ u \in TreeOf /\ u.head = w.head /\ u.broken = w.broken /\ u.prefix = w.prefix
      /\ u.num_active_node = w.num_active_node - 1 /\ u.node = At(w.node, x, Free)
  BY <1>0, <1>2, DeleteFields
<1> HIDE DEF u
<1>6. u.node[x] = Free /\ \A m \in Node \ {x} : u.node[m] = w.node[m]
  BY <1>0, <1>2, <1>5, TreeFields DEF At
<1>7. Kept(t, u, c) /\ u.node[c].parent = q /\ SameKids(t, u, c)
  <2>1. t.node[c] \in NodeOf /\ u.node[c] = [t.node[c] EXCEPT !.parent = q]
    BY <1>c, <1>4, <1>6, TreeFields
  <2>2. /\ u.node[c].bit = t.node[c].bit /\ u.node[c].prefix = t.node[c].prefix
        /\ u.node[c].parent = q /\ u.node[c].l = t.node[c].l /\ u.node[c].r = t.node[c].r
    BY <2>1, WithParentFields
  <2> QED BY <2>2 DEF Kept, SameKids, Kid
<1>8. ASSUME q # Nil
      PROVE  /\ Kept(t, u, q) /\ u.node[q].parent = t.node[q].parent /\ OneKid(t, u, q, Side(q, x), c)
  <2>1. t.node[q] \in NodeOf /\ u.node[q] = WithKid(t.node[q], Side(q, x), c)
    BY <1>0, <1>c, <1>1, <1>4, <1>6, <1>8, TreeFields
  <2>s. PICK z \in {0, 1} : z = Side(q, x)
    BY <1>0, <1>8
  <2>2. /\ u.node[q].bit = t.node[q].bit /\ u.node[q].prefix = t.node[q].prefix
        /\ u.node[q].parent = t.node[q].parent
        /\ u.node[q].l = (IF z = 1 THEN t.node[q].l ELSE c)
        /\ u.node[q].r = (IF z = 1 THEN c ELSE t.node[q].r)
    BY <2>1, <2>s, WithKidFields
  <2> QED BY <2>2, <2>s DEF Kept, OneKid, Kid
<1>9. \A m \in Node \ {c, x, q} : u.node[m] = t.node[m]
  BY <1>1, <1>4, <1>6
<1>10. SplicedOut(t, u, c, x)
  BY <1>1, <1>2, <1>5, <1>6, <1>7, <1>8, <1>9 DEF SplicedOut
<1>11. Linked(u) /\ Alive(u) = Alive(t) \ {x}
  BY <1>c, <1>5, <1>10, SplicedOutLinked
<1>12. Counted(u)
  <2>1. u.num_active_node = t.num_active_node - 1
    BY <1>1, <1>2, <1>5
  <2> QED BY <2>1, <1>5, <1>11, CountOneLess
<1>13. ASSUME NEW m \in Alive(u)
       PROVE  /\ u.node[m].prefix = t.node[m].prefix
              /\ \A z \in {0, 1} : Kid(t, m, z) # Nil => Kid(u, m, z) # Nil
  <2>1. m \in Node /\ m # x /\ m # Nil
    BY <1>11, PatriciaAssumption DEF Alive, Object
  <2>2. CASE m = q
    <3>0. q # Nil
      BY <2>1, <2>2
    <3>1. PICK k \in {0, 1} : k = Side(q, x)
      BY <3>0, <1>0
    <3>2. Kid(u, q, k) = c /\ Kid(u, q, 1 - k) = Kid(t, q, 1 - k) /\ u.node[q].prefix = t.node[q].prefix
      BY <3>0, <3>1, <1>8 DEF OneKid, Kept
    <3>3. \A z \in {0, 1} : z = k \/ z = 1 - k
      OBVIOUS
    <3> QED BY <2>2, <3>2, <3>3, <1>c
  <2>3. CASE m = c
    BY <2>3, <1>7 DEF Kept, SameKids
  <2>4. CASE m # q /\ m # c
    BY <2>1, <2>4, <1>9 DEF Kid
  <2> QED BY <2>2, <2>3, <2>4
<1>14. Narrowed(t, u, x)
  BY <1>1, <1>2, <1>5, <1>11, <1>12, <1>13 DEF Narrowed
<1> HIDE DEF Narrowed
<1> QED BY <1>3, <1>13, <1>14 DEF v

\* n has lost its prefix, and is gone where it is not needed to hold two children; a parent
\* that had no prefix may be gone too.
Shrunk(t, u, n) ==
  /\ u \in TreeOf /\ u.broken = t.broken /\ u.prefix = t.prefix /\ Linked(u) /\ Needed(u) /\ Counted(u)
  /\ Alive(u) \subseteq Alive(t) /\ (n \in Alive(u) => u.node[n].prefix = Nil)
  /\ \A m \in Alive(u) : m # n => u.node[m].prefix = t.node[m].prefix
  /\ \A m \in Alive(t) : m # n /\ t.node[m].prefix # Nil => m \in Alive(u)

LEMMA PrefixTaken ==
  ASSUME NEW t \in TreeOf, Linked(t), Needed(t), Counted(t), NEW n \in Alive(t),
         \A z \in {0, 1} : Kid(t, n, z) # Nil
  PROVE  Shrunk(t, [t EXCEPT !.node[n].prefix = Nil], n)
<1> DEFINE u == [t EXCEPT !.node[n].prefix = Nil]
<1>1. Relabelled(t, u, n, Nil)
  BY PrefixSet
<1> HIDE DEF u
<1>2. Needed(u)
  BY <1>1 DEF Needed, Relabelled
<1>3. Shrunk(t, u, n)
  BY <1>1, <1>2 DEF Relabelled, Shrunk
<1> QED BY <1>3 DEF u

LEMMA NodeTakenOut ==
  ASSUME NEW t \in TreeOf, Linked(t), Needed(t), Counted(t), NEW n \in Alive(t), NEW c,
         c \in Alive(t), t.node[c].parent = n, \A z \in {0, 1} : Kid(t, n, z) \in {c, Nil}
  PROVE  Shrunk(t, Delete([Replace(t, n, c) EXCEPT !.node[c].parent = t.node[n].parent], n), n)
<1> DEFINE u == Delete([Replace(t, n, c) EXCEPT !.node[c].parent = t.node[n].parent], n)
<1>1. /\ Narrowed(t, u, n)
      /\ \A m \in Alive(u) : \A z \in {0, 1} : Kid(t, m, z) # Nil => Kid(u, m, z) # Nil
  BY TakeOut
<1> HIDE DEF u
<1>2. Needed(u)
  BY <1>1 DEF Needed, Narrowed
<1>3. Shrunk(t, u, n)
  BY <1>1, <1>2 DEF Narrowed, Shrunk
<1> QED BY <1>3 DEF u

LEMMA LeafTaken ==
  ASSUME NEW t \in TreeOf, Linked(t), Needed(t), Counted(t), NEW n \in Alive(t),
         \A z \in {0, 1} : Kid(t, n, z) = Nil
  PROVE  Shrunk(t, RemoveLeaf(t, n), n)
<1> DEFINE q == t.node[n].parent
           u == Delete(Replace(t, n, Nil), n)
           c == IF t.node[q].r = n THEN t.node[q].l ELSE t.node[q].r
           f == RemoveLeaf(t, n)
<1>0. /\ n \in Node /\ q \in Node \cup {Nil} /\ n # Nil /\ (q = Nil <=> n = t.head)
      /\ q # Nil => /\ q \in Alive(t) /\ q \in Node /\ q # n /\ Side(q, n) \in {0, 1}
                    /\ Kid(t, q, Side(q, n)) = n /\ (t.node[q].r = n <=> Side(q, n) = 1)
  BY ParentFields
<1>1. Narrowed(t, u, n) /\ LeafDropped(t, u, n)
  BY DropLeaf
<1>2. f = IF q = Nil \/ t.node[q].prefix # Nil THEN u
          ELSE IF c = Nil THEN [u EXCEPT !.broken = TRUE]
          ELSE Delete([Unhook(u, q, c) EXCEPT !.node[c].parent = t.node[q].parent], q)
  <2>1. Unhook(t, n, Nil) = Replace(t, n, Nil)
    BY UnhookIs
  <2> QED BY <2>1 DEF RemoveLeaf
<1> HIDE DEF u, f, q
<1>3. /\ u \in TreeOf /\ u.broken = t.broken /\ u.prefix = t.prefix
      /\ Linked(u) /\ Counted(u) /\ Alive(u) = Alive(t) \ {n}
      /\ \A m \in Alive(u) : m \in Node /\ u.node[m].prefix = t.node[m].prefix
  BY <1>1 DEF Narrowed, Alive
<1>4. /\ u.head = IF q = Nil THEN Nil ELSE t.head
      /\ \A m \in Node \ {n, q} : u.node[m] = t.node[m]
      /\ q # Nil => u.node[q].parent = t.node[q].parent /\ OneKid(t, u, q, Side(q, n), Nil)
  BY <1>1 DEF LeafDropped, q
<1>5. \A m \in Alive(u) : m # q => \A z \in {0, 1} : Kid(u, m, z) = Kid(t, m, z)
  BY <1>3, <1>4 DEF Kid
<1>6. CASE q = Nil \/ t.node[q].prefix # Nil
  <2>1. Needed(u)
    <3> SUFFICES ASSUME NEW m \in Alive(u), u.node[m].prefix = Nil, NEW z \in {0, 1}  PROVE Kid(u, m, z) # Nil
      BY DEF Needed
    <3>1. m \in Alive(t) /\ m # Nil /\ t.node[m].prefix = Nil
      BY <1>3, PatriciaAssumption DEF Object
    <3>2. m # q
      BY <3>1, <1>6
    <3>3. Kid(u, m, z) = Kid(t, m, z)
      BY <3>2, <1>5
    <3> QED BY <3>1, <3>3 DEF Needed
  <2>2. Shrunk(t, u, n)
    BY <2>1, <1>3 DEF Shrunk
  <2>3. f = u
    BY <1>2, <1>6
  <2> QED BY <2>2, <2>3 DEF f
<1>7. CASE q # Nil /\ t.node[q].prefix = Nil
  <2>1. PICK k \in {0, 1} : k = Side(q, n)
    BY <1>0, <1>7
  <2>2. q \in Alive(t) /\ q \in Node /\ q # n /\ q \in Alive(u)
    BY <1>0, <1>3, <1>7
  <2>3. c = Kid(t, q, 1 - k)
    BY <2>1, <1>0, <1>7 DEF Kid
  <2> HIDE DEF c
  <2>4. Kid(t, q, 1 - k) # Nil /\ 1 - k \in {0, 1}
    BY <2>2, <1>7 DEF Needed
  <2>5. c # Nil /\ c \in Alive(t) /\ t.node[c].parent = q /\ c # t.head /\ c[Len(q) + 1] = 1 - k /\ c \in Node
    BY <2>2, <2>3, <2>4 DEF Linked, Alive
  <2>6. c # n
    BY <2>1, <2>5 DEF Side
  <2>7. c # q
    <3>1. Under(q, c)
      BY <2>2, <2>3, <2>4 DEF Linked
    <3> QED BY <3>1, <2>2, UnderOrder
  <2>8. c \in Alive(u) /\ u.node[c].parent = q
    BY <2>5, <2>6, <2>7, <1>3, <1>4
  <2>9. \A z \in {0, 1} : Kid(u, q, z) \in {c, Nil}
    <3>1. Kid(u, q, k) = Nil /\ Kid(u, q, 1 - k) = c
      BY <2>1, <2>3, <1>4, <1>7 DEF OneKid
    <3>2. \A z \in {0, 1} : z = k \/ z = 1 - k
      OBVIOUS
    <3> QED BY <3>1, <3>2
  <2>10. f = Delete([Replace(u, q, c) EXCEPT !.node[c].parent = t.node[q].parent], q)
    <3>1. Unhook(u, q, c) = Replace(u, q, c)
      BY <2>2, <1>3, UnhookIs
    <3> QED BY <3>1, <1>2, <1>7, <2>5
  <2>11. t.node[q].parent = u.node[q].parent
    BY <1>4, <1>7
  <2>12. /\ Narrowed(u, f, q)
         /\ \A m \in Alive(f) : \A z \in {0, 1} : Kid(u, m, z) # Nil => Kid(f, m, z) # Nil
    BY <2>2, <2>8, <2>9, <2>10, <2>11, <1>3, TakeOut
  <2>13. /\ f \in TreeOf /\ f.broken = t.broken /\ f.prefix = t.prefix
         /\ Linked(f) /\ Counted(f) /\ Alive(f) = (Alive(t) \ {n}) \ {q}
         /\ \A m \in Alive(f) : f.node[m].prefix = t.node[m].prefix
    BY <2>12, <1>3 DEF Narrowed
  <2>14. Needed(f)
    <3> SUFFICES ASSUME NEW m \in Alive(f), f.node[m].prefix = Nil, NEW z \in {0, 1}  PROVE Kid(f, m, z) # Nil
      BY DEF Needed
    <3>1. m \in Alive(t) /\ m \in Alive(u) /\ m # q /\ t.node[m].prefix = Nil
      BY <2>13, <1>3
    <3>2. Kid(u, m, z) = Kid(t, m, z) /\ Kid(t, m, z) # Nil
      BY <3>1, <1>5 DEF Needed
    <3> QED BY <3>2, <2>12
  <2>15. \A m \in Alive(t) : m # n /\ t.node[m].prefix # Nil => m \in Alive(f)
    BY <2>13, <1>7
  <2>16. Shrunk(t, f, n)
    BY <2>13, <2>14, <2>15 DEF Shrunk
  <2> QED BY <2>16 DEF f
<1> QED BY <1>6, <1>7

\* What patricia_remove leaves of a sound tree is sound, and has one prefix less.
LEMMA RemoveSound ==
  ASSUME NEW t, Sound(t), NEW n \in Full(t)
  PROVE  Sound(patricia_remove(t, n)) /\ Full(patricia_remove(t, n)) = Full(t) \ {n}
<1> DEFINE u == Deref_Prefix(t, t.node[n].prefix)
           f == patricia_remove(t, n)
           l == t.node[n].l
           r == t.node[n].r
           c == IF r # Nil THEN r ELSE l
<1>0. /\ t \in TreeOf /\ ~t.broken /\ Linked(t) /\ Needed(t) /\ Filed(t) /\ Counted(t)
      /\ n \in Alive(t) /\ n \in Node /\ n \in Object /\ t.node[n].prefix # Nil
  BY DEF Sound, Full, Alive, Object
<1>1. t.node[n].prefix = n /\ t.prefix[n].ref_count = 1
  BY <1>0 DEF Filed
<1>2. /\ PrefixesOnly(t, u)
      /\ u.prefix = At(t.prefix, n, NoPrefix)
  <2>1. t.prefix[n].ref_count # 0 /\ u = Deref_Prefix(t, n)
    BY <1>1
  <2>2. /\ PrefixesOnly(t, Deref_Prefix(t, n))
        /\ Deref_Prefix(t, n).prefix =
             At(t.prefix, n, IF t.prefix[n].ref_count = 1 THEN NoPrefix
                             ELSE [t.prefix[n] EXCEPT !.ref_count = t.prefix[n].ref_count - 1])
    BY <1>0, <2>1, DerefFields
  <2> HIDE DEF u
  <2> QED BY <2>1, <2>2, <1>1
<1>3. f = IF l # Nil /\ r # Nil THEN [u EXCEPT !.node[n].prefix = Nil]
          ELSE IF l = Nil /\ r = Nil THEN RemoveLeaf(u, n)
          ELSE Delete([Unhook(u, n, c) EXCEPT !.node[c].parent = t.node[n].parent], n)
  BY DEF patricia_remove
<1> HIDE DEF u, f
<1>4. /\ u \in TreeOf /\ u.node = t.node /\ ~u.broken /\ Alive(u) = Alive(t)
      /\ Linked(u) /\ Needed(u) /\ Counted(u)
  <2>1. u \in TreeOf /\ u.node = t.node /\ ~u.broken /\ u.num_active_node = t.num_active_node
    BY <1>0, <1>2 DEF PrefixesOnly
  <2>2. Alive(u) = Alive(t) /\ Linked(u) /\ Needed(u)
    BY <1>0, <1>2, SameShape
  <2> QED BY <2>1, <2>2, <1>0 DEF Counted
<1>5. Kid(u, n, 0) = l /\ Kid(u, n, 1) = r
  BY <1>4 DEF Kid
<1>6. Shrunk(u, f, n)
  <2>1. CASE l # Nil /\ r # Nil
    <3>1. f = [u EXCEPT !.node[n].prefix = Nil] /\ \A z \in {0, 1} : Kid(u, n, z) # Nil
      BY <2>1, <1>3, <1>5
    <3> QED BY <3>1, <1>0, <1>4, PrefixTaken
  <2>2. CASE l = Nil /\ r = Nil
    <3>1. f = RemoveLeaf(u, n) /\ \A z \in {0, 1} : Kid(u, n, z) = Nil
      BY <2>2, <1>3, <1>5
    <3> QED BY <3>1, <1>0, <1>4, LeafTaken
  <2>3. CASE ~(l # Nil /\ r # Nil) /\ ~(l = Nil /\ r = Nil)
    <3>0. Unhook(u, n, c) = Replace(u, n, c)
      BY <1>0, <1>4, UnhookIs
    <3>1. f = Delete([Replace(u, n, c) EXCEPT !.node[c].parent = u.node[n].parent], n)
      BY <2>3, <3>0, <1>3, <1>4
    <3>2. c # Nil /\ (c = Kid(u, n, 0) \/ c = Kid(u, n, 1)) /\ \A z \in {0, 1} : Kid(u, n, z) \in {c, Nil}
      BY <2>3, <1>5
    <3> HIDE DEF c
    <3>3. c \in Alive(u) /\ u.node[c].parent = n
      BY <3>2, <1>0, <1>4 DEF Linked
    <3> QED BY <3>1, <3>2, <3>3, <1>0, <1>4, NodeTakenOut
  <2> QED BY <2>1, <2>2, <2>3
<1>7. /\ f \in TreeOf /\ ~f.broken /\ f.prefix = u.prefix /\ Linked(f) /\ Needed(f) /\ Counted(f)
      /\ Alive(f) \subseteq Alive(t) /\ (n \in Alive(f) => f.node[n].prefix = Nil)
      /\ \A m \in Alive(f) : m # n => f.node[m].prefix = t.node[m].prefix
      /\ \A m \in Alive(t) : m # n /\ t.node[m].prefix # Nil => m \in Alive(f)
  BY <1>4, <1>6 DEF Shrunk
<1>8. f.prefix[n] = NoPrefix /\ \A z \in Object \ {n} : f.prefix[z] = t.prefix[z]
  BY <1>0, <1>2, <1>7, TreeFields DEF At
<1>9. Filed(f)
  <2>1. ASSUME NEW m \in Alive(f), f.node[m].prefix # Nil
        PROVE  /\ f.node[m].prefix = m /\ f.prefix[m].ref_count = 1 /\ f.prefix[m].bitlen = Len(m)
               /\ \A i \in 1 .. Len(m) : f.prefix[m].add[i] = m[i]
    <3>1. m # n /\ m \in Alive(t) /\ f.node[m].prefix = t.node[m].prefix /\ m \in Object
      BY <2>1, <1>7 DEF Alive, Object
    <3>2. f.prefix[m] = t.prefix[m]
      BY <3>1, <1>8
    <3> QED BY <3>1, <3>2, <2>1, <1>0 DEF Filed
  <2>2. ASSUME NEW z \in Object, f.prefix[z].ref_count # 0  PROVE z \in Alive(f) /\ f.node[z].prefix = z
    <3>1. z # n
      BY <2>2, <1>8 DEF NoPrefix
    <3>2. z \in Alive(t) /\ t.node[z].prefix = z
      BY <3>1, <2>2, <1>0, <1>8 DEF Filed
    <3>3. z # Nil
      BY PatriciaAssumption
    <3> QED BY <3>1, <3>2, <3>3, <1>7
  <2> QED BY <2>1, <2>2 DEF Filed
<1>10. Full(f) = Full(t) \ {n}
  BY <1>7 DEF Full
<1> QED BY <1>7, <1>9, <1>10 DEF Sound, f

(***************************************************************************)
(* patricia_search_exact.                                                  *)
(***************************************************************************)

LEMMA DescentIsSeq ==
  ASSUME NEW t \in TreeOf, Linked(t), NEW p, p.add \in Bits, p.bitlen \in 0 .. maxbits
  PROVE  Descent(t, p) \in Seq(Node)
<1> DEFINE D == Node \cup {Nil}
           S == Seq(Node)
           m == [n \in D |-> IF n = Nil THEN 0 ELSE IF n \in Alive(t) THEN 2 + maxbits - Len(n) ELSE 1]
           base == {n \in D : n = Nil \/ t.node[n].bit >= p.bitlen}
           init == [n \in D |-> IF n = Nil THEN << >> ELSE <<n>>]
           go(n) == Child(t, n, Bit(p, t.node[n].bit) = 1)
           nxt == [n \in D |-> IF n \in base THEN n ELSE go(n)]
           step == [n \in D |-> [s \in S |-> IF n = Nil THEN s ELSE <<n>> \o s]]
           F(f) == [n \in D |->
                      IF n = Nil THEN << >>
                      ELSE IF t.node[n].bit >= p.bitlen THEN <<n>>
                      ELSE <<n>> \o f[Child(t, n, Bit(p, t.node[n].bit) = 1)]]
           G(f) == [n \in D |-> IF n \in base THEN init[n] ELSE step[n][f[nxt[n]]]]
           down == CHOOSE f : f = F(f)
<1>0. /\ \A n \in Node : Len(n) \in Nat /\ Len(n) <= maxbits /\ maxbits \in Nat
      /\ Nil \notin Node
  BY NodeFacts, PatriciaAssumption DEF Object
<1>1. m \in [D -> Nat]
  BY <1>0
<1>2. init \in [D -> S] /\ step \in [D -> [S -> S]]
  <2>1. \A n \in Node : \A s \in S : <<n>> \o s \in S
    BY ConcatProperties
  <2>2. \A n \in Node : <<n>> \in S
    OBVIOUS
  <2>3. << >> \in S
    OBVIOUS
  <2> HIDE DEF S
  <2> QED BY <1>0, <2>1, <2>2, <2>3
<1>3. ASSUME NEW n \in D, n \notin base  PROVE go(n) \in D /\ m[go(n)] < m[n]
  <2>1. n \in Node /\ t.node[n].bit < p.bitlen /\ n # Nil
    BY <1>3, TreeFields, PatriciaAssumption
  <2>2. go(n) = Kid(t, n, 0) \/ go(n) = Kid(t, n, 1)
    BY DEF Child, Kid
  <2>3. Kid(t, n, 0) \in D /\ Kid(t, n, 1) \in D
    BY <2>1, TreeFields DEF Kid
  <2> HIDE DEF go
  <2>4. CASE go(n) = Nil
    <3>1. m[Nil] = 0 /\ m[n] > 0
      BY <2>1, <1>0
    <3> QED BY <3>1, <2>2, <2>3, <2>4
  <2>5. CASE go(n) # Nil
    <3>1. n \in Alive(t)
      <4>1. n \notin Alive(t) => Kid(t, n, 0) = Nil /\ Kid(t, n, 1) = Nil
        BY <2>1, FreeFields DEF Alive, Kid
      <4> QED BY <4>1, <2>2, <2>5
    <3>2. go(n) \in Alive(t) /\ Under(n, go(n))
      BY <2>2, <2>5, <3>1 DEF Linked
    <3>3. go(n) \in Node /\ Len(n) < Len(go(n))
      BY <3>2 DEF Alive, Under
    <3>4. m[go(n)] = 2 + maxbits - Len(go(n)) /\ m[n] = 2 + maxbits - Len(n)
      BY <2>1, <2>5, <3>1, <3>2, <3>3
    <3> HIDE DEF m
    <3> QED BY <3>3, <3>4, <2>1, <1>0
  <2> QED BY <2>4, <2>5
<1>4. nxt \in [D -> D] /\ \A n \in D : n \notin base => m[nxt[n]] < m[n]
  <2> HIDE DEF m, base, go
  <2> QED BY <1>3
<1>5. Recursion(D, S, m, base, init, nxt, step)
  <2> HIDE DEF D, S, m, base, init, nxt, step
  <2> QED BY <1>1, <1>2, <1>4 DEF Recursion
<1>6. ASSUME NEW f, NEW n \in D, f[nxt[n]] \in S  PROVE F(f)[n] = G(f)[n]
  <2> HIDE DEF S
  <2> QED BY <1>6, <1>0
<1>7. \E f : f = F(f)
  <2>1. PICK f \in [D -> S] : Solves(f, D, base, init, nxt, step)
    <3> HIDE DEF D, S, m, base, init, nxt, step
    <3> QED BY <1>5, SolutionExists
  <2>2. f = G(f)
    <3> HIDE DEF D, S, base, init, nxt, step
    <3> QED BY <2>1 DEF Solves
  <2>3. \A n \in D : F(f)[n] = G(f)[n]
    <3> HIDE DEF D, S, F, G, nxt
    <3> QED BY <1>4, <1>6, <2>1
  <2>4. F(f) = [n \in D |-> F(f)[n]]
    <3> DEFINE b(n) == IF n = Nil THEN << >>
                       ELSE IF t.node[n].bit >= p.bitlen THEN <<n>>
                       ELSE <<n>> \o f[Child(t, n, Bit(p, t.node[n].bit) = 1)]
    <3>1. F(f) = [n \in D |-> b(n)]
      <4> HIDE DEF D
      <4> QED OBVIOUS
    <3> HIDE DEF b, D, F
    <3> QED BY <3>1
  <2>5. G(f) = [n \in D |-> G(f)[n]]
    <3> HIDE DEF D, base, init, step, nxt
    <3> QED OBVIOUS
  <2>6. F(f) = G(f)
    <3> HIDE DEF F, G, D
    <3> QED BY <2>3, <2>4, <2>5
  <2> HIDE DEF F, G
  <2> QED BY <2>2, <2>6
<1>8. down = F(down)
  <2> HIDE DEF F
  <2> QED BY <1>7
<1> HIDE DEF down
<1>9. \A n \in D : down[n] \in S
  <2> DEFINE H == {n \in D : down[n] \in S}
  <2>1. ASSUME NEW n \in D, \A k \in D : m[k] < m[n] => k \in H  PROVE n \in H
    <3>1. CASE n \in base
      <4>1. down[n] = init[n]
        BY <3>1, <1>8
      <4> HIDE DEF init, S
      <4> QED BY <4>1, <1>2
    <3>2. CASE n \notin base
      <4>1. nxt[n] \in D /\ m[nxt[n]] < m[n]
        <5> HIDE DEF m, nxt, base
        <5> QED BY <3>2, <1>4
      <4>2. down[nxt[n]] \in S
        <5> HIDE DEF m, nxt
        <5> QED BY <4>1, <2>1
      <4>3. F(down)[n] = G(down)[n]
        <5> HIDE DEF F, G, nxt, S
        <5> QED BY <4>2, <1>6
      <4>4. G(down)[n] = step[n][down[nxt[n]]]
        <5> HIDE DEF step, nxt
        <5> QED BY <3>2
      <4>5. down[n] = step[n][down[nxt[n]]]
        <5> HIDE DEF F, G, step, nxt
        <5> QED BY <4>3, <4>4, <1>8
      <4>6. step[n][down[nxt[n]]] \in S
        <5> HIDE DEF step, nxt, S, D
        <5> QED BY <4>2, <1>2
      <4> HIDE DEF step, nxt, S
      <4> QED BY <4>5, <4>6
    <3> QED BY <3>1, <3>2
  <2>2. H \in SUBSET D
    OBVIOUS
  <2>3. Hereditary(D, m, H)
    <3> HIDE DEF H, m, D
    <3> QED BY <2>1 DEF Hereditary
  <2>4. H = D
    <3> HIDE DEF H, m, D
    <3> QED BY <1>1, <2>2, <2>3, MeasureInduction
  <2> HIDE DEF S, D
  <2> QED BY <2>4
<1>10. Descent(t, p) = down[t.head]
  BY DEF Descent, down
<1>11. t.head \in D
  BY TreeFields
<1> HIDE DEF D
<1> QED BY <1>9, <1>10, <1>11

\* An exact search finds a node with a prefix, if anything.
LEMMA ExactFinds ==
  ASSUME NEW t \in TreeOf, Linked(t), NEW p, p.add \in Bits, p.bitlen \in 0 .. maxbits,
         patricia_search_exact(t, p) # Nil
  PROVE  patricia_search_exact(t, p) \in Full(t)
<1> DEFINE s == Descent(t, p)
           n == patricia_search_exact(t, p)
<1>1. s \in Seq(Node)
  BY DescentIsSeq
<1> HIDE DEF s
<1>2. s # << >> /\ n = Last(s) /\ t.node[n].prefix # Nil
  BY DEF patricia_search_exact, s
<1>3. n \in Node
  <2>1. Len(s) \in 1 .. Len(s)
    BY <1>1, <1>2, EmptySeq
  <2> QED BY <1>1, <1>2, <2>1, ElementOfSeq DEF Last
<1>4. n \in Alive(t)
  BY <1>2, <1>3, FreeFields DEF Alive
<1> HIDE DEF n
<1>5. n \in Full(t)
  BY <1>2, <1>4 DEF Full
<1> QED BY <1>5 DEF n

(***************************************************************************)
(* PATRICIA_WALK visits every node once.                                   *)
(***************************************************************************)

Pushes(t, n) == Pushed(t.node[n].r) \o Pushed(t.node[n].l)
Popped(t, s) == Front(s) \o Pushes(t, Last(s))

\* e lists the children of n, each on a side of its own.
Sides(t, n, e, side) ==
  /\ \A i \in 1 .. Len(e) : side[i] \in {0, 1} /\ Kid(t, n, side[i]) # Nil /\ e[i] = Kid(t, n, side[i])
  /\ \A i, j \in 1 .. Len(e) : side[i] = side[j] => i = j
  /\ \A z \in {0, 1} : Kid(t, n, z) # Nil => \E i \in 1 .. Len(e) : side[i] = z

LEMMA PushesFacts ==
  ASSUME NEW t \in TreeOf, NEW n \in Node
  PROVE  Pushes(t, n) \in Seq(Node) /\ \E side : Sides(t, n, Pushes(t, n), side)
<1> DEFINE l == t.node[n].l
           r == t.node[n].r
           e == Pushes(t, n)
<1>0. Kid(t, n, 0) = l /\ Kid(t, n, 1) = r /\ l \in Node \cup {Nil} /\ r \in Node \cup {Nil}
  BY TreeFields DEF Kid
<1>e. e = (IF r = Nil THEN << >> ELSE <<r>>) \o (IF l = Nil THEN << >> ELSE <<l>>)
  BY DEF Pushes, Pushed
<1> HIDE DEF l, r, e
<1>1. CASE r = Nil /\ l = Nil
  <2>1. e = << >> /\ Len(e) = 0
    BY <1>e, <1>1
  <2>2. Sides(t, n, e, << >>)
    BY <2>1, <1>0, <1>1 DEF Sides
  <2>3. e \in Seq(Node)
    BY <2>1
  <2> QED BY <2>2, <2>3 DEF e
<1>2. CASE r # Nil /\ l = Nil
  <2>1. e = <<r>> /\ Len(e) = 1 /\ e[1] = r /\ r \in Node
    BY <1>e, <1>0, <1>2
  <2>2. Sides(t, n, e, <<1>>)
    <3>1. \A i \in 1 .. Len(e) : i = 1
      BY <2>1
    <3> QED BY <3>1, <2>1, <1>0, <1>2 DEF Sides
  <2>3. e \in Seq(Node)
    BY <2>1
  <2> QED BY <2>2, <2>3 DEF e
<1>3. CASE r = Nil /\ l # Nil
  <2>1. e = <<l>> /\ Len(e) = 1 /\ e[1] = l /\ l \in Node
    BY <1>e, <1>0, <1>3
  <2>2. Sides(t, n, e, <<0>>)
    <3>1. \A i \in 1 .. Len(e) : i = 1
      BY <2>1
    <3> QED BY <3>1, <2>1, <1>0, <1>3 DEF Sides
  <2>3. e \in Seq(Node)
    BY <2>1
  <2> QED BY <2>2, <2>3 DEF e
<1>4. CASE r # Nil /\ l # Nil
  <2>1. e \in Seq(Node) /\ Len(e) = 2 /\ e[1] = r /\ e[2] = l /\ r \in Node /\ l \in Node
    <3>1. r \in Node /\ l \in Node /\ e = <<r>> \o <<l>>
      BY <1>e, <1>0, <1>4
    <3>2. <<r>> \in Seq(Node) /\ <<l>> \in Seq(Node) /\ Len(<<r>>) = 1 /\ Len(<<l>>) = 1
      BY <3>1
    <3>3. /\ e \in Seq(Node) /\ Len(e) = Len(<<r>>) + Len(<<l>>)
          /\ \A i \in 1 .. Len(<<r>>) + Len(<<l>>) :
               e[i] = IF i <= Len(<<r>>) THEN <<r>>[i] ELSE <<l>>[i - Len(<<r>>)]
      BY <3>1, <3>2, ConcatProperties
    <3>4. Len(e) = 2 /\ e[1] = <<r>>[1] /\ e[2] = <<l>>[1]
      BY <3>2, <3>3
    <3> QED BY <3>1, <3>3, <3>4
  <2>2. Sides(t, n, e, <<1, 0>>)
    <3>1. \A i \in 1 .. Len(e) : i = 1 \/ i = 2
      BY <2>1
    <3>2. 1 \in 1 .. Len(e) /\ 2 \in 1 .. Len(e) /\ <<1, 0>>[1] = 1 /\ <<1, 0>>[2] = 0
      BY <2>1
    <3> QED BY <3>1, <3>2, <2>1, <1>0, <1>4 DEF Sides
  <2> QED BY <2>1, <2>2 DEF e
<1> QED BY <1>1, <1>2, <1>3, <1>4

LEMMA PoppedFacts ==
  ASSUME NEW t \in TreeOf, NEW s \in Seq(Node), s # << >>
  PROVE  LET k == Len(s)
             u == Popped(t, s)
         IN  /\ k \in Nat \ {0} /\ s[k] \in Node /\ Last(s) = s[k] /\ u \in Seq(Node)
             /\ Len(u) = k - 1 + Len(Pushes(t, s[k]))
             /\ \A i \in 1 .. k - 1 : u[i] = s[i]
             /\ \A i \in k .. Len(u) : i - k + 1 \in 1 .. Len(Pushes(t, s[k])) /\ u[i] = Pushes(t, s[k])[i - k + 1]
<1> DEFINE k == Len(s)
           u == Popped(t, s)
           e == Pushes(t, s[k])
           w == SubSeq(s, 1, k - 1)
<1>1. k \in Nat \ {0} /\ s[k] \in Node /\ Last(s) = s[k]
  BY EmptySeq, ElementOfSeq DEF Last
<1>2. e \in Seq(Node) /\ Len(e) \in Nat
  BY <1>1, PushesFacts
<1>3. w \in Seq(Node) /\ Len(w) = k - 1 /\ \A i \in 1 .. k - 1 : w[i] = s[i]
  <2>1. \A i \in 1 .. k - 1 : s[i] \in Node
    BY <1>1
  <2>2. 1 \in Int /\ k - 1 \in Int /\ (1 <= k - 1 \/ k - 1 = 0)
    <3> HIDE DEF k
    <3> QED BY <1>1
  <2>3. /\ SubSeq(s, 1, k - 1) \in Seq(Node)
        /\ Len(SubSeq(s, 1, k - 1)) = IF 1 <= k - 1 THEN (k - 1) - 1 + 1 ELSE 0
        /\ \A i \in 1 .. (k - 1) - 1 + 1 : SubSeq(s, 1, k - 1)[i] = s[1 + i - 1]
    BY <1>1, <2>1, <2>2, SubSeqProperties
  <2> QED BY <1>1, <2>2, <2>3
<1>4. u = w \o e
  BY <1>1 DEF Popped, Front
<1> HIDE DEF u, e, w, k
<1>5. /\ u \in Seq(Node) /\ Len(u) = k - 1 + Len(e)
      /\ \A i \in 1 .. k - 1 + Len(e) : u[i] = IF i <= k - 1 THEN w[i] ELSE e[i - (k - 1)]
  <2>1. /\ u \in Seq(Node) /\ Len(u) = Len(w) + Len(e)
        /\ \A i \in 1 .. Len(w) + Len(e) : u[i] = IF i <= Len(w) THEN w[i] ELSE e[i - Len(w)]
    BY <1>2, <1>3, <1>4, ConcatProperties
  <2>2. Len(w) = k - 1
    BY <1>3
  <2> QED BY <2>1, <2>2
<1>6. ASSUME NEW i \in 1 .. k - 1  PROVE u[i] = s[i]
  <2>1. i \in 1 .. k - 1 + Len(e) /\ i <= k - 1
    BY <1>1, <1>2
  <2> QED BY <2>1, <1>3, <1>5
<1>7. ASSUME NEW i \in k .. Len(u)  PROVE i - k + 1 \in 1 .. Len(e) /\ u[i] = e[i - k + 1]
  <2>1. i \in 1 .. k - 1 + Len(e) /\ ~(i <= k - 1) /\ i - (k - 1) = i - k + 1 /\ i - k + 1 \in 1 .. Len(e)
    BY <1>1, <1>2, <1>5
  <2> QED BY <2>1, <1>5
<1> QED BY <1>1, <1>5, <1>6, <1>7 DEF u, e, k

\* m is x or lies below it.
Owns(t, x, m) == m = x \/ (x \in Alive(t) /\ m \in Alive(t) /\ Under(x, m))

LEMMA OwnsSplit ==
  ASSUME NEW t \in TreeOf, Linked(t), NEW n \in Node
  PROVE  /\ \A z \in {0, 1} : Kid(t, n, z) # Nil =>
              /\ Kid(t, n, z) \in Alive(t)
              /\ \A m \in Node : Owns(t, Kid(t, n, z), m) =>
                   m # n /\ m \in Alive(t) /\ n \in Alive(t) /\ Under(n, m) /\ m[Len(n) + 1] = z
         /\ \A m \in Node : Owns(t, n, m) /\ m # n =>
              \E z \in {0, 1} : Kid(t, n, z) # Nil /\ Owns(t, Kid(t, n, z), m)
<1>0. n \notin Alive(t) => \A z \in {0, 1} : Kid(t, n, z) = Nil
  BY FreeFields DEF Alive, Kid
<1>1. ASSUME NEW z \in {0, 1}, Kid(t, n, z) # Nil, NEW m \in Node, Owns(t, Kid(t, n, z), m)
      PROVE  m # n /\ m \in Alive(t) /\ n \in Alive(t) /\ Under(n, m) /\ m[Len(n) + 1] = z
  <2>1. n \in Alive(t)
    BY <1>0, <1>1
  <2>2. PICK c \in Alive(t) : c = Kid(t, n, z) /\ Under(n, c) /\ c[Len(n) + 1] = z
    BY <1>1, <2>1 DEF Linked
  <2>3. c \in Node
    BY DEF Alive
  <2>4. CASE m = c
    BY <2>1, <2>2, <2>3, <2>4, UnderOrder
  <2>5. CASE m # c
    <3>1. m \in Alive(t) /\ Under(c, m)
      BY <1>1, <2>2, <2>5 DEF Owns
    <3>2. Under(n, m) /\ m[Len(n) + 1] = c[Len(n) + 1]
      BY <2>2, <2>3, <3>1, UnderTransitive
    <3>3. m # n
      BY <3>2, UnderOrder
    <3> QED BY <3>1, <3>2, <3>3, <2>1, <2>2
  <2> QED BY <2>4, <2>5
<1>2. ASSUME NEW z \in {0, 1}, Kid(t, n, z) # Nil  PROVE Kid(t, n, z) \in Alive(t)
  BY <1>0, <1>2 DEF Linked
<1>3. ASSUME NEW m \in Node, Owns(t, n, m), m # n
      PROVE  \E z \in {0, 1} : Kid(t, n, z) # Nil /\ Owns(t, Kid(t, n, z), m)
  <2>1. n \in Alive(t) /\ m \in Alive(t) /\ Under(n, m)
    BY <1>3 DEF Owns
  <2>2. PICK z \in {0, 1} : z = m[Len(n) + 1]
    BY <2>1, UnderOrder
  <2>3. LET c == Kid(t, n, z) IN c \in Alive(t) /\ (c = m \/ Under(c, m))
    BY <2>1, <2>2, WayDown
  <2>4. Kid(t, n, z) # Nil
    BY <2>3, PatriciaAssumption DEF Alive, Object
  <2> QED BY <2>1, <2>3, <2>4 DEF Owns
<1> QED BY <1>1, <1>2, <1>3

\* The entries of Popped(t, s) beyond those of s.
LEMMA NewEntries ==
  ASSUME NEW t \in TreeOf, Linked(t), NEW s \in Seq(Node), s # << >>
  PROVE  LET k == Len(s)
             u == Popped(t, s)
             n == s[k]
         IN  /\ \A i \in k .. Len(u) : /\ u[i] \in Alive(t)
                                       /\ \A m \in Node : Owns(t, u[i], m) => m # n /\ Owns(t, n, m)
             /\ \A i, j \in k .. Len(u) : \A m \in Node : Owns(t, u[i], m) /\ Owns(t, u[j], m) => i = j
             /\ \A m \in Node : Owns(t, n, m) /\ m # n => \E i \in k .. Len(u) : Owns(t, u[i], m)
<1> DEFINE k == Len(s)
           u == Popped(t, s)
           n == s[k]
           e == Pushes(t, n)
<1>1. /\ k \in Nat \ {0} /\ n \in Node /\ u \in Seq(Node)
      /\ Len(u) = k - 1 + Len(e)
      /\ \A i \in k .. Len(u) : i - k + 1 \in 1 .. Len(e) /\ u[i] = e[i - k + 1]
  BY PoppedFacts
<1>2. e \in Seq(Node) /\ Len(e) \in Nat
  BY <1>1, PushesFacts
<1>3. PICK side : Sides(t, n, e, side)
  BY <1>1, PushesFacts
<1>4. /\ \A i \in 1 .. Len(e) : side[i] \in {0, 1} /\ Kid(t, n, side[i]) # Nil /\ e[i] = Kid(t, n, side[i])
      /\ \A i, j \in 1 .. Len(e) : side[i] = side[j] => i = j
      /\ \A z \in {0, 1} : Kid(t, n, z) # Nil => \E i \in 1 .. Len(e) : side[i] = z
  BY <1>3 DEF Sides
<1> HIDE DEF k, u, n, e
<1>5. ASSUME NEW i \in k .. Len(u)
      PROVE  /\ u[i] \in Alive(t) /\ side[i - k + 1] \in {0, 1} /\ u[i] = Kid(t, n, side[i - k + 1]) /\ Kid(t, n, side[i - k + 1]) # Nil
             /\ \A m \in Node : Owns(t, u[i], m) => m # n /\ Owns(t, n, m) /\ m[Len(n) + 1] = side[i - k + 1]
  <2>1. i - k + 1 \in 1 .. Len(e) /\ u[i] = e[i - k + 1]
    BY <1>1
  <2>2. PICK z \in {0, 1} : z = side[i - k + 1] /\ Kid(t, n, z) # Nil /\ u[i] = Kid(t, n, z)
    BY <2>1, <1>4
  <2>3. u[i] \in Alive(t)
    BY <2>2, <1>1, OwnsSplit
  <2>4. ASSUME NEW m \in Node, Owns(t, u[i], m)
        PROVE  m # n /\ Owns(t, n, m) /\ m[Len(n) + 1] = z
    <3>1. Owns(t, Kid(t, n, z), m)
      BY <2>2, <2>4
    <3>2. m # n /\ m \in Alive(t) /\ n \in Alive(t) /\ Under(n, m) /\ m[Len(n) + 1] = z
      BY <3>1, <2>2, <1>1, OwnsSplit
    <3> QED BY <3>2 DEF Owns
  <2> QED BY <2>2, <2>3, <2>4
<1>6. ASSUME NEW i \in k .. Len(u), NEW j \in k .. Len(u), NEW m \in Node, Owns(t, u[i], m), Owns(t, u[j], m)
      PROVE  i = j
  <2>1. side[i - k + 1] = side[j - k + 1]
    BY <1>5, <1>6
  <2>2. i - k + 1 \in 1 .. Len(e) /\ j - k + 1 \in 1 .. Len(e)
    BY <1>1
  <2>3. i - k + 1 = j - k + 1
    BY <2>1, <2>2, <1>4
  <2>4. i \in Int /\ j \in Int /\ k \in Int
    BY <1>1
  <2> QED BY <2>3, <2>4
<1>7. ASSUME NEW m \in Node, Owns(t, n, m), m # n  PROVE \E i \in k .. Len(u) : Owns(t, u[i], m)
  <2>1. PICK z \in {0, 1} : Kid(t, n, z) # Nil /\ Owns(t, Kid(t, n, z), m)
    BY <1>1, <1>7, OwnsSplit
  <2>2. PICK j \in 1 .. Len(e) : side[j] = z
    BY <2>1, <1>4
  <2>3. e[j] = Kid(t, n, z)
    BY <2>2, <1>4
  <2>4. j + k - 1 \in k .. Len(u) /\ (j + k - 1) - k + 1 = j
    BY <1>1, <1>2
  <2>5. u[j + k - 1] = e[(j + k - 1) - k + 1]
    BY <2>4, <1>1
  <2>6. u[j + k - 1] = Kid(t, n, z)
    BY <2>3, <2>4, <2>5
  <2> QED BY <2>1, <2>4, <2>6
<1> QED BY <1>5, <1>6, <1>7 DEF k, u, n

\* What is still to visit: every entry of the stack with what it owns.
Load(t, s) == {e \in (1 .. Len(s)) \X Node : Owns(t, s[e[1]], e[2])}

LEMMA LoadFinite ==
  ASSUME NEW t \in TreeOf, IsFiniteSet(Alive(t)), NEW s \in Seq(Node)
  PROVE  IsFiniteSet(Load(t, s))
<1> DEFINE R == {s[i] : i \in 1 .. Len(s)}
           B == (1 .. Len(s)) \X (Alive(t) \cup R)
<1>1. Len(s) \in Nat /\ s \in [1 .. Len(s) -> Node]
  BY LenProperties
<1>2. IsFiniteSet(1 .. Len(s))
  BY <1>1, FS_Interval
<1>3. IsFiniteSet(R)
  <2>1. s \in Surjection(1 .. Len(s), R)
    BY <1>1 DEF Surjection
  <2> HIDE DEF R
  <2> QED BY <1>2, <2>1, FS_Surjection
<1>4. IsFiniteSet(B)
  <2>1. IsFiniteSet(Alive(t) \cup R)
    <3> HIDE DEF R
    <3> QED BY <1>3, FS_Union
  <2> HIDE DEF R
  <2> QED BY <1>2, <2>1, FS_Product
<1>5. Load(t, s) \subseteq B
  BY DEF Load, Owns
<1> HIDE DEF B
<1> QED BY <1>4, <1>5, FS_Subset

LEMMA LoadLess ==
  ASSUME NEW t \in TreeOf, Linked(t), IsFiniteSet(Alive(t)), NEW s \in Seq(Node), s # << >>
  PROVE  Cardinality(Load(t, Popped(t, s))) < Cardinality(Load(t, s))
<1> DEFINE k == Len(s)
           u == Popped(t, s)
           n == s[k]
           A == Load(t, u)
           B == Load(t, s)
           z == <<k, n>>
           f == [e \in A |-> <<IF e[1] < k THEN e[1] ELSE k, e[2]>>]
<1>1. k \in Nat \ {0} /\ n \in Node /\ u \in Seq(Node) /\ Len(u) \in Nat /\ \A i \in 1 .. k - 1 : u[i] = s[i]
  BY PoppedFacts
<1>2. /\ \A i \in k .. Len(u) : \A m \in Node : Owns(t, u[i], m) => m # n /\ Owns(t, n, m)
      /\ \A i, j \in k .. Len(u) : \A m \in Node : Owns(t, u[i], m) /\ Owns(t, u[j], m) => i = j
  BY NewEntries
<1>3. IsFiniteSet(A) /\ IsFiniteSet(B)
  BY <1>1, LoadFinite
<1>4. z \in B
  BY <1>1 DEF Load, Owns
<1>5. ASSUME NEW e \in A
      PROVE  /\ e = <<e[1], e[2]>> /\ e[1] \in 1 .. Len(u) /\ e[2] \in Node /\ Owns(t, u[e[1]], e[2])
             /\ f[e] \in B \ {z} /\ f[e][2] = e[2] /\ f[e][1] = IF e[1] < k THEN e[1] ELSE k
  <2>1. e = <<e[1], e[2]>> /\ e[1] \in 1 .. Len(u) /\ e[2] \in Node /\ Owns(t, u[e[1]], e[2])
    BY DEF Load
  <2>2. f[e][2] = e[2] /\ f[e][1] = IF e[1] < k THEN e[1] ELSE k
    OBVIOUS
  <2>3. CASE e[1] < k
    <3>1. e[1] \in 1 .. k - 1 /\ e[1] \in 1 .. k
      BY <2>1, <2>3, <1>1
    <3>2. Owns(t, s[e[1]], e[2]) /\ f[e] = <<e[1], e[2]>>
      BY <2>1, <2>3, <3>1, <1>1
    <3>3. e[1] # k
      BY <3>1, <1>1
    <3> HIDE DEF f, u
    <3>4. f[e] \in B
      BY <2>1, <3>1, <3>2 DEF Load
    <3>5. f[e] # z
      BY <3>2, <3>3
    <3> QED BY <2>1, <2>2, <3>4, <3>5
  <2>4. CASE ~(e[1] < k)
    <3>1. e[1] \in k .. Len(u) /\ k \in 1 .. k
      BY <2>1, <2>4, <1>1
    <3>2. e[2] # n /\ Owns(t, n, e[2]) /\ f[e] = <<k, e[2]>>
      BY <2>1, <2>4, <3>1, <1>2
    <3> HIDE DEF f, u
    <3>4. f[e] \in B
      BY <2>1, <3>1, <3>2 DEF Load
    <3>5. f[e] # z
      BY <3>2
    <3> QED BY <2>1, <2>2, <3>4, <3>5
  <2> QED BY <2>3, <2>4
<1>6. ASSUME NEW e \in A, NEW d \in A, f[e] = f[d]  PROVE e = d
  <2> HIDE DEF f, u, k, A, B, n
  <2>1. e[2] = d[2] /\ (IF e[1] < k THEN e[1] ELSE k) = (IF d[1] < k THEN d[1] ELSE k)
    BY <1>5, <1>6
  <2>2. e[1] \in Nat /\ d[1] \in Nat /\ e[1] \in 1 .. Len(u) /\ d[1] \in 1 .. Len(u)
    BY <1>1, <1>5
  <2>3. CASE e[1] < k
    <3>1. e[1] = d[1]
      BY <2>1, <2>2, <2>3, <1>1
    <3> QED BY <3>1, <2>1, <1>5
  <2>4. CASE ~(e[1] < k)
    <3>1. e[1] \in k .. Len(u) /\ d[1] \in k .. Len(u)
      BY <2>1, <2>2, <2>4, <1>1
    <3>2. Owns(t, u[e[1]], e[2]) /\ Owns(t, u[d[1]], e[2]) /\ e[2] \in Node
      BY <2>1, <1>5
    <3>3. e[1] = d[1]
      BY <3>1, <3>2, <1>2
    <3> QED BY <3>3, <2>1, <1>5
  <2> QED BY <2>3, <2>4
<1>7. f \in Injection(A, B \ {z})
  <2>1. f = [e \in A |-> f[e]]
    OBVIOUS
  <2> HIDE DEF f, A, B, z
  <2>2. f \in [A -> B \ {z}]
    BY <1>5, <2>1
  <2> QED BY <2>2, <1>6 DEF Injection, IsInjective
<1> HIDE DEF f, A, B, z
<1>8. IsFiniteSet(B \ {z}) /\ Cardinality(B \ {z}) = Cardinality(B) - 1 /\ Cardinality(B) \in Nat
  BY <1>3, <1>4, FS_RemoveElement, FS_CardinalityType
<1>9. Cardinality(A) <= Cardinality(B \ {z}) /\ Cardinality(A) \in Nat
  BY <1>3, <1>7, <1>8, FS_Injection, FS_CardinalityType
<1>10. Cardinality(A) < Cardinality(B)
  BY <1>8, <1>9
<1> QED BY <1>10 DEF A, B, u

Apart(t, s) ==
  /\ \A i \in 1 .. Len(s) : s[i] \in Alive(t)
  /\ \A i, j \in 1 .. Len(s) : \A m \in Node : Owns(t, s[i], m) /\ Owns(t, s[j], m) => i = j
Cover(t, s) == {m \in Node : \E i \in 1 .. Len(s) : Owns(t, s[i], m)}

LEMMA PoppedApart ==
  ASSUME NEW t \in TreeOf, Linked(t), NEW s \in Seq(Node), s # << >>, Apart(t, s)
  PROVE  /\ Apart(t, Popped(t, s)) /\ Last(s) \notin Cover(t, Popped(t, s)) /\ Last(s) \in Node
         /\ Cover(t, s) = Cover(t, Popped(t, s)) \cup {Last(s)}
<1> DEFINE k == Len(s)
           u == Popped(t, s)
           n == s[k]
<1>1. /\ k \in Nat \ {0} /\ n \in Node /\ Last(s) = n /\ u \in Seq(Node) /\ Len(u) \in Nat
      /\ \A i \in 1 .. k - 1 : u[i] = s[i]
      /\ Len(u) >= k - 1
  <2>1. Pushes(t, n) \in Seq(Node) /\ Len(Pushes(t, n)) \in Nat
    BY PoppedFacts, PushesFacts
  <2>2. /\ k \in Nat \ {0} /\ n \in Node /\ Last(s) = n /\ u \in Seq(Node)
        /\ \A i \in 1 .. k - 1 : u[i] = s[i] /\ Len(u) = k - 1 + Len(Pushes(t, n))
        /\ Len(u) = k - 1 + Len(Pushes(t, n))
    BY PoppedFacts
  <2> HIDE DEF k, u, n
  <2> QED BY <2>1, <2>2
<1>2. /\ \A i \in k .. Len(u) : u[i] \in Alive(t) /\ \A m \in Node : Owns(t, u[i], m) => m # n /\ Owns(t, n, m)
      /\ \A i, j \in k .. Len(u) : \A m \in Node : Owns(t, u[i], m) /\ Owns(t, u[j], m) => i = j
      /\ \A m \in Node : Owns(t, n, m) /\ m # n => \E i \in k .. Len(u) : Owns(t, u[i], m)
  BY NewEntries
<1> HIDE DEF u
<1>3. /\ \A i \in 1 .. k : s[i] \in Alive(t)
      /\ \A i, j \in 1 .. k : \A m \in Node : Owns(t, s[i], m) /\ Owns(t, s[j], m) => i = j
  BY DEF Apart
<1>n. n = s[k]
  OBVIOUS
<1> HIDE DEF k, n
<1>4. \A i \in 1 .. Len(u) : i \in 1 .. k - 1 \/ i \in k .. Len(u)
  BY <1>1
<1>5. \A i \in 1 .. k - 1 : i \in 1 .. k /\ i # k /\ k \in 1 .. k /\ i \in 1 .. Len(u)
  BY <1>1
<1>6. ASSUME NEW i \in 1 .. k - 1, NEW m \in Node, Owns(t, u[i], m)  PROVE ~Owns(t, n, m)
  BY <1>1, <1>3, <1>5, <1>6, <1>n
<1>7. Apart(t, u)
  <2>1. ASSUME NEW i \in 1 .. Len(u)  PROVE u[i] \in Alive(t)
    BY <1>1, <1>2, <1>3, <1>4, <1>5
  <2>2. ASSUME NEW i \in 1 .. Len(u), NEW j \in 1 .. Len(u), NEW m \in Node, Owns(t, u[i], m), Owns(t, u[j], m)
        PROVE  i = j
    <3>1. CASE i \in 1 .. k - 1 /\ j \in 1 .. k - 1
      BY <3>1, <2>2, <1>1, <1>3, <1>5
    <3>2. CASE i \in k .. Len(u) /\ j \in k .. Len(u)
      BY <3>2, <2>2, <1>2
    <3>3. CASE i \in 1 .. k - 1 /\ j \in k .. Len(u)
      BY <3>3, <2>2, <1>2, <1>6
    <3>4. CASE i \in k .. Len(u) /\ j \in 1 .. k - 1
      BY <3>4, <2>2, <1>2, <1>6
    <3> QED BY <3>1, <3>2, <3>3, <3>4, <1>4
  <2> QED BY <2>1, <2>2 DEF Apart
<1>8. n \notin Cover(t, u)
  <2> SUFFICES ASSUME NEW i \in 1 .. Len(u), Owns(t, u[i], n)  PROVE FALSE
    BY DEF Cover
  <2>1. Owns(t, n, n)
    BY DEF Owns
  <2> QED BY <2>1, <1>1, <1>2, <1>4, <1>6
<1>9. ASSUME NEW m \in Cover(t, u)  PROVE m \in Cover(t, s)
  <2>1. PICK i \in 1 .. Len(u) : m \in Node /\ Owns(t, u[i], m)
    BY <1>9 DEF Cover
  <2>2. CASE i \in 1 .. k - 1
    BY <2>1, <2>2, <1>1, <1>5 DEF Cover, k
  <2>3. CASE i \in k .. Len(u)
    <3>1. Owns(t, n, m) /\ k \in 1 .. k
      BY <2>1, <2>3, <1>1, <1>2
    <3> QED BY <2>1, <3>1, <1>n DEF Cover, k
  <2> QED BY <2>2, <2>3, <1>4
<1>10. ASSUME NEW m \in Cover(t, s), m # n  PROVE m \in Cover(t, u)
  <2>1. PICK i \in 1 .. k : m \in Node /\ Owns(t, s[i], m)
    BY <1>10 DEF Cover, k
  <2>2. CASE i = k
    <3>1. PICK j \in k .. Len(u) : Owns(t, u[j], m)
      BY <2>1, <2>2, <1>2, <1>10, <1>n
    <3>2. j \in 1 .. Len(u)
      BY <1>1
    <3> QED BY <2>1, <3>1, <3>2 DEF Cover
  <2>3. CASE i # k
    <3>1. i \in 1 .. k - 1
      BY <2>3, <1>1
    <3>2. u[i] = s[i] /\ i \in 1 .. Len(u)
      BY <3>1, <1>1, <1>5
    <3> QED BY <2>1, <3>2 DEF Cover
  <2> QED BY <2>2, <2>3
<1>11. n \in Cover(t, s)
  <2>1. k \in 1 .. k /\ Owns(t, s[k], n)
    BY <1>1, <1>n DEF Owns
  <2> QED BY <2>1, <1>1 DEF Cover, k
<1>12. Cover(t, s) = Cover(t, u) \cup {n}
  BY <1>9, <1>10, <1>11
<1> QED BY <1>1, <1>7, <1>8, <1>12 DEF u

\* w lists C, each element once.
Lists(w, C) ==
  /\ w \in Seq(Node) /\ \A i \in 1 .. Len(w) : w[i] \in C
  /\ \A m \in C : \E i \in 1 .. Len(w) : w[i] = m
  /\ \A i, j \in 1 .. Len(w) : w[i] = w[j] => i = j

LEMMA ListsMore ==
  ASSUME NEW n \in Node, NEW w, NEW C, Lists(w, C), n \notin C
  PROVE  Lists(<<n>> \o w, C \cup {n})
<1> DEFINE v == <<n>> \o w
<1>0. w \in Seq(Node) /\ Len(w) \in Nat /\ <<n>> \in Seq(Node) /\ Len(<<n>>) = 1 /\ <<n>>[1] = n
  BY DEF Lists
<1>1. /\ v \in Seq(Node) /\ Len(v) = 1 + Len(w)
      /\ \A i \in 1 .. 1 + Len(w) : v[i] = IF i <= 1 THEN <<n>>[i] ELSE w[i - 1]
  <2>1. /\ v \in Seq(Node) /\ Len(v) = Len(<<n>>) + Len(w)
        /\ \A i \in 1 .. Len(<<n>>) + Len(w) : v[i] = IF i <= Len(<<n>>) THEN <<n>>[i] ELSE w[i - Len(<<n>>)]
    BY <1>0, ConcatProperties
  <2> QED BY <2>1, <1>0
<1> HIDE DEF v
<1>2. v[1] = n /\ \A i \in 2 .. Len(v) : i - 1 \in 1 .. Len(w) /\ v[i] = w[i - 1]
  <2>1. \A i \in 2 .. Len(v) : i \in 1 .. 1 + Len(w) /\ ~(i <= 1) /\ i - 1 \in 1 .. Len(w)
    BY <1>0, <1>1
  <2>2. 1 \in 1 .. 1 + Len(w)
    BY <1>0
  <2> QED BY <2>1, <2>2, <1>0, <1>1
<1>3. \A i \in 1 .. Len(v) : i = 1 \/ i \in 2 .. Len(v)
  BY <1>0, <1>1
<1>4. \A i \in 1 .. Len(v) : v[i] \in C \cup {n}
  BY <1>2, <1>3 DEF Lists
<1>5. ASSUME NEW m \in C \cup {n}  PROVE \E i \in 1 .. Len(v) : v[i] = m
  <2>1. CASE m = n
    <3>1. 1 \in 1 .. Len(v)
      BY <1>0, <1>1
    <3> QED BY <2>1, <3>1, <1>2
  <2>2. CASE m \in C
    <3>1. PICK i \in 1 .. Len(w) : w[i] = m
      BY <2>2 DEF Lists
    <3>2. i + 1 \in 2 .. Len(v) /\ i + 1 \in 1 .. Len(v) /\ (i + 1) - 1 = i
      BY <1>0, <1>1
    <3>3. v[i + 1] = w[(i + 1) - 1]
      BY <3>2, <1>2
    <3> QED BY <3>1, <3>2, <3>3
  <2> QED BY <2>1, <2>2
<1>6. ASSUME NEW i \in 1 .. Len(v), NEW j \in 1 .. Len(v), v[i] = v[j]  PROVE i = j
  <2>1. \A x \in 2 .. Len(v) : v[x] \in C /\ v[x] # n
    BY <1>2 DEF Lists
  <2>2. CASE i = 1 \/ j = 1
    BY <2>1, <2>2, <1>2, <1>3, <1>6
  <2>3. CASE i \in 2 .. Len(v) /\ j \in 2 .. Len(v)
    <3>1. i - 1 \in 1 .. Len(w) /\ j - 1 \in 1 .. Len(w) /\ w[i - 1] = w[j - 1]
      BY <2>3, <1>2, <1>6
    <3>2. i - 1 = j - 1
      BY <3>1 DEF Lists
    <3>3. i \in Int /\ j \in Int
      BY <1>1
    <3> QED BY <3>2, <3>3
  <2> QED BY <2>2, <2>3, <1>3
<1>7. Lists(v, C \cup {n})
  BY <1>1, <1>4, <1>5, <1>6 DEF Lists
<1> QED BY <1>7 DEF v

\* PATRICIA_WALK lists the nodes of the tree.
LEMMA AllNodesListed ==
  ASSUME NEW t \in TreeOf, Linked(t), IsFiniteSet(Alive(t))
  PROVE  Lists(AllNodes(t), Alive(t))
<1> DEFINE D == Seq(Node)
           m == [s \in D |-> Cardinality(Load(t, s))]
           base == {<< >>}
           init == [s \in D |-> << >>]
           nxt == [s \in D |-> IF s = << >> THEN s ELSE Popped(t, s)]
           step == [s \in D |-> [w \in D |-> IF s = << >> THEN w ELSE <<Last(s)>> \o w]]
           F(f) == [s \in Seq(Node) |->
                      IF s = << >> THEN << >>
                      ELSE LET n == Last(s)
                               kids == Pushed(t.node[n].r) \o Pushed(t.node[n].l)
                           IN  <<n>> \o f[Front(s) \o kids]]
           E(f) == [s \in D |-> IF s = << >> THEN << >> ELSE <<Last(s)>> \o f[Popped(t, s)]]
           walk == CHOOSE f : f = F(f)
<1>0. << >> \in D /\ \A s \in D : s # << >> => Popped(t, s) \in D /\ Last(s) \in Node
  BY PoppedFacts
<1>1. m \in [D -> Nat]
  <2>1. \A s \in D : Cardinality(Load(t, s)) \in Nat
    BY LoadFinite, FS_CardinalityType
  <2> HIDE DEF D
  <2> QED BY <2>1
<1>2. \A s \in D : s # << >> => m[Popped(t, s)] < m[s]
  <2>1. \A s \in D : s # << >> => Cardinality(Load(t, Popped(t, s))) < Cardinality(Load(t, s))
    BY LoadLess
  <2> HIDE DEF D
  <2> QED BY <2>1, <1>0
<1>3. \A s \in D : s # << >> => \A w \in D : <<Last(s)>> \o w \in D
  <2>1. \A n \in Node : \A w \in D : <<n>> \o w \in D
    BY ConcatProperties
  <2> HIDE DEF D
  <2> QED BY <1>0, <2>1
<1>4. Recursion(D, D, m, base, init, nxt, step)
  <2> HIDE DEF D
  <2>1. init \in [D -> D] /\ nxt \in [D -> D]
    BY <1>0
  <2>2. step \in [D -> [D -> D]]
    BY <1>0, <1>3
  <2>3. \A s \in D : s \notin base => m[nxt[s]] < m[s]
    <3> HIDE DEF m
    <3> QED BY <1>2
  <2> HIDE DEF m, base, init, nxt, step
  <2> QED BY <1>1, <2>1, <2>2, <2>3 DEF Recursion
<1>5. \A f : F(f) = E(f)
  BY DEF Popped, Pushes
<1>6. \E f : f = F(f)
  <2>1. PICK f \in [D -> D] : Solves(f, D, base, init, nxt, step)
    <3> HIDE DEF D, m, base, init, nxt, step
    <3> QED BY <1>4, SolutionExists
  <2>2. ASSUME NEW s \in D  PROVE f[s] = IF s = << >> THEN << >> ELSE <<Last(s)>> \o f[Popped(t, s)]
    <3> HIDE DEF D
    <3>1. f[s] = IF s \in base THEN init[s] ELSE step[s][f[nxt[s]]]
      <4> HIDE DEF base, init, nxt, step
      <4> QED BY <2>1 DEF Solves
    <3>2. CASE s = << >>
      BY <3>1, <3>2
    <3>3. CASE s # << >>
      <4>1. f[s] = step[s][f[Popped(t, s)]]
        <5> HIDE DEF step
        <5> QED BY <3>1, <3>3
      <4>2. f[Popped(t, s)] \in D
        BY <2>1, <3>3, <1>0
      <4> QED BY <4>1, <4>2, <3>3
    <3> QED BY <3>2, <3>3
  <2>3. f = E(f)
    <3> HIDE DEF D
    <3> QED BY <2>1, <2>2
  <2> HIDE DEF E, F
  <2> QED BY <2>3, <1>5
<1>7. walk = E(walk)
  <2> HIDE DEF E, F
  <2> QED BY <1>5, <1>6
<1>8. AllNodes(t) = walk[IF t.head = Nil THEN << >> ELSE <<t.head>>]
  BY DEF AllNodes
<1> HIDE DEF walk
<1>9. \A s \in D : walk[s] = IF s = << >> THEN << >> ELSE <<Last(s)>> \o walk[Popped(t, s)]
  <2> HIDE DEF D
  <2> QED BY <1>7
<1>10. \A s \in D : Apart(t, s) => Lists(walk[s], Cover(t, s))
  <2> DEFINE H == {s \in D : Apart(t, s) => Lists(walk[s], Cover(t, s))}
  <2>1. ASSUME NEW s \in D, \A r \in D : m[r] < m[s] => r \in H, Apart(t, s)  PROVE Lists(walk[s], Cover(t, s))
    <3> HIDE DEF m
    <3>1. CASE s = << >>
      <4>1. walk[s] = << >> /\ Len(<< >>) = 0
        BY <3>1, <1>9
      <4>2. Cover(t, s) = {}
        BY <3>1 DEF Cover
      <4> QED BY <4>1, <4>2 DEF Lists
    <3>2. CASE s # << >>
      <4>1. /\ Apart(t, Popped(t, s)) /\ Last(s) \notin Cover(t, Popped(t, s)) /\ Last(s) \in Node
            /\ Cover(t, s) = Cover(t, Popped(t, s)) \cup {Last(s)}
        BY <3>2, <2>1, PoppedApart
      <4>2. Lists(walk[Popped(t, s)], Cover(t, Popped(t, s)))
        <5> HIDE DEF D
        <5>1. Popped(t, s) \in H
          <6> HIDE DEF H
          <6> QED BY <3>2, <2>1, <1>0, <1>2
        <5> QED BY <5>1, <4>1
      <4>3. walk[s] = <<Last(s)>> \o walk[Popped(t, s)]
        BY <3>2, <1>9
      <4> QED BY <4>1, <4>2, <4>3, ListsMore
    <3> QED BY <3>1, <3>2
  <2>2. Hereditary(D, m, H)
    <3>1. ASSUME NEW s \in D, \A r \in D : m[r] < m[s] => r \in H  PROVE s \in H
      <4> HIDE DEF D, m
      <4> QED BY <2>1, <3>1
    <3> HIDE DEF D, m, H
    <3> QED BY <3>1 DEF Hereditary
  <2>3. H \in SUBSET D
    OBVIOUS
  <2>4. H = D
    <3> HIDE DEF D, m, H
    <3> QED BY <1>1, <2>2, <2>3, MeasureInduction
  <2> HIDE DEF D
  <2> QED BY <2>4
<1>11. CASE t.head = Nil
  <2>1. Alive(t) = {}
    <3> SUFFICES ASSUME NEW n \in Alive(t)  PROVE FALSE
      OBVIOUS
    <3>1. t.head \in Alive(t)
      BY HeadOnTop
    <3> QED BY <3>1, <1>11, PatriciaAssumption DEF Alive, Object
  <2>2. AllNodes(t) = << >> /\ Len(<< >>) = 0
    BY <1>0, <1>8, <1>9, <1>11
  <2> QED BY <2>1, <2>2 DEF Lists
<1>12. CASE t.head # Nil
  <2> DEFINE s == <<t.head>>
  <2>1. t.head \in Alive(t) /\ t.head \in Node
    BY <1>12 DEF Linked, Alive
  <2>2. s \in D /\ Len(s) = 1 /\ s[1] = t.head /\ \A i \in 1 .. Len(s) : i = 1
    BY <2>1
  <2> HIDE DEF s
  <2>3. Apart(t, s)
    BY <2>1, <2>2 DEF Apart
  <2>4. Cover(t, s) = Alive(t)
    <3>1. ASSUME NEW n \in Cover(t, s)  PROVE n \in Alive(t)
      BY <2>1, <2>2, <3>1 DEF Cover, Owns
    <3>2. ASSUME NEW n \in Alive(t)  PROVE n \in Cover(t, s)
      <4>1. n = t.head \/ Under(t.head, n)
        BY HeadOnTop
      <4>2. n \in Node /\ Owns(t, s[1], n) /\ 1 \in 1 .. Len(s)
        BY <4>1, <2>1, <2>2 DEF Owns, Alive
      <4> QED BY <4>2 DEF Cover
    <3> QED BY <3>1, <3>2
  <2>5. AllNodes(t) = walk[s]
    BY <1>8, <1>12 DEF s
  <2>6. Lists(walk[s], Cover(t, s))
    <3> HIDE DEF D
    <3> QED BY <2>2, <2>3, <1>10
  <2> QED BY <2>4, <2>5, <2>6
<1> QED BY <1>11, <1>12

(***************************************************************************)
(* Clear_Patricia.                                                         *)
(***************************************************************************)

LEMMA DerefTyped ==
  ASSUME NEW t \in TreeOf, NEW o \in Object \cup {Nil}
  PROVE  Deref_Prefix(t, o) \in TreeOf
<1>1. CASE o = Nil
  BY <1>1 DEF Deref_Prefix
<1>2. CASE o # Nil /\ t.prefix[o].ref_count # 0
  BY <1>2, DerefFields DEF PrefixesOnly
<1>3. CASE o # Nil /\ t.prefix[o].ref_count = 0
  <2>1. Deref_Prefix(t, o) = [t EXCEPT !.broken = TRUE]
    BY <1>3 DEF Deref_Prefix
  <2> QED BY <2>1 DEF TreeOf
<1> QED BY <1>1, <1>2, <1>3

\* What the first i steps over s leave of t.
Cleared(t, s, i, x) ==
  /\ x \in TreeOf /\ x.head = t.head /\ ~x.broken /\ x.num_active_node = t.num_active_node - i
  /\ \A n \in Node : x.node[n] = IF \E j \in 1 .. i : s[j] = n THEN Free ELSE t.node[n]
  /\ \A o \in Object : x.prefix[o] = IF o \in Full(t) /\ \E j \in 1 .. i : s[j] = o THEN NoPrefix ELSE t.prefix[o]

LEMMA ClearedMore ==
  ASSUME NEW t, Sound(t), NEW s, Lists(s, Alive(t)), NEW i \in 1 .. Len(s), NEW x, Cleared(t, s, i - 1, x)
  PROVE  Cleared(t, s, i, Delete(Deref_Prefix(x, t.node[s[i]].prefix), s[i]))
<1> DEFINE n == s[i]
           o == t.node[n].prefix
           y == Deref_Prefix(x, o)
           z == Delete(y, n)
<1>0. /\ t \in TreeOf /\ Filed(t) /\ n \in Alive(t) /\ n \in Node /\ n \in Object /\ o \in Object \cup {Nil}
      /\ i \in Nat /\ i - 1 \in Nat /\ Len(s) \in Nat
  <2>1. t \in TreeOf /\ Filed(t) /\ s \in Seq(Node) /\ n \in Alive(t)
    BY DEF Sound, Lists
  <2>2. n \in Node /\ n \in Object
    BY <2>1 DEF Alive, Object
  <2>3. o \in Object \cup {Nil}
    BY <2>1, <2>2, TreeFields
  <2>4. Len(s) \in Nat
    BY <2>1
  <2> QED BY <2>1, <2>2, <2>3, <2>4
<1>1. /\ x \in TreeOf /\ x.head = t.head /\ ~x.broken /\ x.num_active_node = t.num_active_node - (i - 1)
      /\ \A m \in Node : x.node[m] = IF \E j \in 1 .. i - 1 : s[j] = m THEN Free ELSE t.node[m]
      /\ \A q \in Object : x.prefix[q] = IF q \in Full(t) /\ \E j \in 1 .. i - 1 : s[j] = q THEN NoPrefix ELSE t.prefix[q]
  BY DEF Cleared
<1>2. ~\E j \in 1 .. i - 1 : s[j] = n
  <2> SUFFICES ASSUME NEW j \in 1 .. i - 1, s[j] = n  PROVE FALSE
    OBVIOUS
  <2>1. j \in 1 .. Len(s) /\ j # i
    BY <1>0
  <2> QED BY <2>1 DEF Lists
<1>3. \A j \in 1 .. i : j \in 1 .. i - 1 \/ j = i
  BY <1>0
<1>4. /\ PrefixesOnly(x, y)
      /\ \A q \in Object : y.prefix[q] = IF q = n /\ o # Nil THEN NoPrefix ELSE x.prefix[q]
  <2>1. CASE o = Nil
    <3>1. y = x
      BY <2>1 DEF Deref_Prefix
    <3> HIDE DEF y
    <3> QED BY <3>1, <2>1, <1>1 DEF PrefixesOnly
  <2>2. CASE o # Nil
    <3>1. o = n /\ t.prefix[n].ref_count = 1
      BY <2>2, <1>0 DEF Filed
    <3>2. x.prefix[n] = t.prefix[n]
      <4> HIDE DEF n
      <4> QED BY <1>0, <1>1, <1>2
    <3>3. x.prefix[n].ref_count = 1 /\ x.prefix[n].ref_count # 0
      BY <3>1, <3>2
    <3> HIDE DEF n, o
    <3>4. y = Deref_Prefix(x, n)
      BY <3>1
    <3>5. /\ PrefixesOnly(x, Deref_Prefix(x, n))
          /\ Deref_Prefix(x, n).prefix =
               At(x.prefix, n, IF x.prefix[n].ref_count = 1 THEN NoPrefix
                               ELSE [x.prefix[n] EXCEPT !.ref_count = x.prefix[n].ref_count - 1])
      BY <3>3, <1>0, <1>1, DerefFields
    <3> HIDE DEF y
    <3>6. PrefixesOnly(x, y) /\ y.prefix = At(x.prefix, n, NoPrefix)
      BY <3>3, <3>4, <3>5
    <3> QED BY <3>6, <2>2, <1>0, <1>1, TreeFields DEF At
  <2> QED BY <2>1, <2>2
<1>5. /\ z \in TreeOf /\ z.head = y.head /\ z.broken = y.broken /\ z.prefix = y.prefix
      /\ z.num_active_node = y.num_active_node - 1
      /\ z.node = At(y.node, n, Free)
  <2>1. y \in TreeOf
    BY <1>4 DEF PrefixesOnly
  <2> HIDE DEF y, n
  <2> QED BY <2>1, <1>0, DeleteFields
<1>n. n = s[i] /\ (n \in Full(t) <=> o # Nil)
  BY <1>0 DEF Full
<1> HIDE DEF n, o, y, z
<1>6. /\ y \in TreeOf /\ y.node = x.node /\ z.node[n] = Free /\ \A m \in Node \ {n} : z.node[m] = x.node[m]
  <2>1. y \in TreeOf /\ y.node = x.node
    BY <1>4 DEF PrefixesOnly
  <2> QED BY <2>1, <1>0, <1>5, TreeFields DEF At
<1>7. ASSUME NEW m \in Node  PROVE z.node[m] = IF \E j \in 1 .. i : s[j] = m THEN Free ELSE t.node[m]
  <2>1. CASE m = n
    <3>1. i \in 1 .. i
      BY <1>0
    <3> QED BY <3>1, <2>1, <1>6, <1>n
  <2>2. CASE m # n
    <3>1. (\E j \in 1 .. i : s[j] = m) <=> (\E j \in 1 .. i - 1 : s[j] = m)
      <4>1. \A j \in 1 .. i - 1 : j \in 1 .. i
        BY <1>0
      <4> QED BY <4>1, <2>2, <1>3, <1>n
    <3> QED BY <3>1, <2>2, <1>1, <1>6
  <2> QED BY <2>1, <2>2
<1>8. ASSUME NEW q \in Object
      PROVE  z.prefix[q] = IF q \in Full(t) /\ \E j \in 1 .. i : s[j] = q THEN NoPrefix ELSE t.prefix[q]
  <2>0. z.prefix[q] = IF q = n /\ o # Nil THEN NoPrefix ELSE x.prefix[q]
    BY <1>4, <1>5
  <2>1. CASE q = n
    <3>1. i \in 1 .. i
      BY <1>0
    <3>2. q \in Full(t) => z.prefix[q] = NoPrefix
      BY <2>0, <2>1, <1>n
    <3>3. q \notin Full(t) => z.prefix[q] = t.prefix[q]
      BY <2>0, <2>1, <1>1, <1>n
    <3> QED BY <3>1, <3>2, <3>3, <2>1, <1>n
  <2>2. CASE q # n
    <3>1. (\E j \in 1 .. i : s[j] = q) <=> (\E j \in 1 .. i - 1 : s[j] = q)
      <4>1. \A j \in 1 .. i - 1 : j \in 1 .. i
        BY <1>0
      <4> QED BY <4>1, <2>2, <1>3, <1>n
    <3> QED BY <3>1, <2>0, <2>2, <1>1
  <2> QED BY <2>1, <2>2
<1>9. z.head = t.head /\ ~z.broken /\ z.num_active_node = t.num_active_node - i
  <2>1. t.num_active_node \in Int
    BY <1>0, TreeFields
  <2>2. y.head = x.head /\ y.broken = x.broken /\ y.num_active_node = x.num_active_node
    BY <1>4 DEF PrefixesOnly
  <2> QED BY <2>1, <2>2, <1>0, <1>1, <1>5
<1>10. Cleared(t, s, i, z)
  BY <1>5, <1>7, <1>8, <1>9 DEF Cleared
<1> QED BY <1>10 DEF z, y, o, n

LEMMA ClearRuns ==
  ASSUME NEW t, Sound(t), NEW s, s = AllNodes(t)
  PROVE  \E u : Cleared(t, s, Len(s), u) /\ Clear_Patricia(t) = Asserting(u, u.num_active_node = 0)
<1> DEFINE D == 0 .. Len(s)
           m == [i \in D |-> i]
           base == {0}
           init == [i \in D |-> t]
           nxt == [i \in D |-> IF i = 0 THEN i ELSE i - 1]
           go(i, x) == Delete(Deref_Prefix(x, t.node[s[i]].prefix), s[i])
           step == [i \in D |-> [x \in TreeOf |-> IF i = 0 THEN x ELSE go(i, x)]]
           F(f) == [i \in 0 .. Len(s) |->
                      IF i = 0 THEN t ELSE Delete(Deref_Prefix(f[i - 1], t.node[s[i]].prefix), s[i])]
           clear == CHOOSE f : f = F(f)
<1>0. t \in TreeOf /\ Lists(s, Alive(t)) /\ Len(s) \in Nat /\ \A i \in 1 .. Len(s) : s[i] \in Node
  <2>1. t \in TreeOf /\ Lists(s, Alive(t))
    BY AllNodesListed DEF Sound, Counted
  <2> QED BY <2>1 DEF Lists
<1>1. \A i \in D : i = 0 \/ (i \in 1 .. Len(s) /\ i - 1 \in D)
  BY <1>0
<1>2. \A i \in 1 .. Len(s) : \A x \in TreeOf : go(i, x) \in TreeOf
  <2> SUFFICES ASSUME NEW i \in 1 .. Len(s), NEW x \in TreeOf  PROVE go(i, x) \in TreeOf
    OBVIOUS
  <2>1. s[i] \in Node /\ t.node[s[i]].prefix \in Object \cup {Nil}
    BY <1>0, TreeFields
  <2>2. Deref_Prefix(x, t.node[s[i]].prefix) \in TreeOf
    BY <2>1, DerefTyped
  <2> QED BY <2>1, <2>2, DeleteFields
<1>3. Recursion(D, TreeOf, m, base, init, nxt, step)
  <2>1. m \in [D -> Nat] /\ init \in [D -> TreeOf] /\ nxt \in [D -> D] /\ \A i \in D : i \notin base => m[nxt[i]] < m[i]
    BY <1>0, <1>1
  <2>2. step \in [D -> [TreeOf -> TreeOf]]
    <3> HIDE DEF go, D
    <3> QED BY <1>1, <1>2
  <2> HIDE DEF D, m, base, init, nxt, step
  <2> QED BY <2>1, <2>2 DEF Recursion
<1>4. \E f : f = F(f)
  <2>1. PICK f \in [D -> TreeOf] : Solves(f, D, base, init, nxt, step)
    <3> HIDE DEF D, m, base, init, nxt, step
    <3> QED BY <1>3, SolutionExists
  <2>2. ASSUME NEW i \in D  PROVE f[i] = IF i = 0 THEN t ELSE go(i, f[i - 1])
    <3> HIDE DEF go
    <3>1. f[i] = IF i \in base THEN init[i] ELSE step[i][f[nxt[i]]]
      <4> HIDE DEF D, base, init, nxt, step
      <4> QED BY <2>1 DEF Solves
    <3>2. CASE i = 0
      BY <3>1, <3>2
    <3>3. CASE i # 0
      <4>1. f[i - 1] \in TreeOf
        BY <2>1, <3>3, <1>1
      <4>2. f[i] = step[i][f[i - 1]]
        <5> HIDE DEF step
        <5> QED BY <3>1, <3>3
      <4>3. step[i][f[i - 1]] = go(i, f[i - 1])
        <5> HIDE DEF D
        <5> QED BY <4>1, <3>3
      <4> QED BY <4>2, <4>3, <3>3
    <3> QED BY <3>2, <3>3
  <2>3. F(f) = [i \in D |-> IF i = 0 THEN t ELSE go(i, f[i - 1])]
    OBVIOUS
  <2>4. f = F(f)
    <3> HIDE DEF F, go, D
    <3> QED BY <2>1, <2>2, <2>3
  <2> HIDE DEF F
  <2> QED BY <2>4
<1>5. clear = F(clear)
  <2> HIDE DEF F
  <2> QED BY <1>4
<1>6. Clear_Patricia(t) = Asserting(clear[Len(s)], clear[Len(s)].num_active_node = 0)
  BY DEF Clear_Patricia
<1> HIDE DEF clear
<1>7. \A i \in D : clear[i] = IF i = 0 THEN t ELSE go(i, clear[i - 1])
  <2>1. F(clear) = [i \in D |-> IF i = 0 THEN t ELSE go(i, clear[i - 1])]
    OBVIOUS
  <2> HIDE DEF F, go, D
  <2> QED BY <2>1, <1>5
<1>8. \A i \in D : Cleared(t, s, i, clear[i])
  <2> DEFINE H == {i \in Nat : i \in D => Cleared(t, s, i, clear[i])}
  <2>1. ASSUME NEW i \in Nat, \A j \in 0 .. i - 1 : j \in H  PROVE i \in H
    <3> SUFFICES ASSUME i \in D  PROVE Cleared(t, s, i, clear[i])
      OBVIOUS
    <3>1. CASE i = 0
      <4>1. clear[i] = t
        BY <3>1, <1>7
      <4>2. Cleared(t, s, 0, t)
        <5>1. t.num_active_node \in Int /\ ~t.broken /\ \A j : ~(j \in 1 .. 0)
          BY <1>0, TreeFields DEF Sound
        <5> QED BY <5>1, <1>0 DEF Cleared
      <4> QED BY <3>1, <4>1, <4>2
    <3>2. CASE i # 0
      <4>1. i \in 1 .. Len(s) /\ i - 1 \in D /\ i - 1 \in 0 .. i - 1 /\ i - 1 \in Nat
        BY <3>2, <1>1, <2>1
      <4>2. Cleared(t, s, i - 1, clear[i - 1])
        BY <4>1, <2>1
      <4>3. clear[i] = go(i, clear[i - 1])
        <5> HIDE DEF go, D
        <5> QED BY <3>2, <1>7
      <4>4. Cleared(t, s, i, go(i, clear[i - 1]))
        BY <4>1, <4>2, <1>0, ClearedMore
      <4> HIDE DEF go
      <4> QED BY <4>3, <4>4
    <3> QED BY <3>1, <3>2
  <2>2. \A i \in Nat : i \in H
    <3> HIDE DEF H
    <3>1. H \in SUBSET Nat
      BY DEF H
    <3> QED BY <2>1, <3>1, StrongInduction
  <2>3. \A i \in D : i \in Nat
    BY <1>0
  <2> HIDE DEF D
  <2> QED BY <2>2, <2>3
<1>9. Len(s) \in D
  BY <1>0
<1> HIDE DEF D
<1> QED BY <1>6, <1>8, <1>9

\* The program ends with an empty tree and no prefix object left.
LEMMA ClearSound ==
  ASSUME NEW t, Sound(t)
  PROVE  LET u == [Clear_Patricia(t) EXCEPT !.head = Nil] IN Sound(u) /\ Full(u) = {}
<1> DEFINE s == AllNodes(t)
<1>0. t \in TreeOf /\ ~t.broken /\ Filed(t) /\ Counted(t) /\ Lists(s, Alive(t))
  BY AllNodesListed DEF Sound, Counted
<1>1. PICK u : Cleared(t, s, Len(s), u) /\ Clear_Patricia(t) = Asserting(u, u.num_active_node = 0)
  BY ClearRuns
<1> HIDE DEF s
<1>2. /\ u \in TreeOf /\ ~u.broken /\ u.num_active_node = t.num_active_node - Len(s)
      /\ \A n \in Node : u.node[n] = IF \E j \in 1 .. Len(s) : s[j] = n THEN Free ELSE t.node[n]
      /\ \A o \in Object : u.prefix[o] = IF o \in Full(t) /\ \E j \in 1 .. Len(s) : s[j] = o THEN NoPrefix ELSE t.prefix[o]
  BY <1>1 DEF Cleared
<1>3. Len(s) = Cardinality(Alive(t)) /\ Len(s) \in Nat
  <2>1. s \in Seq(Node) /\ Len(s) \in Nat /\ s \in [1 .. Len(s) -> Node]
    BY <1>0 DEF Lists
  <2>2. s \in [1 .. Len(s) -> Alive(t)]
    BY <1>0, <2>1 DEF Lists
  <2>3. s \in Bijection(1 .. Len(s), Alive(t))
    BY <1>0, <2>2 DEF Lists, Bijection, Injection, Surjection, IsInjective
  <2>4. ExistsBijection(1 .. Len(s), Alive(t))
    BY <2>3 DEF ExistsBijection
  <2> QED BY <2>1, <2>4, FS_CountingElements
<1>4. u.num_active_node = 0
  BY <1>0, <1>2, <1>3 DEF Counted
<1> DEFINE v == [Clear_Patricia(t) EXCEPT !.head = Nil]
<1>5. /\ v \in TreeOf /\ v.head = Nil /\ ~v.broken /\ v.node = u.node /\ v.prefix = u.prefix
      /\ v.num_active_node = 0
  <2>1. Asserting(u, u.num_active_node = 0) = [u EXCEPT !.broken = u.broken \/ ~(u.num_active_node = 0)]
    BY DEF Asserting
  <2>2. (u.broken \/ ~(u.num_active_node = 0)) = FALSE
    BY <1>2, <1>4
  <2>3. Clear_Patricia(t) = [u EXCEPT !.broken = FALSE]
    BY <2>1, <2>2, <1>1
  <2> QED BY <2>3, <1>2, <1>4 DEF TreeOf
<1> HIDE DEF v
<1>6. Alive(v) = {}
  <2> SUFFICES ASSUME NEW n \in Node  PROVE v.node[n] = Free
    BY DEF Alive
  <2>1. CASE n \in Alive(t)
    <3>1. \E j \in 1 .. Len(s) : s[j] = n
      BY <2>1, <1>0 DEF Lists
    <3> QED BY <3>1, <1>2, <1>5
  <2>2. CASE n \notin Alive(t)
    BY <2>2, <1>2, <1>5 DEF Alive
  <2> QED BY <2>1, <2>2
<1>7. Linked(v) /\ Needed(v)
  BY <1>5, <1>6 DEF Linked, Needed
<1>8. Counted(v)
  BY <1>5, <1>6, FS_EmptySet DEF Counted
<1>9. Filed(v)
  <2>1. ASSUME NEW o \in Object, v.prefix[o].ref_count # 0  PROVE FALSE
    <3>1. CASE t.prefix[o].ref_count # 0
      <4>1. o \in Alive(t) /\ t.node[o].prefix = o
        BY <3>1, <1>0 DEF Filed
      <4>2. o \in Full(t)
        BY <4>1, PatriciaAssumption DEF Full
      <4>3. \E j \in 1 .. Len(s) : s[j] = o
        BY <4>1, <1>0 DEF Lists
      <4>4. v.prefix[o] = NoPrefix
        BY <4>2, <4>3, <1>2, <1>5
      <4> QED BY <4>4, <2>1 DEF NoPrefix
    <3>2. CASE t.prefix[o].ref_count = 0
      <4>1. v.prefix[o] = NoPrefix \/ v.prefix[o] = t.prefix[o]
        BY <1>2, <1>5
      <4> QED BY <4>1, <3>2, <2>1 DEF NoPrefix
    <3> QED BY <3>1, <3>2
  <2> QED BY <2>1, <1>6 DEF Filed
<1>10. Full(v) = {}
  BY <1>6 DEF Full
<1> QED BY <1>5, <1>7, <1>8, <1>9, <1>10 DEF Sound, v


(***************************************************************************)
(* Every call leaves a sound tree, and a sound tree is what TreeSound says. *)
(***************************************************************************)

\* One node names a prefix object that is counted, and none one that is not.
LEMMA OwnedOnce ==
  ASSUME NEW t, Sound(t), NEW o \in Object
  PROVE  /\ t.prefix[o].ref_count \in {0, 1}
         /\ t.prefix[o].ref_count = 1 => {n \in Alive(t) : t.node[n].prefix = o} = {o}
<1>0. t \in TreeOf /\ Filed(t) /\ o # Nil
  BY PatriciaAssumption DEF Sound, Object
<1>1. ASSUME t.prefix[o].ref_count # 0
      PROVE  o \in Alive(t) /\ t.node[o].prefix = o /\ t.prefix[o].ref_count = 1
  BY <1>0, <1>1 DEF Filed
<1>2. ASSUME NEW n \in Alive(t), t.node[n].prefix = o  PROVE n = o
  BY <1>0, <1>2 DEF Filed
<1>3. t.prefix[o].ref_count \in {0, 1}
  BY <1>1
<1>4. ASSUME t.prefix[o].ref_count = 1  PROVE {n \in Alive(t) : t.node[n].prefix = o} = {o}
  <2>1. t.prefix[o].ref_count # 0
    BY <1>4
  <2> QED BY <2>1, <1>1, <1>2
<1> QED BY <1>3, <1>4

LEMMA InvTree == PatInv => TreeSound
<1> SUFFICES ASSUME PatInv  PROVE TreeSound
  OBVIOUS
<1>0. /\ Sound(tree) /\ OnlyBadTextStops /\ tree \in TreeOf /\ Linked(tree) /\ Needed(tree)
      /\ Filed(tree) /\ Counted(tree)
  BY DEF PatInv, Sound
<1>1. Live = Alive(tree)
  BY DEF Live, Alive
<1>2. Range(AllNodes(tree)) = Live
  <2>1. Lists(AllNodes(tree), Alive(tree))
    BY <1>0, AllNodesListed DEF Counted
  <2> DEFINE w == AllNodes(tree)
  <2> HIDE DEF w
  <2>2. w \in Seq(Node) /\ DOMAIN w = 1 .. Len(w)
    BY <2>1 DEF Lists, w
  <2>3. Range(w) = {w[i] : i \in 1 .. Len(w)}
    BY <2>2 DEF Range
  <2>4. Range(w) = Alive(tree)
    BY <2>1, <2>3 DEF Lists, w
  <2> QED BY <2>4, <1>1 DEF w
<1>3. tree.num_active_node = Cardinality(Live)
  BY <1>0, <1>1 DEF Counted
<1>4. ASSUME NEW n \in Live
      PROVE  /\ tree.node[n].prefix = Nil => tree.node[n].l # Nil /\ tree.node[n].r # Nil
             /\ tree.node[n].prefix # Nil => PrefixOf(tree, n).bitlen = tree.node[n].bit
             /\ \A c \in {tree.node[n].l, tree.node[n].r} \ {Nil} :
                  tree.node[c].parent = n /\ tree.node[c].bit > tree.node[n].bit
             /\ tree.node[n].parent = Nil <=> n = tree.head
  <2>0. n \in Alive(tree) /\ tree.node[n].l = Kid(tree, n, 0) /\ tree.node[n].r = Kid(tree, n, 1)
    BY <1>1 DEF Kid
  <2>1. tree.node[n].prefix = Nil => tree.node[n].l # Nil /\ tree.node[n].r # Nil
    BY <2>0, <1>0 DEF Needed
  <2>2. tree.node[n].prefix # Nil => PrefixOf(tree, n).bitlen = tree.node[n].bit
    BY <2>0, <1>0 DEF Filed, Linked, PrefixOf
  <2>3. ASSUME NEW s \in {0, 1}, NEW c, c = Kid(tree, n, s), c # Nil
        PROVE  tree.node[c].parent = n /\ tree.node[c].bit > tree.node[n].bit
    <3>1. c \in Alive(tree) /\ tree.node[c].parent = n /\ Under(n, c)
      BY <2>0, <2>3, <1>0 DEF Linked
    <3>2. tree.node[c].bit = Len(c) /\ tree.node[n].bit = Len(n)
      BY <3>1, <2>0, <1>0 DEF Linked
    <3>3. Len(c) \in Nat /\ Len(n) \in Nat
      BY <3>1, <2>0, NodeFacts DEF Alive
    <3> QED BY <3>1, <3>2, <3>3 DEF Under
  <2>4. tree.node[n].parent = Nil <=> n = tree.head
    BY <2>0, <1>0, ParentFields
  <2> QED BY <2>0, <2>1, <2>2, <2>3, <2>4
<1>5. WellFormed
  BY <1>2, <1>3, <1>4 DEF WellFormed
<1>6. PrefixOwned
  <2>1. ASSUME NEW o \in Object
        PROVE  /\ tree.prefix[o].ref_count \in {0, 1}
               /\ tree.prefix[o].ref_count = 1 => Cardinality({n \in Live : tree.node[n].prefix = o}) = 1
    BY <1>0, <1>1, OwnedOnce, FS_Singleton
  <2>2. \A n \in Live : tree.node[n].prefix # Nil => tree.prefix[tree.node[n].prefix].ref_count = 1
    BY <1>0, <1>1 DEF Filed
  <2> QED BY <2>1, <2>2 DEF PrefixOwned
<1> QED BY <1>0, <1>5, <1>6 DEF TreeSound

LEMMA EmptySound == Sound(New_Patricia)
<1> DEFINE t == New_Patricia
<1>1. Free \in NodeOf
  BY PatriciaAssumption DEF Free, NodeOf
<1>2. NoPrefix \in PrefixRec
  BY PatriciaAssumption DEF NoPrefix, PrefixRec, Bits
<1>3. /\ t.head = Nil /\ t.num_active_node = 0 /\ t.broken = FALSE
      /\ t.node = [n \in Node |-> Free] /\ t.prefix = [o \in Object |-> NoPrefix]
  BY DEF New_Patricia
<1>4. t \in TreeOf
  BY <1>1, <1>2 DEF New_Patricia, TreeOf
<1> HIDE DEF t
<1>5. Alive(t) = {}
  BY <1>3 DEF Alive
<1>6. Linked(t) /\ Needed(t)
  BY <1>3, <1>5 DEF Linked, Needed
<1>7. Counted(t)
  BY <1>3, <1>5, FS_EmptySet DEF Counted
<1>8. Filed(t)
  <2>1. \A o \in Object : t.prefix[o].ref_count = 0
    BY <1>3 DEF NoPrefix
  <2> QED BY <2>1, <1>5 DEF Filed
<1> QED BY <1>3, <1>4, <1>6, <1>7, <1>8 DEF Sound, t

LEMMA PatInitInv == PatInit => PatInv
BY EmptySound DEF PatInit, PatInv, OnlyBadTextStops

\* What ascii2prefix makes of a text is a prefix of at most maxbits bits.
LEMMA ParsedPrefix ==
  ASSUME NEW s \in Texts, NEW p \in Range(ascii2prefix(s))
  PROVE  p.add \in Bits /\ p.bitlen \in 0 .. maxbits
<1> DEFINE add == my_inet_pton(s)
           len == IF s.rest = "slash" /\ s.bitlen \in 0 .. maxbits THEN s.bitlen ELSE maxbits
           a == [i \in 1 .. maxbits |-> IF i <= Len(s.part) THEN s.part[i] ELSE 0]
<1>0. s.part \in Seq(Nat) /\ maxbits \in Nat
  BY PatriciaAssumption
<1>1. add = << >> => Range(ascii2prefix(s)) = {}
  <2>1. Range(<< >>) = {}
    BY DEF Range
  <2> QED BY <2>1 DEF ascii2prefix
<1>2. add # << >>
  BY <1>1
<1>3. add = <<a>> /\ ~\E i \in DOMAIN s.part : s.part[i] > 1
  BY <1>2 DEF my_inet_pton
<1>4. a \in Bits
  <2> SUFFICES ASSUME NEW i \in 1 .. maxbits  PROVE (IF i <= Len(s.part) THEN s.part[i] ELSE 0) \in {0, 1}
    BY DEF Bits
  <2>1. CASE i <= Len(s.part)
    <3>1. i \in DOMAIN s.part /\ s.part[i] \in Nat
      BY <2>1, <1>0
    <3> QED BY <3>1, <2>1, <1>3
  <2>2. CASE ~(i <= Len(s.part))
    BY <2>2
  <2> QED BY <2>1, <2>2
<1>5. len \in 0 .. maxbits
  BY <1>0
<1>6. p = [add |-> a, bitlen |-> len]
  <2>1. ascii2prefix(s) = <<[add |-> add[1], bitlen |-> len]>>
    BY <1>2 DEF ascii2prefix
  <2>2. add[1] = a
    <3> HIDE DEF add, a
    <3> QED BY <1>3
  <2>3. ascii2prefix(s) = <<[add |-> a, bitlen |-> len]>>
    BY <2>1, <2>2
  <2> HIDE DEF a, len
  <2> QED BY <2>3 DEF Range
<1> HIDE DEF a, len
<1> QED BY <1>4, <1>5, <1>6

LEMMA FinishInv ==
  ASSUME NEW t, Sound(t), NEW what, NEW ans, Finish(t, what, ans)
  PROVE  PatInv'
<1>1. tree' = t /\ fault' = "none"
  BY DEF Finish, Sound
<1>2. Sound(tree)'
  BY <1>1 DEF Sound, TreeOf, Linked, Needed, Filed, Counted, Alive, Kid
<1> QED BY <1>1, <1>2 DEF PatInv, OnlyBadTextStops

LEMMA PatNextInv == PatInv /\ [PatNext]_patvars => PatInv'
<1> SUFFICES ASSUME PatInv, [PatNext]_patvars  PROVE PatInv'
  OBVIOUS
<1>0. Sound(tree) /\ OnlyBadTextStops
  BY DEF PatInv
<1>u. ASSUME tree' = tree, fault' \in {"none", "null prefix"}  PROVE PatInv'
  BY <1>0, <1>u DEF PatInv, OnlyBadTextStops
<1>1. ASSUME NEW s \in Texts, NotAPrefix(s)  PROVE PatInv'
  BY <1>1, <1>u DEF NotAPrefix
<1>2. ASSUME NEW s \in Texts, make_and_lookup(s)  PROVE PatInv'
  <2>1. PICK p \in Range(ascii2prefix(s)) :
          LET o == FreshPrefix(tree, p)
              t == patricia_lookup(New_Prefix2(tree, p), o)
          IN  Finish(Deref_Prefix(t, o), <<"add", Masked(p)>>, <<Masked(p)>>)
    BY <1>2 DEF make_and_lookup
  <2> DEFINE o == FreshPrefix(tree, p)
             u == Deref_Prefix(patricia_lookup(New_Prefix2(tree, p), o), o)
  <2>2. p.add \in Bits /\ p.bitlen \in 0 .. maxbits
    BY ParsedPrefix
  <2>3. Sound(u)
    BY <1>0, <2>2, LookupSound
  <2>4. Finish(u, <<"add", Masked(p)>>, <<Masked(p)>>)
    BY <2>1
  <2> HIDE DEF u
  <2> QED BY <2>3, <2>4, FinishInv
<1>3. ASSUME NEW s \in Texts, try_search_exact(s)  PROVE PatInv'
  BY <1>0, <1>3, FinishInv DEF try_search_exact
<1>4. ASSUME NEW s \in Texts, NEW inclusive \in BOOLEAN, try_search_best(s, inclusive)  PROVE PatInv'
  BY <1>0, <1>4, FinishInv DEF try_search_best
<1>5. ASSUME NEW s \in Texts, lookup_then_remove(s)  PROVE PatInv'
  <2>1. PICK p \in Range(ascii2prefix(s)) :
          LET n == patricia_search_exact(tree, p)
          IN  Finish(IF n = Nil THEN tree ELSE patricia_remove(tree, n), <<"drop", Masked(p)>>, << >>)
    BY <1>5 DEF lookup_then_remove
  <2> DEFINE n == patricia_search_exact(tree, p)
             u == IF n = Nil THEN tree ELSE patricia_remove(tree, n)
  <2>2. p.add \in Bits /\ p.bitlen \in 0 .. maxbits
    BY ParsedPrefix
  <2>3. n # Nil => n \in Full(tree)
    BY <1>0, <2>2, ExactFinds DEF Sound
  <2>4. Finish(u, <<"drop", Masked(p)>>, << >>)
    BY <2>1
  <2>5. Sound(u)
    <3> HIDE DEF n
    <3> QED BY <1>0, <2>3, RemoveSound
  <2> HIDE DEF u
  <2> QED BY <2>4, <2>5, FinishInv
<1>6. ASSUME WalkInorder  PROVE PatInv'
  BY <1>0, <1>6, FinishInv DEF WalkInorder
<1>7. ASSUME Process  PROVE PatInv'
  BY <1>0, <1>7, FinishInv DEF Process
<1>8. ASSUME Destroy_Patricia  PROVE PatInv'
  <2> DEFINE u == [Clear_Patricia(tree) EXCEPT !.head = Nil]
  <2>1. Sound(u)
    BY <1>0, ClearSound
  <2>2. Finish(u, <<"clear">>, << >>)
    BY <1>8 DEF Destroy_Patricia
  <2> HIDE DEF u
  <2> QED BY <2>1, <2>2, FinishInv
<1>9. CASE UNCHANGED patvars
  BY <1>0, <1>9, <1>u DEF patvars, OnlyBadTextStops
<1> QED BY <1>1, <1>2, <1>3, <1>4, <1>5, <1>6, <1>7, <1>8, <1>9 DEF PatNext

\* However many prefixes of whatever length are inserted, looked up and removed, in whatever
\* order: patricia_lookup, patricia_remove and Clear_Patricia leave every node below the
\* parent it names, every glue node with two children, every count right and every prefix
\* object owned once, and no assertion of patricia.c fails.
THEOREM TreeCorrect == PatSpec => []TreeSound
<1>1. PatInit => PatInv
  BY PatInitInv
<1>2. PatInv /\ [PatNext]_patvars => PatInv'
  BY PatNextInv
<1>3. PatInv => TreeSound
  BY InvTree
<1> QED BY <1>1, <1>2, <1>3, PTL DEF PatSpec
=============================================================================
