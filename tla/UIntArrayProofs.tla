--------------------------- MODULE UIntArrayProofs ---------------------------
(***************************************************************************)
(* What the searches and the sorted operations of UIntArray compute, for   *)
(* arrays of any length.  The binary search is a recursive function; what  *)
(* it returns is proved by induction on the width of its interval, and the *)
(* induction itself rests on the least number of a set of naturals, which  *)
(* the well-foundedness of strict inclusion on finite sets gives.          *)
(***************************************************************************)
EXTENDS UIntArray, FiniteSetTheorems, TLAPS

\* Every non-empty set of naturals has a least element.
LEMMA LeastNumber ==
  ASSUME NEW T \in SUBSET Nat, T # {}
  PROVE \E m \in T : \A k \in T : m <= k
<1> DEFINE F == {0..k : k \in T}
<1>1. IsWellFoundedOn(StrictSubsetOrdering(Nat), FiniteSubsetsOf(Nat))
  BY FS_StrictSubsetOrderingWellFounded
<1>2. F \subseteq FiniteSubsetsOf(Nat)
  <2>1. \A k \in T : IsFiniteSet(0..k)
    BY FS_Interval
  <2> QED BY <2>1 DEF FiniteSubsetsOf
<1>3. F # {}
  OBVIOUS
<1> HIDE DEF F
<1>4. PICK M \in F : \A N \in F : <<N, M>> \notin StrictSubsetOrdering(Nat)
  BY <1>1, <1>2, <1>3, WFMin
<1>5. PICK m \in T : M = 0..m
  BY DEF F
<1>6. ASSUME NEW k \in T, k < m PROVE FALSE
  <2>1. 0..k \in F
    BY DEF F
  <2>2. 0..k \subseteq 0..m /\ 0..k # 0..m
    BY <1>6, m \in 0..m, m \notin 0..k
  <2>3. <<0..k, M>> \in StrictSubsetOrdering(Nat)
    BY <2>2, <1>5 DEF StrictSubsetOrdering
  <2> QED BY <2>1, <2>3, <1>4
<1> QED BY <1>6

\* Induction over the naturals, with a set in place of a predicate.
LEMMA NatSetInduction ==
  ASSUME NEW T, 0 \in T, \A n \in Nat : n \in T => n + 1 \in T
  PROVE Nat \subseteq T
<1>1. SUFFICES ASSUME Nat \ T # {} PROVE FALSE
  OBVIOUS
<1>2. PICK m \in Nat \ T : \A k \in Nat \ T : m <= k
  BY <1>1, LeastNumber
<1>3. m # 0 /\ m - 1 \in Nat /\ m - 1 \in T
  BY <1>2
<1>4. (m - 1) + 1 \in T
  BY <1>3
<1> QED BY <1>2, <1>4

\* f starts at d0 and goes from its value at n to the next one by G[n].
Iterates(f, D, d0, G) ==
  f \in [Nat -> D] /\ f[0] = d0 /\ \A n \in Nat : f[n + 1] = G[n][f[n]]

\* A function on the naturals may be defined by its first value and the next one.
LEMMA RecursiveFunction ==
  ASSUME NEW D, NEW d0 \in D, NEW G \in [Nat -> [D -> D]]
  PROVE  \E f : Iterates(f, D, d0, G)
<1> DEFINE Approx(g, n) == /\ g \in [0..n -> D] /\ g[0] = d0
                           /\ \A k \in 0..(n - 1) : g[k + 1] = G[k][g[k]]
           Val(n) == {x \in D : \E g : Approx(g, n) /\ g[n] = x}
           T == {n \in Nat : \E x \in Val(n) : \A y \in Val(n) : y = x}
<1>1. 0 \in T
  <2>1. Approx([i \in 0..0 |-> d0], 0)
    OBVIOUS
  <2>2. d0 \in Val(0) /\ \A y \in Val(0) : y = d0
    BY <2>1
  <2> QED BY <2>2
<1>2. ASSUME NEW n \in Nat, NEW g, Approx(g, n)
      PROVE  /\ Approx([i \in 0..(n + 1) |-> IF i = n + 1 THEN G[n][g[n]] ELSE g[i]], n + 1)
             /\ g[n] \in Val(n)
             /\ G[n][g[n]] \in Val(n + 1)
  <2> DEFINE h == [i \in 0..(n + 1) |-> IF i = n + 1 THEN G[n][g[n]] ELSE g[i]]
  <2>1. g[n] \in D /\ G[n][g[n]] \in D
    BY <1>2
  <2>2. h \in [0..(n + 1) -> D] /\ h[0] = d0 /\ h[n + 1] = G[n][g[n]]
    BY <1>2, <2>1
  <2>3. ASSUME NEW k \in 0..((n + 1) - 1) PROVE h[k + 1] = G[k][h[k]]
    <3>1. k \in 0..n /\ h[k] = g[k]
      OBVIOUS
    <3>2. CASE k = n
      BY <3>1, <3>2, <2>2
    <3>3. CASE k # n
      <4>1. k \in 0..(n - 1) /\ h[k + 1] = g[k + 1]
        BY <3>1, <3>3
      <4> QED BY <4>1, <3>1, <1>2
    <3> QED BY <3>2, <3>3
  <2> HIDE DEF h
  <2>4. Approx(h, n + 1)
    BY <2>2, <2>3
  <2> QED BY <2>4, <2>1, <2>2, <1>2 DEF h
<1>3. ASSUME NEW n \in Nat, NEW y \in Val(n + 1)
      PROVE  \E x \in Val(n) : y = G[n][x]
  <2>1. PICK g : Approx(g, n + 1) /\ g[n + 1] = y
    OBVIOUS
  <2> DEFINE h == [i \in 0..n |-> g[i]]
  <2>2. Approx(h, n) /\ h[n] = g[n] /\ y = G[n][g[n]]
    <3>1. h \in [0..n -> D] /\ h[0] = d0 /\ h[n] = g[n]
      BY <2>1
    <3>2. ASSUME NEW k \in 0..(n - 1) PROVE h[k + 1] = G[k][h[k]]
      <4>1. k \in 0..((n + 1) - 1) /\ k + 1 \in 0..n /\ k \in 0..n
        OBVIOUS
      <4> QED BY <4>1, <2>1
    <3>3. n \in 0..((n + 1) - 1)
      OBVIOUS
    <3> HIDE DEF h
    <3> QED BY <3>1, <3>2, <3>3, <2>1
  <2> HIDE DEF h, Val, Approx
  <2>3. h[n] \in Val(n)
    BY <2>2, <1>2
  <2> QED BY <2>2, <2>3
<1> HIDE DEF Val, Approx
<1>4. ASSUME NEW n \in Nat, n \in T PROVE n + 1 \in T
  <2>1. PICK x \in Val(n) : \A y \in Val(n) : y = x
    BY <1>4
  <2>2. PICK g : Approx(g, n) /\ g[n] = x
    BY DEF Val
  <2>3. G[n][x] \in Val(n + 1)
    BY <1>2, <2>2
  <2>4. \A y \in Val(n + 1) : y = G[n][x]
    BY <1>3, <2>1
  <2> QED BY <2>3, <2>4
<1> DEFINE f == [n \in Nat |-> CHOOSE x \in Val(n) : TRUE]
<1>5. \A n \in Nat : f[n] \in Val(n) /\ \A y \in Val(n) : y = f[n]
  <2>1. Nat \subseteq T
    <3> HIDE DEF T
    <3> QED BY <1>1, <1>4, NatSetInduction
  <2> QED BY <2>1
<1> HIDE DEF f, T
<1>6. \A n \in Nat : f[n] \in D
  BY <1>5 DEF Val
<1>7. f \in [Nat -> D]
  BY <1>6 DEF f
<1>8. f[0] = d0
  BY <1>5 DEF Val, Approx
<1>9. ASSUME NEW n \in Nat PROVE f[n + 1] = G[n][f[n]]
  <2>1. PICK x \in Val(n) : f[n + 1] = G[n][x]
    BY <1>3, <1>5
  <2> QED BY <2>1, <1>5
<1> QED BY <1>7, <1>8, <1>9 DEF Iterates

\* s lists elements of S in increasing order, as many as S has.
Enumerates(s, S) ==
  s \in [1..Cardinality(S) -> S] /\ \A a, b \in 1..Cardinality(S) : a < b => s[a] < s[b]

\* A bounded set of naturals is finite and has a sorted enumeration.
LEMMA EnumerationExists ==
  ASSUME NEW n \in Nat, NEW S \in SUBSET (0..(n - 1))
  PROVE  IsFiniteSet(S) /\ \E s : Enumerates(s, S)
<1> DEFINE T == {k \in Nat : \A R \in SUBSET (0..(k - 1)) : IsFiniteSet(R) /\ \E s : Enumerates(s, R)}
<1>1. 0 \in T
  <2> SUFFICES ASSUME NEW R \in SUBSET (0..(0 - 1))
               PROVE  IsFiniteSet(R) /\ \E s : Enumerates(s, R)
    OBVIOUS
  <2>1. R = {}
    OBVIOUS
  <2>2. IsFiniteSet(R) /\ Cardinality(R) = 0
    BY <2>1, FS_EmptySet
  <2>3. Enumerates([k \in 1..0 |-> 0], R)
    BY <2>2 DEF Enumerates
  <2> QED
    BY <2>2, <2>3
<1>2. ASSUME NEW k \in Nat, k \in T PROVE k + 1 \in T
  <2> SUFFICES ASSUME NEW R \in SUBSET (0..k)
               PROVE  IsFiniteSet(R) /\ \E s : Enumerates(s, R)
    OBVIOUS
  <2>1. CASE k \notin R
    <3>1. R \in SUBSET (0..(k - 1))
      BY <2>1
    <3> QED
      BY <1>2, <3>1
  <2>2. CASE k \in R
    <3> DEFINE R0 == R \ {k}
               c == Cardinality(R0)
    <3>1. R0 \in SUBSET (0..(k - 1))
      OBVIOUS
    <3>2. IsFiniteSet(R0) /\ \E s : Enumerates(s, R0)
      BY <1>2, <3>1
    <3>3. R = R0 \cup {k} /\ k \notin R0
      BY <2>2
    <3> HIDE DEF R0
    <3>4. c \in Nat /\ IsFiniteSet(R) /\ Cardinality(R) = c + 1
      BY <3>2, <3>3, FS_CardinalityType, FS_AddElement
    <3>5. PICK s : Enumerates(s, R0)
      BY <3>2
    <3>6. s \in [1..c -> R0] /\ \A a, b \in 1..c : a < b => s[a] < s[b]
      BY <3>5 DEF Enumerates
    <3> HIDE DEF c
    <3> DEFINE t == [a \in 1..(c + 1) |-> IF a = c + 1 THEN k ELSE s[a]]
    <3>7. t \in [1..(c + 1) -> R]
      BY <3>3, <3>4, <3>6
    <3>8. \A a \in 1..c : s[a] < k
      <4>1. \A a \in 1..c : s[a] \in 0..(k - 1)
        BY <3>1, <3>6
      <4> QED
        BY <4>1
    <3>9. ASSUME NEW a \in 1..(c + 1), NEW b \in 1..(c + 1), a < b PROVE t[a] < t[b]
      BY <3>4, <3>6, <3>8, <3>9
    <3>10. Enumerates(t, R)
      BY <3>4, <3>7, <3>9 DEF Enumerates
    <3> QED
      BY <3>4, <3>10
  <2> QED
    BY <2>1, <2>2
<1> HIDE DEF T
<1>3. \A k \in Nat : k \in T => k + 1 \in T
  BY <1>2
<1>4. Nat \subseteq T
  BY <1>1, <1>3, NatSetInduction
<1>5. n \in T
  BY <1>4
<1> QED
  BY <1>5 DEF T

\* A finite set of naturals has a bound.
LEMMA FiniteBounded ==
  ASSUME NEW S \in SUBSET Nat, IsFiniteSet(S)
  PROVE  \E n \in Nat : S \in SUBSET (0..(n - 1))
<1> DEFINE Bound(R, n) == R \in SUBSET (0..(n - 1))
           T == {k \in Nat : \A R \in SUBSET Nat : IsFiniteSet(R) /\ Cardinality(R) = k
                              => \E n \in Nat : Bound(R, n)}
<1> HIDE DEF T, Bound
<1>1. 0 \in T
  <2>1. ASSUME NEW R \in SUBSET Nat, IsFiniteSet(R), Cardinality(R) = 0
        PROVE  Bound(R, 0)
    <3>1. R = {}
      BY <2>1, FS_EmptySet
    <3> QED BY <3>1 DEF Bound
  <2> QED BY <2>1 DEF T
<1>2. ASSUME NEW k \in Nat, k \in T PROVE k + 1 \in T
  <2>1. ASSUME NEW R \in SUBSET Nat, IsFiniteSet(R), Cardinality(R) = k + 1
        PROVE  \E n \in Nat : Bound(R, n)
    <3>1. R # {}
      BY <2>1, FS_EmptySet
    <3>2. PICK x \in R : TRUE
      BY <3>1
    <3> DEFINE R0 == R \ {x}
    <3>3. IsFiniteSet(R0) /\ Cardinality(R0) = Cardinality(R) - 1
      BY <2>1, <3>2, FS_RemoveElement
    <3>4. R0 \in SUBSET Nat /\ Cardinality(R0) = k
      <4>1. k + 1 - 1 = k
        OBVIOUS
      <4> QED BY <2>1, <3>3, <4>1
    <3>5. PICK n \in Nat : Bound(R0, n)
      <4> HIDE DEF R0
      <4> QED BY <1>2, <3>3, <3>4 DEF T
    <3> DEFINE b == n + x + 1
    <3>6. x \in Nat
      BY <2>1, <3>2
    <3>7. b \in Nat /\ \A y \in R0 : y \in 0..(b - 1)
      BY <3>5, <3>6 DEF Bound
    <3>8. x \in 0..(b - 1)
      BY <3>6
    <3>9. \A y \in R : y \in R0 \/ y = x
      OBVIOUS
    <3> HIDE DEF R0, b
    <3>10. Bound(R, b)
      BY <3>7, <3>8, <3>9 DEF Bound
    <3> QED BY <3>7, <3>10
  <2> QED BY <2>1 DEF T
<1>3. \A k \in Nat : k \in T => k + 1 \in T
  BY <1>2
<1>4. Nat \subseteq T
  <2>1. T \subseteq Nat
    BY DEF T
  <2> QED BY <1>1, <1>3, <2>1, NatSetInduction
<1>5. Cardinality(S) \in T
  BY <1>4, FS_CardinalityType
<1> QED BY <1>5 DEF T, Bound

\* bin_search_uint, on a sorted array without duplicates: it returns the position
\* of a value that is there, and UINT_MAX for one that is not.
THEOREM BinSearchFinds ==
  ASSUME NEW V \in SUBSET Int, NEW arr \in Seq(V), arr # <<>>, StrictlySorted(arr),
         NEW elt \in Int
  PROVE  IF elt \in Elts(arr)
         THEN /\ bin_search_uint(arr, elt) \in 0..(Len(arr) - 1)
              /\ arr[bin_search_uint(arr, elt) + 1] = elt
         ELSE bin_search_uint(arr, elt) = NotFound
<1> DEFINE n == Len(arr)
           D == (0..n) \X (0..(n - 1))
           mid(a, b) == (a + b) \div 2
           body(f, a, b) == IF b < a THEN NotFound
                            ELSE IF elt < arr[mid(a, b) + 1]
                                 THEN IF mid(a, b) = 0 THEN NotFound
                                      ELSE f[<<a, mid(a, b) - 1>>]
                                 ELSE IF elt > arr[mid(a, b) + 1]
                                      THEN f[<<mid(a, b) + 1, b>>]
                                 ELSE mid(a, b)
           Fix(f) == f = [w \in D |-> body(f, w[1], w[2])]
           at(a, b) == {i \in a..b : arr[i + 1] = elt}
           ans(a, b) == IF at(a, b) = {} THEN NotFound ELSE CHOOSE i \in at(a, b) : TRUE
           sol == [w \in D |-> ans(w[1], w[2])]
<1>1. n \in Nat \ {0} /\ \A i \in 1..n : arr[i] \in Int
  <2>1. n \in Nat \ {0} /\ arr \in [1..n -> V]
    OBVIOUS
  <2> QED BY <2>1
<1>2. \A i, j \in 1..n : i < j => arr[i] < arr[j]
  BY DEF StrictlySorted
<1>3. ASSUME NEW a \in 0..n, NEW b \in 0..(n - 1), a <= b
      PROVE  /\ mid(a, b) \in a..b /\ mid(a, b) \in 0..(n - 1) /\ arr[mid(a, b) + 1] \in Int
             /\ elt < arr[mid(a, b) + 1] /\ mid(a, b) # 0 => at(a, b) = at(a, mid(a, b) - 1)
             /\ elt < arr[mid(a, b) + 1] /\ mid(a, b) = 0 => at(a, b) = {}
             /\ elt > arr[mid(a, b) + 1] => at(a, b) = at(mid(a, b) + 1, b)
             /\ elt = arr[mid(a, b) + 1] => at(a, b) = {mid(a, b)}
  <2> DEFINE i == mid(a, b)
  <2>1. i \in a..b /\ i \in 0..(n - 1)
    BY <1>1, <1>3
  <2> HIDE DEF i
  <2>2. arr[i + 1] \in Int
    BY <2>1, <1>1
  <2>3. ASSUME elt < arr[i + 1]
        PROVE  \A j \in a..b : arr[j + 1] = elt => j < i
    <3> SUFFICES ASSUME NEW j \in a..b, arr[j + 1] = elt, ~ j < i
                 PROVE FALSE
      OBVIOUS
    <3>1. j + 1 \in 1..n /\ i + 1 \in 1..n /\ (i + 1 < j + 1 \/ i = j)
      BY <2>1, <1>1
    <3> QED BY <3>1, <2>3, <1>2, <1>1
  <2>4. ASSUME elt > arr[i + 1]
        PROVE  \A j \in a..b : arr[j + 1] = elt => i < j
    <3> SUFFICES ASSUME NEW j \in a..b, arr[j + 1] = elt, ~ i < j
                 PROVE FALSE
      OBVIOUS
    <3>1. j + 1 \in 1..n /\ i + 1 \in 1..n /\ (j + 1 < i + 1 \/ i = j)
      BY <2>1, <1>1
    <3> QED BY <3>1, <2>4, <1>2, <1>1
  <2>5. ASSUME elt = arr[i + 1]
        PROVE  \A j \in a..b : arr[j + 1] = elt => j = i
    <3> SUFFICES ASSUME NEW j \in a..b, arr[j + 1] = elt, j # i
                 PROVE FALSE
      OBVIOUS
    <3>1. j + 1 \in 1..n /\ i + 1 \in 1..n /\ (j + 1 < i + 1 \/ i + 1 < j + 1)
      BY <2>1, <1>1
    <3> QED BY <3>1, <2>5, <1>2, <1>1
  <2>6. elt < arr[i + 1] => at(a, b) = at(a, i - 1)
    BY <2>1, <2>3
  <2>7. elt < arr[i + 1] /\ i = 0 => at(a, b) = {}
    BY <2>3
  <2>8. elt > arr[i + 1] => at(a, b) = at(i + 1, b)
    BY <2>1, <2>4
  <2>9. elt = arr[i + 1] => at(a, b) = {i}
    BY <2>1, <2>5
  <2> QED BY <2>1, <2>2, <2>6, <2>7, <2>8, <2>9 DEF i
<1>4. \A a \in 0..n, b \in 0..(n - 1) : b < a => at(a, b) = {}
  OBVIOUS
<1>5. \A a \in 0..n, b \in 0..(n - 1) : sol[<<a, b>>] = ans(a, b)
  <2> HIDE DEF ans
  <2> QED OBVIOUS
<1>6. ASSUME NEW a \in 0..n, NEW b \in 0..(n - 1), a <= b
      PROVE  /\ mid(a, b) \in a..b /\ mid(a, b) + 1 \in 0..n
             /\ mid(a, b) # 0 => mid(a, b) - 1 \in 0..(n - 1)
  <2> HIDE DEF mid, n
  <2>1. mid(a, b) \in a..b /\ mid(a, b) \in 0..(n - 1)
    BY <1>6, <1>3
  <2> QED BY <1>1, <2>1
<1> HIDE DEF n, mid, at, sol
<1>7. ASSUME NEW a \in 0..n, NEW b \in 0..(n - 1)
      PROVE  ans(a, b) = body(sol, a, b)
  <2>1. CASE b < a
    BY <2>1, <1>4
  <2>2. CASE a <= b
    <3>1. ~ b < a /\ arr[mid(a, b) + 1] \in Int
      BY <2>2, <1>1, <1>3
    <3>2. CASE elt < arr[mid(a, b) + 1]
      <4>1. CASE mid(a, b) = 0
        BY <2>2, <3>1, <3>2, <4>1, <1>3
      <4>2. CASE mid(a, b) # 0
        <5>1. body(sol, a, b) = ans(a, mid(a, b) - 1)
          <6> HIDE DEF ans
          <6> QED BY <2>2, <3>1, <3>2, <4>2, <1>5, <1>6
        <5>2. at(a, b) = at(a, mid(a, b) - 1)
          BY <2>2, <3>2, <4>2, <1>3
        <5> QED BY <5>1, <5>2
      <4> QED BY <4>1, <4>2
    <3>3. CASE elt > arr[mid(a, b) + 1]
      <4>1. ~ elt < arr[mid(a, b) + 1]
        BY <3>3, <3>1
      <4>2. body(sol, a, b) = ans(mid(a, b) + 1, b)
        <5> HIDE DEF ans
        <5> QED BY <2>2, <3>1, <3>3, <4>1, <1>5, <1>6
      <4>3. at(a, b) = at(mid(a, b) + 1, b)
        BY <2>2, <3>3, <1>3
      <4> QED BY <4>2, <4>3
    <3>4. CASE elt = arr[mid(a, b) + 1]
      <4>1. ~ elt < arr[mid(a, b) + 1] /\ ~ elt > arr[mid(a, b) + 1]
        BY <3>4, <3>1
      <4>2. at(a, b) = {mid(a, b)}
        BY <2>2, <3>4, <1>3
      <4>3. ans(a, b) = mid(a, b)
        BY <4>2
      <4> QED BY <3>1, <4>1, <4>3
    <3> QED BY <3>1, <3>2, <3>3, <3>4
  <2> QED BY <2>1, <2>2, <1>1
<1>8. Fix(sol)
  <2>1. \A w \in D : w[1] \in 0..n /\ w[2] \in 0..(n - 1)
    OBVIOUS
  <2>2. \A w \in D : ans(w[1], w[2]) = body(sol, w[1], w[2])
    BY <2>1, <1>7
  <2> HIDE DEF ans, body, D
  <2> QED BY <2>2 DEF sol
<1>9. ASSUME NEW f, Fix(f), NEW a \in 0..n, NEW b \in 0..(n - 1)
      PROVE  f[<<a, b>>] = body(f, a, b)
  BY <1>9
<1>10. ASSUME NEW f, Fix(f), NEW a \in 0..n, NEW b \in 0..(n - 1)
      PROVE  f[<<a, b>>] = ans(a, b)
  <2> DEFINE Agree == {k \in Nat : \A c \in 0..n, d \in 0..(n - 1) :
                                     d - c < k => f[<<c, d>>] = ans(c, d)}
  <2>1. ASSUME NEW c \in 0..n, NEW d \in 0..(n - 1), d < c
        PROVE  f[<<c, d>>] = ans(c, d)
    <3>1. f[<<c, d>>] = body(f, c, d)
      BY <1>10, <1>9
    <3>2. at(c, d) = {}
      BY <2>1, <1>4
    <3> QED BY <3>1, <3>2, <2>1
  <2>2. 0 \in Agree
    <3> HIDE DEF ans
    <3>1. \A c \in 0..n, d \in 0..(n - 1) : d - c < 0 => d < c
      BY <1>1
    <3> QED BY <3>1, <2>1
  <2>3. ASSUME NEW k \in Nat, k \in Agree
        PROVE  k + 1 \in Agree
    <3> SUFFICES ASSUME NEW c \in 0..n, NEW d \in 0..(n - 1), d - c < k + 1, c <= d
                 PROVE  f[<<c, d>>] = ans(c, d)
      <4>1. \A c \in 0..n, d \in 0..(n - 1) : d < c \/ c <= d
        BY <1>1
      <4> HIDE DEF ans, body
      <4> QED BY <4>1, <2>1
    <3>1. \A x \in 0..n, y \in 0..(n - 1) : y - x < k => f[<<x, y>>] = ans(x, y)
      BY <2>3
    <3>2. f[<<c, d>>] = body(f, c, d)
      BY <1>10, <1>9
    <3>3. ans(c, d) = body(sol, c, d)
      BY <1>7
    <3>4. mid(c, d) \in c..d
      BY <1>3
    <3>5. ASSUME elt < arr[mid(c, d) + 1], mid(c, d) # 0
          PROVE  f[<<c, mid(c, d) - 1>>] = sol[<<c, mid(c, d) - 1>>]
      <4>1. mid(c, d) - 1 \in 0..(n - 1)
        BY <3>5, <1>6
      <4>2. (mid(c, d) - 1) - c < k
        BY <3>4, <1>1
      <4> HIDE DEF ans
      <4> QED BY <4>1, <4>2, <3>1, <1>5
    <3>6. ASSUME elt > arr[mid(c, d) + 1]
          PROVE  f[<<mid(c, d) + 1, d>>] = sol[<<mid(c, d) + 1, d>>]
      <4>1. mid(c, d) + 1 \in 0..n
        BY <1>6
      <4>2. d - (mid(c, d) + 1) < k
        BY <3>4, <1>1
      <4> HIDE DEF ans
      <4> QED BY <4>1, <4>2, <3>1, <1>5
    <3> QED BY <3>2, <3>3, <3>5, <3>6
  <2> HIDE DEF Agree
  <2>4. Nat \subseteq Agree
    BY <2>2, <2>3, NatSetInduction
  <2>5. n + 1 \in Agree /\ b - a < n + 1
    BY <2>4, <1>1
  <2> QED BY <2>5 DEF Agree
<1>11. bin_search_uint(arr, elt) = (CHOOSE f : Fix(f))[<<0, n - 1>>]
  BY DEF bin_search_uint, mid, n
<1>12. bin_search_uint(arr, elt) = ans(0, n - 1)
  <2> DEFINE f == CHOOSE f : Fix(f)
  <2>1. Fix(f)
    BY <1>8
  <2>2. 0 \in 0..n /\ n - 1 \in 0..(n - 1)
    BY <1>1
  <2> HIDE DEF f, Fix, ans
  <2>3. f[<<0, n - 1>>] = ans(0, n - 1)
    BY <2>1, <2>2, <1>10
  <2> QED BY <2>3, <1>11 DEF f
<1>13. at(0, n - 1) = {i \in 0..(n - 1) : arr[i + 1] = elt}
  BY DEF at
<1>14. elt \in Elts(arr) <=> at(0, n - 1) # {}
  <2>1. ASSUME elt \in Elts(arr) PROVE at(0, n - 1) # {}
    <3>1. PICK i \in 1..n : elt = arr[i]
      BY <2>1 DEF Elts, n
    <3>2. i - 1 \in 0..(n - 1) /\ (i - 1) + 1 = i
      BY <1>1
    <3>3. i - 1 \in at(0, n - 1)
      BY <3>1, <3>2, <1>13
    <3> QED BY <3>3
  <2>2. ASSUME NEW i \in at(0, n - 1) PROVE elt \in Elts(arr)
    BY <1>13, <1>1, <2>2, i + 1 \in 1..n DEF Elts, n
  <2> QED BY <2>1, <2>2
<1>15. CASE elt \in Elts(arr)
  <2>1. bin_search_uint(arr, elt) \in at(0, n - 1)
    BY <1>15, <1>12, <1>14
  <2> QED BY <1>15, <2>1, <1>13 DEF n
<1>16. CASE elt \notin Elts(arr)
  BY <1>16, <1>12, <1>14
<1> QED BY <1>15, <1>16

\* rhp_uint_findsorted: the same, also on the empty array.
LEMMA FindSortedFinds ==
  ASSUME NEW V \in SUBSET Int, NEW arr \in Seq(V), StrictlySorted(arr), NEW v \in Int
  PROVE  IF v \in Elts(arr)
         THEN /\ rhp_uint_findsorted(arr, v) # NotFound
              /\ rhp_uint_findsorted(arr, v) \in 0..(Len(arr) - 1)
              /\ arr[rhp_uint_findsorted(arr, v) + 1] = v
         ELSE rhp_uint_findsorted(arr, v) = NotFound
<1>1. CASE arr = <<>>
  <2>1. Elts(arr) = {} /\ Len(arr) = 0
    BY <1>1 DEF Elts
  <2> QED BY <2>1 DEF rhp_uint_findsorted
<1>2. CASE arr # <<>>
  <2>1. Len(arr) # 0
    BY <1>2
  <2>2. rhp_uint_findsorted(arr, v) = bin_search_uint(arr, v)
    BY <2>1 DEF rhp_uint_findsorted
  <2>3. \A i \in 0..(Len(arr) - 1) : i # NotFound
    BY DEF NotFound
  <2>4. Len(arr) \in Nat
    OBVIOUS
  <2> QED BY <1>2, <2>2, <2>3, <2>4, BinSearchFinds
<1> QED BY <1>1, <1>2

\* The largest of the positions at which a backward scan may stop.
LEMMA LargestOfProperties ==
  ASSUME NEW n \in Nat, NEW S \in SUBSET (1..n), S # {}
  PROVE  LargestOf(S) \in S /\ \A y \in S : y <= LargestOf(S)
<1> DEFINE T == {n - y : y \in S}
<1>1. T \in SUBSET Nat /\ T # {}
  <2>1. \A y \in S : y \in 1..n
    OBVIOUS
  <2>2. \A y \in S : n - y \in Nat
    BY <2>1
  <2> QED BY <2>2
<1>2. PICK d \in T : \A e \in T : d <= e
  BY <1>1, LeastNumber
<1>3. PICK x \in S : d = n - x
  BY <1>2
<1>4. \A y \in S : y <= x
  <2> TAKE y \in S
  <2>1. n - y \in T
    OBVIOUS
  <2> QED BY <2>1, <1>2, <1>3
<1> QED BY <1>4 DEF LargestOf

\* The memmove() and the store of an insertion: the new value is at pos, nothing
\* else is gained and nothing is lost.
LEMMA InsertedAtProperties ==
  ASSUME NEW V, NEW arr \in Seq(V), NEW v \in V, NEW pos \in 0..Len(arr)
  PROVE  /\ InsertedAt(arr, pos, v) \in Seq(V)
         /\ Len(InsertedAt(arr, pos, v)) = Len(arr) + 1
         /\ \A k \in 1..(Len(arr) + 1) :
              InsertedAt(arr, pos, v)[k] = IF k <= pos THEN arr[k]
                                           ELSE IF k = pos + 1 THEN v ELSE arr[k - 1]
         /\ Elts(InsertedAt(arr, pos, v)) = Elts(arr) \cup {v}
<1> DEFINE n == Len(arr)
           new == InsertedAt(arr, pos, v)
<1>1. n \in Nat /\ \A k \in 1..n : arr[k] \in V
  OBVIOUS
<1>2. \A k \in 1..(n + 1) : new[k] = IF k <= pos THEN arr[k]
                                     ELSE IF k = pos + 1 THEN v ELSE arr[k - 1]
  BY DEF InsertedAt
<1>3. \A k \in 1..(n + 1) : new[k] \in V
  <2> TAKE k \in 1..(n + 1)
  <2>1. k <= pos => k \in 1..n
    OBVIOUS
  <2>2. ~ k <= pos /\ k # pos + 1 => k - 1 \in 1..n
    OBVIOUS
  <2> QED BY <2>1, <2>2, <1>1, <1>2
<1>4. new = [k \in 1..(n + 1) |-> new[k]]
  BY DEF InsertedAt
<1>5. new \in Seq(V) /\ Len(new) = n + 1
  <2>1. n + 1 \in Nat /\ new \in [1..(n + 1) -> V]
    BY <1>1, <1>3, <1>4
  <2> HIDE DEF new, n
  <2> QED BY <2>1
<1> HIDE DEF new
<1>6. Elts(new) \subseteq Elts(arr) \cup {v}
  <2> SUFFICES ASSUME NEW k \in 1..(n + 1), new[k] # v
               PROVE  new[k] \in Elts(arr)
    BY <1>5 DEF Elts
  <2>1. CASE k <= pos
    BY <2>1, <1>2, k \in 1..n DEF Elts
  <2>2. CASE ~ k <= pos
    <3>1. k - 1 \in 1..n /\ new[k] = arr[k - 1]
      BY <2>2, <1>2
    <3> QED BY <3>1 DEF Elts
  <2> QED BY <2>1, <2>2
<1>7. v \in Elts(new)
  <2>1. pos + 1 \in 1..(n + 1) /\ new[pos + 1] = v
    BY <1>2
  <2> QED BY <2>1, <1>5 DEF Elts
<1>8. Elts(arr) \subseteq Elts(new)
  <2> SUFFICES ASSUME NEW k \in 1..n
               PROVE  arr[k] \in Elts(new)
    BY DEF Elts
  <2>1. CASE k <= pos
    <3>1. k \in 1..(n + 1) /\ new[k] = arr[k]
      BY <2>1, <1>2
    <3> QED BY <3>1, <1>5 DEF Elts
  <2>2. CASE ~ k <= pos
    <3>1. k + 1 \in 1..(n + 1) /\ (k + 1) - 1 = k /\ ~ k + 1 <= pos /\ k + 1 # pos + 1
      BY <2>2, <1>1
    <3>2. new[k + 1] = arr[k]
      BY <3>1, <1>2
    <3> QED BY <3>1, <3>2, <1>5 DEF Elts
  <2> QED BY <2>1, <2>2
<1> QED BY <1>2, <1>5, <1>6, <1>7, <1>8 DEF new

\* The memmove() of a removal from a sorted array: exactly the value at pos goes,
\* and the array stays sorted.
LEMMA RemoveAt0Properties ==
  ASSUME NEW V \in SUBSET Int, NEW arr \in Seq(V), StrictlySorted(arr), NEW pos \in 0..(Len(arr) - 1)
  PROVE  /\ RemoveAt0(arr, pos) \in Seq(V)
         /\ StrictlySorted(RemoveAt0(arr, pos))
         /\ Elts(RemoveAt0(arr, pos)) = Elts(arr) \ {arr[pos + 1]}
<1> DEFINE n == Len(arr)
           new == RemoveAt0(arr, pos)
<1>1. n \in Nat \ {0} /\ \A k \in 1..n : arr[k] \in V /\ arr[k] \in Int
  <2>1. n \in Nat /\ arr \in [1..n -> V]
    OBVIOUS
  <2>2. n # 0
    OBVIOUS
  <2> QED BY <2>1, <2>2
<1>2. \A i, j \in 1..n : i < j => arr[i] < arr[j]
  BY DEF StrictlySorted
<1> HIDE DEF n
<1>3. \A k \in 1..(n - 1) : new[k] = IF k <= pos THEN arr[k] ELSE arr[k + 1]
  BY DEF RemoveAt0, n
<1>4. new \in Seq(V) /\ Len(new) = n - 1
  <2>1. n - 1 \in Nat /\ new \in [1..(n - 1) -> V]
    BY <1>1 DEF RemoveAt0, n
  <2> HIDE DEF new
  <2> QED BY <2>1
<1> HIDE DEF new
<1>5. pos \in 0..(n - 1)
  BY DEF n
<1>6. ASSUME NEW i \in 1..(n - 1), NEW j \in 1..(n - 1), i < j
      PROVE  new[i] < new[j]
  <2>1. CASE j <= pos
    BY <2>1, <1>6, <1>3, <1>2, <1>1, <1>5
  <2>2. CASE ~ j <= pos /\ i <= pos
    <3>1. new[i] = arr[i] /\ new[j] = arr[j + 1] /\ i \in 1..n /\ j + 1 \in 1..n /\ i < j + 1
      BY <2>2, <1>6, <1>3, <1>1, <1>5
    <3> QED BY <3>1, <1>2
  <2>3. CASE ~ j <= pos /\ ~ i <= pos
    <3>1. /\ new[i] = arr[i + 1] /\ new[j] = arr[j + 1]
          /\ i + 1 \in 1..n /\ j + 1 \in 1..n /\ i + 1 < j + 1
      BY <2>3, <1>6, <1>3, <1>1, <1>5
    <3> QED BY <3>1, <1>2
  <2> QED BY <2>1, <2>2, <2>3
<1>7. \A k \in 1..n : k # pos + 1 => arr[k] # arr[pos + 1]
  <2> TAKE k \in 1..n
  <2>1. pos + 1 \in 1..n /\ (k = pos + 1 \/ k < pos + 1 \/ pos + 1 < k)
    BY <1>5, <1>1
  <2> QED BY <2>1, <1>2, <1>1
<1>8. Elts(new) \subseteq Elts(arr) \ {arr[pos + 1]}
  <2> SUFFICES ASSUME NEW k \in 1..(n - 1)
               PROVE  new[k] \in Elts(arr) /\ new[k] # arr[pos + 1]
    BY <1>4 DEF Elts
  <2>1. CASE k <= pos
    BY <2>1, <1>3, <1>7, <1>5, k \in 1..n DEF Elts, n
  <2>2. CASE ~ k <= pos
    <3>1. k + 1 \in 1..n /\ k + 1 # pos + 1 /\ new[k] = arr[k + 1]
      BY <2>2, <1>3, <1>1, <1>5
    <3> QED BY <3>1, <1>7 DEF Elts, n
  <2> QED BY <2>1, <2>2
<1>9. Elts(arr) \ {arr[pos + 1]} \subseteq Elts(new)
  <2> SUFFICES ASSUME NEW k \in 1..n, k # pos + 1
               PROVE  arr[k] \in Elts(new)
    BY DEF Elts, n
  <2>1. CASE k <= pos
    <3>1. k \in 1..(n - 1) /\ new[k] = arr[k]
      BY <2>1, <1>3, <1>1, <1>5
    <3> QED BY <3>1, <1>4 DEF Elts
  <2>2. CASE ~ k <= pos
    <3>1. k - 1 \in 1..(n - 1) /\ ~ k - 1 <= pos /\ (k - 1) + 1 = k
      BY <2>2, <1>1, <1>5
    <3>2. new[k - 1] = arr[k]
      BY <3>1, <1>3
    <3> QED BY <3>1, <3>2, <1>4 DEF Elts
  <2> QED BY <2>1, <2>2
<1> QED BY <1>4, <1>6, <1>8, <1>9 DEF new, StrictlySorted

\* The addition to a sorted array, on any array: it refuses nothing but a duplicate,
\* and the array that it leaves has the new value and nothing else that is new.
LEMMA AddSortedType ==
  ASSUME NEW V \in SUBSET Int, NEW arr \in Seq(V), NEW v \in V
  PROVE  \/ /\ rhp_uint_addsorted(arr, v) = [rc |-> Error_DuplicateValue, arr |-> arr]
            /\ v \in Elts(arr)
         \/ /\ rhp_uint_addsorted(arr, v).rc = OK
            /\ rhp_uint_addsorted(arr, v).arr \in Seq(V)
            /\ Elts(rhp_uint_addsorted(arr, v).arr) = Elts(arr) \cup {v}
<1> DEFINE n == Len(arr)
           below == {i \in 1..n : arr[i] <= v}
           pos == IF below = {} THEN 0 ELSE LargestOf(below)
           new == InsertedAt(arr, pos, v)
<1>1. n \in Nat
  OBVIOUS
<1>2. rhp_uint_addsorted(arr, v) = IF pos > 0 /\ arr[pos] = v
                                   THEN [rc |-> Error_DuplicateValue, arr |-> arr]
                                   ELSE [rc |-> OK, arr |-> new]
  BY DEF rhp_uint_addsorted
<1>3. pos \in 0..n
  <2> HIDE DEF n
  <2>1. CASE below = {}
    BY <2>1, <1>1
  <2>2. CASE below # {}
    <3>1. below \in SUBSET (1..n)
      OBVIOUS
    <3>2. LargestOf(below) \in below
      BY <2>2, <3>1, <1>1, LargestOfProperties
    <3> QED BY <3>2, <2>2
  <2> QED BY <2>1, <2>2
<1> HIDE DEF pos
<1>4. new \in Seq(V) /\ Elts(new) = Elts(arr) \cup {v}
  BY <1>3, InsertedAtProperties DEF n
<1> HIDE DEF new
<1>5. pos > 0 /\ arr[pos] = v => v \in Elts(arr)
  BY <1>3, <1>1 DEF Elts
<1> QED BY <1>2, <1>4, <1>5

\* rhp_uint_addsorted keeps a sorted array sorted, refuses a value that is there
\* and adds one that is not.
THEOREM AddSortedProperties ==
  ASSUME NEW V \in SUBSET Int, NEW arr \in Seq(V), StrictlySorted(arr), NEW v \in V
  PROVE  IF v \in Elts(arr)
         THEN rhp_uint_addsorted(arr, v) = [rc |-> Error_DuplicateValue, arr |-> arr]
         ELSE /\ rhp_uint_addsorted(arr, v).rc = OK
              /\ rhp_uint_addsorted(arr, v).arr \in Seq(V)
              /\ StrictlySorted(rhp_uint_addsorted(arr, v).arr)
              /\ Elts(rhp_uint_addsorted(arr, v).arr) = Elts(arr) \cup {v}
<1> DEFINE n == Len(arr)
           below == {i \in 1..n : arr[i] <= v}
           pos == IF below = {} THEN 0 ELSE LargestOf(below)
           new == InsertedAt(arr, pos, v)
<1>1. n \in Nat /\ \A k \in 1..n : arr[k] \in V /\ arr[k] \in Int
  <2>1. n \in Nat /\ arr \in [1..n -> V]
    OBVIOUS
  <2> QED BY <2>1
<1>2. \A i, j \in 1..n : i < j => arr[i] < arr[j]
  BY DEF StrictlySorted
<1>3. /\ pos \in 0..n
      /\ pos > 0 => arr[pos] <= v
      /\ \A k \in 1..n : pos < k => v < arr[k]
  <2> HIDE DEF n
  <2>1. CASE below = {}
    BY <2>1, <1>1
  <2>2. CASE below # {}
    <3>1. below \in SUBSET (1..n)
      OBVIOUS
    <3>2. pos \in below /\ \A y \in below : y <= pos
      BY <2>2, <3>1, <1>1, LargestOfProperties
    <3> HIDE DEF pos
    <3> QED BY <3>2, <1>1
  <2> QED BY <2>1, <2>2
<1>4. rhp_uint_addsorted(arr, v) = IF pos > 0 /\ arr[pos] = v
                                   THEN [rc |-> Error_DuplicateValue, arr |-> arr]
                                   ELSE [rc |-> OK, arr |-> new]
  BY DEF rhp_uint_addsorted
<1> HIDE DEF pos, n
<1>5. v \in Elts(arr) <=> pos > 0 /\ arr[pos] = v
  <2>1. ASSUME NEW k \in 1..n, v = arr[k] PROVE pos > 0 /\ arr[pos] = v
    <3>1. k <= pos
      BY <2>1, <1>3, <1>1
    <3>2. k = pos \/ arr[k] < arr[pos]
      BY <3>1, <1>1, <1>2, <1>3
    <3> QED BY <3>1, <3>2, <2>1, <1>1, <1>3
  <2> QED BY <2>1, <1>3 DEF Elts, n
<1>6. ASSUME v \notin Elts(arr) PROVE StrictlySorted(new)
  <2>1. /\ Len(new) = n + 1
        /\ \A k \in 1..(n + 1) : new[k] = IF k <= pos THEN arr[k]
                                         ELSE IF k = pos + 1 THEN v ELSE arr[k - 1]
    BY <1>3, InsertedAtProperties DEF n
  <2> HIDE DEF new
  <2>2. \A k \in 1..n : k <= pos => arr[k] < v
    <3> TAKE k \in 1..n
    <3>1. arr[k] # v
      BY <1>6 DEF Elts, n
    <3>2. k < pos => arr[k] < arr[pos]
      BY <1>2, <1>3, <1>1
    <3> QED BY <3>1, <3>2, <1>1, <1>3
  <2>3. ASSUME NEW i \in 1..(n + 1), NEW j \in 1..(n + 1), i < j
        PROVE  new[i] < new[j]
    <3>1. CASE j <= pos
      BY <3>1, <2>1, <2>3, <1>1, <1>2, <1>3
    <3>2. CASE j = pos + 1
      BY <3>2, <2>1, <2>2, <2>3, <1>1, <1>3
    <3>3. CASE j > pos + 1
      <4>1. new[j] = arr[j - 1] /\ j - 1 \in 1..n /\ pos < j - 1
        BY <3>3, <2>1, <1>1, <1>3
      <4>2. CASE i <= pos
        BY <4>1, <4>2, <2>1, <1>1, <1>2, <1>3, SMTT(30)
      <4>3. CASE i = pos + 1
        BY <4>1, <4>3, <2>1, <1>1, <1>3
      <4>4. CASE i > pos + 1
        <5>1. new[i] = arr[i - 1] /\ i - 1 \in 1..n /\ i - 1 < j - 1
          BY <4>4, <2>1, <2>3, <1>1, <1>3
        <5> QED BY <4>1, <5>1, <1>2
      <4> QED BY <4>2, <4>3, <4>4, <1>1, <1>3
    <3> QED BY <3>1, <3>2, <3>3, <1>1, <1>3
  <2> QED BY <2>1, <2>3 DEF StrictlySorted
<1>7. new \in Seq(V) /\ Elts(new) = Elts(arr) \cup {v}
  BY <1>3, InsertedAtProperties DEF n
<1> HIDE DEF new
<1> QED BY <1>4, <1>5, <1>6, <1>7

\* rhp_uint_rm removes exactly its value from a sorted array that has it, although
\* its scan never looks at arr[0].
LEMMA RmPresentRemoves ==
  ASSUME NEW V \in SUBSET Int, NEW arr \in Seq(V), StrictlySorted(arr), NEW v \in Elts(arr)
  PROVE  /\ rhp_uint_rm(arr, v).rc = OK
         /\ rhp_uint_rm(arr, v).arr \in Seq(V)
         /\ StrictlySorted(rhp_uint_rm(arr, v).arr)
         /\ Elts(rhp_uint_rm(arr, v).arr) = Elts(arr) \ {v}
<1> DEFINE n == Len(arr)
           stop == {i \in 2..n : arr[i] <= v}
           pos == IF stop = {} THEN 1 ELSE LargestOf(stop)
<1>1. PICK k \in 1..n : arr[k] = v
  BY DEF Elts
<1>2. n \in Nat /\ \A i \in 1..n : arr[i] \in Int
  <2>1. n \in Nat /\ arr \in [1..n -> V]
    OBVIOUS
  <2> QED BY <2>1
<1>3. \A i, j \in 1..n : i < j => arr[i] < arr[j]
  BY DEF StrictlySorted
<1>4. rhp_uint_rm(arr, v) = IF stop # {} /\ arr[pos] < v
                            THEN [rc |-> Error_NotFound, arr |-> arr]
                            ELSE [rc |-> OK, arr |-> RemoveAt0(arr, pos - 1)]
  BY DEF rhp_uint_rm
<1> HIDE DEF n
<1>5. pos = k
  <2>1. \A i \in 1..n : k < i => v < arr[i]
    BY <1>1, <1>3
  <2>2. CASE k = 1
    <3>1. stop = {}
      BY <2>1, <2>2, <1>1, <1>2
    <3> QED BY <3>1, <2>2
  <2>3. CASE k # 1
    <3>1. k \in stop
      BY <2>3, <1>1, <1>2
    <3>2. \A i \in stop : i <= k
      BY <2>1, <1>1, <1>2
    <3>3. stop \in SUBSET (1..n)
      BY <1>2
    <3>4. pos \in stop /\ \A y \in stop : y <= pos
      BY <3>1, <3>3, <1>2, LargestOfProperties
    <3>5. pos \in 1..n
      BY <3>3, <3>4
    <3> HIDE DEF stop, pos
    <3> QED BY <3>1, <3>2, <3>4, <3>5, <1>1
  <2> QED BY <2>2, <2>3
<1> HIDE DEF pos, stop
<1>6. rhp_uint_rm(arr, v) = [rc |-> OK, arr |-> RemoveAt0(arr, k - 1)]
  BY <1>1, <1>2, <1>4, <1>5
<1>7. k - 1 \in 0..(n - 1) /\ (k - 1) + 1 = k
  BY <1>1, <1>2
<1> QED BY <1>1, <1>6, <1>7, RemoveAt0Properties DEF n

\* rhp_uint_rm leaves a sorted array sorted, whether the value is there or not.
LEMMA RmKeepsSorted ==
  ASSUME NEW V \in SUBSET Int, NEW arr \in Seq(V), arr # <<>>, StrictlySorted(arr), NEW v \in Int
  PROVE  /\ rhp_uint_rm(arr, v).rc \in {OK, Error_NotFound}
         /\ rhp_uint_rm(arr, v).arr \in Seq(V)
         /\ StrictlySorted(rhp_uint_rm(arr, v).arr)
<1> DEFINE n == Len(arr)
           stop == {i \in 2..n : arr[i] <= v}
           pos == IF stop = {} THEN 1 ELSE LargestOf(stop)
<1>1. n \in Nat \ {0}
  OBVIOUS
<1>2. rhp_uint_rm(arr, v) = IF stop # {} /\ arr[pos] < v
                            THEN [rc |-> Error_NotFound, arr |-> arr]
                            ELSE [rc |-> OK, arr |-> RemoveAt0(arr, pos - 1)]
  BY DEF rhp_uint_rm
<1> HIDE DEF n
<1>3. pos \in 1..n
  <2>1. stop \in SUBSET (1..n)
    BY <1>1
  <2>2. stop # {} => LargestOf(stop) \in stop
    BY <2>1, <1>1, LargestOfProperties
  <2> QED BY <2>1, <2>2, <1>1
<1> HIDE DEF pos, stop
<1>4. pos - 1 \in 0..(n - 1)
  BY <1>1, <1>3
<1>5. RemoveAt0(arr, pos - 1) \in Seq(V) /\ StrictlySorted(RemoveAt0(arr, pos - 1))
  BY <1>4, RemoveAt0Properties DEF n
<1> QED BY <1>2, <1>5
==============================================================================
