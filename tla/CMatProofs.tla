------------------------------ MODULE CMatProofs ------------------------------
(***************************************************************************)
(* Proofs about the container matrix, for any equations and variables: the *)
(* rows and the columns hold exactly the elements of the matrix, the       *)
(* columns can be read backwards, and the matrix says the same as the      *)
(* equations.                                                              *)
(***************************************************************************)
EXTENDS CMat, FiniteSetTheorems, TLAPS

AP == INSTANCE UIntArrayProofs

-----------------------------------------------------------------------------
(***************************************************************************)
(* Lists.                                                                  *)
(***************************************************************************)

\* q has the k elements of S in the order of the list that starts at first and goes on by next.
IsList(k, q, first, next, S) ==
    /\ \A x \in S : \E i \in 1 .. k : q[i] = x
    /\ \A i, j \in 1 .. k : q[i] = q[j] => i = j
    /\ first = IF k = 0 THEN Nil ELSE q[1]
    /\ \A i \in 1 .. k : next[q[i]] = IF i = k THEN Nil ELSE q[i + 1]

Listing(first, next, S) == \E k \in Nat : \E q \in [1 .. k -> S] : IsList(k, q, first, next, S)

\* The list that holds nothing.
LEMMA ListEmpty ==
  ASSUME NEW next
  PROVE  Listing(Nil, next, {})
<1> DEFINE q == [i \in 1 .. 0 |-> Nil]
<1>1. q \in [1 .. 0 -> {}] /\ 0 \in Nat
  OBVIOUS
<1>2. IsList(0, q, Nil, next, {})
  BY DEF IsList
<1> QED
  BY <1>1, <1>2 DEF Listing

\* A list has a first element unless it is empty.
LEMMA ListFirst ==
  ASSUME NEW first, NEW next, NEW S, Nil \notin S, Listing(first, next, S)
  PROVE  (first = Nil /\ S = {}) \/ first \in S
<1>k. PICK k \in Nat : \E q \in [1 .. k -> S] : IsList(k, q, first, next, S)
  BY DEF Listing
<1>1. PICK q \in [1 .. k -> S] : IsList(k, q, first, next, S)
  BY <1>k
<1>2. CASE k = 0
  BY <1>1, <1>2 DEF IsList
<1>3. CASE k # 0
  <2>1. 1 \in 1 .. k /\ first = q[1]
    BY <1>1, <1>3 DEF IsList
  <2> QED
    BY <2>1
<1> QED
  BY <1>2, <1>3

\* Every element leads to another one or is the end, the first one is led to by none, and no two
\* lead to the same.
LEMMA ListNext ==
  ASSUME NEW first, NEW next, NEW S, Nil \notin S, Listing(first, next, S)
  PROVE  /\ \A x \in S : \/ next[x] = Nil
                         \/ next[x] \in S /\ next[x] # first /\ next[x] # x
         /\ \A x, y \in S : next[x] = next[y] => x = y
<1>k. PICK k \in Nat : \E q \in [1 .. k -> S] : IsList(k, q, first, next, S)
  BY DEF Listing
<1>1. PICK q \in [1 .. k -> S] : IsList(k, q, first, next, S)
  BY <1>k
<1>2. ASSUME NEW x \in S
      PROVE  next[x] = Nil \/ (next[x] \in S /\ next[x] # first /\ next[x] # x)
  <2>1. PICK i \in 1 .. k : q[i] = x
    BY <1>1 DEF IsList
  <2>2. CASE i = k
    BY <1>1, <2>1, <2>2 DEF IsList
  <2>3. CASE i # k
    <3>1. i + 1 \in 1 .. k /\ 1 \in 1 .. k /\ k # 0 /\ i + 1 # 1 /\ i + 1 # i
      BY <2>3
    <3>2. next[x] = q[i + 1] /\ first = q[1]
      BY <1>1, <2>1, <2>3, <3>1 DEF IsList
    <3>3. q[i + 1] # q[1] /\ q[i + 1] # q[i]
      BY <1>1, <3>1 DEF IsList
    <3> QED
      BY <2>1, <3>1, <3>2, <3>3
  <2> QED
    BY <2>2, <2>3
<1>3. ASSUME NEW x \in S, NEW y \in S, next[x] = next[y] PROVE x = y
  <2>1. PICK i \in 1 .. k : q[i] = x
    BY <1>1 DEF IsList
  <2>2. PICK j \in 1 .. k : q[j] = y
    BY <1>1 DEF IsList
  <2>3. next[q[i]] = (IF i = k THEN Nil ELSE q[i + 1]) /\ next[q[j]] = (IF j = k THEN Nil ELSE q[j + 1])
    BY <1>1 DEF IsList
  <2>4. CASE i = k /\ j = k
    BY <2>1, <2>2, <2>4
  <2>5. CASE i = k /\ j # k
    <3>1. q[j + 1] \in S
      BY <2>5
    <3> QED
      BY <1>3, <2>1, <2>2, <2>3, <2>5, <3>1
  <2>6. CASE i # k /\ j = k
    <3>1. q[i + 1] \in S
      BY <2>6
    <3> QED
      BY <1>3, <2>1, <2>2, <2>3, <2>6, <3>1
  <2>7. CASE i # k /\ j # k
    <3>1. next[q[i]] = q[i + 1] /\ next[q[j]] = q[j + 1]
      BY <2>3, <2>7
    <3>2. q[i + 1] = q[j + 1]
      BY <1>3, <2>1, <2>2, <3>1
    <3>3. i + 1 \in 1 .. k /\ j + 1 \in 1 .. k
      BY <2>7
    <3>4. i + 1 = j + 1
      BY <1>1, <3>2, <3>3 DEF IsList
    <3>5. i = j
      BY <3>4
    <3> QED
      BY <2>1, <2>2, <3>5
  <2> QED
    BY <2>4, <2>5, <2>6, <2>7
<1> QED
  BY <1>2, <1>3

\* A list that is not empty has an end, and every element but the first one comes after another.
LEMMA ListBack ==
  ASSUME NEW first, NEW next, NEW S, Nil \notin S, Listing(first, next, S)
  PROVE  /\ S # {} => \E x \in S : next[x] = Nil
         /\ \A x \in S : x # first => \E y \in S : next[y] = x
<1>k. PICK k \in Nat : \E q \in [1 .. k -> S] : IsList(k, q, first, next, S)
  BY DEF Listing
<1>1. PICK q \in [1 .. k -> S] : IsList(k, q, first, next, S)
  BY <1>k
<1>2. ASSUME S # {} PROVE \E x \in S : next[x] = Nil
  <2>1. PICK i \in 1 .. k : TRUE
    BY <1>1, <1>2 DEF IsList
  <2>2. k \in 1 .. k /\ q[k] \in S
    BY <2>1
  <2>3. next[q[k]] = Nil
    BY <1>1, <2>2 DEF IsList
  <2> QED
    BY <2>2, <2>3
<1>3. ASSUME NEW x \in S, x # first PROVE \E y \in S : next[y] = x
  <2>1. PICK i \in 1 .. k : q[i] = x
    BY <1>1 DEF IsList
  <2>2. i # 1
    BY <1>1, <1>3, <2>1 DEF IsList
  <2>3. i - 1 \in 1 .. k /\ i - 1 # k /\ (i - 1) + 1 = i
    BY <2>2
  <2>4. next[q[i - 1]] = q[i]
    BY <1>1, <2>3 DEF IsList
  <2> QED
    BY <2>1, <2>3, <2>4
<1> QED
  BY <1>2, <1>3

\* The list depends on what follows its own elements only.
LEMMA ListSame ==
  ASSUME NEW first, NEW next, NEW S, Listing(first, next, S),
         NEW nn, \A x \in S : nn[x] = next[x]
  PROVE  Listing(first, nn, S)
<1>k. PICK k \in Nat : \E q \in [1 .. k -> S] : IsList(k, q, first, next, S)
  BY DEF Listing
<1>1. PICK q \in [1 .. k -> S] : IsList(k, q, first, next, S)
  BY <1>k
<1>2. IsList(k, q, first, nn, S)
  BY <1>1 DEF IsList
<1> QED
  BY <1>2 DEF Listing

\* A new first element.
LEMMA ListPrepend ==
  ASSUME NEW first, NEW next, NEW S, Listing(first, next, S),
         NEW e, e \notin S, NEW nn, nn[e] = first, \A x \in S : nn[x] = next[x]
  PROVE  Listing(e, nn, S \cup {e})
<1>k. PICK k \in Nat : \E q \in [1 .. k -> S] : IsList(k, q, first, next, S)
  BY DEF Listing
<1>1. PICK q \in [1 .. k -> S] : IsList(k, q, first, next, S)
  BY <1>k
<1> DEFINE p == [i \in 1 .. k + 1 |-> IF i = 1 THEN e ELSE q[i - 1]]
<1>2. \A i \in 1 .. k + 1 : i # 1 => i - 1 \in 1 .. k
  OBVIOUS
<1>3. p \in [1 .. k + 1 -> S \cup {e}]
  BY <1>2
<1>4. p[1] = e /\ \A i \in 1 .. k : p[i + 1] = q[i] /\ i + 1 \in 1 .. k + 1
  OBVIOUS
<1>5. \A x \in S \cup {e} : \E i \in 1 .. k + 1 : p[i] = x
  <2> SUFFICES ASSUME NEW x \in S PROVE \E i \in 1 .. k + 1 : p[i] = x
    BY <1>4
  <2>1. PICK i \in 1 .. k : q[i] = x
    BY <1>1 DEF IsList
  <2> QED
    BY <1>4, <2>1
<1>6. ASSUME NEW i \in 1 .. k + 1, NEW j \in 1 .. k + 1, p[i] = p[j] PROVE i = j
  <2>1. CASE i = 1 \/ j = 1
    BY <1>2, <1>6, <2>1
  <2>2. CASE i # 1 /\ j # 1
    <3>1. i - 1 \in 1 .. k /\ j - 1 \in 1 .. k /\ q[i - 1] = q[j - 1]
      BY <1>2, <1>6, <2>2
    <3>2. i - 1 = j - 1
      BY <1>1, <3>1 DEF IsList
    <3> QED
      BY <3>2
  <2> QED
    BY <2>1, <2>2
<1>7. ASSUME NEW i \in 1 .. k + 1
      PROVE  nn[p[i]] = IF i = k + 1 THEN Nil ELSE p[i + 1]
  <2>1. CASE i = 1
    <3>1. first = IF k = 0 THEN Nil ELSE q[1]
      BY <1>1 DEF IsList
    <3>2. k # 0 => p[2] = q[1]
      BY <1>4
    <3> QED
      BY <2>1, <3>1, <3>2
  <2>2. CASE i # 1
    <3>1. i - 1 \in 1 .. k /\ p[i] = q[i - 1]
      BY <1>2, <2>2
    <3>2. next[q[i - 1]] = IF i - 1 = k THEN Nil ELSE q[(i - 1) + 1]
      BY <1>1, <3>1 DEF IsList
    <3>3. nn[q[i - 1]] = next[q[i - 1]]
      BY <3>1
    <3>4. i # k + 1 => p[i + 1] = q[i] /\ (i - 1) + 1 = i /\ i - 1 # k
      BY <2>2
    <3> QED
      BY <3>1, <3>2, <3>3, <3>4
  <2> QED
    BY <2>1, <2>2
<1> HIDE DEF p
<1>8. IsList(k + 1, p, e, nn, S \cup {e})
  BY <1>4, <1>5, <1>6, <1>7 DEF IsList
<1> QED
  BY <1>3, <1>8 DEF Listing

\* A new last element.
LEMMA ListAppend ==
  ASSUME NEW first, NEW next, NEW S, Nil \notin S, Listing(first, next, S),
         NEW e, e \notin S, NEW last \in S, next[last] = Nil,
         NEW nn, nn[last] = e, nn[e] = Nil, \A x \in S \ {last} : nn[x] = next[x]
  PROVE  Listing(first, nn, S \cup {e})
<1>k. PICK k \in Nat : \E q \in [1 .. k -> S] : IsList(k, q, first, next, S)
  BY DEF Listing
<1>1. PICK q \in [1 .. k -> S] : IsList(k, q, first, next, S)
  BY <1>k
<1> DEFINE p == [i \in 1 .. k + 1 |-> IF i = k + 1 THEN e ELSE q[i]]
<1>2. PICK l \in 1 .. k : q[l] = last
  BY <1>1 DEF IsList
<1>3. l = k /\ k # 0
  <2>1. ASSUME l # k PROVE FALSE
    <3>1. l + 1 \in 1 .. k /\ next[q[l]] = q[l + 1]
      BY <1>1, <2>1 DEF IsList
    <3> QED
      BY <1>2, <3>1
  <2> QED
    BY <2>1
<1>4. p \in [1 .. k + 1 -> S \cup {e}]
  OBVIOUS
<1>5. p[k + 1] = e /\ \A i \in 1 .. k : p[i] = q[i] /\ i \in 1 .. k + 1
  OBVIOUS
<1>6. \A x \in S \cup {e} : \E i \in 1 .. k + 1 : p[i] = x
  <2> SUFFICES ASSUME NEW x \in S PROVE \E i \in 1 .. k + 1 : p[i] = x
    BY <1>5
  <2>1. PICK i \in 1 .. k : q[i] = x
    BY <1>1 DEF IsList
  <2> QED
    BY <1>5, <2>1
<1>7. ASSUME NEW i \in 1 .. k + 1, NEW j \in 1 .. k + 1, p[i] = p[j] PROVE i = j
  <2>1. \A h \in 1 .. k + 1 : h # k + 1 => h \in 1 .. k
    OBVIOUS
  <2>2. CASE i = k + 1 \/ j = k + 1
    BY <1>7, <2>1, <2>2
  <2>3. CASE i # k + 1 /\ j # k + 1
    <3>1. i \in 1 .. k /\ j \in 1 .. k /\ q[i] = q[j]
      BY <1>7, <2>1, <2>3
    <3> QED
      BY <1>1, <3>1 DEF IsList
  <2> QED
    BY <2>2, <2>3
<1>8. ASSUME NEW i \in 1 .. k + 1
      PROVE  nn[p[i]] = IF i = k + 1 THEN Nil ELSE p[i + 1]
  <2>1. CASE i = k + 1
    BY <2>1
  <2>2. CASE i = k
    BY <1>2, <1>3, <2>2
  <2>3. CASE i # k + 1 /\ i # k
    <3>1. i \in 1 .. k /\ p[i] = q[i] /\ p[i + 1] = q[i + 1]
      BY <2>3
    <3>2. q[i] # last
      BY <1>1, <1>2, <1>3, <2>3, <3>1 DEF IsList
    <3>3. next[q[i]] = q[i + 1]
      BY <1>1, <2>3, <3>1 DEF IsList
    <3> QED
      BY <2>3, <3>1, <3>2, <3>3
  <2> QED
    BY <2>1, <2>2, <2>3
<1>9. first = p[1]
  <2>1. first = q[1] /\ 1 \in 1 .. k
    BY <1>1, <1>3 DEF IsList
  <2> QED
    BY <1>5, <2>1
<1> HIDE DEF p
<1>10. IsList(k + 1, p, first, nn, S \cup {e})
  BY <1>6, <1>7, <1>8, <1>9 DEF IsList
<1> QED
  BY <1>4, <1>10 DEF Listing

\* An element leaves: what came before it leads to what came after it.
LEMMA ListRemove ==
  ASSUME NEW first, NEW next, NEW S, Nil \notin S, Listing(first, next, S), NEW e \in S,
         NEW nn, \A x \in S \ {e} : nn[x] = IF next[x] = e THEN next[e] ELSE next[x]
  PROVE  Listing(IF first = e THEN next[e] ELSE first, nn, S \ {e})
<1>k. PICK k \in Nat : \E q \in [1 .. k -> S] : IsList(k, q, first, next, S)
  BY DEF Listing
<1>1. PICK q \in [1 .. k -> S] : IsList(k, q, first, next, S)
  BY <1>k
<1>2. PICK l \in 1 .. k : q[l] = e
  BY <1>1 DEF IsList
<1> DEFINE up(i) == IF i < l THEN i ELSE i + 1
           p == [i \in 1 .. k - 1 |-> q[up(i)]]
           f == IF first = e THEN next[e] ELSE first
<1>3. /\ k - 1 \in Nat
      /\ \A i \in 1 .. k - 1 : up(i) \in 1 .. k /\ up(i) # l
      /\ \A i, j \in 1 .. k - 1 : up(i) = up(j) => i = j
      /\ \A h \in 1 .. k : h # l => \E i \in 1 .. k - 1 : up(i) = h
  <2>1. k - 1 \in Nat /\ \A i \in 1 .. k - 1 : up(i) \in 1 .. k /\ up(i) # l
    OBVIOUS
  <2>2. \A i, j \in 1 .. k - 1 : up(i) = up(j) => i = j
    OBVIOUS
  <2>3. ASSUME NEW h \in 1 .. k, h # l PROVE \E i \in 1 .. k - 1 : up(i) = h
    <3>1. CASE h < l
      <4>1. h \in 1 .. k - 1 /\ up(h) = h
        BY <3>1
      <4> QED
        BY <4>1
    <3>2. CASE ~ (h < l)
      <4>1. h - 1 \in 1 .. k - 1 /\ up(h - 1) = h
        BY <2>3, <3>2
      <4> QED
        BY <4>1
    <3> QED
      BY <3>1, <3>2
  <2> QED
    BY <2>1, <2>2, <2>3
<1>4. \A i, j \in 1 .. k : q[i] = q[j] => i = j
  BY <1>1 DEF IsList
<1>5. \A i \in 1 .. k : i # l => q[i] \in S \ {e}
  BY <1>2, <1>4
<1>6. p \in [1 .. k - 1 -> S \ {e}] /\ \A i \in 1 .. k - 1 : p[i] = q[up(i)]
  <2> HIDE DEF up
  <2> QED
    BY <1>3, <1>5
<1>7. \A x \in S \ {e} : \E i \in 1 .. k - 1 : p[i] = x
  <2> SUFFICES ASSUME NEW x \in S \ {e} PROVE \E i \in 1 .. k - 1 : p[i] = x
    OBVIOUS
  <2>1. PICK h \in 1 .. k : q[h] = x
    BY <1>1 DEF IsList
  <2>2. h # l
    BY <1>2, <2>1
  <2> HIDE DEF up, p
  <2> QED
    BY <1>3, <1>6, <2>1, <2>2
<1>8. \A i, j \in 1 .. k - 1 : p[i] = p[j] => i = j
  <2> HIDE DEF up, p
  <2> QED
    BY <1>3, <1>4, <1>6
<1>9. /\ first = q[1] /\ 1 \in 1 .. k /\ k # 0
      /\ \A i \in 1 .. k : next[q[i]] = IF i = k THEN Nil ELSE q[i + 1]
  <2>1. k # 0 /\ 1 \in 1 .. k
    BY <1>2
  <2> QED
    BY <1>1, <2>1 DEF IsList
<1>10. f = IF k - 1 = 0 THEN Nil ELSE p[1]
  <2>1. CASE l = 1
    <3>1. first = e /\ f = (IF k = 1 THEN Nil ELSE q[2])
      BY <1>2, <1>9, <2>1
    <3>2. k # 1 => 1 \in 1 .. k - 1 /\ up(1) = 2
      BY <1>3, <2>1
    <3> HIDE DEF up, p, f
    <3> QED
      BY <1>3, <1>6, <3>1, <3>2
  <2>2. CASE l # 1
    <3>1. first # e /\ k # 1
      BY <1>2, <1>4, <1>9, <2>2
    <3>2. 1 \in 1 .. k - 1 /\ up(1) = 1
      BY <1>3, <2>2, <3>1
    <3> HIDE DEF up, p
    <3> QED
      BY <1>3, <1>6, <1>9, <3>1, <3>2
  <2> QED
    BY <2>1, <2>2
<1>11. ASSUME NEW i \in 1 .. k - 1
       PROVE  nn[p[i]] = IF i = k - 1 THEN Nil ELSE p[i + 1]
  <2>0. /\ p[i] = q[up(i)] /\ q[up(i)] \in S \ {e} /\ up(i) \in 1 .. k
        /\ nn[q[up(i)]] = IF next[q[up(i)]] = e THEN next[e] ELSE next[q[up(i)]]
        /\ i # k - 1 => i + 1 \in 1 .. k - 1 /\ p[i + 1] = q[up(i + 1)]
    <3>1. up(i) \in 1 .. k /\ up(i) # l
      BY <1>3
    <3>2. i # k - 1 => i + 1 \in 1 .. k - 1
      OBVIOUS
    <3> HIDE DEF up, p
    <3> QED
      BY <1>5, <1>6, <3>1, <3>2
  <2>1. CASE i < l - 1
    <3>1. up(i) = i /\ up(i + 1) = i + 1 /\ i # k /\ i # k - 1 /\ i + 1 \in 1 .. k /\ i + 1 # l
      BY <2>1
    <3>2. next[q[i]] = q[i + 1] /\ q[i + 1] # e
      BY <1>5, <1>9, <2>0, <3>1
    <3> HIDE DEF up, p
    <3> QED
      BY <2>0, <3>1, <3>2
  <2>2. CASE i = l - 1
    <3>1. up(i) = i /\ up(i + 1) = i + 2 /\ i # k /\ i + 1 = l /\ (i = k - 1 <=> l = k) /\ i + 2 = l + 1
      BY <2>2
    <3>2. next[q[i]] = e /\ next[e] = IF l = k THEN Nil ELSE q[l + 1]
      BY <1>2, <1>9, <2>0, <3>1
    <3> HIDE DEF up, p
    <3> QED
      BY <2>0, <3>1, <3>2
  <2>3. CASE ~ (i < l)
    <3>1. /\ up(i) = i + 1 /\ up(i + 1) = i + 2 /\ i + 1 \in 1 .. k /\ (i + 1 = k <=> i = k - 1)
          /\ i + 1 # k => i + 2 \in 1 .. k /\ i + 2 # l /\ (i + 1) + 1 = i + 2
      BY <2>3
    <3>2. next[q[i + 1]] = IF i + 1 = k THEN Nil ELSE q[(i + 1) + 1]
      BY <1>9, <3>1
    <3>3. next[q[i + 1]] # e
      BY <1>5, <3>1, <3>2
    <3> HIDE DEF up, p
    <3> QED
      BY <2>0, <3>1, <3>2, <3>3
  <2> QED
    BY <2>1, <2>2, <2>3
<1> HIDE DEF p, f
<1>12. IsList(k - 1, p, f, nn, S \ {e})
  BY <1>7, <1>8, <1>10, <1>11 DEF IsList
<1>13. p \in [1 .. k - 1 -> S \ {e}] /\ k - 1 \in Nat
  BY <1>3, <1>6
<1>14. Listing(f, nn, S \ {e})
  BY <1>12, <1>13 DEF Listing
<1> QED
  BY <1>14 DEF f

\* What follows the first element.
LEMMA ListTail ==
  ASSUME NEW first, NEW next, NEW S, Nil \notin S, Listing(first, next, S), first \in S
  PROVE  Listing(next[first], next, S \ {first})
<1>1. \A x \in S \ {first} : next[x] # first
  BY ListNext
<1>2. \A x \in S \ {first} : next[x] = IF next[x] = first THEN next[first] ELSE next[x]
  BY <1>1
<1> QED
  BY <1>2, ListRemove

\* A walk that may take as many steps as the list has elements, less one, meets all of them.
LEMMA ListWalk ==
  ASSUME NEW first, NEW next, NEW S, Nil \notin S, Listing(first, next, S),
         NEW len \in Nat, IsFiniteSet(S), Cardinality(S) <= len + 1
  PROVE  Walk(first, next, len) = S
<1>k. PICK k \in Nat : \E q \in [1 .. k -> S] : IsList(k, q, first, next, S)
  BY DEF Listing
<1>1. PICK q \in [1 .. k -> S] : IsList(k, q, first, next, S)
  BY <1>k
<1>2. /\ \A x \in S : \E i \in 1 .. k : q[i] = x
      /\ \A i, j \in 1 .. k : q[i] = q[j] => i = j
      /\ first = IF k = 0 THEN Nil ELSE q[1]
      /\ \A i \in 1 .. k : next[q[i]] = IF i = k THEN Nil ELSE q[i + 1]
      /\ \A i \in 1 .. k : q[i] \in S /\ q[i] # Nil
  BY <1>1 DEF IsList
<1>3. k <= len + 1
  <2>1. q \in Injection(1 .. k, S)
    BY <1>2 DEF Injection, IsInjective
  <2>2. IsFiniteSet(1 .. k) /\ Cardinality(1 .. k) = k
    <3>1. 1 \in Int /\ k \in Int
      OBVIOUS
    <3> QED
      BY <3>1, FS_Interval
  <2>3. Cardinality(1 .. k) <= Cardinality(S) /\ Cardinality(S) \in Nat
    BY <2>1, FS_Injection, FS_CardinalityType
  <2> QED
    BY <2>2, <2>3
<1> DEFINE Upto(h) == {x \in S : \E i \in 1 .. k : i <= h + 1 /\ x = q[i]}
           More(T) == T \cup ({next[e] : e \in T} \ {Nil})
           Fix(f) == f = [h \in 0 .. len |-> IF h = 0 THEN {first} \ {Nil}
                                             ELSE f[h - 1] \cup ({next[e] : e \in f[h - 1]} \ {Nil})]
           met == CHOOSE f : Fix(f)
           g == [h \in 0 .. len |-> Upto(h)]
<1>4. Upto(0) = {first} \ {Nil}
  <2>1. CASE k = 0
    BY <1>2, <2>1
  <2>2. CASE k # 0
    <3>1. 1 \in 1 .. k /\ first = q[1] /\ \A i \in 1 .. k : i <= 0 + 1 => i = 1
      BY <1>2, <2>2
    <3> QED
      BY <1>2, <3>1
  <2> QED
    BY <2>1, <2>2
<1>5. ASSUME NEW h \in Nat, h # 0 PROVE Upto(h) = More(Upto(h - 1))
  <2>1. ASSUME NEW x \in Upto(h) PROVE x \in More(Upto(h - 1))
    <3>1. PICK i \in 1 .. k : i <= h + 1 /\ x = q[i]
      OBVIOUS
    <3>2. CASE i <= (h - 1) + 1
      BY <1>2, <3>1, <3>2
    <3>3. CASE ~ (i <= (h - 1) + 1)
      <4>1. i - 1 \in 1 .. k /\ i - 1 <= (h - 1) + 1 /\ (i - 1) + 1 = i /\ i - 1 # k
        BY <1>5, <3>1, <3>3
      <4>2. next[q[i - 1]] = x /\ q[i - 1] \in Upto(h - 1) /\ x # Nil
        BY <1>2, <3>1, <4>1
      <4> HIDE DEF Upto
      <4> QED
        BY <4>2
    <3> QED
      BY <3>2, <3>3
  <2>2. ASSUME NEW x \in More(Upto(h - 1)) PROVE x \in Upto(h)
    <3>1. CASE x \in Upto(h - 1)
      <4>1. PICK i \in 1 .. k : i <= (h - 1) + 1 /\ x = q[i]
        BY <3>1
      <4>2. i <= h + 1
        BY <4>1
      <4> QED
        BY <1>2, <4>1, <4>2
    <3>2. CASE x \notin Upto(h - 1)
      <4>1. PICK y \in Upto(h - 1) : x = next[y] /\ x # Nil
        BY <2>2, <3>2
      <4>2. PICK i \in 1 .. k : i <= (h - 1) + 1 /\ y = q[i]
        OBVIOUS
      <4>3. i # k /\ x = q[i + 1]
        BY <1>2, <4>1, <4>2
      <4>4. i + 1 \in 1 .. k /\ i + 1 <= h + 1
        BY <4>2, <4>3
      <4> QED
        BY <1>2, <4>3, <4>4
    <3> QED
      BY <3>1, <3>2
  <2> HIDE DEF Upto, More
  <2> QED
    BY <2>1, <2>2
<1>6. Fix(g)
  <2> HIDE DEF Upto
  <2>1. ASSUME NEW h \in 0 .. len
        PROVE  g[h] = IF h = 0 THEN {first} \ {Nil} ELSE g[h - 1] \cup ({next[e] : e \in g[h - 1]} \ {Nil})
    <3>1. CASE h = 0
      BY <1>4, <3>1
    <3>2. CASE h # 0
      <4>1. h - 1 \in 0 .. len /\ h \in Nat
        BY <3>2
      <4> QED
        BY <1>5, <3>2, <4>1
    <3> QED
      BY <3>1, <3>2
  <2> QED
    BY <2>1
<1>7. Fix(met)
  <2> HIDE DEF Fix, g
  <2> QED
    BY <1>6
<1> HIDE DEF met, Upto
<1>8. \A h \in 0 .. len : met[h] = Upto(h)
  <2> DEFINE T == {h \in Nat : h <= len => met[h] = Upto(h)}
  <2>1. 0 \in T
    <3>1. 0 \in 0 .. len
      OBVIOUS
    <3> QED
      BY <1>4, <1>7, <3>1
  <2>2. ASSUME NEW h \in Nat, h \in T PROVE h + 1 \in T
    <3> SUFFICES ASSUME h + 1 <= len PROVE met[h + 1] = Upto(h + 1)
      OBVIOUS
    <3>1. h + 1 \in 0 .. len /\ h + 1 # 0 /\ (h + 1) - 1 = h /\ h <= len /\ h + 1 \in Nat
      OBVIOUS
    <3>2. met[h] = Upto(h)
      BY <2>2, <3>1
    <3>3. met[h + 1] = More(met[h])
      BY <1>7, <3>1
    <3>4. Upto(h + 1) = More(Upto(h))
      BY <1>5, <3>1
    <3> QED
      BY <3>2, <3>3, <3>4
  <2> HIDE DEF T
  <2>3. Nat \subseteq T
    BY <2>1, <2>2, AP!NatSetInduction
  <2> QED
    BY <2>3 DEF T
<1>9. Upto(len) = S
  <2>1. \A i \in 1 .. k : i <= len + 1
    BY <1>3
  <2> QED
    BY <1>2, <2>1 DEF Upto
<1>10. Walk(first, next, len) = met[len]
  BY DEF Walk, met
<1> QED
  BY <1>8, <1>9, <1>10

-----------------------------------------------------------------------------
(***************************************************************************)
(* The invariant.                                                          *)
(***************************************************************************)

\* The elements of an equation and of a variable.
OfRow(ei) == {e \in Live : e.ei = ei /\ e.kind \in {"reg", "cst"}}
Regular(ei) == {e \in Live : e.ei = ei /\ e.kind = "reg"}
OfColumn(vi) == {e \in Live : e.vi = vi}

\* Every variable has its list, which can be read backwards and is counted.  Only the first element
\* of a column may be a placeholder, and nothing is behind that of an objective variable.
ColumnsInv ==
    /\ \A vi \in Vars : Listing(vars[vi], next_equ, OfColumn(vi))
    /\ \A e \in Elts : e \notin Live \/ e.vi = Nil => next_equ[e] = Nil /\ prev_equ[e] = Nil
    /\ \A e \in Elts : next_equ[e] # Nil => prev_equ[next_equ[e]] = e
    /\ \A e \in Elts : prev_equ[e] # Nil => next_equ[prev_equ[e]] = e
    /\ \A vi \in Vars :
          IF vars[vi] \in {Nil, Obj(vi)} THEN last_equ[vi] = Nil
          ELSE last_equ[vi] \in OfColumn(vi) /\ next_equ[last_equ[vi]] = Nil
    /\ \A e \in Live : e.kind \in {"perp", "obj"} => vars[e.vi] = e
    /\ \A vi \in Vars : next_equ[Obj(vi)] = Nil
    /\ CountExact

\* Every equation has its list; a constant equation has its placeholder only.
RowsInv ==
    /\ \A ei \in Equs : Listing(RowStart(ei), next_var, OfRow(ei))
    /\ \A e \in Elts : e \notin Live \/ e.kind # "reg" => next_var[e] = Nil
    /\ \A ei \in Equs : Cst(ei) \in Live => equs[ei] = Cst(ei)

\* The matrix and the equation say the same of a variable.
Fits(ei, vi) ==
    /\ vi \notin lequ[ei] \cap nl[ei]
    /\ etype[Reg(ei, vi)] = IF vi \in lequ[ei] THEN "Lin" ELSE IF vi \in nl[ei] THEN "NL" ELSE "none"

\* It is about to: the loop in progress has not come to the variable.
Ahead(ei, vi) ==
    /\ job.op \in {"append", "sync"} /\ ei = job.ei /\ vi \in job.todo
    /\ vi \in lequ[ei] \cup nl[ei] /\ vi \notin lequ[ei] \cap nl[ei]
    /\ etype[Reg(ei, vi)] = "none"

ContentsInv ==
    /\ \A ei \in Equs, vi \in Vars :
          Fits(ei, vi) \/ Ahead(ei, vi) \/ (job.op \in {"copy", "rm"} /\ ei = job.ei)
    /\ \A ei \in Equs : object[ei] = "none" => equs[ei] = Nil
    /\ \A ei \in Equs : job.op = "rm" /\ ei = job.ei => lequ[ei] = {} /\ nl[ei] = {}

\* The end of the row that is being written.
EndOfRow(prev, ei) ==
    IF prev = Nil THEN Regular(ei) = {} ELSE prev \in Regular(ei) /\ next_var[prev] = Nil

\* The copy has the elements of the source but those of T and those of the variable left out.
Copied(T) ==
    \A vi \in Vars : etype[Reg(job.ei, vi)] = IF vi # job.vi /\ Reg(job.src, vi) \notin T
                                              THEN etype[Reg(job.src, vi)] ELSE "none"
CopyOf(ei, src, vi) ==
    /\ src \in Equs /\ src # ei /\ equs[src] # Nil
    /\ vi # Nil => vi \in lequ[src]
    /\ lequ[ei] = lequ[src] \ {vi} /\ nl[ei] = nl[src]

\* What the loop in progress knows.
JobInv ==
    /\ job.op = "idle" => job = NoJob
    /\ job.op \in {"append", "sync", "addvars", "copy", "rmsrc"} => job.ei \in Equs /\ object[job.ei] # "none"
    /\ job.op \in {"append", "sync"} =>
          EndOfRow(job.prev, job.ei) /\ \A vi \in job.todo : Ahead(job.ei, vi)
    /\ job.op = "copy" =>
          /\ EndOfRow(job.prev, job.ei) /\ CopyOf(job.ei, job.src, job.vi)
          /\ Cst(job.ei) \notin Live
          /\ \E T \in SUBSET Regular(job.src) : Listing(job.cme, next_var, T) /\ Copied(T)
    /\ job.op = "rmsrc" => equs[job.ei] # Nil /\ CopyOf(job.ei, job.src, job.vi) /\ Copied({})
    /\ job.op = "rm" => job.ei \in Equs /\ equs[job.ei] = Nil /\ job.cme # Nil
    /\ job.op = "delvar" => job.vi \in Vars /\ job.cme = vars[job.vi]

\* The inductive invariant.  After an error the matrix is still in order, only the equations and the
\* loop have been left where they were.
CInv ==
    /\ TypeOK /\ ColumnsInv /\ RowsInv
    /\ IF failed = "no" THEN ContentsInv /\ JobInv ELSE job.op \in {"idle", "delvar"}

-----------------------------------------------------------------------------
(***************************************************************************)
(* Elements.                                                               *)
(***************************************************************************)

\* The elements by their names.
LEMMA EltFacts ==
  /\ \A ei \in Equs, vi \in Vars :
        /\ Reg(ei, vi) \in Elts /\ Reg(ei, vi).kind = "reg"
        /\ Reg(ei, vi).ei = ei /\ Reg(ei, vi).vi = vi
        /\ Perp(ei, vi) \in Elts /\ Perp(ei, vi).kind = "perp"
        /\ Perp(ei, vi).ei = ei /\ Perp(ei, vi).vi = vi
  /\ \A ei \in Equs :
        Cst(ei) \in Elts /\ Cst(ei).kind = "cst" /\ Cst(ei).ei = ei /\ Cst(ei).vi = Nil
  /\ \A vi \in Vars :
        Obj(vi) \in Elts /\ Obj(vi).kind = "obj" /\ Obj(vi).ei = Nil /\ Obj(vi).vi = vi
<1>1. ASSUME NEW ei \in Equs, NEW vi \in Vars
      PROVE  Reg(ei, vi) \in Elts /\ Perp(ei, vi) \in Elts
  <2>1. <<ei, vi>> \in Equs \X Vars /\ <<ei, vi>>[1] = ei /\ <<ei, vi>>[2] = vi
    OBVIOUS
  <2> QED
    BY <2>1 DEF Elts
<1>2. \A ei \in Equs : Cst(ei) \in Elts
  BY DEF Elts
<1>3. \A vi \in Vars : Obj(vi) \in Elts
  BY DEF Elts
<1>4. /\ \A ei, vi : Reg(ei, vi).kind = "reg" /\ Reg(ei, vi).ei = ei /\ Reg(ei, vi).vi = vi
      /\ \A ei, vi : Perp(ei, vi).kind = "perp" /\ Perp(ei, vi).ei = ei /\ Perp(ei, vi).vi = vi
      /\ \A ei : Cst(ei).kind = "cst" /\ Cst(ei).ei = ei /\ Cst(ei).vi = Nil
      /\ \A vi : Obj(vi).kind = "obj" /\ Obj(vi).ei = Nil /\ Obj(vi).vi = vi
  BY DEF Reg, Perp, Cst, Obj, Elt
<1> QED
  BY <1>1, <1>2, <1>3, <1>4

\* There are no other elements.
LEMMA EltKinds ==
  ASSUME NEW e \in Elts
  PROVE  /\ e # Nil
         /\ \/ e.kind = "reg" /\ e.ei \in Equs /\ e.vi \in Vars /\ e = Reg(e.ei, e.vi)
            \/ e.kind = "perp" /\ e.ei \in Equs /\ e.vi \in Vars /\ e = Perp(e.ei, e.vi)
            \/ e.kind = "cst" /\ e.ei \in Equs /\ e.vi = Nil /\ e = Cst(e.ei)
            \/ e.kind = "obj" /\ e.ei = Nil /\ e.vi \in Vars /\ e = Obj(e.vi)
<1>0. e # Nil
  BY NilAssumption
<1>1. CASE \E p \in Equs \X Vars : e = Reg(p[1], p[2])
  <2>1. PICK p \in Equs \X Vars : e = Reg(p[1], p[2])
    BY <1>1
  <2>2. p[1] \in Equs /\ p[2] \in Vars
    OBVIOUS
  <2> QED
    BY <1>0, <2>1, <2>2, EltFacts
<1>2. CASE \E p \in Equs \X Vars : e = Perp(p[1], p[2])
  <2>1. PICK p \in Equs \X Vars : e = Perp(p[1], p[2])
    BY <1>2
  <2>2. p[1] \in Equs /\ p[2] \in Vars
    OBVIOUS
  <2> QED
    BY <1>0, <2>1, <2>2, EltFacts
<1>3. CASE \E ei \in Equs : e = Cst(ei)
  BY <1>0, <1>3, EltFacts
<1>4. CASE \E vi \in Vars : e = Obj(vi)
  BY <1>0, <1>4, EltFacts
<1> QED
  BY <1>1, <1>2, <1>3, <1>4 DEF Elts

\* A null pointer is none of them.
LEMMA NilFacts ==
  /\ Nil \notin Elts /\ Nil \notin Vars /\ Nil \notin Equs
  /\ \A ei : Nil \notin OfRow(ei) /\ Nil \notin Regular(ei)
  /\ \A vi : Nil \notin OfColumn(vi)
BY NilAssumption, CMatAssumption DEF OfRow, Regular, OfColumn, Live

-----------------------------------------------------------------------------
(***************************************************************************)
(* Columns.                                                                *)
(***************************************************************************)

\* What the lists of the columns say of one element: its neighbours are elements of the same
\* variable.
LEMMA ColumnFacts ==
  ASSUME TypeOK, ColumnsInv
  PROVE  /\ \A x \in Elts : next_equ[x] # Nil =>
               /\ x \in Live /\ next_equ[x] \in Live /\ x.vi \in Vars
               /\ next_equ[x].vi = x.vi /\ next_equ[x] # vars[x.vi] /\ next_equ[x] # x
         /\ \A x \in Elts : prev_equ[x] # Nil =>
               /\ x \in Live /\ prev_equ[x] \in Live /\ x.vi \in Vars
               /\ prev_equ[x].vi = x.vi /\ x # vars[x.vi] /\ prev_equ[x] # x
         /\ \A x \in Live : x.vi \in Vars => vars[x.vi] \in OfColumn(x.vi)
         /\ \A vi \in Vars : (vars[vi] = Nil /\ OfColumn(vi) = {}) \/ vars[vi] \in OfColumn(vi)
         /\ \A x \in Live : x.vi \in Vars /\ x # vars[x.vi] => prev_equ[x] # Nil
         /\ \A x \in Live : x.vi \in Vars /\ x # last_equ[x.vi] /\ last_equ[x.vi] # Nil => next_equ[x] # Nil
<1>t. /\ prev_equ \in [Elts -> Ptr] /\ next_equ \in [Elts -> Ptr]
      /\ \A p \in Ptr : p # Nil => p \in Elts
  BY DEF TypeOK, Ptr
<1>l. \A x \in Live : x \in Elts
  BY DEF Live
<1>v. \A x \in Elts : x.vi # Nil => x.vi \in Vars
  BY EltKinds
<1>i. /\ \A vi \in Vars : Listing(vars[vi], next_equ, OfColumn(vi))
      /\ \A e \in Elts : e \notin Live \/ e.vi = Nil => next_equ[e] = Nil /\ prev_equ[e] = Nil
      /\ \A e \in Elts : prev_equ[e] # Nil => next_equ[prev_equ[e]] = e
      /\ \A e \in Elts : next_equ[e] # Nil => prev_equ[next_equ[e]] = e
  BY DEF ColumnsInv
<1>n. \A vi \in Vars : Nil \notin OfColumn(vi)
  BY NilFacts
<1>1. ASSUME NEW x \in Elts, next_equ[x] # Nil
      PROVE  /\ x \in Live /\ next_equ[x] \in Live /\ x.vi \in Vars
             /\ next_equ[x].vi = x.vi /\ next_equ[x] # vars[x.vi] /\ next_equ[x] # x
  <2>1. x \in Live /\ x.vi \in Vars
    BY <1>1, <1>i, <1>v
  <2>2. x \in OfColumn(x.vi)
    BY <2>1 DEF OfColumn
  <2>3. next_equ[x] \in OfColumn(x.vi) /\ next_equ[x] # vars[x.vi] /\ next_equ[x] # x
    BY <1>1, <1>i, <1>n, <2>1, <2>2, ListNext
  <2> QED
    BY <2>1, <2>3 DEF OfColumn
<1>2. ASSUME NEW x \in Elts, prev_equ[x] # Nil
      PROVE  /\ x \in Live /\ prev_equ[x] \in Live /\ x.vi \in Vars
             /\ prev_equ[x].vi = x.vi /\ x # vars[x.vi] /\ prev_equ[x] # x
  <2>1. prev_equ[x] \in Elts /\ next_equ[prev_equ[x]] = x /\ x # Nil
    BY <1>2, <1>i, <1>t, NilFacts
  <2>2. /\ prev_equ[x] \in Live /\ x \in Live /\ prev_equ[x].vi \in Vars
        /\ x.vi = prev_equ[x].vi /\ x # vars[prev_equ[x].vi] /\ x # prev_equ[x]
    BY <1>1, <2>1
  <2> QED
    BY <2>2
<1>3. \A vi \in Vars : (vars[vi] = Nil /\ OfColumn(vi) = {}) \/ vars[vi] \in OfColumn(vi)
  BY <1>i, <1>n, ListFirst
<1>4. \A x \in Live : x.vi \in Vars => vars[x.vi] \in OfColumn(x.vi)
  <2>1. \A x \in Live : x \in OfColumn(x.vi)
    BY DEF OfColumn
  <2> QED
    BY <2>1, <1>3
<1>5. ASSUME NEW x \in Live, x.vi \in Vars, x # vars[x.vi] PROVE prev_equ[x] # Nil
  <2>1. x \in OfColumn(x.vi)
    BY DEF OfColumn
  <2>2. PICK y \in OfColumn(x.vi) : next_equ[y] = x
    BY <1>5, <1>i, <1>n, <2>1, ListBack
  <2>3. y \in Elts /\ next_equ[y] # Nil
    BY <2>2, <1>l, NilFacts DEF OfColumn
  <2>4. prev_equ[x] = y /\ y # Nil
    BY <1>i, <2>2, <2>3, NilFacts
  <2> QED
    BY <2>4
<1>6. ASSUME NEW x \in Live, x.vi \in Vars, x # last_equ[x.vi], last_equ[x.vi] # Nil PROVE next_equ[x] # Nil
  <2>1. last_equ[x.vi] \in OfColumn(x.vi) /\ next_equ[last_equ[x.vi]] = Nil /\ x \in OfColumn(x.vi)
    BY <1>6 DEF ColumnsInv, OfColumn
  <2>2. \A a, b \in OfColumn(x.vi) : next_equ[a] = next_equ[b] => a = b
    BY <1>6, <1>i, <1>n, ListNext
  <2> QED
    BY <1>6, <2>1, <2>2
<1> QED
  BY <1>1, <1>2, <1>3, <1>4, <1>5, <1>6

\* A variable comes in.
LEMMA CountIn ==
  ASSUME TypeOK, CountExact, NEW vi \in Vars, vars[vi] = Nil,
         \A vj \in Vars : (vars'[vj] # Nil) <=> (vj = vi \/ vars[vj] # Nil), n' = n + 1
  PROVE  CountExact'
<1> DEFINE A == {vj \in Vars : vars[vj] # Nil}
           B == {vj \in Vars : vars'[vj] # Nil}
<1>1. B = A \cup {vi} /\ vi \notin A
  OBVIOUS
<1>2. IsFiniteSet(A)
  BY CMatAssumption, FS_Subset
<1> HIDE DEF A, B
<1>3. Cardinality(B) = Cardinality(A) + 1
  BY <1>1, <1>2, FS_AddElement
<1> QED
  BY <1>3 DEF CountExact, A, B

\* A variable goes.
LEMMA CountOut ==
  ASSUME TypeOK, CountExact, NEW vi \in Vars, vars[vi] # Nil,
         \A vj \in Vars : (vars'[vj] # Nil) <=> (vj # vi /\ vars[vj] # Nil), n' = n - 1
  PROVE  CountExact'
<1> DEFINE A == {vj \in Vars : vars[vj] # Nil}
           B == {vj \in Vars : vars'[vj] # Nil}
<1>1. B = A \ {vi} /\ vi \in A
  OBVIOUS
<1>2. IsFiniteSet(A)
  BY CMatAssumption, FS_Subset
<1> HIDE DEF A, B
<1>3. Cardinality(B) = Cardinality(A) - 1
  BY <1>1, <1>2, FS_RemoveElement
<1> QED
  BY <1>3 DEF CountExact, A, B

\* The same variables as before.
LEMMA CountStays ==
  ASSUME CountExact, \A vj \in Vars : (vars'[vj] # Nil) <=> (vars[vj] # Nil), n' = n
  PROVE  CountExact'
<1>1. {vj \in Vars : vars'[vj] # Nil} = {vj \in Vars : vars[vj] # Nil}
  OBVIOUS
<1> QED
  BY <1>1 DEF CountExact

\* There is something to count.
LEMMA CountPositive ==
  ASSUME TypeOK, CountExact, NEW vi \in Vars, vars[vi] # Nil
  PROVE  n - 1 \in Nat
<1> DEFINE A == {vj \in Vars : vars[vj] # Nil}
<1>1. IsFiniteSet(A) /\ vi \in A
  BY CMatAssumption, FS_Subset
<1> HIDE DEF A
<1>2. Cardinality(A) \in Nat /\ Cardinality(A) # 0
  BY <1>1, FS_CardinalityType, FS_EmptySet
<1>3. n = Cardinality(A)
  BY DEF CountExact, A
<1> QED
  BY <1>2, <1>3

\* A step that changes no element of any variable.
LEMMA ColumnsStay ==
  ASSUME ColumnsInv, vars' = vars, next_equ' = next_equ, prev_equ' = prev_equ,
         last_equ' = last_equ, n' = n,
         \A e \in Elts : e.vi # Nil => (e \in Live' <=> e \in Live)
  PROVE  ColumnsInv'
<1>1. \A e : e \in Live \/ e \in Live' => e \in Elts
  BY DEF Live
<1>2. \A vi \in Vars : OfColumn(vi)' = OfColumn(vi)
  BY <1>1, NilFacts DEF OfColumn
<1>3. /\ \A vi \in Vars : Listing(vars'[vi], next_equ', OfColumn(vi)')
      /\ \A vi \in Vars :
            IF vars'[vi] \in {Nil, Obj(vi)} THEN last_equ'[vi] = Nil
            ELSE last_equ'[vi] \in OfColumn(vi)' /\ next_equ'[last_equ'[vi]] = Nil
  BY <1>2 DEF ColumnsInv
<1>4. /\ \A e \in Elts : e \notin Live' \/ e.vi = Nil => next_equ'[e] = Nil /\ prev_equ'[e] = Nil
      /\ \A e \in Elts : next_equ'[e] # Nil => prev_equ'[next_equ'[e]] = e
      /\ \A e \in Elts : prev_equ'[e] # Nil => next_equ'[prev_equ'[e]] = e
      /\ \A vi \in Vars : next_equ'[Obj(vi)] = Nil
  BY DEF ColumnsInv
<1>5. \A e \in Live' : e.kind \in {"perp", "obj"} => vars'[e.vi] = e
  <2>1. \A e \in Elts : e.kind \in {"perp", "obj"} => e.vi # Nil
    BY EltKinds, NilFacts
  <2> QED
    BY <1>1, <2>1 DEF ColumnsInv
<1>6. CountExact'
  BY CountStays DEF ColumnsInv
<1> QED
  BY <1>3, <1>4, <1>5, <1>6 DEF ColumnsInv, Obj, Elt

\* The elements after a new one, which takes the place of the two placeholders.
LEMMA NewLive ==
  ASSUME TypeOK, NEW e \in Elts, e.kind = "reg", NEW ty \in {"Lin", "NL"}, EltNew(e, ty),
         vars[e.vi] = Obj(e.vi) => Heads(e.vi), vars[e.vi] # Obj(e.vi) => Obj(e.vi) \notin Live,
         Heads(e.vi) => vars[e.vi] \in {Nil, Obj(e.vi)}
  PROVE  Live' = (Live \ {Cst(e.ei), Obj(e.vi)}) \cup {e}
<1>1. etype' = [x \in Elts |-> IF x = e THEN ty
                               ELSE IF x = Cst(e.ei) \/ (Heads(e.vi) /\ x = vars[e.vi])
                                    THEN "none" ELSE etype[x]]
  BY DEF EltNew
<1>2. e.ei \in Equs /\ e.vi \in Vars /\ Cst(e.ei) # e /\ Obj(e.vi) # e
  BY EltKinds, EltFacts
<1>3. ASSUME NEW x \in Elts
      PROVE  x \in Live' <=> x \in (Live \ {Cst(e.ei), Obj(e.vi)}) \cup {e}
  <2>1. x \in Live' <=> etype'[x] # "none"
    BY DEF Live
  <2>2. x \in Live <=> etype[x] # "none"
    BY DEF Live
  <2>3. x # Nil
    BY EltKinds
  <2> QED
    BY <1>1, <1>2, <2>1, <2>2, <2>3
<1>4. Live \subseteq Elts /\ Live' \subseteq Elts
  BY DEF Live
<1> QED
  BY <1>3, <1>4

\* A variable without elements, or with the placeholder of an objective variable only.
LEMMA HeadsFacts ==
  ASSUME TypeOK, ColumnsInv, NEW vi \in Vars
  PROVE  /\ Heads(vi) <=> vars[vi] \in {Nil, Obj(vi)}
         /\ vars[vi] = Nil => OfColumn(vi) = {}
         /\ vars[vi] = Obj(vi) => OfColumn(vi) = {Obj(vi)}
         /\ vars[vi] # Obj(vi) => Obj(vi) \notin Live
<1>o. Obj(vi) \in Elts /\ Obj(vi).kind = "obj" /\ Obj(vi).vi = vi /\ Obj(vi) # Nil
  BY EltFacts, NilFacts
<1>1. Heads(vi) <=> vars[vi] \in {Nil, Obj(vi)}
  <2>1. IF vars[vi] \in {Nil, Obj(vi)} THEN last_equ[vi] = Nil ELSE last_equ[vi] \in OfColumn(vi)
    BY DEF ColumnsInv
  <2>2. Nil \notin OfColumn(vi)
    BY NilFacts
  <2> QED
    BY <2>1, <2>2 DEF Heads, Fresh
<1>2. vars[vi] = Nil => OfColumn(vi) = {}
  BY ColumnFacts, NilFacts
<1>3. ASSUME vars[vi] = Obj(vi) PROVE OfColumn(vi) = {Obj(vi)}
  <2>1. Listing(Obj(vi), next_equ, OfColumn(vi)) /\ Nil \notin OfColumn(vi)
    BY <1>3, NilFacts DEF ColumnsInv
  <2>2. Obj(vi) \in OfColumn(vi) /\ next_equ[Obj(vi)] = Nil
    BY <1>o, <2>1, ListFirst DEF ColumnsInv
  <2>3. Listing(Nil, next_equ, OfColumn(vi) \ {Obj(vi)})
    BY <2>1, <2>2, ListTail
  <2>4. OfColumn(vi) \ {Obj(vi)} = {}
    BY <2>1, <2>3, ListFirst
  <2> QED
    BY <2>2, <2>4
<1>4. vars[vi] # Obj(vi) => Obj(vi) \notin Live
  BY <1>o DEF ColumnsInv
<1> QED
  BY <1>1, <1>2, <1>3, <1>4

\* The first element of a variable.
LEMMA NewHead ==
  ASSUME TypeOK, ColumnsInv, NEW e \in Elts, e.kind = "reg", e \notin Live,
         NEW ty \in {"Lin", "NL"}, EltNew(e, ty), vars[e.vi] \in {Nil, Obj(e.vi)}
  PROVE  ColumnsInv' /\ Live' = (Live \ {Cst(e.ei), Obj(e.vi)}) \cup {e}
<1>v. PICK vi \in Vars : vi = e.vi
  BY EltKinds
<1>e. /\ e # Nil /\ e.ei \in Equs
      /\ Cst(e.ei) \in Elts /\ Obj(vi) \in Elts /\ Cst(e.ei) # e /\ Obj(vi) # e
      /\ Cst(e.ei).vi = Nil /\ Obj(vi).vi = vi /\ Obj(vi).kind = "obj" /\ Obj(vi) # Nil /\ vi # Nil
      /\ Cst(e.ei).kind = "cst"
  BY <1>v, EltFacts, EltKinds, NilFacts
<1>h. Heads(vi) /\ last_equ[vi] = Nil
  BY <1>v, HeadsFacts DEF ColumnsInv
<1>L. Live' = (Live \ {Cst(e.ei), Obj(vi)}) \cup {e}
  BY <1>v, <1>h, HeadsFacts, NewLive
<1>t. /\ next_equ \in [Elts -> Ptr] /\ prev_equ \in [Elts -> Ptr]
      /\ vars \in [Vars -> Ptr] /\ last_equ \in [Vars -> Ptr]
  BY DEF TypeOK
<1>z. next_equ[e] = Nil /\ prev_equ[e] = Nil
  BY DEF ColumnsInv
<1>1. /\ next_equ' = next_equ /\ prev_equ' = prev_equ
      /\ vars' = [vars EXCEPT ![vi] = e] /\ last_equ' = [last_equ EXCEPT ![vi] = e]
      /\ n' = IF vars[vi] = Nil THEN n + 1 ELSE n
  <2>1. next_equ' = [x \in Elts |-> next_equ[x]]
    BY <1>v, <1>h DEF EltNew
  <2>2. prev_equ' = [prev_equ EXCEPT ![e] = Nil]
    BY <1>v, <1>h DEF EltNew
  <2>3. vars' = [vars EXCEPT ![vi] = e] /\ last_equ' = [last_equ EXCEPT ![vi] = e]
    BY <1>v, <1>h DEF EltNew, LastWith
  <2>4. n' = IF vars[vi] = Nil THEN n + 1 ELSE n
    BY <1>v DEF EltNew, CountWith, Fresh
  <2> QED
    BY <1>t, <1>z, <2>1, <2>2, <2>3, <2>4
<1>2. \A vj \in Vars : vj # vi => OfColumn(vj)' = OfColumn(vj)
  BY <1>L, <1>e, <1>v, NilFacts DEF OfColumn
<1>3. OfColumn(vi)' = {e}
  <2>1. OfColumn(vi) \subseteq {Obj(vi)}
    BY <1>v, HeadsFacts
  <2> QED
    BY <2>1, <1>L, <1>e, <1>v DEF OfColumn
<1>4. ASSUME NEW vj \in Vars PROVE Listing(vars'[vj], next_equ', OfColumn(vj)')
  <2>1. CASE vj = vi
    <3>1. Listing(Nil, next_equ, {})
      BY ListEmpty
    <3>2. Listing(e, next_equ, {} \cup {e})
      BY <3>1, <1>z, ListPrepend
    <3>3. vars'[vi] = e /\ {} \cup {e} = {e}
      BY <1>1, <1>t
    <3> QED
      BY <2>1, <3>2, <3>3, <1>1, <1>3
  <2>2. CASE vj # vi
    <3>1. vars'[vj] = vars[vj] /\ OfColumn(vj)' = OfColumn(vj)
      BY <2>2, <1>1, <1>2, <1>t
    <3> QED
      BY <3>1, <1>1 DEF ColumnsInv
  <2> QED
    BY <2>1, <2>2
<1>5. \A x \in Elts : x \notin Live' \/ x.vi = Nil => next_equ'[x] = Nil /\ prev_equ'[x] = Nil
  <2>1. \A x \in Elts : x = Obj(vi) => next_equ[x] = Nil /\ prev_equ[x] = Nil
    <3>1. next_equ[Obj(vi)] = Nil
      BY DEF ColumnsInv
    <3>2. prev_equ[Obj(vi)] = Nil
      <4>1. CASE vars[vi] = Nil
        BY <4>1, <1>e, HeadsFacts DEF ColumnsInv
      <4>2. CASE vars[vi] = Obj(vi)
        BY <4>2, <1>e, ColumnFacts
      <4> QED
        BY <4>1, <4>2, <1>v
    <3> QED
      BY <3>1, <3>2
  <2> QED
    BY <2>1, <1>1, <1>L, <1>e DEF ColumnsInv
<1>6. /\ \A x \in Elts : next_equ'[x] # Nil => prev_equ'[next_equ'[x]] = x
      /\ \A x \in Elts : prev_equ'[x] # Nil => next_equ'[prev_equ'[x]] = x
      /\ \A vj \in Vars : next_equ'[Obj(vj)] = Nil
  BY <1>1 DEF ColumnsInv
<1>7. ASSUME NEW vj \in Vars
      PROVE  IF vars'[vj] \in {Nil, Obj(vj)} THEN last_equ'[vj] = Nil
             ELSE last_equ'[vj] \in OfColumn(vj)' /\ next_equ'[last_equ'[vj]] = Nil
  <2>1. CASE vj = vi
    <3>1. vars'[vi] = e /\ last_equ'[vi] = e
      BY <1>1, <1>t
    <3> QED
      BY <2>1, <3>1, <1>1, <1>3, <1>e, <1>z
  <2>2. CASE vj # vi
    <3>1. vars'[vj] = vars[vj] /\ OfColumn(vj)' = OfColumn(vj) /\ last_equ'[vj] = last_equ[vj]
      BY <2>2, <1>1, <1>2, <1>t
    <3> QED
      BY <3>1, <1>1 DEF ColumnsInv
  <2> QED
    BY <2>1, <2>2
<1>8. ASSUME NEW x \in Live', x.kind \in {"perp", "obj"} PROVE vars'[x.vi] = x
  <2>1. x \in Live /\ x # Obj(vi) /\ x \in Elts
    BY <1>8, <1>L DEF Live
  <2>2. vars[x.vi] = x /\ x.vi \in Vars
    BY <1>8, <2>1, EltKinds DEF ColumnsInv
  <2>3. x.vi # vi
    BY <2>1, <2>2, <1>v, EltKinds
  <2> QED
    BY <2>2, <2>3, <1>1, <1>t
<1>9. CountExact'
  <2>1. CASE vars[vi] = Nil
    <3>1. \A vj \in Vars : (vars'[vj] # Nil) <=> (vj = vi \/ vars[vj] # Nil)
      BY <1>1, <1>t, <1>e
    <3> QED
      BY <2>1, <3>1, <1>1, CountIn DEF ColumnsInv
  <2>2. CASE vars[vi] # Nil
    <3>1. \A vj \in Vars : (vars'[vj] # Nil) <=> (vars[vj] # Nil)
      BY <2>2, <1>1, <1>t, <1>e
    <3> QED
      BY <2>2, <3>1, <1>1, CountStays DEF ColumnsInv
  <2> QED
    BY <2>1, <2>2
<1> QED
  BY <1>L, <1>v, <1>4, <1>5, <1>6, <1>7, <1>8, <1>9 DEF ColumnsInv, Obj, Elt

\* One more element of a variable.
LEMMA NewLast ==
  ASSUME TypeOK, ColumnsInv, NEW e \in Elts, e.kind = "reg", e \notin Live,
         NEW ty \in {"Lin", "NL"}, EltNew(e, ty), vars[e.vi] \notin {Nil, Obj(e.vi)}
  PROVE  ColumnsInv' /\ Live' = (Live \ {Cst(e.ei), Obj(e.vi)}) \cup {e}
<1>v. PICK vi \in Vars : vi = e.vi
  BY EltKinds
<1>p. PICK l \in OfColumn(vi) : l = last_equ[vi] /\ next_equ[l] = Nil
  BY <1>v DEF ColumnsInv
<1>e. /\ e # Nil /\ e.ei \in Equs
      /\ Cst(e.ei) \in Elts /\ Obj(vi) \in Elts /\ Cst(e.ei) # e /\ Obj(vi) # e
      /\ Cst(e.ei).vi = Nil /\ Obj(vi).vi = vi /\ Obj(vi).kind = "obj" /\ Obj(vi) # Nil /\ vi # Nil
      /\ Cst(e.ei).kind = "cst"
  BY <1>v, EltFacts, EltKinds, NilFacts
<1>h. ~ Heads(vi) /\ vars[vi] # Nil /\ vars[vi] # Obj(vi) /\ Obj(vi) \notin Live
  BY <1>v, HeadsFacts
<1>L. Live' = (Live \ {Cst(e.ei), Obj(vi)}) \cup {e}
  BY <1>v, <1>h, NewLive
<1>l. l \in Live /\ l \in Elts /\ l.vi = vi /\ l # e /\ l # Nil
  BY <1>p, NilFacts DEF OfColumn, Live
<1>t. /\ next_equ \in [Elts -> Ptr] /\ prev_equ \in [Elts -> Ptr]
      /\ vars \in [Vars -> Ptr] /\ last_equ \in [Vars -> Ptr]
  BY DEF TypeOK
<1>z. next_equ[e] = Nil /\ prev_equ[e] = Nil
  BY DEF ColumnsInv
<1>1. /\ next_equ' = [next_equ EXCEPT ![l] = e] /\ prev_equ' = [prev_equ EXCEPT ![e] = l]
      /\ vars' = vars /\ last_equ' = [last_equ EXCEPT ![vi] = e] /\ n' = n
  <2>1. next_equ' = [x \in Elts |-> IF x = l THEN e ELSE next_equ[x]]
    BY <1>v, <1>h, <1>p DEF EltNew
  <2>2. prev_equ' = [prev_equ EXCEPT ![e] = l]
    BY <1>v, <1>h, <1>p DEF EltNew, Fresh
  <2>3. vars' = vars /\ last_equ' = [last_equ EXCEPT ![vi] = e]
    BY <1>v, <1>h DEF EltNew, LastWith
  <2>4. n' = n
    BY <1>v, <1>h DEF EltNew, CountWith, Fresh
  <2>5. next_equ' = [next_equ EXCEPT ![l] = e]
    BY <2>1, <1>t
  <2> QED
    BY <2>2, <2>3, <2>4, <2>5
<1>a. /\ \A x \in Elts : next_equ'[x] = IF x = l THEN e ELSE next_equ[x]
      /\ \A x \in Elts : prev_equ'[x] = IF x = e THEN l ELSE prev_equ[x]
      /\ \A vj \in Vars : last_equ'[vj] = IF vj = vi THEN e ELSE last_equ[vj]
  BY <1>1, <1>t
<1>2. \A vj \in Vars : vj # vi => OfColumn(vj)' = OfColumn(vj)
  BY <1>L, <1>e, <1>v, NilFacts DEF OfColumn
<1>3. OfColumn(vi)' = OfColumn(vi) \cup {e} /\ e \notin OfColumn(vi)
  BY <1>L, <1>e, <1>v, <1>h DEF OfColumn
<1>s. \A vj \in Vars : OfColumn(vj) \subseteq Elts /\ Nil \notin OfColumn(vj)
  BY NilFacts DEF OfColumn, Live
<1>4. ASSUME NEW vj \in Vars PROVE Listing(vars'[vj], next_equ', OfColumn(vj)')
  <2>i. Listing(vars[vj], next_equ, OfColumn(vj))
    BY DEF ColumnsInv
  <2>1. CASE vj = vi
    <3>1. /\ next_equ'[l] = e /\ next_equ'[e] = Nil
          /\ \A x \in OfColumn(vi) \ {l} : next_equ'[x] = next_equ[x]
      BY <1>a, <1>l, <1>s, <1>z
    <3>2. Listing(vars[vi], next_equ', OfColumn(vi) \cup {e})
      BY <2>1, <2>i, <3>1, <1>p, <1>3, <1>s, ListAppend
    <3> QED
      BY <2>1, <3>2, <1>1, <1>3
  <2>2. CASE vj # vi
    <3>1. \A x \in OfColumn(vj) : next_equ'[x] = next_equ[x]
      BY <2>2, <1>a, <1>l, <1>s DEF OfColumn
    <3>2. Listing(vars[vj], next_equ', OfColumn(vj))
      BY <2>i, <3>1, ListSame
    <3> QED
      BY <2>2, <3>2, <1>1, <1>2
  <2> QED
    BY <2>1, <2>2
<1>5. \A x \in Elts : x \notin Live' \/ x.vi = Nil => next_equ'[x] = Nil /\ prev_equ'[x] = Nil
  BY <1>a, <1>l, <1>L, <1>e, <1>v, <1>h DEF ColumnsInv
<1>6. \A x \in Elts : next_equ'[x] # Nil => prev_equ'[next_equ'[x]] = x
  <2> SUFFICES ASSUME NEW x \in Elts, next_equ'[x] # Nil PROVE prev_equ'[next_equ'[x]] = x
    OBVIOUS
  <2>1. CASE x = l
    BY <2>1, <1>a
  <2>2. CASE x # l
    <3>1. next_equ'[x] = next_equ[x] /\ next_equ[x] \in Live /\ next_equ[x] # e /\ prev_equ[next_equ[x]] = x
      BY <2>2, <1>a, ColumnFacts DEF ColumnsInv
    <3>2. next_equ[x] \in Elts
      BY <3>1 DEF Live
    <3> QED
      BY <3>1, <3>2, <1>a
  <2> QED
    BY <2>1, <2>2
<1>7. \A x \in Elts : prev_equ'[x] # Nil => next_equ'[prev_equ'[x]] = x
  <2> SUFFICES ASSUME NEW x \in Elts, prev_equ'[x] # Nil PROVE next_equ'[prev_equ'[x]] = x
    OBVIOUS
  <2>1. CASE x = e
    BY <2>1, <1>a, <1>l
  <2>2. CASE x # e
    <3>1. prev_equ'[x] = prev_equ[x] /\ prev_equ[x] \in Live /\ next_equ[prev_equ[x]] = x /\ x # Nil
      BY <2>2, <1>a, ColumnFacts, NilFacts DEF ColumnsInv
    <3>2. prev_equ[x] # l /\ prev_equ[x] \in Elts
      BY <3>1, <1>p DEF Live
    <3> QED
      BY <3>1, <3>2, <1>a
  <2> QED
    BY <2>1, <2>2
<1>8. ASSUME NEW vj \in Vars
      PROVE  IF vars'[vj] \in {Nil, Obj(vj)} THEN last_equ'[vj] = Nil
             ELSE last_equ'[vj] \in OfColumn(vj)' /\ next_equ'[last_equ'[vj]] = Nil
  <2>1. CASE vj = vi
    BY <2>1, <1>a, <1>1, <1>3, <1>h, <1>l, <1>z
  <2>2. CASE vj # vi
    <3>1. last_equ'[vj] = last_equ[vj] /\ OfColumn(vj)' = OfColumn(vj)
      BY <2>2, <1>a, <1>2
    <3>2. last_equ[vj] \in OfColumn(vj) => next_equ'[last_equ[vj]] = next_equ[last_equ[vj]]
      BY <2>2, <1>a, <1>l, <1>s DEF OfColumn
    <3> QED
      BY <3>1, <3>2, <1>1 DEF ColumnsInv
  <2> QED
    BY <2>1, <2>2
<1>9. \A x \in Live' : x.kind \in {"perp", "obj"} => vars'[x.vi] = x
  <2>1. \A x \in Live' : x = e \/ x \in Live
    BY <1>L
  <2> QED
    BY <2>1, <1>1 DEF ColumnsInv
<1>10. ASSUME NEW vj \in Vars PROVE next_equ'[Obj(vj)] = Nil
  <2>1. Obj(vj) \in Elts /\ Obj(vj).vi = vj /\ next_equ[Obj(vj)] = Nil
    BY EltFacts DEF ColumnsInv
  <2>2. Obj(vj) # l
    BY <2>1, <1>l, <1>h
  <2> QED
    BY <2>1, <2>2, <1>a
<1>11. CountExact'
  BY <1>1, CountStays DEF ColumnsInv
<1> QED
  BY <1>L, <1>v, <1>4, <1>5, <1>6, <1>7, <1>8, <1>9, <1>10, <1>11 DEF ColumnsInv, Obj, Elt

\* cmat_elt_new
LEMMA EltNewColumns ==
  ASSUME TypeOK, ColumnsInv, NEW e \in Elts, e.kind = "reg", e \notin Live,
         NEW ty \in {"Lin", "NL"}, EltNew(e, ty)
  PROVE  ColumnsInv' /\ Live' = (Live \ {Cst(e.ei), Obj(e.vi)}) \cup {e}
BY NewHead, NewLast

\* A variable that has no element gets a placeholder.
LEMMA NewPlaceholder ==
  ASSUME TypeOK, ColumnsInv, NEW vi \in Vars, vars[vi] = Nil, NEW e \in Elts,
         (e.kind = "perp" /\ e.vi = vi) \/ e = Obj(vi),
         vars' = [vars EXCEPT ![vi] = e], next_equ' = next_equ, prev_equ' = prev_equ, n' = n + 1,
         last_equ' = IF e = Obj(vi) THEN last_equ ELSE [last_equ EXCEPT ![vi] = e],
         \A x \in Elts : x.vi # Nil => (x \in Live' <=> x = e \/ x \in Live)
  PROVE  ColumnsInv'
<1>e. e # Nil /\ e.vi = vi /\ vi # Nil
  BY EltFacts, NilFacts
<1>t. vars \in [Vars -> Ptr] /\ last_equ \in [Vars -> Ptr]
  BY DEF TypeOK
<1>l. \A x : x \in Live \/ x \in Live' => x \in Elts
  BY DEF Live
<1>c. OfColumn(vi) = {}
  BY HeadsFacts
<1>n. e \notin Live
  BY <1>c, <1>e DEF OfColumn
<1>z. next_equ[e] = Nil /\ prev_equ[e] = Nil
  BY <1>n DEF ColumnsInv
<1>a. /\ \A vj \in Vars : vars'[vj] = IF vj = vi THEN e ELSE vars[vj]
      /\ \A vj \in Vars : vj # vi => last_equ'[vj] = last_equ[vj]
      /\ last_equ'[vi] = IF e = Obj(vi) THEN last_equ[vi] ELSE e
  BY <1>t
<1>2. \A vj \in Vars : vj # vi => OfColumn(vj)' = OfColumn(vj)
  BY <1>l, <1>e, NilFacts DEF OfColumn
<1>3. OfColumn(vi)' = {e}
  <2>1. \A x \in Elts : x.vi = vi => (x \in Live' <=> x = e)
    BY <1>c, <1>e DEF OfColumn
  <2> QED
    BY <2>1, <1>l, <1>e DEF OfColumn
<1>4. ASSUME NEW vj \in Vars PROVE Listing(vars'[vj], next_equ', OfColumn(vj)')
  <2>1. CASE vj = vi
    <3>1. Listing(Nil, next_equ, {})
      BY ListEmpty
    <3>2. Listing(e, next_equ, {} \cup {e})
      BY <3>1, <1>z, ListPrepend
    <3>3. {} \cup {e} = {e}
      OBVIOUS
    <3> QED
      BY <2>1, <3>2, <3>3, <1>a, <1>3
  <2>2. CASE vj # vi
    <3>1. vars'[vj] = vars[vj] /\ OfColumn(vj)' = OfColumn(vj)
      BY <2>2, <1>a, <1>2
    <3> QED
      BY <3>1 DEF ColumnsInv
  <2> QED
    BY <2>1, <2>2
<1>5. \A x \in Elts : x \notin Live' \/ x.vi = Nil => next_equ'[x] = Nil /\ prev_equ'[x] = Nil
  BY DEF ColumnsInv
<1>6. /\ \A x \in Elts : next_equ'[x] # Nil => prev_equ'[next_equ'[x]] = x
      /\ \A x \in Elts : prev_equ'[x] # Nil => next_equ'[prev_equ'[x]] = x
      /\ \A vj \in Vars : next_equ'[Obj(vj)] = Nil
  BY DEF ColumnsInv
<1>7. ASSUME NEW vj \in Vars
      PROVE  IF vars'[vj] \in {Nil, Obj(vj)} THEN last_equ'[vj] = Nil
             ELSE last_equ'[vj] \in OfColumn(vj)' /\ next_equ'[last_equ'[vj]] = Nil
  <2>1. CASE vj = vi
    <3>1. last_equ[vi] = Nil
      BY DEF ColumnsInv
    <3> QED
      BY <2>1, <3>1, <1>a, <1>3, <1>z, <1>e
  <2>2. CASE vj # vi
    <3>1. vars'[vj] = vars[vj] /\ OfColumn(vj)' = OfColumn(vj) /\ last_equ'[vj] = last_equ[vj]
      BY <2>2, <1>a, <1>2
    <3> QED
      BY <3>1 DEF ColumnsInv
  <2> QED
    BY <2>1, <2>2
<1>8. ASSUME NEW x \in Live', x.kind \in {"perp", "obj"} PROVE vars'[x.vi] = x
  <2>1. x \in Elts /\ x.vi \in Vars
    BY <1>8, <1>l, EltKinds
  <2>2. CASE x.vi = vi
    <3>1. x = e
      BY <2>1, <2>2, <1>3 DEF OfColumn
    <3> QED
      BY <3>1, <1>a, <1>e
  <2>3. CASE x.vi # vi
    <3>1. x \in Live
      BY <2>1, <2>3, <1>e, NilFacts
    <3> QED
      BY <2>1, <2>3, <3>1, <1>8, <1>a DEF ColumnsInv
  <2> QED
    BY <2>2, <2>3
<1>9. CountExact'
  <2>1. \A vj \in Vars : (vars'[vj] # Nil) <=> (vj = vi \/ vars[vj] # Nil)
    BY <1>a, <1>e
  <2> QED
    BY <2>1, CountIn DEF ColumnsInv
<1> QED
  BY <1>4, <1>5, <1>6, <1>7, <1>8, <1>9 DEF ColumnsInv, Obj, Elt

\* An element leaves its column.
LEMMA UnlinkColumns ==
  ASSUME TypeOK, ColumnsInv, NEW e \in Live, e.kind = "reg", Unlink(e)
  PROVE  ColumnsInv' /\ Live' = Live \ {e}
<1>v. PICK vi \in Vars : vi = e.vi /\ e \in Elts
  BY EltKinds DEF Live
<1>t. /\ next_equ \in [Elts -> Ptr] /\ prev_equ \in [Elts -> Ptr] /\ etype \in [Elts -> Types]
      /\ vars \in [Vars -> Ptr] /\ last_equ \in [Vars -> Ptr]
      /\ \A q \in Ptr : q # Nil => q \in Elts
  BY DEF TypeOK, Ptr
<1>p. PICK p \in Ptr : p = prev_equ[e]
  BY <1>v, <1>t
<1>s. PICK s \in Ptr : s = next_equ[e]
  BY <1>v, <1>t
<1>o. Obj(vi) \in Elts /\ Obj(vi) # e /\ Obj(vi).vi = vi /\ Obj(vi).kind = "obj" /\ Obj(vi) # Nil /\ e # Nil
  BY <1>v, EltFacts, NilFacts
<1>c. e \in OfColumn(vi) /\ vars[vi] # Nil /\ vars[vi] # Obj(vi) /\ Obj(vi) \notin Live
  <2>1. e \in OfColumn(vi)
    BY <1>v DEF OfColumn
  <2> QED
    BY <2>1, <1>o, HeadsFacts
<1>l. last_equ[vi] \in OfColumn(vi) /\ next_equ[last_equ[vi]] = Nil /\ last_equ[vi] # Nil
  BY <1>c, NilFacts DEF ColumnsInv
<1>L. Live' = Live \ {e}
  BY <1>v, <1>t DEF Unlink, Live
<1>a. /\ \A x \in Elts : next_equ'[x] = IF x = e THEN Nil ELSE IF x = p THEN s ELSE next_equ[x]
      /\ \A x \in Elts : prev_equ'[x] = IF x = e THEN Nil ELSE IF x = s THEN p ELSE prev_equ[x]
      /\ \A vj \in Vars : vars'[vj] = IF vj = vi /\ p = Nil THEN s ELSE vars[vj]
      /\ \A vj \in Vars : last_equ'[vj] = IF vj = vi /\ s = Nil THEN p ELSE last_equ[vj]
      /\ n' = IF p = Nil /\ s = Nil THEN n - 1 ELSE n
  BY <1>v, <1>p, <1>s, <1>t DEF Unlink, PrevWithout, VarsWithout, OnlyOne
<1>x. \A x \in Elts : /\ next_equ[x] # Nil => prev_equ[next_equ[x]] = x /\ next_equ[x] \in Elts
                      /\ prev_equ[x] # Nil => next_equ[prev_equ[x]] = x /\ prev_equ[x] \in Elts
  BY <1>t DEF ColumnsInv
<1>f. /\ p # Nil => /\ p \in Live /\ p \in Elts /\ p.vi = vi /\ p # e /\ next_equ[p] = e /\ e # vars[vi]
      /\ s # Nil => /\ s \in Live /\ s \in Elts /\ s.vi = vi /\ s # e /\ prev_equ[s] = e /\ s # vars[vi]
  BY <1>v, <1>p, <1>s, <1>x, ColumnFacts
<1>g. (p = Nil <=> e = vars[vi]) /\ (s = Nil <=> e = last_equ[vi])
  BY <1>v, <1>p, <1>s, <1>f, <1>l, ColumnFacts
<1>2. \A vj \in Vars : OfColumn(vj)' = IF vj = vi THEN OfColumn(vi) \ {e} ELSE OfColumn(vj)
  BY <1>L, <1>v DEF OfColumn
<1>m. \A vj \in Vars : OfColumn(vj) \subseteq Elts /\ Nil \notin OfColumn(vj)
  BY NilFacts DEF OfColumn, Live
<1>4. ASSUME NEW vj \in Vars PROVE Listing(vars'[vj], next_equ', OfColumn(vj)')
  <2>i. Listing(vars[vj], next_equ, OfColumn(vj))
    BY DEF ColumnsInv
  <2>1. CASE vj = vi
    <3>1. ASSUME NEW x \in OfColumn(vi) \ {e}
          PROVE  next_equ'[x] = IF next_equ[x] = e THEN next_equ[e] ELSE next_equ[x]
      <4>1. x \in Elts /\ x # e /\ x # Nil
        BY <1>m
      <4>2. x = p <=> next_equ[x] = e
        BY <4>1, <1>f, <1>x, <1>p, <1>o
      <4> QED
        BY <4>1, <4>2, <1>a, <1>s
    <3>2. Listing(IF vars[vi] = e THEN next_equ[e] ELSE vars[vi], next_equ', OfColumn(vi) \ {e})
      BY <2>1, <2>i, <3>1, <1>c, <1>m, ListRemove
    <3>3. vars'[vi] = IF vars[vi] = e THEN next_equ[e] ELSE vars[vi]
      BY <1>a, <1>g, <1>s
    <3> QED
      BY <2>1, <3>2, <3>3, <1>2
  <2>2. CASE vj # vi
    <3>1. \A x \in OfColumn(vj) : x.vi = vj /\ x \in Elts /\ x # Nil
      BY <1>m DEF OfColumn
    <3>2. \A x \in OfColumn(vj) : next_equ'[x] = next_equ[x]
      BY <2>2, <3>1, <1>a, <1>f, <1>v
    <3>3. Listing(vars[vj], next_equ', OfColumn(vj))
      BY <2>i, <3>2, ListSame
    <3> QED
      BY <2>2, <3>3, <1>a, <1>2
  <2> QED
    BY <2>1, <2>2
<1>5. ASSUME NEW x \in Elts, x \notin Live' \/ x.vi = Nil PROVE next_equ'[x] = Nil /\ prev_equ'[x] = Nil
  <2>1. CASE x = e
    BY <2>1, <1>a
  <2>2. CASE x # e
    <3>1. x \notin Live \/ x.vi = Nil
      BY <1>5, <2>2, <1>L
    <3>2. next_equ[x] = Nil /\ prev_equ[x] = Nil
      BY <3>1 DEF ColumnsInv
    <3>3. x # p /\ x # s
      BY <3>1, <1>f, NilFacts
    <3> QED
      BY <2>2, <3>2, <3>3, <1>a
  <2> QED
    BY <2>1, <2>2
<1>6. ASSUME NEW x \in Elts, next_equ'[x] # Nil PROVE prev_equ'[next_equ'[x]] = x
  <2>1. x # e
    BY <1>6, <1>a
  <2>2. CASE x = p
    <3>1. next_equ'[x] = s /\ s # Nil
      BY <1>6, <2>1, <2>2, <1>a
    <3> QED
      BY <3>1, <2>2, <1>a, <1>f
  <2>3. CASE x # p
    <3>1. next_equ'[x] = next_equ[x] /\ next_equ[x] # Nil /\ next_equ[x] \in Elts /\ prev_equ[next_equ[x]] = x
      BY <1>6, <2>1, <2>3, <1>a, <1>x
    <3>2. next_equ[x] # e /\ next_equ[x] # s
      BY <3>1, <2>1, <2>3, <1>p, <1>f
    <3> QED
      BY <3>1, <3>2, <1>a
  <2> QED
    BY <2>2, <2>3
<1>7. ASSUME NEW x \in Elts, prev_equ'[x] # Nil PROVE next_equ'[prev_equ'[x]] = x
  <2>1. x # e
    BY <1>7, <1>a
  <2>2. CASE x = s
    <3>1. prev_equ'[x] = p /\ p # Nil
      BY <1>7, <2>1, <2>2, <1>a
    <3> QED
      BY <3>1, <2>2, <1>a, <1>f
  <2>3. CASE x # s
    <3>1. prev_equ'[x] = prev_equ[x] /\ prev_equ[x] # Nil /\ prev_equ[x] \in Elts /\ next_equ[prev_equ[x]] = x
      BY <1>7, <2>1, <2>3, <1>a, <1>x
    <3>2. prev_equ[x] # e /\ prev_equ[x] # p
      BY <3>1, <2>1, <2>3, <1>s, <1>f
    <3> QED
      BY <3>1, <3>2, <1>a
  <2> QED
    BY <2>2, <2>3
<1>8. ASSUME NEW vj \in Vars
      PROVE  IF vars'[vj] \in {Nil, Obj(vj)} THEN last_equ'[vj] = Nil
             ELSE last_equ'[vj] \in OfColumn(vj)' /\ next_equ'[last_equ'[vj]] = Nil
  <2>1. CASE vj = vi /\ s = Nil /\ p = Nil
    BY <2>1, <1>a
  <2>2. CASE vj = vi /\ s = Nil /\ p # Nil
    <3>1. vars'[vi] = vars[vi] /\ last_equ'[vi] = p /\ next_equ'[p] = Nil
      BY <2>2, <1>a, <1>f
    <3>2. p \in OfColumn(vi) /\ p # e
      BY <2>2, <1>f DEF OfColumn
    <3> QED
      BY <2>2, <3>1, <3>2, <1>2, <1>c
  <2>3. CASE vj = vi /\ s # Nil
    <3>1. last_equ'[vi] = last_equ[vi] /\ last_equ[vi] # e
      BY <2>3, <1>a, <1>g
    <3>2. last_equ[vi] # p \/ p = Nil
      BY <1>l, <1>f, <1>o
    <3>3. next_equ'[last_equ[vi]] = Nil
      BY <3>1, <3>2, <1>a, <1>l, <1>m
    <3>4. vars'[vi] \notin {Nil, Obj(vi)}
      BY <2>3, <1>a, <1>f, <1>c
    <3> QED
      BY <2>3, <3>1, <3>3, <3>4, <1>2, <1>l
  <2>4. CASE vj # vi
    <3>1. vars'[vj] = vars[vj] /\ last_equ'[vj] = last_equ[vj] /\ OfColumn(vj)' = OfColumn(vj)
      BY <2>4, <1>a, <1>2
    <3>2. last_equ[vj] \in OfColumn(vj) => next_equ'[last_equ[vj]] = next_equ[last_equ[vj]]
      <4> SUFFICES ASSUME last_equ[vj] \in OfColumn(vj) PROVE next_equ'[last_equ[vj]] = next_equ[last_equ[vj]]
        OBVIOUS
      <4>1. last_equ[vj] \in Elts /\ last_equ[vj].vi = vj /\ last_equ[vj] # Nil
        BY <1>m DEF OfColumn
      <4> QED
        BY <2>4, <4>1, <1>a, <1>f, <1>v
    <3> QED
      BY <3>1, <3>2 DEF ColumnsInv
  <2> QED
    BY <2>1, <2>2, <2>3, <2>4
<1>9. ASSUME NEW x \in Live', x.kind \in {"perp", "obj"} PROVE vars'[x.vi] = x
  <2>1. x \in Live /\ x # e /\ x \in Elts
    BY <1>L DEF Live
  <2>2. vars[x.vi] = x /\ x.vi \in Vars
    BY <1>9, <2>1, EltKinds DEF ColumnsInv
  <2> QED
    BY <2>1, <2>2, <1>a, <1>g
<1>10. ASSUME NEW vj \in Vars PROVE next_equ'[Obj(vj)] = Nil
  <2>1. Obj(vj) \in Elts /\ next_equ[Obj(vj)] = Nil /\ Obj(vj) # Nil
    BY EltFacts, NilFacts DEF ColumnsInv
  <2> QED
    BY <2>1, <1>a, <1>f, <1>o
<1>11. CountExact'
  <2>1. CASE p = Nil /\ s = Nil
    <3>1. \A vj \in Vars : (vars'[vj] # Nil) <=> (vj # vi /\ vars[vj] # Nil)
      BY <2>1, <1>a
    <3> QED
      BY <2>1, <3>1, <1>a, <1>c, CountOut DEF ColumnsInv
  <2>2. CASE ~ (p = Nil /\ s = Nil)
    <3>1. \A vj \in Vars : (vars'[vj] # Nil) <=> (vars[vj] # Nil)
      BY <2>2, <1>a, <1>c
    <3> QED
      BY <2>2, <3>1, <1>a, CountStays DEF ColumnsInv
  <2> QED
    BY <2>1, <2>2
<1> QED
  BY <1>L, <1>4, <1>5, <1>6, <1>7, <1>8, <1>9, <1>10, <1>11 DEF ColumnsInv, Obj, Elt

-----------------------------------------------------------------------------
(***************************************************************************)
(* Rows.                                                                   *)
(***************************************************************************)

\* What the lists of the rows say of one element and of one equation.
LEMMA RowFacts ==
  ASSUME TypeOK, RowsInv
  PROVE  /\ \A x \in Elts : next_var[x] # Nil =>
               /\ x \in Live /\ x.kind = "reg" /\ x.ei \in Equs
               /\ next_var[x] \in Live /\ next_var[x].ei = x.ei /\ next_var[x].kind \in {"reg", "cst"}
               /\ next_var[x] # RowStart(x.ei) /\ next_var[x] # x
         /\ \A ei \in Equs : (RowStart(ei) = Nil /\ OfRow(ei) = {}) \/ RowStart(ei) \in OfRow(ei)
         /\ \A ei \in Equs : RowStart(ei) = Cst(ei) => OfRow(ei) = {Cst(ei)}
         /\ \A ei \in Equs : Cst(ei) \notin Live => OfRow(ei) = Regular(ei)
<1>i. /\ \A ei \in Equs : Listing(RowStart(ei), next_var, OfRow(ei))
      /\ \A e \in Elts : e \notin Live \/ e.kind # "reg" => next_var[e] = Nil
  BY DEF RowsInv
<1>n. \A ei \in Equs : Nil \notin OfRow(ei)
  BY NilFacts
<1>1. ASSUME NEW x \in Elts, next_var[x] # Nil
      PROVE  /\ x \in Live /\ x.kind = "reg" /\ x.ei \in Equs
             /\ next_var[x] \in Live /\ next_var[x].ei = x.ei /\ next_var[x].kind \in {"reg", "cst"}
             /\ next_var[x] # RowStart(x.ei) /\ next_var[x] # x
  <2>1. x \in Live /\ x.kind = "reg" /\ x.ei \in Equs
    BY <1>1, <1>i, EltKinds
  <2>2. x \in OfRow(x.ei)
    BY <2>1 DEF OfRow
  <2>3. next_var[x] \in OfRow(x.ei) /\ next_var[x] # RowStart(x.ei) /\ next_var[x] # x
    BY <1>1, <1>i, <1>n, <2>1, <2>2, ListNext
  <2> QED
    BY <2>1, <2>3 DEF OfRow
<1>2. \A ei \in Equs : (RowStart(ei) = Nil /\ OfRow(ei) = {}) \/ RowStart(ei) \in OfRow(ei)
  BY <1>i, <1>n, ListFirst
<1>3. ASSUME NEW ei \in Equs, RowStart(ei) = Cst(ei) PROVE OfRow(ei) = {Cst(ei)}
  <2>1. Cst(ei) # Nil /\ Cst(ei) \in Elts /\ Cst(ei).kind = "cst"
    BY EltFacts, NilFacts
  <2>2. Cst(ei) \in OfRow(ei) /\ next_var[Cst(ei)] = Nil
    BY <1>2, <1>3, <1>i, <2>1
  <2>3. Listing(Nil, next_var, OfRow(ei) \ {Cst(ei)})
    BY <1>3, <1>i, <1>n, <2>2, ListTail
  <2>4. OfRow(ei) \ {Cst(ei)} = {}
    BY <2>3, <1>n, ListFirst
  <2> QED
    BY <2>2, <2>4
<1>4. ASSUME NEW ei \in Equs, Cst(ei) \notin Live PROVE OfRow(ei) = Regular(ei)
  <2>1. \A e \in Live : e.kind = "cst" => e = Cst(e.ei)
    BY EltKinds DEF Live
  <2> QED
    BY <1>4, <2>1 DEF OfRow, Regular
<1> QED
  BY <1>1, <1>2, <1>3, <1>4

\* A row has no more elements than there are variables.
LEMMA RegularFinite ==
  ASSUME NEW ei \in Equs
  PROVE  /\ IsFiniteSet(Regular(ei)) /\ Cardinality(Regular(ei)) <= Cardinality(Vars)
         /\ Cardinality(Vars) \in Nat
<1> DEFINE f == [e \in Regular(ei) |-> e.vi]
<1>1. \A e \in Regular(ei) : e.vi \in Vars /\ e = Reg(ei, e.vi)
  BY EltKinds DEF Regular, Live
<1>2. f \in Injection(Regular(ei), Vars)
  <2>1. f \in [Regular(ei) -> Vars]
    BY <1>1
  <2>2. \A a, b \in Regular(ei) : f[a] = f[b] => a = b
    BY <1>1
  <2> QED
    BY <2>1, <2>2 DEF Injection, IsInjective
<1> HIDE DEF f
<1> QED
  BY <1>2, CMatAssumption, FS_Injection, FS_CardinalityType

\* The reads of cmat.c see the row of an equation.
LEMMA RowIs ==
  ASSUME TypeOK, RowsInv, NEW ei \in Equs, RowStart(ei) = equs[ei]
  PROVE  /\ Row(ei) = Regular(ei) /\ Listing(FirstCme(ei), next_var, Regular(ei))
         /\ (FirstCme(ei) = Nil /\ Regular(ei) = {}) \/ FirstCme(ei) \in Regular(ei)
         /\ Cst(ei) \in Live <=> equs[ei] = Cst(ei)
         /\ equs[ei] = Cst(ei) => Regular(ei) = {}
<1>c. Cst(ei) # Nil /\ Cst(ei).kind = "cst"
  BY EltFacts, NilFacts
<1>n. Nil \notin Regular(ei)
  BY NilFacts
<1>1. CASE equs[ei] = Cst(ei)
  <2>1. OfRow(ei) = {Cst(ei)}
    BY <1>1, RowFacts
  <2>2. Cst(ei) \in Live /\ Regular(ei) = {}
    BY <2>1, <1>c DEF OfRow, Regular
  <2>3. FirstCme(ei) = Nil
    BY <1>1 DEF FirstCme
  <2>4. Listing(FirstCme(ei), next_var, Regular(ei))
    BY <2>2, <2>3, ListEmpty
  <2>5. Row(ei) = Regular(ei)
    <3>1. Cardinality(Regular(ei)) <= Cardinality(Vars) + 1
      BY RegularFinite, FS_CardinalityType
    <3> QED
      BY <2>4, <3>1, <1>n, RegularFinite, ListWalk DEF Row, RowFrom
  <2> QED
    BY <1>1, <2>2, <2>3, <2>4, <2>5
<1>2. CASE equs[ei] # Cst(ei)
  <2>1. Cst(ei) \notin Live
    BY <1>2 DEF RowsInv
  <2>2. OfRow(ei) = Regular(ei)
    BY <2>1, RowFacts
  <2>3. FirstCme(ei) = RowStart(ei)
    BY <1>2 DEF FirstCme
  <2>4. Listing(FirstCme(ei), next_var, Regular(ei))
    BY <2>2, <2>3 DEF RowsInv
  <2>5. Row(ei) = Regular(ei)
    <3>1. Cardinality(Regular(ei)) <= Cardinality(Vars) + 1
      BY RegularFinite, FS_CardinalityType
    <3> QED
      BY <2>4, <3>1, <1>n, RegularFinite, ListWalk DEF Row, RowFrom
  <2>6. (FirstCme(ei) = Nil /\ Regular(ei) = {}) \/ FirstCme(ei) \in Regular(ei)
    BY <2>2, <2>3, RowFacts
  <2> QED
    BY <1>2, <2>1, <2>4, <2>5, <2>6
<1> QED
  BY <1>1, <1>2

\* What the searches along a row find.
LEMMA RowReads ==
  ASSUME TypeOK, RowsInv, NEW ei \in Equs, RowStart(ei) = equs[ei]
  PROVE  /\ \A vi \in Vars : InRow(ei, vi) <=> Reg(ei, vi) \in Live
         /\ EndOfRow(RowEnd(ei), ei)
<1>i. /\ Row(ei) = Regular(ei) /\ Listing(FirstCme(ei), next_var, Regular(ei))
      /\ (FirstCme(ei) = Nil /\ Regular(ei) = {}) \/ FirstCme(ei) \in Regular(ei)
      /\ Nil \notin Regular(ei)
  BY RowIs, NilFacts
<1>1. ASSUME NEW vi \in Vars PROVE InRow(ei, vi) <=> Reg(ei, vi) \in Live
  <2>1. \A e \in Regular(ei) : e = Reg(ei, e.vi) /\ e \in Live
    BY EltKinds DEF Regular, Live
  <2>2. Reg(ei, vi) \in Live => Reg(ei, vi) \in Regular(ei) /\ Reg(ei, vi).vi = vi
    BY EltFacts DEF Regular
  <2> QED
    BY <1>i, <2>1, <2>2 DEF InRow
<1>2. ASSUME FirstCme(ei) = Nil PROVE EndOfRow(RowEnd(ei), ei)
  BY <1>2, <1>i DEF RowEnd, EndOfRow
<1>3. ASSUME FirstCme(ei) # Nil PROVE EndOfRow(RowEnd(ei), ei)
  <2>1. Regular(ei) # {}
    BY <1>3, <1>i
  <2>2. \E e \in Regular(ei) : next_var[e] = Nil
    BY <2>1, <1>i, ListBack
  <2>3. RowEnd(ei) = CHOOSE e \in Regular(ei) : next_var[e] = Nil
    BY <1>3, <1>i DEF RowEnd
  <2>4. RowEnd(ei) \in Regular(ei) /\ next_var[RowEnd(ei)] = Nil
    BY <2>2, <2>3
  <2> QED
    BY <2>4, <1>i DEF EndOfRow
<1> QED
  BY <1>1, <1>2, <1>3

\* A step that changes no element of any equation.
LEMMA RowsStay ==
  ASSUME RowsInv, next_var' = next_var, \A ei \in Equs : RowStart(ei)' = RowStart(ei), equs' = equs,
         \A e \in Elts : e.kind \in {"reg", "cst"} => (e \in Live' <=> e \in Live)
  PROVE  RowsInv'
<1>1. \A e : e \in Live \/ e \in Live' => e \in Elts
  BY DEF Live
<1>2. \A ei \in Equs : OfRow(ei)' = OfRow(ei)
  BY <1>1 DEF OfRow
<1>3. \A ei \in Equs : Cst(ei) \in Elts /\ Cst(ei).kind = "cst"
  BY EltFacts
<1>4. \A ei \in Equs : Cst(ei) \in Live' => equs'[ei] = Cst(ei)
  BY <1>3 DEF RowsInv
<1>5. \A e \in Elts : e \notin Live' \/ e.kind # "reg" => next_var'[e] = Nil
  BY DEF RowsInv
<1>6. \A ei \in Equs : Listing(RowStart(ei)', next_var', OfRow(ei)')
  BY <1>2 DEF RowsInv
<1> QED
  BY <1>4, <1>5, <1>6 DEF RowsInv, Cst, Elt

\* Where the next element of a row goes.
LEMMA EndFacts ==
  ASSUME TypeOK, RowsInv, NEW ei \in Equs, RowStart(ei) = equs[ei], NEW prev, EndOfRow(prev, ei)
  PROVE  /\ prev = Nil => OfRow(ei) \subseteq {Cst(ei)}
         /\ prev # Nil => /\ prev \in OfRow(ei) /\ prev \in Elts /\ prev.kind = "reg" /\ prev.ei = ei
                          /\ next_var[prev] = Nil /\ equs[ei] # Nil /\ Cst(ei) \notin Live
<1>1. /\ (Cst(ei) \in Live <=> equs[ei] = Cst(ei)) /\ (equs[ei] = Cst(ei) => Regular(ei) = {})
      /\ Cst(ei) \in Live => Regular(ei) = {}
  BY RowIs
<1>2. \A e \in OfRow(ei) : e = Cst(ei) \/ e \in Regular(ei)
  BY EltKinds DEF OfRow, Regular, Live
<1>3. CASE prev = Nil
  BY <1>2, <1>3 DEF EndOfRow
<1>4. CASE prev # Nil
  <2>1. prev \in Regular(ei) /\ next_var[prev] = Nil
    BY <1>4 DEF EndOfRow
  <2>2. prev \in OfRow(ei) /\ prev \in Elts /\ prev.kind = "reg" /\ prev.ei = ei
    BY <2>1 DEF Regular, OfRow, Live
  <2>3. Cst(ei) \notin Live
    BY <1>1, <2>1
  <2>4. equs[ei] # Nil
    BY <2>2, RowFacts, NilFacts
  <2> QED
    BY <1>4, <2>1, <2>2, <2>3, <2>4
<1> QED
  BY <1>3, <1>4

\* A new element is linked behind the end of its row.
LEMMA LinkRows ==
  ASSUME TypeOK, RowsInv, NEW e \in Elts, e.kind = "reg", e \notin Live,
         Live' = (Live \ {Cst(e.ei), Obj(e.vi)}) \cup {e}, NEW prev, EndOfRow(prev, e.ei),
         Link(e, prev), job.op # "rm", job'.op # "rm"
  PROVE  /\ RowsInv' /\ Regular(e.ei)' = Regular(e.ei) \cup {e}
         /\ \A ei \in Equs \ {e.ei} : Regular(ei)' = Regular(ei) /\ equs'[ei] = equs[ei]
         /\ \A x \in Elts : next_var'[x] = IF x = prev THEN e ELSE next_var[x]
         /\ equs'[e.ei] \notin {Nil, Cst(e.ei)}
         /\ next_var'[e] = Nil
<1>v. PICK ei \in Equs : ei = e.ei
  BY EltKinds
<1>e. /\ e # Nil /\ e.vi \in Vars
      /\ Cst(ei) \in Elts /\ Cst(ei) # e /\ Obj(e.vi) # e /\ Cst(ei).kind = "cst" /\ Cst(ei).ei = ei
      /\ Obj(e.vi).kind = "obj"
  BY <1>v, EltFacts, EltKinds
<1>t. next_var \in [Elts -> Ptr] /\ equs \in [Equs -> Ptr]
  BY DEF TypeOK
<1>r. /\ \A ej \in Equs : RowStart(ej) = equs[ej] /\ RowStart(ej)' = equs'[ej]
      /\ \A ej \in Equs : Listing(equs[ej], next_var, OfRow(ej))
  BY DEF RowStart, RowsInv
<1>d. /\ prev = Nil => OfRow(ei) \subseteq {Cst(ei)}
      /\ prev # Nil => /\ prev \in OfRow(ei) /\ prev \in Elts /\ prev.kind = "reg" /\ prev.ei = ei
                       /\ next_var[prev] = Nil /\ equs[ei] # Nil /\ Cst(ei) \notin Live
  BY <1>v, <1>r, EndFacts
<1>z. next_var[e] = Nil
  BY DEF RowsInv
<1>n. \A ej \in Equs : Nil \notin OfRow(ej) /\ OfRow(ej) \subseteq Live /\ OfRow(ej) \subseteq Elts
  BY NilFacts DEF OfRow, Live
<1>a. /\ \A x \in Elts : next_var'[x] = IF x = prev THEN e ELSE next_var[x]
      /\ \A ej \in Equs : equs'[ej] = IF ej = ei /\ prev = Nil THEN e ELSE equs[ej]
  <2>1. CASE prev = Nil
    <3>1. next_var' = next_var /\ equs' = [equs EXCEPT ![ei] = e]
      BY <2>1, <1>v DEF Link
    <3>2. \A x \in Elts : x # Nil
      BY NilFacts
    <3> QED
      BY <2>1, <3>1, <3>2, <1>t
  <2>2. CASE prev # Nil
    <3>1. next_var' = [next_var EXCEPT ![prev] = e] /\ equs' = equs
      BY <2>2 DEF Link
    <3> QED
      BY <2>2, <3>1, <1>t
  <2> QED
    BY <2>1, <2>2
<1>2. \A ej \in Equs : OfRow(ej)' = IF ej = ei THEN (OfRow(ei) \ {Cst(ei)}) \cup {e} ELSE OfRow(ej)
  BY <1>v, <1>e DEF OfRow
<1>3. /\ Regular(ei)' = Regular(ei) \cup {e}
      /\ \A ej \in Equs \ {ei} : Regular(ej)' = Regular(ej) /\ equs'[ej] = equs[ej]
  BY <1>v, <1>e, <1>a DEF Regular
<1>4. next_var'[e] = Nil
  <2>1. e # prev
    BY <1>d, <1>n, <1>e
  <2> QED
    BY <2>1, <1>a, <1>z
<1>5. equs'[ei] \notin {Nil, Cst(ei)}
  <2>1. CASE prev = Nil
    BY <2>1, <1>a, <1>e
  <2>2. CASE prev # Nil
    <3>1. equs[ei] = Cst(ei) => OfRow(ei) = {Cst(ei)}
      BY <1>r, RowFacts
    <3>2. equs[ei] # Cst(ei)
      BY <2>2, <3>1, <1>d, <1>n
    <3> QED
      BY <2>2, <3>2, <1>a, <1>d
  <2> QED
    BY <2>1, <2>2
<1>6. ASSUME NEW ej \in Equs PROVE Listing(RowStart(ej)', next_var', OfRow(ej)')
  <2>1. CASE ej = ei /\ prev = Nil
    <3>1. OfRow(ei)' = {} \cup {e} /\ equs'[ei] = e
      BY <2>1, <1>2, <1>a, <1>d
    <3>2. Listing(Nil, next_var', {})
      BY ListEmpty
    <3>3. Listing(e, next_var', {} \cup {e})
      BY <3>2, <1>4, ListPrepend
    <3> QED
      BY <2>1, <3>1, <3>3, <1>r
  <2>2. CASE ej = ei /\ prev # Nil
    <3>1. OfRow(ei)' = OfRow(ei) \cup {e} /\ equs'[ei] = equs[ei]
      BY <2>2, <1>2, <1>a, <1>d, <1>n
    <3>2. /\ next_var'[prev] = e /\ \A x \in OfRow(ei) \ {prev} : next_var'[x] = next_var[x]
          /\ e \notin OfRow(ei)
      BY <2>2, <1>a, <1>d, <1>n
    <3>3. Listing(equs[ei], next_var', OfRow(ei) \cup {e})
      BY <2>2, <3>2, <1>4, <1>d, <1>n, <1>r, ListAppend
    <3> QED
      BY <2>2, <3>1, <3>3, <1>r
  <2>3. CASE ej # ei
    <3>1. OfRow(ej)' = OfRow(ej) /\ equs'[ej] = equs[ej]
      BY <2>3, <1>2, <1>a
    <3>2. \A x \in OfRow(ej) : x.ei = ej /\ x \in Elts /\ x # Nil
      BY <1>n DEF OfRow
    <3>3. \A x \in OfRow(ej) : next_var'[x] = next_var[x]
      BY <2>3, <3>2, <1>a, <1>d
    <3>4. Listing(equs[ej], next_var', OfRow(ej))
      BY <3>3, <1>r, ListSame
    <3> QED
      BY <3>1, <3>4, <1>r
  <2> QED
    BY <2>1, <2>2, <2>3
<1>7. ASSUME NEW x \in Elts, x \notin Live' \/ x.kind # "reg" PROVE next_var'[x] = Nil
  <2>1. x # e /\ (x \notin Live \/ x.kind # "reg")
    BY <1>7, <1>v, <1>e
  <2>2. x # prev
    BY <2>1, <1>d, <1>n, NilFacts
  <2>3. next_var[x] = Nil
    BY <2>1 DEF RowsInv
  <2> QED
    BY <2>2, <2>3, <1>a
<1>8. ASSUME NEW ej \in Equs, Cst(ej) \in Live' PROVE equs'[ej] = Cst(ej)
  <2>1. Cst(ej).kind = "cst" /\ Cst(ej).ei = ej
    BY EltFacts
  <2>2. ej # ei /\ Cst(ej) \in Live
    BY <2>1, <1>8, <1>v, <1>e
  <2> QED
    BY <2>2, <1>a DEF RowsInv
<1>9. RowsInv'
  BY <1>6, <1>7, <1>8 DEF RowsInv, Cst, Elt
<1> QED
  BY <1>v, <1>3, <1>4, <1>5, <1>9, <1>a

\* A new element starts its row.
LEMMA FrontRows ==
  ASSUME TypeOK, RowsInv, NEW e \in Elts, e.kind = "reg", e \notin Live,
         Live' = (Live \ {Cst(e.ei), Obj(e.vi)}) \cup {e}, job.op # "rm", job'.op # "rm",
         next_var' = [next_var EXCEPT ![e] = FirstCme(e.ei)], equs' = [equs EXCEPT ![e.ei] = e]
  PROVE  RowsInv' /\ Regular(e.ei)' = Regular(e.ei) \cup {e}
<1>v. PICK ei \in Equs : ei = e.ei
  BY EltKinds
<1>e. /\ e # Nil /\ e.vi \in Vars
      /\ Cst(ei) \in Elts /\ Cst(ei) # e /\ Obj(e.vi) # e /\ Cst(ei).kind = "cst" /\ Cst(ei).ei = ei
      /\ Obj(e.vi).kind = "obj"
  BY <1>v, EltFacts, EltKinds
<1>t. next_var \in [Elts -> Ptr] /\ equs \in [Equs -> Ptr]
  BY DEF TypeOK
<1>r. /\ \A ej \in Equs : RowStart(ej) = equs[ej] /\ RowStart(ej)' = equs'[ej]
      /\ \A ej \in Equs : Listing(equs[ej], next_var, OfRow(ej))
  BY DEF RowStart, RowsInv
<1>a. /\ \A x \in Elts : next_var'[x] = IF x = e THEN FirstCme(ei) ELSE next_var[x]
      /\ \A ej \in Equs : equs'[ej] = IF ej = ei THEN e ELSE equs[ej]
  BY <1>v, <1>t
<1>i. Listing(FirstCme(ei), next_var, Regular(ei))
  BY <1>r, RowIs
<1>n. \A ej \in Equs : OfRow(ej) \subseteq Live /\ OfRow(ej) \subseteq Elts /\ Regular(ej) \subseteq Live /\ Regular(ej) \subseteq Elts
  BY DEF OfRow, Regular, Live
<1>2. /\ OfRow(ei)' = Regular(ei) \cup {e} /\ Regular(ei)' = Regular(ei) \cup {e}
      /\ \A ej \in Equs : ej # ei => OfRow(ej)' = OfRow(ej)
  <2>1. \A x \in Live : x.kind = "cst" => x = Cst(x.ei)
    BY EltKinds DEF Live
  <2> QED
    BY <2>1, <1>v, <1>e DEF OfRow, Regular
<1>6. ASSUME NEW ej \in Equs PROVE Listing(RowStart(ej)', next_var', OfRow(ej)')
  <2>1. CASE ej = ei
    <3>1. /\ next_var'[e] = FirstCme(ei) /\ e \notin Regular(ei)
          /\ \A x \in Regular(ei) : next_var'[x] = next_var[x]
      BY <1>a, <1>n
    <3>2. Listing(e, next_var', Regular(ei) \cup {e})
      BY <3>1, <1>i, ListPrepend
    <3> QED
      BY <2>1, <3>2, <1>2, <1>a, <1>r
  <2>2. CASE ej # ei
    <3>1. OfRow(ej)' = OfRow(ej) /\ equs'[ej] = equs[ej]
      BY <2>2, <1>2, <1>a
    <3>2. \A x \in OfRow(ej) : next_var'[x] = next_var[x]
      BY <1>a, <1>n
    <3>3. Listing(equs[ej], next_var', OfRow(ej))
      BY <3>2, <1>r, ListSame
    <3> QED
      BY <3>1, <3>3, <1>r
  <2> QED
    BY <2>1, <2>2
<1>7. ASSUME NEW x \in Elts, x \notin Live' \/ x.kind # "reg" PROVE next_var'[x] = Nil
  <2>1. x # e /\ (x \notin Live \/ x.kind # "reg")
    BY <1>7, <1>v, <1>e
  <2>2. next_var[x] = Nil
    BY <2>1 DEF RowsInv
  <2> QED
    BY <2>1, <2>2, <1>a
<1>8. ASSUME NEW ej \in Equs, Cst(ej) \in Live' PROVE equs'[ej] = Cst(ej)
  <2>1. Cst(ej).kind = "cst" /\ Cst(ej).ei = ej
    BY EltFacts
  <2>2. ej # ei /\ Cst(ej) \in Live
    BY <2>1, <1>8, <1>v, <1>e
  <2> QED
    BY <2>2, <1>a DEF RowsInv
<1>9. RowsInv'
  BY <1>6, <1>7, <1>8 DEF RowsInv, Cst, Elt
<1> QED
  BY <1>v, <1>2, <1>9

\* An element leaves its row.
LEMMA DropRows ==
  ASSUME TypeOK, RowsInv, NEW e \in Live, e.kind = "reg", Live' = Live \ {e},
         job.op # "rm", job'.op # "rm", next_var' = NextWithout(e),
         equs' = IF equs[e.ei] = e THEN [equs EXCEPT ![e.ei] = next_var[e]] ELSE equs
  PROVE  RowsInv'
<1>v. PICK ei \in Equs : ei = e.ei /\ e \in Elts
  BY EltKinds DEF Live
<1>t. next_var \in [Elts -> Ptr] /\ equs \in [Equs -> Ptr]
  BY DEF TypeOK
<1>r. /\ \A ej \in Equs : RowStart(ej) = equs[ej] /\ RowStart(ej)' = equs'[ej]
      /\ \A ej \in Equs : Listing(equs[ej], next_var, OfRow(ej))
  BY DEF RowStart, RowsInv
<1>n. \A ej \in Equs : Nil \notin OfRow(ej) /\ OfRow(ej) \subseteq Live /\ OfRow(ej) \subseteq Elts
  BY NilFacts DEF OfRow, Live
<1>m. e \in OfRow(ei) /\ e # Nil
  BY <1>v, NilFacts DEF OfRow
<1>N. /\ \A x \in OfRow(ei) : next_var[x] # equs[ei] \/ next_var[x] = Nil
      /\ \A x, y \in OfRow(ei) : next_var[x] = next_var[y] => x = y
      /\ \A x \in OfRow(ei) : x # equs[ei] => \E y \in OfRow(ei) : next_var[y] = x
  BY <1>n, <1>r, ListNext, ListBack
<1>b. PICK b : /\ b = Before(e)
               /\ IF equs[ei] = e THEN b = Nil
                  ELSE b \in OfRow(ei) /\ next_var[b] = e /\ b.kind = "reg"
  <2>1. CASE equs[ei] = e
    BY <2>1, <1>v DEF Before
  <2>2. CASE equs[ei] # e
    <3>1. PICK y \in OfRow(ei) : next_var[y] = e
      BY <2>2, <1>m, <1>N
    <3>2. y \in Regular(ei)
      <4>1. y \in Elts /\ next_var[y] # Nil
        BY <3>1, <1>n, <1>m
      <4>2. y.kind = "reg"
        BY <4>1, RowFacts
      <4> QED
        BY <4>2 DEF OfRow, Regular
    <3>3. Row(ei) = Regular(ei)
      BY <1>r, RowIs
    <3>4. Before(e) = CHOOSE x \in Regular(ei) : next_var[x] = e
      BY <2>2, <3>3, <1>v DEF Before
    <3>5. Before(e) \in Regular(ei) /\ next_var[Before(e)] = e
      BY <3>1, <3>2, <3>4
    <3> QED
      BY <2>2, <3>5 DEF Regular, OfRow
  <2> QED
    BY <2>1, <2>2
<1>a. /\ \A x \in Elts : next_var'[x] = IF x = e THEN Nil ELSE IF x = b THEN next_var[e] ELSE next_var[x]
      /\ \A ej \in Equs : equs'[ej] = IF ej = ei /\ equs[ei] = e THEN next_var[e] ELSE equs[ej]
  BY <1>v, <1>t, <1>b DEF NextWithout
<1>2. \A ej \in Equs : OfRow(ej)' = IF ej = ei THEN OfRow(ei) \ {e} ELSE OfRow(ej)
  BY <1>v DEF OfRow
<1>6. ASSUME NEW ej \in Equs PROVE Listing(RowStart(ej)', next_var', OfRow(ej)')
  <2>1. CASE ej = ei
    <3>1. ASSUME NEW x \in OfRow(ei) \ {e}
          PROVE  next_var'[x] = IF next_var[x] = e THEN next_var[e] ELSE next_var[x]
      <4>1. x = b <=> next_var[x] = e
        BY <1>b, <1>N, <1>n, <1>m
      <4> QED
        BY <4>1, <1>a, <1>n
    <3>i. Listing(equs[ei], next_var, OfRow(ei)) /\ Nil \notin OfRow(ei) /\ e \in OfRow(ei)
      BY <1>m, <1>n, <1>r
    <3>2. Listing(IF equs[ei] = e THEN next_var[e] ELSE equs[ei], next_var', OfRow(ei) \ {e})
      BY <3>i, <3>1, ListRemove
    <3>3. equs'[ei] = IF equs[ei] = e THEN next_var[e] ELSE equs[ei]
      BY <1>a
    <3> QED
      BY <2>1, <3>2, <3>3, <1>2, <1>r
  <2>2. CASE ej # ei
    <3>1. OfRow(ej)' = OfRow(ej) /\ equs'[ej] = equs[ej]
      BY <2>2, <1>2, <1>a
    <3>2. \A x \in OfRow(ej) : x.ei = ej /\ x \in Elts /\ x # Nil
      BY <1>n DEF OfRow
    <3>3. b # Nil => b.ei = ei
      BY <1>b DEF OfRow
    <3>4. \A x \in OfRow(ej) : next_var'[x] = next_var[x]
      BY <2>2, <3>2, <3>3, <1>a, <1>v
    <3>5. Listing(equs[ej], next_var', OfRow(ej))
      BY <3>4, <1>r, ListSame
    <3> QED
      BY <3>1, <3>5, <1>r
  <2> QED
    BY <2>1, <2>2
<1>7. ASSUME NEW x \in Elts, x \notin Live' \/ x.kind # "reg" PROVE next_var'[x] = Nil
  <2>1. CASE x = e
    BY <2>1, <1>a
  <2>2. CASE x # e
    <3>1. x \notin Live \/ x.kind # "reg"
      BY <1>7, <2>2
    <3>2. x # b
      BY <3>1, <1>b, <1>n, NilFacts
    <3>3. next_var[x] = Nil
      BY <3>1 DEF RowsInv
    <3> QED
      BY <2>2, <3>2, <3>3, <1>a
  <2> QED
    BY <2>1, <2>2
<1>8. ASSUME NEW ej \in Equs, Cst(ej) \in Live' PROVE equs'[ej] = Cst(ej)
  <2>1. Cst(ej).kind = "cst" /\ equs[ej] = Cst(ej)
    BY <1>8, EltFacts DEF RowsInv
  <2> QED
    BY <2>1, <1>a
<1>9. RowsInv'
  BY <1>6, <1>7, <1>8 DEF RowsInv, Cst, Elt
<1> QED
  BY <1>9

-----------------------------------------------------------------------------
(***************************************************************************)
(* Types, and what every step between two loops starts from.               *)
(***************************************************************************)

ElementTypes ==
    /\ etype \in [Elts -> Types]
    /\ next_equ \in [Elts -> Ptr] /\ prev_equ \in [Elts -> Ptr]
    /\ vars \in [Vars -> Ptr] /\ last_equ \in [Vars -> Ptr]
    /\ n \in Nat /\ is_deleted \in [Vars -> BOOLEAN]

RowTypes == next_var \in [Elts -> Ptr] /\ equs \in [Equs -> Ptr]

EquationTypes ==
    /\ deleted \subseteq Equs
    /\ object \in [Equs -> {"none", "Mapping", "ConeInclusion"}]
    /\ dual \in [Equs -> Vars \cup {Nil}]
    /\ lequ \in [Equs -> SUBSET Vars] /\ nl \in [Equs -> SUBSET Vars]

Jobs == [op : Ops, ei : Equs \cup {Nil}, src : Equs \cup {Nil}, cme : Ptr,
         prev : Ptr, todo : SUBSET Vars, vi : Vars \cup {Nil}]

\* The types of the matrix, of the equations and of the loop.
LEMMA TypesSplit ==
  TypeOK <=> (ElementTypes /\ RowTypes /\ EquationTypes /\ job \in Jobs /\ failed \in Errors)
BY DEF TypeOK, ElementTypes, RowTypes, EquationTypes, Jobs

\* The same after a step.
LEMMA TypesSplitNext ==
  TypeOK' <=> (/\ ElementTypes' /\ RowTypes' /\ EquationTypes'
               /\ (job \in Jobs)' /\ (failed \in Errors)')
BY DEF TypeOK, ElementTypes, RowTypes, EquationTypes, Jobs

\* No loop is in progress.
LEMMA NoJobFacts ==
  /\ NoJob \in Jobs /\ NoJob.op = "idle" /\ NoJob.ei = Nil /\ NoJob.src = Nil /\ NoJob.cme = Nil
  /\ NoJob.prev = Nil /\ NoJob.todo = {} /\ NoJob.vi = Nil
BY DEF NoJob, Jobs, Ops, Ptr

\* What an operation starts from.
LEMMA IdleFacts ==
  ASSUME CInv, Idle
  PROVE  /\ TypeOK /\ ColumnsInv /\ RowsInv /\ ContentsInv /\ JobInv
         /\ job = NoJob /\ job.op = "idle" /\ failed = "no"
         /\ \A ei \in Equs : RowStart(ei) = equs[ei]
         /\ \A ei \in Equs, vi \in Vars : Fits(ei, vi)
         /\ \A ei \in Equs : object[ei] = "none" => equs[ei] = Nil
<1>1. /\ TypeOK /\ ColumnsInv /\ RowsInv /\ ContentsInv /\ JobInv
      /\ job = NoJob /\ failed = "no"
  BY DEF CInv, Idle
<1>2. job.op = "idle"
  BY <1>1, NoJobFacts
<1>3. \A ei \in Equs, vi \in Vars : Fits(ei, vi)
  BY <1>1, <1>2 DEF ContentsInv, Ahead
<1>4. \A ei \in Equs : object[ei] = "none" => equs[ei] = Nil
  BY <1>1 DEF ContentsInv
<1>5. \A ei \in Equs : RowStart(ei) = equs[ei]
  BY <1>2 DEF RowStart
<1> QED
  BY <1>1, <1>2, <1>3, <1>4, <1>5

\* What a step of a loop starts from.
LEMMA LoopFacts ==
  ASSUME CInv, failed = "no"
  PROVE  /\ TypeOK /\ ColumnsInv /\ RowsInv /\ ContentsInv /\ JobInv
         /\ job.op # "rm" => \A ei \in Equs : RowStart(ei) = equs[ei]
         /\ \A ei \in Equs : object[ei] = "none" => equs[ei] = Nil
BY DEF CInv, RowStart, ContentsInv

\* A step that leaves the matrix alone.
LEMMA MatrixStays ==
  ASSUME TypeOK, ColumnsInv, RowsInv, UNCHANGED matrix, \A ei \in Equs : RowStart(ei)' = RowStart(ei)
  PROVE  /\ ColumnsInv' /\ RowsInv' /\ ElementTypes' /\ RowTypes' /\ Live' = Live
         /\ \A ei \in Equs : Regular(ei)' = Regular(ei)
<1>1. /\ etype' = etype /\ next_var' = next_var /\ next_equ' = next_equ /\ prev_equ' = prev_equ
      /\ equs' = equs /\ vars' = vars /\ last_equ' = last_equ /\ n' = n /\ is_deleted' = is_deleted
  BY DEF matrix
<1>2. Live' = Live
  BY <1>1 DEF Live
<1>3. ColumnsInv'
  BY <1>1, <1>2, ColumnsStay
<1>4. RowsInv'
  BY <1>1, <1>2, RowsStay
<1>5. ElementTypes /\ RowTypes
  BY TypesSplit
<1>6. ElementTypes' /\ RowTypes'
  BY <1>5, <1>1 DEF ElementTypes, RowTypes
<1>7. \A ei \in Equs : Regular(ei)' = Regular(ei)
  BY <1>2 DEF Regular
<1> QED
  BY <1>2, <1>3, <1>4, <1>6, <1>7

\* A new element has its type, and no other regular element gets or loses one.
LEMMA EltNewTypes ==
  ASSUME TypeOK, ColumnsInv, NEW e \in Elts, e.kind = "reg", NEW ty \in {"Lin", "NL"}, EltNew(e, ty)
  PROVE  /\ ElementTypes'
         /\ \A ei \in Equs, vi \in Vars : etype'[Reg(ei, vi)] = IF Reg(ei, vi) = e THEN ty ELSE etype[Reg(ei, vi)]
<1>v. e.ei \in Equs /\ e.vi \in Vars /\ e \in Ptr
  BY EltKinds DEF Ptr
<1>t. /\ etype \in [Elts -> Types] /\ next_equ \in [Elts -> Ptr] /\ prev_equ \in [Elts -> Ptr]
      /\ vars \in [Vars -> Ptr] /\ last_equ \in [Vars -> Ptr]
      /\ n \in Nat /\ is_deleted \in [Vars -> BOOLEAN] /\ Nil \in Ptr
      /\ {"none", "Lin", "NL"} \subseteq Types
  BY DEF TypeOK, Ptr, Types
<1>1. etype' \in [Elts -> Types]
  BY <1>t DEF EltNew
<1>2. next_equ' \in [Elts -> Ptr] /\ prev_equ' \in [Elts -> Ptr]
  BY <1>t, <1>v DEF EltNew
<1>3. vars' \in [Vars -> Ptr] /\ last_equ' \in [Vars -> Ptr]
  BY <1>t, <1>v DEF EltNew, LastWith
<1>4. n' \in Nat
  BY <1>t DEF EltNew, CountWith
<1>5. is_deleted' \in [Vars -> BOOLEAN]
  BY <1>t, <1>v DEF EltNew
<1>6. ASSUME NEW ei \in Equs, NEW vi \in Vars
      PROVE  etype'[Reg(ei, vi)] = IF Reg(ei, vi) = e THEN ty ELSE etype[Reg(ei, vi)]
  <2>1. /\ Reg(ei, vi) \in Elts /\ Reg(ei, vi).kind = "reg" /\ Reg(ei, vi) # Nil
        /\ Cst(e.ei).kind = "cst" /\ Obj(e.vi).kind = "obj"
    BY <1>v, EltFacts, NilFacts
  <2>2. Heads(e.vi) => vars[e.vi] \in {Nil, Obj(e.vi)}
    BY <1>v, HeadsFacts
  <2>3. etype'[Reg(ei, vi)] = IF Reg(ei, vi) = e THEN ty
                              ELSE IF Reg(ei, vi) = Cst(e.ei) \/ (Heads(e.vi) /\ Reg(ei, vi) = vars[e.vi])
                                   THEN "none" ELSE etype[Reg(ei, vi)]
    BY <2>1 DEF EltNew
  <2> QED
    BY <2>1, <2>2, <2>3
<1> QED
  BY <1>1, <1>2, <1>3, <1>4, <1>5, <1>6 DEF ElementTypes

\* An element that leaves its column has no type any more, the others keep theirs.
LEMMA UnlinkTypes ==
  ASSUME TypeOK, ColumnsInv, NEW e \in Live, e.kind = "reg", Unlink(e)
  PROVE  /\ ElementTypes'
         /\ \A x \in Elts : etype'[x] = IF x = e THEN "none" ELSE etype[x]
<1>v. e.vi \in Vars /\ e \in Elts
  BY EltKinds DEF Live
<1>t. /\ etype \in [Elts -> Types] /\ next_equ \in [Elts -> Ptr] /\ prev_equ \in [Elts -> Ptr]
      /\ vars \in [Vars -> Ptr] /\ last_equ \in [Vars -> Ptr]
      /\ n \in Nat /\ is_deleted \in [Vars -> BOOLEAN] /\ Nil \in Ptr /\ "none" \in Types
  BY DEF TypeOK, Ptr, Types
<1>p. prev_equ[e] \in Ptr /\ next_equ[e] \in Ptr
  BY <1>t, <1>v
<1>1. /\ etype' \in [Elts -> Types]
      /\ \A x \in Elts : etype'[x] = IF x = e THEN "none" ELSE etype[x]
  BY <1>t DEF Unlink
<1>2. next_equ' \in [Elts -> Ptr]
  BY <1>t, <1>p DEF Unlink
<1>3. prev_equ' \in [Elts -> Ptr]
  BY <1>t, <1>p DEF Unlink, PrevWithout
<1>4. vars' \in [Vars -> Ptr] /\ last_equ' \in [Vars -> Ptr]
  BY <1>t, <1>p DEF Unlink, VarsWithout
<1>5. n' \in Nat
  <2>1. vars[e.vi] # Nil
    BY <1>v, ColumnFacts, NilFacts
  <2>2. n - 1 \in Nat
    BY <1>v, <2>1, CountPositive DEF ColumnsInv
  <2> QED
    BY <1>t, <2>2 DEF Unlink
<1>6. is_deleted' \in [Vars -> BOOLEAN]
  BY <1>t DEF Unlink, DeletedWithout
<1> QED
  BY <1>1, <1>2, <1>3, <1>4, <1>5, <1>6 DEF ElementTypes

\* The element of a variable in an equation.
LEMMA RegFacts ==
  /\ \A ei, ej, vi, vj : Reg(ei, vi) = Reg(ej, vj) => ei = ej /\ vi = vj
  /\ \A ei \in Equs, vi \in Vars : Reg(ei, vi) \in Live <=> etype[Reg(ei, vi)] # "none"
  /\ \A ei \in Equs, vi \in Vars : Reg(ei, vi) \in Live' <=> etype'[Reg(ei, vi)] # "none"
  /\ \A ei \in Equs, vi \in Vars : Reg(ei, vi) \in Live <=> Reg(ei, vi) \in Regular(ei)
  /\ \A ei \in Equs : \A e \in Regular(ei) : e.vi \in Vars /\ e = Reg(ei, e.vi) /\ e.ei = ei /\ e.kind = "reg"
                                             /\ e \in Live /\ e \in Elts
<1>1. \A ei, ej, vi, vj : Reg(ei, vi) = Reg(ej, vj) => ei = ej /\ vi = vj
  <2>1. \A ei, vi : Reg(ei, vi).ei = ei /\ Reg(ei, vi).vi = vi
    BY DEF Reg, Elt
  <2> QED
    BY <2>1
<1>2. /\ \A ei \in Equs, vi \in Vars : Reg(ei, vi) \in Live <=> etype[Reg(ei, vi)] # "none"
      /\ \A ei \in Equs, vi \in Vars : Reg(ei, vi) \in Live' <=> etype'[Reg(ei, vi)] # "none"
  BY EltFacts DEF Live
<1>3. \A ei \in Equs, vi \in Vars : Reg(ei, vi) \in Live <=> Reg(ei, vi) \in Regular(ei)
  BY EltFacts DEF Regular
<1>4. ASSUME NEW ei \in Equs, NEW e \in Regular(ei)
      PROVE  e.vi \in Vars /\ e = Reg(ei, e.vi) /\ e.ei = ei /\ e.kind = "reg" /\ e \in Live /\ e \in Elts
  BY EltKinds DEF Regular, Live
<1> QED
  BY <1>1, <1>2, <1>3, <1>4

-----------------------------------------------------------------------------
(***************************************************************************)
(* The operations that add to an equation in one step.                     *)
(***************************************************************************)

\* Between two operations every equation fits.
LEMMA AllFit ==
  ASSUME \A ei \in Equs, vi \in Vars : Fits(ei, vi)',
         \A ei \in Equs : object'[ei] = "none" => equs'[ei] = Nil, job'.op # "rm"
  PROVE  ContentsInv'
BY DEF ContentsInv

\* A step that ends an operation.
LEMMA NoneInProgress ==
  ASSUME job' = NoJob
  PROVE  JobInv' /\ (job \in Jobs)' /\ job'.op = "idle" /\ \A ei : RowStart(ei)' = equs'[ei]
<1>1. job'.op = "idle" /\ job' \in Jobs
  BY NoJobFacts
<1> QED
  BY <1>1 DEF JobInv, RowStart

\* A variable gets into the linear part and into the matrix.
LEMMA LinearFits ==
  ASSUME TypeOK, \A ej \in Equs, vj \in Vars : Fits(ej, vj), NEW ei \in Equs, NEW vi \in Vars,
         vi \notin lequ[ei] \cup nl[ei], lequ' = [lequ EXCEPT ![ei] = @ \cup {vi}], nl' = nl,
         \A ej \in Equs, vj \in Vars :
            etype'[Reg(ej, vj)] = IF Reg(ej, vj) = Reg(ei, vi) THEN "Lin" ELSE etype[Reg(ej, vj)]
  PROVE  \A ej \in Equs, vj \in Vars : Fits(ej, vj)'
<1> SUFFICES ASSUME NEW ej \in Equs, NEW vj \in Vars PROVE Fits(ej, vj)'
  OBVIOUS
<1>1. \A ek \in Equs : lequ'[ek] = IF ek = ei THEN lequ[ei] \cup {vi} ELSE lequ[ek]
  BY DEF TypeOK
<1>2. CASE ej = ei /\ vj = vi
  BY <1>1, <1>2 DEF Fits
<1>3. CASE ~ (ej = ei /\ vj = vi)
  <2>1. etype'[Reg(ej, vj)] = etype[Reg(ej, vj)]
    BY <1>3, RegFacts
  <2>2. Fits(ej, vj)
    OBVIOUS
  <2>3. vj \in lequ'[ej] <=> vj \in lequ[ej]
    BY <1>1, <1>3
  <2> QED
    BY <2>1, <2>2, <2>3 DEF Fits
<1> QED
  BY <1>2, <1>3

\* rctr_add_equ_empty
LEMMA AddEquEmptyStep ==
  ASSUME CInv, NEW ei \in Equs, NEW obj \in Objects, NEW vi \in PerpVars \cup {Nil}, AddEquEmpty(ei, obj, vi)
  PROVE  CInv'
<1>1. Idle /\ job' = job /\ failed' = failed /\ UNCHANGED matrix /\ UNCHANGED <<deleted, lequ, nl>>
  BY DEF AddEquEmpty
<1>2. /\ TypeOK /\ ColumnsInv /\ RowsInv /\ job = NoJob /\ job' = NoJob /\ failed = "no" /\ failed' = "no"
      /\ \A ej \in Equs : RowStart(ej) = equs[ej]
      /\ \A ej \in Equs, vj \in Vars : Fits(ej, vj)
      /\ \A ej \in Equs : object[ej] = "none" => equs[ej] = Nil
  BY <1>1, IdleFacts
<1>3. JobInv' /\ (job \in Jobs)' /\ job'.op = "idle" /\ \A ej \in Equs : RowStart(ej)' = equs'[ej]
  BY <1>2, NoneInProgress
<1>m. etype' = etype /\ equs' = equs
  BY <1>1 DEF matrix
<1>4. ColumnsInv' /\ RowsInv' /\ ElementTypes' /\ RowTypes'
  BY <1>1, <1>2, <1>3, <1>m, MatrixStays
<1>5. EquationTypes'
  <2>1. obj \in {"none", "Mapping", "ConeInclusion"} /\ vi \in Vars \cup {Nil}
    BY CMatAssumption
  <2>2. EquationTypes /\ object' = [object EXCEPT ![ei] = obj] /\ dual' = [dual EXCEPT ![ei] = vi]
    BY <1>2, TypesSplit DEF AddEquEmpty
  <2> QED
    BY <2>1, <2>2, <1>1 DEF EquationTypes
<1>6. ContentsInv'
  <2>1. \A ej \in Equs, vj \in Vars : Fits(ej, vj)'
    BY <1>1, <1>2, <1>m DEF Fits
  <2>2. \A ej \in Equs : object'[ej] = "none" => object[ej] = "none"
    <3>1. object' = [object EXCEPT ![ei] = obj] /\ obj # "none"
      BY CMatAssumption DEF AddEquEmpty
    <3> QED
      BY <3>1, <1>2 DEF TypeOK
  <2> QED
    BY <2>1, <2>2, <1>2, <1>m, <1>3, AllFit
<1>7. failed' \in Errors
  BY <1>2 DEF Errors
<1>8. TypeOK'
  BY <1>3, <1>4, <1>5, <1>7, TypesSplitNext
<1> QED
  BY <1>2, <1>3, <1>4, <1>6, <1>8 DEF CInv

\* rctr_equ_addnewvar
LEMMA AddNewVarStep ==
  ASSUME CInv, NEW ei \in Equs, NEW vi \in Vars, AddNewVar(ei, vi)
  PROVE  CInv'
<1>e. PICK e \in Elts : e = Reg(ei, vi) /\ e.kind = "reg" /\ e.ei = ei /\ e.vi = vi
  BY EltFacts
<1>1. /\ Idle /\ Editable(ei) /\ vi \notin lequ[ei] \cup nl[ei] /\ EltNew(e, "Lin")
      /\ lequ' = [lequ EXCEPT ![ei] = @ \cup {vi}]
      /\ next_var' = [next_var EXCEPT ![e] = FirstCme(ei)] /\ equs' = [equs EXCEPT ![ei] = e]
      /\ UNCHANGED <<deleted, object, dual, nl, job, failed>>
  BY <1>e DEF AddNewVar
<1>2. /\ TypeOK /\ ColumnsInv /\ RowsInv /\ job = NoJob /\ job' = NoJob /\ job.op = "idle"
      /\ failed = "no" /\ failed' = "no"
      /\ \A ej \in Equs, vj \in Vars : Fits(ej, vj)
      /\ \A ej \in Equs : object[ej] = "none" => equs[ej] = Nil
  BY <1>1, IdleFacts
<1>3. JobInv' /\ (job \in Jobs)' /\ job'.op = "idle"
  BY <1>2, NoneInProgress
<1>n. e \notin Live
  <2>1. Fits(ei, vi)
    BY <1>2
  <2> QED
    BY <2>1, <1>1, <1>e, RegFacts DEF Fits
<1>4. ColumnsInv' /\ Live' = (Live \ {Cst(ei), Obj(vi)}) \cup {e}
  BY <1>1, <1>2, <1>e, <1>n, EltNewColumns
<1>5. RowsInv'
  BY <1>1, <1>2, <1>3, <1>e, <1>n, <1>4, FrontRows
<1>6. /\ ElementTypes'
      /\ \A ej \in Equs, vj \in Vars : etype'[Reg(ej, vj)] = IF Reg(ej, vj) = e THEN "Lin" ELSE etype[Reg(ej, vj)]
  BY <1>1, <1>2, <1>e, EltNewTypes
<1>7. RowTypes'
  <2>1. RowTypes /\ e \in Ptr /\ Nil \in Ptr
    BY <1>2, TypesSplit DEF Ptr
  <2> QED
    BY <2>1, <1>1 DEF RowTypes, FirstCme
<1>8. EquationTypes'
  <2>1. EquationTypes
    BY <1>2, TypesSplit
  <2> QED
    BY <2>1, <1>1 DEF EquationTypes
<1>9. ContentsInv'
  <2>1. \A ej \in Equs, vj \in Vars : Fits(ej, vj)'
    <3>1. /\ vi \notin lequ[ei] \cup nl[ei] /\ lequ' = [lequ EXCEPT ![ei] = @ \cup {vi}] /\ nl' = nl
          /\ \A ej \in Equs, vj \in Vars : Fits(ej, vj)
      BY <1>1, <1>2
    <3>2. \A ej \in Equs, vj \in Vars :
             etype'[Reg(ej, vj)] = IF Reg(ej, vj) = Reg(ei, vi) THEN "Lin" ELSE etype[Reg(ej, vj)]
      BY <1>6, <1>e
    <3> QED
      BY <3>1, <3>2, <1>2, LinearFits
  <2>2. \A ej \in Equs : object'[ej] = "none" => equs'[ej] = Nil
    BY <1>1, <1>2 DEF Editable, TypeOK
  <2> QED
    BY <2>1, <2>2, <1>3, AllFit
<1>10. failed' \in Errors
  BY <1>2 DEF Errors
<1>11. TypeOK'
  BY <1>3, <1>6, <1>7, <1>8, <1>10, TypesSplitNext
<1> QED
  BY <1>2, <1>3, <1>4, <1>5, <1>9, <1>11 DEF CInv

\* A new element behind the end of its row has the types of the matrix.
LEMMA LinkTypes ==
  ASSUME TypeOK, NEW e \in Elts, e.ei \in Equs, NEW prev, Link(e, prev)
  PROVE  RowTypes'
<1>1. RowTypes /\ e \in Ptr
  BY TypesSplit DEF Ptr
<1> QED
  BY <1>1 DEF RowTypes, Link

\* rctr_equ_addlvar
LEMMA AddLvarStep ==
  ASSUME CInv, NEW ei \in Equs, NEW vi \in Vars, AddLvar(ei, vi)
  PROVE  CInv'
<1>e. PICK e \in Elts : e = Reg(ei, vi) /\ e.kind = "reg" /\ e.ei = ei /\ e.vi = vi
  BY EltFacts
<1>1. /\ Idle /\ Editable(ei) /\ ~ InRow(ei, vi) /\ EltNew(e, "Lin") /\ Link(e, RowEnd(ei))
      /\ lequ' = [lequ EXCEPT ![ei] = @ \cup {vi}]
      /\ UNCHANGED <<deleted, object, dual, nl, job, failed>>
  BY <1>e DEF AddLvar
<1>2. /\ TypeOK /\ ColumnsInv /\ RowsInv /\ job = NoJob /\ job' = NoJob /\ job.op = "idle"
      /\ failed = "no" /\ failed' = "no"
      /\ \A ej \in Equs : RowStart(ej) = equs[ej]
      /\ \A ej \in Equs, vj \in Vars : Fits(ej, vj)
      /\ \A ej \in Equs : object[ej] = "none" => equs[ej] = Nil
  BY <1>1, IdleFacts
<1>3. JobInv' /\ (job \in Jobs)' /\ job'.op = "idle"
  BY <1>2, NoneInProgress
<1>n. e \notin Live /\ EndOfRow(RowEnd(ei), ei)
  BY <1>1, <1>2, <1>e, RowReads
<1>m. vi \notin lequ[ei] \cup nl[ei]
  <2>1. Fits(ei, vi) /\ etype[Reg(ei, vi)] = "none"
    BY <1>2, <1>n, <1>e, RegFacts
  <2> QED
    BY <2>1 DEF Fits
<1>4. ColumnsInv' /\ Live' = (Live \ {Cst(ei), Obj(vi)}) \cup {e}
  BY <1>1, <1>2, <1>e, <1>n, EltNewColumns
<1>5. RowsInv' /\ \A ej \in Equs \ {ei} : equs'[ej] = equs[ej]
  BY <1>1, <1>2, <1>3, <1>e, <1>n, <1>4, LinkRows
<1>6. /\ ElementTypes'
      /\ \A ej \in Equs, vj \in Vars : etype'[Reg(ej, vj)] = IF Reg(ej, vj) = e THEN "Lin" ELSE etype[Reg(ej, vj)]
  BY <1>1, <1>2, <1>e, EltNewTypes
<1>7. RowTypes'
  BY <1>1, <1>2, <1>e, LinkTypes
<1>8. EquationTypes'
  <2>1. EquationTypes
    BY <1>2, TypesSplit
  <2> QED
    BY <2>1, <1>1 DEF EquationTypes
<1>9. ContentsInv'
  <2>1. \A ej \in Equs, vj \in Vars : Fits(ej, vj)'
    <3>1. /\ vi \notin lequ[ei] \cup nl[ei] /\ lequ' = [lequ EXCEPT ![ei] = @ \cup {vi}] /\ nl' = nl
          /\ \A ej \in Equs, vj \in Vars : Fits(ej, vj)
      BY <1>1, <1>2, <1>m
    <3>2. \A ej \in Equs, vj \in Vars :
             etype'[Reg(ej, vj)] = IF Reg(ej, vj) = Reg(ei, vi) THEN "Lin" ELSE etype[Reg(ej, vj)]
      BY <1>6, <1>e
    <3> QED
      BY <3>1, <3>2, <1>2, LinearFits
  <2>2. \A ej \in Equs : object'[ej] = "none" => equs'[ej] = Nil
    BY <1>1, <1>2, <1>5 DEF Editable
  <2> QED
    BY <2>1, <2>2, <1>3, AllFit
<1>10. failed' \in Errors
  BY <1>2 DEF Errors
<1>11. TypeOK'
  BY <1>3, <1>6, <1>7, <1>8, <1>10, TypesSplitNext
<1> QED
  BY <1>2, <1>3, <1>4, <1>5, <1>9, <1>11 DEF CInv

-----------------------------------------------------------------------------
(***************************************************************************)
(* The operations that start a loop, and two that touch a variable only.   *)
(***************************************************************************)

\* The matrix is left alone while no row is being taken apart.
LEMMA MatrixWaits ==
  ASSUME TypeOK, ColumnsInv, RowsInv, UNCHANGED matrix, job.op # "rm", job'.op # "rm"
  PROVE  /\ ColumnsInv' /\ RowsInv' /\ ElementTypes' /\ RowTypes' /\ Live' = Live
         /\ \A ei \in Equs : Regular(ei)' = Regular(ei)
         /\ etype' = etype /\ next_var' = next_var /\ equs' = equs /\ vars' = vars
<1>1. etype' = etype /\ next_var' = next_var /\ equs' = equs /\ vars' = vars
  BY DEF matrix
<1>2. \A ei \in Equs : RowStart(ei)' = RowStart(ei)
  BY <1>1 DEF RowStart
<1> QED
  BY <1>1, <1>2, MatrixStays

\* A loop has the type of a loop.
LEMMA JobTyped ==
  ASSUME NEW op \in Ops, NEW ei \in Equs \cup {Nil}, NEW src \in Equs \cup {Nil}, NEW cme \in Ptr,
         NEW prev \in Ptr, NEW todo \in SUBSET Vars, NEW vi \in Vars \cup {Nil},
         job' = [op |-> op, ei |-> ei, src |-> src, cme |-> cme, prev |-> prev, todo |-> todo, vi |-> vi]
  PROVE  /\ (job \in Jobs)' /\ job'.op = op /\ job'.ei = ei /\ job'.src = src /\ job'.cme = cme
         /\ job'.prev = prev /\ job'.todo = todo /\ job'.vi = vi
BY DEF Jobs

\* The end of a row is an element or none.
LEMMA EndTyped ==
  ASSUME NEW ei \in Equs, NEW prev, EndOfRow(prev, ei)
  PROVE  prev \in Ptr
BY RegFacts DEF EndOfRow, Ptr

\* rctr_equ_addnewlvars, the start of cmat_sync_lequ
LEMMA StartAppendStep ==
  ASSUME CInv, NEW op \in {"append", "sync"}, NEW ei \in Equs, NEW S \in SUBSET Vars, StartAppend(op, ei, S)
  PROVE  CInv'
<1>1. /\ Idle /\ Editable(ei) /\ S \cap (lequ[ei] \cup nl[ei]) = {}
      /\ lequ' = [lequ EXCEPT ![ei] = @ \cup S]
      /\ UNCHANGED matrix /\ UNCHANGED <<deleted, object, dual, nl, failed>>
  BY DEF StartAppend
<1>2. /\ TypeOK /\ ColumnsInv /\ RowsInv /\ job.op = "idle" /\ failed = "no" /\ failed' = "no"
      /\ \A ej \in Equs : RowStart(ej) = equs[ej]
      /\ \A ej \in Equs, vj \in Vars : Fits(ej, vj)
      /\ \A ej \in Equs : object[ej] = "none" => equs[ej] = Nil
  BY <1>1, IdleFacts
<1>e. EndOfRow(RowEnd(ei), ei) /\ RowEnd(ei) \in Ptr
  BY <1>2, RowReads, EndTyped
<1>3. /\ (job \in Jobs)' /\ job'.op = op /\ job'.ei = ei /\ job'.prev = RowEnd(ei) /\ job'.todo = S
  <2>1. job' = [op |-> op, ei |-> ei, src |-> Nil, cme |-> Nil, prev |-> RowEnd(ei), todo |-> S, vi |-> Nil]
    BY DEF StartAppend, NoJob
  <2>2. op \in Ops /\ Nil \in Ptr
    BY DEF Ops, Ptr
  <2> QED
    BY <2>1, <2>2, <1>e, JobTyped
<1>4. /\ ColumnsInv' /\ RowsInv' /\ ElementTypes' /\ RowTypes' /\ etype' = etype /\ next_var' = next_var
      /\ equs' = equs /\ Regular(ei)' = Regular(ei)
  BY <1>1, <1>2, <1>3, MatrixWaits
<1>q. \A ej \in Equs : lequ'[ej] = IF ej = ei THEN lequ[ei] \cup S ELSE lequ[ej]
  BY <1>1, <1>2 DEF TypeOK
<1>5. EquationTypes'
  <2>1. EquationTypes
    BY <1>2, TypesSplit
  <2> QED
    BY <2>1, <1>1 DEF EquationTypes
<1>6. ASSUME NEW vj \in S PROVE Ahead(ei, vj)'
  <2>1. vj \in Vars /\ vj \notin lequ[ei] /\ vj \notin nl[ei] /\ Fits(ei, vj)
    BY <1>1, <1>2
  <2>2. etype'[Reg(ei, vj)] = "none" /\ vj \in lequ'[ei] /\ vj \notin nl'[ei]
    BY <2>1, <1>1, <1>4, <1>q DEF Fits
  <2> QED
    BY <2>2, <1>3 DEF Ahead
<1>7. ContentsInv'
  <2>1. ASSUME NEW ej \in Equs, NEW vj \in Vars PROVE Fits(ej, vj)' \/ Ahead(ej, vj)'
    <3>1. CASE ej = ei /\ vj \in S
      BY <3>1, <1>6
    <3>2. CASE ~ (ej = ei /\ vj \in S)
      <4>1. Fits(ej, vj) /\ (vj \in lequ'[ej] <=> vj \in lequ[ej]) /\ nl' = nl
        BY <3>2, <1>1, <1>2, <1>q
      <4> QED
        BY <4>1, <1>4 DEF Fits
    <3> QED
      BY <3>1, <3>2
  <2>2. \A ej \in Equs : object'[ej] = "none" => equs'[ej] = Nil
    BY <1>1, <1>2, <1>4
  <2> QED
    BY <2>1, <2>2, <1>3 DEF ContentsInv
<1>8. JobInv'
  <2>1. EndOfRow(job.prev, job.ei)'
    BY <1>3, <1>4, <1>e DEF EndOfRow
  <2>2. object'[ei] # "none"
    BY <1>1 DEF Editable
  <2>3. \A vj \in job'.todo : Ahead(job.ei, vj)'
    BY <1>3, <1>6
  <2> QED
    BY <2>1, <2>2, <2>3, <1>3 DEF JobInv
<1>9. TypeOK'
  BY <1>2, <1>3, <1>4, <1>5, TypesSplitNext DEF Errors
<1> QED
  BY <1>2, <1>4, <1>7, <1>8, <1>9 DEF CInv

\* The start of cmat_fill_equ.
LEMMA StartFillStep ==
  ASSUME CInv, NEW ei \in Equs, NEW S \in SUBSET Vars, NEW T \in SUBSET Vars, StartFill(ei, S, T)
  PROVE  CInv'
<1>1. /\ Idle /\ Editable(ei) /\ equs[ei] = Nil /\ S \cap T = {}
      /\ lequ' = [lequ EXCEPT ![ei] = S] /\ nl' = [nl EXCEPT ![ei] = T]
      /\ UNCHANGED matrix /\ UNCHANGED <<deleted, object, dual, failed>>
  BY DEF StartFill
<1>2. /\ TypeOK /\ ColumnsInv /\ RowsInv /\ job.op = "idle" /\ failed = "no" /\ failed' = "no"
      /\ \A ej \in Equs : RowStart(ej) = equs[ej]
      /\ \A ej \in Equs, vj \in Vars : Fits(ej, vj)
      /\ \A ej \in Equs : object[ej] = "none" => equs[ej] = Nil
  BY <1>1, IdleFacts
<1>3. /\ (job \in Jobs)' /\ job'.op = "append" /\ job'.ei = ei /\ job'.prev = Nil /\ job'.todo = S \cup T
  <2>1. job' = [op |-> "append", ei |-> ei, src |-> Nil, cme |-> Nil, prev |-> Nil, todo |-> S \cup T, vi |-> Nil]
    BY DEF StartFill, NoJob
  <2>2. "append" \in Ops /\ Nil \in Ptr /\ S \cup T \in SUBSET Vars
    BY DEF Ops, Ptr
  <2> QED
    BY <2>1, <2>2, JobTyped
<1>4. /\ ColumnsInv' /\ RowsInv' /\ ElementTypes' /\ RowTypes' /\ etype' = etype /\ next_var' = next_var
      /\ equs' = equs /\ Regular(ei)' = Regular(ei)
  BY <1>1, <1>2, <1>3, MatrixWaits
<1>q. \A ej \in Equs : /\ lequ'[ej] = IF ej = ei THEN S ELSE lequ[ej]
                       /\ nl'[ej] = IF ej = ei THEN T ELSE nl[ej]
  BY <1>1, <1>2 DEF TypeOK
<1>5. EquationTypes'
  <2>1. EquationTypes
    BY <1>2, TypesSplit
  <2> QED
    BY <2>1, <1>1 DEF EquationTypes
<1>r. Regular(ei) = {}
  BY <1>1, <1>2, RowIs, EltFacts, NilFacts DEF FirstCme
<1>n. \A vj \in Vars : etype'[Reg(ei, vj)] = "none"
  BY <1>r, <1>4, RegFacts
<1>6. \A vj \in S \cup T : Ahead(ei, vj)'
  BY <1>1, <1>3, <1>n, <1>q DEF Ahead
<1>7. ContentsInv'
  <2>1. ASSUME NEW ej \in Equs, NEW vj \in Vars PROVE Fits(ej, vj)' \/ Ahead(ej, vj)'
    <3>1. CASE ej = ei /\ vj \in S \cup T
      BY <3>1, <1>6
    <3>2. CASE ej = ei /\ vj \notin S \cup T
      BY <3>2, <1>n, <1>q DEF Fits
    <3>3. CASE ej # ei
      <4>1. Fits(ej, vj) /\ lequ'[ej] = lequ[ej] /\ nl'[ej] = nl[ej]
        BY <3>3, <1>2, <1>q
      <4> QED
        BY <4>1, <1>4 DEF Fits
    <3> QED
      BY <3>1, <3>2, <3>3
  <2>2. \A ej \in Equs : object'[ej] = "none" => equs'[ej] = Nil
    BY <1>1, <1>2, <1>4
  <2> QED
    BY <2>1, <2>2, <1>3 DEF ContentsInv
<1>8. JobInv'
  <2>1. EndOfRow(job.prev, job.ei)'
    BY <1>3, <1>4, <1>r DEF EndOfRow
  <2>2. object'[ei] # "none"
    BY <1>1 DEF Editable
  <2>3. \A vj \in job'.todo : Ahead(job.ei, vj)'
    BY <1>3, <1>6
  <2> QED
    BY <2>1, <2>2, <2>3, <1>3 DEF JobInv
<1>9. TypeOK'
  BY <1>2, <1>3, <1>4, <1>5, TypesSplitNext DEF Errors
<1> QED
  BY <1>2, <1>4, <1>7, <1>8, <1>9 DEF CInv

\* The start of a loop that finds every equation as it should be.
LEMMA StartStep ==
  ASSUME CInv, Idle, UNCHANGED matrix, UNCHANGED <<deleted, equdata, failed>>, (job \in Jobs)',
         job'.op \in {"addvars", "delvar"}, JobInv'
  PROVE  CInv'
<1>1. /\ TypeOK /\ ColumnsInv /\ RowsInv /\ job.op = "idle" /\ failed = "no" /\ failed' = "no"
      /\ \A ej \in Equs, vj \in Vars : Fits(ej, vj)
      /\ \A ej \in Equs : object[ej] = "none" => equs[ej] = Nil
  BY IdleFacts
<1>2. object' = object /\ dual' = dual /\ lequ' = lequ /\ nl' = nl /\ deleted' = deleted
  BY DEF equdata
<1>3. ColumnsInv' /\ RowsInv' /\ ElementTypes' /\ RowTypes' /\ etype' = etype /\ equs' = equs
  BY <1>1, MatrixWaits
<1>4. \A ej \in Equs, vj \in Vars : Fits(ej, vj)'
  BY <1>1, <1>2, <1>3 DEF Fits
<1>5. ContentsInv'
  BY <1>1, <1>2, <1>3, <1>4, AllFit
<1>6. TypeOK'
  <2>1. EquationTypes
    BY <1>1, TypesSplit
  <2> QED
    BY <2>1, <1>1, <1>2, <1>3, TypesSplitNext DEF EquationTypes, Errors
<1> QED
  BY <1>1, <1>3, <1>5, <1>6 DEF CInv

\* The start of cmat_equ_add_vars.
LEMMA StartAddVarsStep ==
  ASSUME CInv, NEW ei \in Equs, NEW S \in SUBSET Vars, StartAddVars(ei, S)
  PROVE  CInv'
<1>1. Idle /\ UNCHANGED matrix /\ UNCHANGED <<deleted, equdata, failed>> /\ object'[ei] # "none"
  BY DEF StartAddVars, Editable, equdata
<1>2. (job \in Jobs)' /\ job'.op = "addvars" /\ job'.ei = ei
  <2>1. job' = [op |-> "addvars", ei |-> ei, src |-> Nil, cme |-> Nil, prev |-> Nil, todo |-> S, vi |-> Nil]
    BY DEF StartAddVars, NoJob
  <2>2. "addvars" \in Ops /\ Nil \in Ptr
    BY DEF Ops, Ptr
  <2> QED
    BY <2>1, <2>2, JobTyped
<1>3. JobInv'
  BY <1>1, <1>2 DEF JobInv
<1> QED
  BY <1>1, <1>2, <1>3, StartStep

\* The start of rctr_delete_var.
LEMMA StartDeleteVarStep ==
  ASSUME CInv, NEW vi \in Vars, StartDeleteVar(vi)
  PROVE  CInv'
<1>1. Idle /\ UNCHANGED matrix /\ UNCHANGED <<deleted, equdata, failed>>
  BY DEF StartDeleteVar
<1>v. vars' = vars /\ vars[vi] \in Ptr
  <2>1. TypeOK
    BY <1>1, IdleFacts
  <2> QED
    BY <2>1, <1>1 DEF matrix, TypeOK
<1>2. (job \in Jobs)' /\ job'.op = "delvar" /\ job'.vi = vi /\ job'.cme = vars[vi]
  <2>1. job' = [op |-> "delvar", ei |-> Nil, src |-> Nil, cme |-> vars[vi], prev |-> Nil, todo |-> {}, vi |-> vi]
    BY DEF StartDeleteVar, NoJob
  <2>2. "delvar" \in Ops /\ Nil \in Ptr
    BY DEF Ops, Ptr
  <2> QED
    BY <2>1, <2>2, <1>v, JobTyped
<1>3. JobInv'
  BY <1>2, <1>v DEF JobInv
<1> QED
  BY <1>1, <1>2, <1>3, StartStep

\* rmdl_setobjvar
LEMMA SetObjVarStep ==
  ASSUME CInv, NEW vi \in Vars, SetObjVar(vi)
  PROVE  CInv'
<1>e. Obj(vi) \in Elts /\ Obj(vi).kind = "obj" /\ Obj(vi).vi = vi /\ Obj(vi) \in Ptr
  BY EltFacts DEF Ptr
<1>1. /\ Idle /\ vars[vi] = Nil /\ vars' = [vars EXCEPT ![vi] = Obj(vi)]
      /\ etype' = [etype EXCEPT ![Obj(vi)] = "ObjVar"] /\ n' = n + 1
      /\ UNCHANGED <<next_var, next_equ, prev_equ, equs, last_equ, is_deleted>>
      /\ deleted' = deleted /\ object' = object /\ dual' = dual /\ lequ' = lequ /\ nl' = nl
      /\ job' = job /\ failed' = failed
  BY DEF SetObjVar, equdata
<1>2. /\ TypeOK /\ ColumnsInv /\ RowsInv /\ job = NoJob /\ job' = NoJob /\ job.op = "idle"
      /\ failed = "no" /\ failed' = "no"
      /\ \A ej \in Equs : RowStart(ej) = equs[ej]
      /\ \A ej \in Equs, vj \in Vars : Fits(ej, vj)
      /\ \A ej \in Equs : object[ej] = "none" => equs[ej] = Nil
  BY <1>1, IdleFacts
<1>3. JobInv' /\ (job \in Jobs)' /\ job'.op = "idle" /\ \A ej \in Equs : RowStart(ej)' = equs'[ej]
  BY <1>2, NoneInProgress
<1>4. \A x \in Elts : etype'[x] = IF x = Obj(vi) THEN "ObjVar" ELSE etype[x]
  BY <1>1, <1>2 DEF TypeOK
<1>5. \A x \in Elts : x \in Live' <=> x = Obj(vi) \/ x \in Live
  BY <1>4 DEF Live
<1>6. ColumnsInv'
  BY <1>1, <1>2, <1>e, <1>5, NewPlaceholder
<1>7. RowsInv'
  BY <1>1, <1>2, <1>3, <1>e, <1>5, RowsStay
<1>8. ContentsInv'
  <2>1. \A ej \in Equs, vj \in Vars : etype'[Reg(ej, vj)] = etype[Reg(ej, vj)]
    BY <1>4, <1>e, EltFacts
  <2>2. \A ej \in Equs, vj \in Vars : Fits(ej, vj)'
    BY <2>1, <1>1, <1>2 DEF Fits
  <2> QED
    BY <2>2, <1>1, <1>2, <1>3, AllFit
<1>9. TypeOK'
  <2>1. ElementTypes /\ RowTypes /\ EquationTypes /\ "ObjVar" \in Types
    BY <1>2, TypesSplit DEF Types
  <2>2. ElementTypes'
    BY <2>1, <1>1, <1>e DEF ElementTypes
  <2>3. RowTypes' /\ EquationTypes'
    BY <2>1, <1>1 DEF RowTypes, EquationTypes
  <2> QED
    BY <2>2, <2>3, <1>2, <1>3, TypesSplitNext DEF Errors
<1> QED
  BY <1>2, <1>3, <1>6, <1>7, <1>8, <1>9 DEF CInv

\* The end of rctr_delete_var: the variable has no element any more.
LEMMA DeleteVarEndStep ==
  ASSUME CInv, DeleteVarEnd
  PROVE  CInv'
<1>1. /\ failed = "no" /\ job.op = "delvar" /\ job.cme = Nil
      /\ vars' = [vars EXCEPT ![job.vi] = Nil] /\ is_deleted' = [is_deleted EXCEPT ![job.vi] = TRUE]
      /\ job' = NoJob
      /\ UNCHANGED <<etype, next_var, next_equ, prev_equ, equs, last_equ, n>>
      /\ deleted' = deleted /\ object' = object /\ dual' = dual /\ lequ' = lequ /\ nl' = nl
      /\ failed' = failed
  BY DEF DeleteVarEnd, equdata
<1>2. /\ TypeOK /\ ColumnsInv /\ RowsInv /\ ContentsInv /\ JobInv
      /\ \A ej \in Equs : RowStart(ej) = equs[ej]
      /\ \A ej \in Equs : object[ej] = "none" => equs[ej] = Nil
  BY <1>1, LoopFacts
<1>3. JobInv' /\ (job \in Jobs)' /\ job'.op = "idle" /\ \A ej \in Equs : RowStart(ej)' = equs'[ej]
  BY <1>1, NoneInProgress
<1>v. vars' = vars
  <2>1. job.vi \in Vars /\ vars[job.vi] = Nil
    BY <1>1, <1>2 DEF JobInv
  <2> QED
    BY <2>1, <1>1, <1>2 DEF TypeOK
<1>4. Live' = Live
  BY <1>1 DEF Live
<1>5. ColumnsInv'
  BY <1>1, <1>2, <1>v, <1>4, ColumnsStay
<1>6. RowsInv'
  BY <1>1, <1>2, <1>3, <1>4, RowsStay
<1>7. ContentsInv'
  <2>1. \A ej \in Equs, vj \in Vars : Fits(ej, vj)
    BY <1>1, <1>2 DEF ContentsInv, Ahead
  <2>2. \A ej \in Equs, vj \in Vars : Fits(ej, vj)'
    BY <2>1, <1>1 DEF Fits
  <2> QED
    BY <2>2, <1>1, <1>2, <1>3, AllFit
<1>8. TypeOK'
  <2>1. ElementTypes /\ RowTypes /\ EquationTypes
    BY <1>2, TypesSplit
  <2>2. ElementTypes'
    BY <2>1, <1>1, <1>v DEF ElementTypes
  <2>3. RowTypes' /\ EquationTypes'
    BY <2>1, <1>1 DEF RowTypes, EquationTypes
  <2> QED
    BY <2>2, <2>3, <1>1, <1>3, TypesSplitNext DEF Errors
<1> QED
  BY <1>1, <1>3, <1>5, <1>6, <1>7, <1>8 DEF CInv

-----------------------------------------------------------------------------
(***************************************************************************)
(* The loops that add to an equation.                                      *)
(***************************************************************************)

\* One variable is appended.
LEMMA AppendStepStep ==
  ASSUME CInv, NEW vi \in Vars, AppendStep(vi)
  PROVE  CInv'
<1>1. /\ failed = "no" /\ job.op \in {"append", "sync"} /\ vi \in job.todo
      /\ EltNew(Reg(job.ei, vi), IF vi \in nl[job.ei] THEN "NL" ELSE "Lin")
      /\ Link(Reg(job.ei, vi), job.prev)
      /\ job' = IF job.op = "append" /\ job.todo = {vi} THEN NoJob
                ELSE [job EXCEPT !.todo = @ \ {vi}, !.prev = Reg(job.ei, vi)]
      /\ deleted' = deleted /\ object' = object /\ dual' = dual /\ lequ' = lequ /\ nl' = nl
      /\ failed' = failed
  BY DEF AppendStep, equdata
<1>2. /\ TypeOK /\ ColumnsInv /\ RowsInv /\ ContentsInv /\ JobInv /\ job \in Jobs
      /\ \A ej \in Equs : RowStart(ej) = equs[ej]
      /\ \A ej \in Equs : object[ej] = "none" => equs[ej] = Nil
  BY <1>1, LoopFacts, TypesSplit
<1>i. PICK ei \in Equs : ei = job.ei
  BY <1>1, <1>2 DEF JobInv
<1>j. /\ object[ei] # "none" /\ EndOfRow(job.prev, ei) /\ \A vj \in job.todo : Ahead(ei, vj)
  BY <1>1, <1>2, <1>i DEF JobInv
<1>e. PICK e \in Elts : e = Reg(ei, vi) /\ e.kind = "reg" /\ e.ei = ei /\ e.vi = vi
  BY EltFacts
<1>y. PICK ty \in {"Lin", "NL"} : ty = IF vi \in nl[ei] THEN "NL" ELSE "Lin"
  OBVIOUS
<1>a. vi \in lequ[ei] \cup nl[ei] /\ vi \notin lequ[ei] \cap nl[ei] /\ etype[e] = "none"
  BY <1>1, <1>j, <1>e DEF Ahead
<1>s. EltNew(e, ty) /\ Link(e, job.prev) /\ e \notin Live
  BY <1>1, <1>i, <1>e, <1>y, <1>a DEF Live
<1>k. /\ job' \in Jobs /\ job'.op # "rm"
      /\ \/ job' = NoJob /\ job.todo = {vi}
         \/ job'.op = job.op /\ job'.ei = ei /\ job'.todo = job.todo \ {vi} /\ job'.prev = e
  <2>1. CASE job.op = "append" /\ job.todo = {vi}
    BY <2>1, <1>1, NoJobFacts
  <2>2. CASE ~ (job.op = "append" /\ job.todo = {vi})
    <3>1. job' = [job EXCEPT !.todo = @ \ {vi}, !.prev = e] /\ e \in Ptr
      BY <2>2, <1>1, <1>i, <1>e DEF Ptr
    <3>2. job' \in Jobs
      BY <3>1, <1>2 DEF Jobs
    <3>3. job'.op = job.op /\ job'.ei = job.ei /\ job'.todo = job.todo \ {vi} /\ job'.prev = e
      BY <3>1, <1>2 DEF Jobs
    <3> QED
      BY <3>2, <3>3, <1>1, <1>i
  <2> QED
    BY <2>1, <2>2
<1>4. ColumnsInv' /\ Live' = (Live \ {Cst(ei), Obj(vi)}) \cup {e}
  BY <1>2, <1>s, <1>e, EltNewColumns
<1>5. /\ RowsInv' /\ Regular(ei)' = Regular(ei) \cup {e} /\ next_var'[e] = Nil
      /\ \A ej \in Equs \ {ei} : equs'[ej] = equs[ej]
  BY <1>1, <1>2, <1>e, <1>s, <1>j, <1>k, <1>4, LinkRows
<1>6. /\ ElementTypes'
      /\ \A ej \in Equs, vj \in Vars : etype'[Reg(ej, vj)] = IF Reg(ej, vj) = e THEN ty ELSE etype[Reg(ej, vj)]
  BY <1>2, <1>s, <1>e, EltNewTypes
<1>7. \A ej \in Equs, vj \in Vars :
         etype'[Reg(ej, vj)] = IF ej = ei /\ vj = vi THEN ty ELSE etype[Reg(ej, vj)]
  BY <1>6, <1>e, RegFacts
<1>8. RowTypes' /\ EquationTypes'
  <2>1. EquationTypes
    BY <1>2, TypesSplit
  <2>2. EquationTypes'
    BY <2>1, <1>1 DEF EquationTypes
  <2> QED
    BY <2>2, <1>2, <1>s, <1>e, LinkTypes
<1>9. ASSUME NEW ej \in Equs, NEW vj \in Vars, ~ (ej = ei /\ vj = vi), Ahead(ej, vj)
      PROVE  Ahead(ej, vj)'
  <2>1. /\ ej = ei /\ vj \in job.todo /\ vj # vi /\ vj \in lequ[ei] \cup nl[ei] /\ vj \notin lequ[ei] \cap nl[ei]
        /\ etype'[Reg(ei, vj)] = "none"
    BY <1>9, <1>i, <1>7 DEF Ahead
  <2>2. job'.op = job.op /\ job'.ei = ei /\ vj \in job'.todo
    BY <2>1, <1>k
  <2> QED
    BY <2>1, <2>2, <1>1 DEF Ahead
<1>10. ContentsInv'
  <2>1. ASSUME NEW ej \in Equs, NEW vj \in Vars PROVE Fits(ej, vj)' \/ Ahead(ej, vj)'
    <3>1. CASE ej = ei /\ vj = vi
      BY <3>1, <1>a, <1>1, <1>7, <1>y DEF Fits
    <3>2. CASE ~ (ej = ei /\ vj = vi)
      <4>1. Fits(ej, vj) \/ Ahead(ej, vj)
        BY <1>1, <1>2 DEF ContentsInv
      <4>2. Fits(ej, vj) => Fits(ej, vj)'
        BY <3>2, <1>1, <1>7 DEF Fits
      <4> QED
        BY <3>2, <4>1, <4>2, <1>9
    <3> QED
      BY <3>1, <3>2
  <2>2. \A ej \in Equs : object'[ej] = "none" => equs'[ej] = Nil
    BY <1>1, <1>2, <1>j, <1>5
  <2> QED
    BY <2>1, <2>2, <1>k DEF ContentsInv
<1>11. JobInv'
  <2>1. CASE job' = NoJob
    BY <2>1, NoneInProgress
  <2>2. CASE job'.op = job.op /\ job'.ei = ei /\ job'.todo = job.todo \ {vi} /\ job'.prev = e
    <3>1. EndOfRow(job.prev, job.ei)'
      BY <2>2, <1>5, NilFacts DEF EndOfRow
    <3>2. \A vj \in job'.todo : Ahead(job.ei, vj)'
      <4>1. job.todo \subseteq Vars
        BY <1>2 DEF Jobs
      <4> QED
        BY <4>1, <2>2, <1>9, <1>j
    <3> QED
      BY <2>2, <3>1, <3>2, <1>1, <1>j DEF JobInv
  <2> QED
    BY <2>1, <2>2, <1>k
<1>12. TypeOK'
  BY <1>1, <1>6, <1>8, <1>k, TypesSplitNext DEF Errors
<1> QED
  BY <1>1, <1>4, <1>5, <1>10, <1>11, <1>12 DEF CInv

\* A variable of the tree is in the tree only.
LEMMA SwitchFits ==
  ASSUME TypeOK, \A ej \in Equs, vj \in Vars : Fits(ej, vj), NEW ei \in Equs, NEW vi \in Vars, SwitchVarNl(ei, vi),
         \A ej \in Equs, vj \in Vars :
            etype'[Reg(ej, vj)] = IF ej = ei /\ vj = vi THEN "NL" ELSE etype[Reg(ej, vj)]
  PROVE  \A ej \in Equs, vj \in Vars : Fits(ej, vj)'
<1> SUFFICES ASSUME NEW ej \in Equs, NEW vj \in Vars PROVE Fits(ej, vj)'
  OBVIOUS
<1>1. \A ek \in Equs : /\ lequ'[ek] = IF ek = ei THEN lequ[ei] \ {vi} ELSE lequ[ek]
                       /\ nl'[ek] = IF ek = ei THEN nl[ei] \cup {vi} ELSE nl[ek]
  BY DEF TypeOK, SwitchVarNl
<1>2. CASE ej = ei /\ vj = vi
  BY <1>1, <1>2 DEF Fits
<1>3. CASE ~ (ej = ei /\ vj = vi)
  <2>1. etype'[Reg(ej, vj)] = etype[Reg(ej, vj)] /\ Fits(ej, vj)
    BY <1>3
  <2>2. (vj \in lequ'[ej] <=> vj \in lequ[ej]) /\ (vj \in nl'[ej] <=> vj \in nl[ej])
    BY <1>1, <1>3
  <2> QED
    BY <2>1, <2>2 DEF Fits
<1> QED
  BY <1>2, <1>3

\* One variable of an expression.
LEMMA AddVarsStepStep ==
  ASSUME CInv, NEW vi \in Vars, AddVarsStep(vi)
  PROVE  CInv'
<1>1. /\ failed = "no" /\ job.op = "addvars" /\ vi \in job.todo /\ SwitchVarNl(job.ei, vi)
      /\ job' = IF job.todo = {vi} THEN NoJob ELSE [job EXCEPT !.todo = @ \ {vi}]
      /\ UNCHANGED <<deleted, object, dual, failed>>
  BY DEF AddVarsStep
<1>2. /\ TypeOK /\ ColumnsInv /\ RowsInv /\ ContentsInv /\ JobInv /\ job \in Jobs
      /\ \A ej \in Equs : RowStart(ej) = equs[ej]
      /\ \A ej \in Equs : object[ej] = "none" => equs[ej] = Nil
  BY <1>1, LoopFacts, TypesSplit
<1>i. PICK ei \in Equs : ei = job.ei /\ object[ei] # "none"
  BY <1>1, <1>2 DEF JobInv
<1>e. PICK e \in Elts : e = Reg(ei, vi) /\ e.kind = "reg" /\ e.ei = ei /\ e.vi = vi
  BY EltFacts
<1>s. IF InRow(ei, vi)
      THEN /\ etype' = [etype EXCEPT ![e] = "NL"]
           /\ UNCHANGED <<next_var, next_equ, prev_equ, equs, vars, last_equ, n, is_deleted>>
      ELSE EltNew(e, "NL") /\ Link(e, RowEnd(ei))
  BY <1>i, <1>e DEF AddVarsStep
<1>k. /\ job' \in Jobs /\ job'.op \in {"idle", "addvars"}
      /\ job' = NoJob \/ (job'.op = "addvars" /\ job'.ei = ei)
  <2>1. CASE job.todo = {vi}
    BY <2>1, <1>1, NoJobFacts
  <2>2. CASE job.todo # {vi}
    <3>1. job' = [job EXCEPT !.todo = @ \ {vi}]
      BY <2>2, <1>1
    <3>2. job' \in Jobs /\ job'.op = job.op /\ job'.ei = job.ei
      BY <3>1, <1>2 DEF Jobs
    <3> QED
      BY <3>2, <1>1, <1>i
  <2> QED
    BY <2>1, <2>2
<1>f. \A ej \in Equs, vj \in Vars : Fits(ej, vj)
  BY <1>1, <1>2 DEF ContentsInv, Ahead
<1>3. /\ ColumnsInv' /\ RowsInv' /\ ElementTypes' /\ RowTypes'
      /\ \A ej \in Equs, vj \in Vars :
            etype'[Reg(ej, vj)] = IF Reg(ej, vj) = e THEN "NL" ELSE etype[Reg(ej, vj)]
      /\ \A ej \in Equs \ {ei} : equs'[ej] = equs[ej]
  <2>1. CASE InRow(ei, vi)
    <3>1. /\ etype' = [etype EXCEPT ![e] = "NL"]
          /\ UNCHANGED <<next_var, next_equ, prev_equ, equs, vars, last_equ, n, is_deleted>>
      BY <2>1, <1>s
    <3>2. /\ \A x \in Elts : etype'[x] = IF x = e THEN "NL" ELSE etype[x]
          /\ e \in Live
      BY <3>1, <2>1, <1>2, <1>e, RowReads DEF TypeOK
    <3>3. Live' = Live
      BY <3>2 DEF Live
    <3>4. ColumnsInv'
      BY <3>1, <3>3, <1>2, ColumnsStay
    <3>5. RowsInv'
      <4>1. \A ej \in Equs : RowStart(ej)' = RowStart(ej)
        BY <3>1, <1>1, <1>k DEF RowStart
      <4> QED
        BY <4>1, <3>1, <3>3, <1>2, RowsStay
    <3>6. ElementTypes' /\ RowTypes'
      <4>1. ElementTypes /\ RowTypes /\ "NL" \in Types
        BY <1>2, TypesSplit DEF Types
      <4> QED
        BY <4>1, <3>1, <1>e DEF ElementTypes, RowTypes
    <3> QED
      BY <3>1, <3>2, <3>4, <3>5, <3>6, EltFacts
  <2>2. CASE ~ InRow(ei, vi)
    <3>1. EltNew(e, "NL") /\ Link(e, RowEnd(ei)) /\ e \notin Live /\ EndOfRow(RowEnd(ei), ei)
      BY <2>2, <1>s, <1>2, <1>e, RowReads
    <3>2. ColumnsInv' /\ Live' = (Live \ {Cst(ei), Obj(vi)}) \cup {e}
      BY <3>1, <1>2, <1>e, EltNewColumns
    <3>3. RowsInv' /\ \A ej \in Equs \ {ei} : equs'[ej] = equs[ej]
      BY <3>1, <3>2, <1>1, <1>2, <1>e, <1>k, LinkRows
    <3>4. /\ ElementTypes'
          /\ \A ej \in Equs, vj \in Vars :
                etype'[Reg(ej, vj)] = IF Reg(ej, vj) = e THEN "NL" ELSE etype[Reg(ej, vj)]
      BY <3>1, <1>2, <1>e, EltNewTypes
    <3>5. RowTypes'
      BY <3>1, <1>2, <1>e, LinkTypes
    <3> QED
      BY <3>2, <3>3, <3>4, <3>5
  <2> QED
    BY <2>1, <2>2
<1>4. ContentsInv'
  <2>1. \A ej \in Equs, vj \in Vars :
           etype'[Reg(ej, vj)] = IF ej = ei /\ vj = vi THEN "NL" ELSE etype[Reg(ej, vj)]
    BY <1>3, <1>e, RegFacts
  <2>2. SwitchVarNl(ei, vi)
    BY <1>1, <1>i
  <2>3. \A ej \in Equs, vj \in Vars : Fits(ej, vj)'
    BY <2>1, <2>2, <1>2, <1>f, SwitchFits
  <2>4. \A ej \in Equs : object'[ej] = "none" => equs'[ej] = Nil
    BY <1>1, <1>2, <1>3, <1>i
  <2> QED
    BY <2>3, <2>4, <1>k, AllFit
<1>5. JobInv'
  <2>1. CASE job' = NoJob
    BY <2>1, NoneInProgress
  <2>2. CASE job'.op = "addvars" /\ job'.ei = ei
    BY <2>2, <1>1, <1>i DEF JobInv
  <2> QED
    BY <2>1, <2>2, <1>k
<1>6. EquationTypes'
  <2>1. EquationTypes
    BY <1>2, TypesSplit
  <2> QED
    BY <2>1, <1>1, <1>i DEF EquationTypes, SwitchVarNl
<1>7. TypeOK'
  BY <1>1, <1>3, <1>6, <1>k, TypesSplitNext DEF Errors
<1> QED
  BY <1>1, <1>3, <1>4, <1>5, <1>7 DEF CInv

\* An empty row becomes that of a constant equation.
LEMMA CstRows ==
  ASSUME TypeOK, RowsInv, NEW ei \in Equs, equs[ei] = Nil, job.op # "rm", job'.op # "rm",
         equs' = [equs EXCEPT ![ei] = Cst(ei)], next_var' = next_var,
         \A x \in Elts : x.kind \in {"reg", "cst"} => (x \in Live' <=> x = Cst(ei) \/ x \in Live)
  PROVE  RowsInv'
<1>c. Cst(ei) \in Elts /\ Cst(ei).kind = "cst" /\ Cst(ei).ei = ei
  BY EltFacts
<1>r. /\ \A ej \in Equs : RowStart(ej) = equs[ej] /\ RowStart(ej)' = equs'[ej]
      /\ \A ej \in Equs : Listing(equs[ej], next_var, OfRow(ej))
  BY DEF RowStart, RowsInv
<1>a. \A ej \in Equs : equs'[ej] = IF ej = ei THEN Cst(ei) ELSE equs[ej]
  BY DEF TypeOK
<1>1. OfRow(ei) = {}
  BY <1>r, RowFacts, NilFacts
<1>2. \A ej \in Equs : OfRow(ej)' = IF ej = ei THEN {} \cup {Cst(ei)} ELSE OfRow(ej)
  <2>1. \A x : x \in Live \/ x \in Live' => x \in Elts
    BY DEF Live
  <2> QED
    BY <2>1, <1>1, <1>c DEF OfRow
<1>3. ASSUME NEW ej \in Equs PROVE Listing(RowStart(ej)', next_var', OfRow(ej)')
  <2>1. CASE ej = ei
    <3>1. Listing(Nil, next_var, {})
      BY ListEmpty
    <3>2. next_var[Cst(ei)] = Nil
      BY <1>c DEF RowsInv
    <3>3. Listing(Cst(ei), next_var, {} \cup {Cst(ei)})
      BY <3>1, <3>2, ListPrepend
    <3> QED
      BY <2>1, <3>3, <1>2, <1>a, <1>r
  <2>2. CASE ej # ei
    BY <2>2, <1>2, <1>a, <1>r
  <2> QED
    BY <2>1, <2>2
<1>4. \A x \in Elts : x \notin Live' \/ x.kind # "reg" => next_var'[x] = Nil
  BY DEF RowsInv
<1>5. \A ej \in Equs : Cst(ej) \in Live' => equs'[ej] = Cst(ej)
  <2>1. \A ej \in Equs : Cst(ej) \in Elts /\ Cst(ej).kind = "cst" /\ (Cst(ej) = Cst(ei) => ej = ei)
    BY EltFacts
  <2> QED
    BY <2>1, <1>a DEF RowsInv
<1> QED
  BY <1>3, <1>4, <1>5 DEF RowsInv, Cst, Elt

\* The end of cmat_sync_lequ.
LEMMA SyncEndStep ==
  ASSUME CInv, SyncEnd
  PROVE  CInv'
<1>1. /\ failed = "no" /\ job.op = "sync" /\ job.todo = {} /\ FixVar(job.ei) /\ job' = NoJob
      /\ UNCHANGED <<next_var, next_equ, prev_equ, is_deleted>>
      /\ deleted' = deleted /\ object' = object /\ dual' = dual /\ lequ' = lequ /\ nl' = nl
      /\ failed' = failed
  BY DEF SyncEnd, equdata
<1>2. /\ TypeOK /\ ColumnsInv /\ RowsInv /\ ContentsInv /\ JobInv
      /\ \A ej \in Equs : RowStart(ej) = equs[ej]
      /\ \A ej \in Equs : object[ej] = "none" => equs[ej] = Nil
  BY <1>1, LoopFacts
<1>i. PICK ei \in Equs : ei = job.ei /\ object[ei] # "none"
  BY <1>1, <1>2 DEF JobInv
<1>d. PICK d \in Vars \cup {Nil} : d = dual[ei]
  BY <1>2 DEF TypeOK
<1>t. /\ etype \in [Elts -> Types] /\ equs \in [Equs -> Ptr] /\ vars \in [Vars -> Ptr]
      /\ last_equ \in [Vars -> Ptr] /\ n \in Nat
  BY <1>2 DEF TypeOK
<1>c. Cst(ei) \in Elts /\ Cst(ei).kind = "cst" /\ Cst(ei).vi = Nil /\ Cst(ei) \in Ptr
  BY EltFacts DEF Ptr
<1>p. d \in Vars => /\ Perp(ei, d) \in Elts /\ Perp(ei, d).kind = "perp" /\ Perp(ei, d).vi = d
                    /\ Perp(ei, d) \in Ptr /\ d # Nil
  BY EltFacts, NilFacts DEF Ptr
<1>3. JobInv' /\ (job \in Jobs)' /\ job'.op = "idle" /\ \A ej \in Equs : RowStart(ej)' = equs'[ej]
  BY <1>1, NoneInProgress
<1>4. /\ equs' = IF equs[ei] = Nil THEN [equs EXCEPT ![ei] = Cst(ei)] ELSE equs
      /\ etype' = [x \in Elts |-> IF equs[ei] = Nil /\ x = Cst(ei) THEN "CstEqu"
                                  ELSE IF d # Nil /\ vars[d] = Nil /\ x = Perp(ei, d) THEN "VarPerp"
                                  ELSE etype[x]]
      /\ IF d # Nil /\ vars[d] = Nil
         THEN /\ vars' = [vars EXCEPT ![d] = Perp(ei, d)] /\ last_equ' = [last_equ EXCEPT ![d] = Perp(ei, d)]
              /\ n' = n + 1
         ELSE UNCHANGED <<vars, last_equ, n>>
  <2>1. equs' = [equs EXCEPT ![ei] = IF equs[ei] = Nil THEN Cst(ei) ELSE equs[ei]]
    BY <1>i DEF SyncEnd
  <2>2. equs' = IF equs[ei] = Nil THEN [equs EXCEPT ![ei] = Cst(ei)] ELSE equs
    BY <2>1, <1>t
  <2>3. etype' = [x \in Elts |-> IF equs[ei] = Nil /\ x = Cst(ei) THEN "CstEqu"
                                  ELSE IF d # Nil /\ vars[d] = Nil /\ x = Perp(ei, d) THEN "VarPerp"
                                  ELSE etype[x]]
    BY <1>i, <1>d DEF SyncEnd
  <2>4. IF d # Nil /\ vars[d] = Nil
        THEN /\ vars' = [vars EXCEPT ![d] = Perp(ei, d)] /\ last_equ' = [last_equ EXCEPT ![d] = Perp(ei, d)]
             /\ n' = n + 1
        ELSE UNCHANGED <<vars, last_equ, n>>
    BY <1>i, <1>d, <1>1 DEF FixVar
  <2> QED
    BY <2>2, <2>3, <2>4
<1>5. \A x \in Elts : x \in Live' <=> \/ equs[ei] = Nil /\ x = Cst(ei)
                                      \/ d # Nil /\ vars[d] = Nil /\ x = Perp(ei, d)
                                      \/ x \in Live
  BY <1>4 DEF Live
<1>6. ColumnsInv'
  <2>1. CASE d # Nil /\ vars[d] = Nil
    <3>1. d \in Vars /\ Perp(ei, d) # Obj(d)
      BY <2>1, EltFacts
    <3>2. \A x \in Elts : x.vi # Nil => (x \in Live' <=> x = Perp(ei, d) \/ x \in Live)
      BY <2>1, <1>5, <1>c
    <3>3. /\ vars' = [vars EXCEPT ![d] = Perp(ei, d)] /\ last_equ' = [last_equ EXCEPT ![d] = Perp(ei, d)]
          /\ n' = n + 1
      BY <2>1, <1>4
    <3> QED
      BY <2>1, <3>1, <3>2, <3>3, <1>1, <1>2, <1>p, NewPlaceholder
  <2>2. CASE ~ (d # Nil /\ vars[d] = Nil)
    <3>1. \A x \in Elts : x.vi # Nil => (x \in Live' <=> x \in Live)
      BY <2>2, <1>5, <1>c
    <3> QED
      BY <2>2, <3>1, <1>1, <1>2, <1>4, ColumnsStay
  <2> QED
    BY <2>1, <2>2
<1>7. RowsInv'
  <2>p. d # Nil => Perp(ei, d).kind = "perp"
    BY <1>p
  <2>1. CASE equs[ei] = Nil
    <3>1. \A x \in Elts : x.kind \in {"reg", "cst"} => (x \in Live' <=> x = Cst(ei) \/ x \in Live)
      BY <2>1, <2>p, <1>5
    <3> QED
      BY <2>1, <3>1, <1>1, <1>2, <1>3, <1>4, CstRows
  <2>2. CASE equs[ei] # Nil
    <3>1. \A x \in Elts : x.kind \in {"reg", "cst"} => (x \in Live' <=> x \in Live)
      BY <2>2, <2>p, <1>5
    <3> QED
      BY <2>2, <3>1, <1>1, <1>2, <1>3, <1>4, RowsStay
  <2> QED
    BY <2>1, <2>2
<1>8. ContentsInv'
  <2>1. \A ej \in Equs, vj \in Vars : etype'[Reg(ej, vj)] = etype[Reg(ej, vj)]
    BY <1>4, <1>c, <1>p, EltFacts
  <2>2. \A ej \in Equs, vj \in Vars : Fits(ej, vj)
    BY <1>1, <1>2 DEF ContentsInv, Ahead
  <2>3. \A ej \in Equs, vj \in Vars : Fits(ej, vj)'
    BY <2>1, <2>2, <1>1 DEF Fits
  <2>4. \A ej \in Equs : object'[ej] = "none" => equs'[ej] = Nil
    BY <1>1, <1>2, <1>4, <1>i, <1>t
  <2> QED
    BY <2>3, <2>4, <1>3, AllFit
<1>9. ElementTypes' /\ RowTypes' /\ EquationTypes'
  <2>1. ElementTypes /\ RowTypes /\ EquationTypes /\ {"CstEqu", "VarPerp"} \subseteq Types
    BY <1>2, TypesSplit DEF Types
  <2>2. etype' \in [Elts -> Types]
    BY <2>1, <1>4, <1>t
  <2>3. vars' \in [Vars -> Ptr] /\ last_equ' \in [Vars -> Ptr] /\ n' \in Nat
    BY <1>4, <1>t, <1>p
  <2>4. ElementTypes'
    BY <2>1, <2>2, <2>3, <1>1 DEF ElementTypes
  <2>5. RowTypes'
    BY <2>1, <1>1, <1>4, <1>c DEF RowTypes
  <2> QED
    BY <2>1, <2>4, <2>5, <1>1 DEF EquationTypes
<1>10. TypeOK'
  BY <1>1, <1>3, <1>9, TypesSplitNext DEF Errors
<1> QED
  BY <1>1, <1>3, <1>6, <1>7, <1>8, <1>10 DEF CInv

-----------------------------------------------------------------------------
(***************************************************************************)
(* Removing.                                                               *)
(***************************************************************************)

\* equ_rm_var: the matrix stays in order even if it fails.
LEMMA EquRmVarStep ==
  ASSUME TypeOK, ColumnsInv, RowsInv, failed = "no", job.op # "rm", job'.op # "rm", (job \in Jobs)',
         \A ej \in Equs, vj \in Vars : Fits(ej, vj), \A ej \in Equs : object[ej] = "none" => equs[ej] = Nil,
         NEW ei \in Equs, NEW vi \in Vars, vi \in lequ[ei], EquRmVar(ei, vi),
         deleted' = deleted, object' = object, dual' = dual, nl' = nl
  PROVE  /\ TypeOK' /\ ColumnsInv' /\ RowsInv'
         /\ failed' = "no" => ContentsInv' /\ Unlink(Reg(ei, vi))
<1>e. PICK e \in Elts : e = Reg(ei, vi) /\ e.kind = "reg" /\ e.ei = ei /\ e.vi = vi
  BY EltFacts
<1>q. \A ej \in Equs : lequ'[ej] = IF ej = ei THEN lequ[ei] \ {vi} ELSE lequ[ej]
  BY DEF EquRmVar, TypeOK
<1>1. EquationTypes' /\ ElementTypes /\ RowTypes
  <2>1. EquationTypes /\ ElementTypes /\ RowTypes
    BY TypesSplit
  <2> QED
    BY <2>1 DEF EquationTypes, EquRmVar
<1>2. CASE equs[ei] = e /\ next_var[e] = Nil
  <2>1. UNCHANGED matrix /\ failed' \in Errors \ {"no"}
    BY <1>2, <1>e DEF EquRmVar, Errors
  <2>2. ColumnsInv' /\ RowsInv' /\ ElementTypes' /\ RowTypes'
    BY <2>1, MatrixWaits
  <2> QED
    BY <2>1, <2>2, <1>1, TypesSplitNext
<1>3. CASE ~ (equs[ei] = e /\ next_var[e] = Nil)
  <2>1. /\ Unlink(e) /\ next_var' = NextWithout(e) /\ failed' = "no"
        /\ equs' = IF equs[ei] = e THEN [equs EXCEPT ![ei] = next_var[e]] ELSE equs
    BY <1>3, <1>e DEF EquRmVar
  <2>2. e \in Live
    <3>1. Fits(ei, vi)
      OBVIOUS
    <3> QED
      BY <3>1, <1>e DEF Fits, Live
  <2>3. ColumnsInv' /\ Live' = Live \ {e}
    BY <2>1, <2>2, <1>e, UnlinkColumns
  <2>4. RowsInv'
    BY <2>1, <2>2, <2>3, <1>e, DropRows
  <2>5. ElementTypes' /\ \A x \in Elts : etype'[x] = IF x = e THEN "none" ELSE etype[x]
    BY <2>1, <2>2, <1>e, UnlinkTypes
  <2>6. RowTypes'
    <3>1. next_var[e] \in Ptr /\ Nil \in Ptr
      BY <1>1 DEF RowTypes, Ptr
    <3>2. next_var' \in [Elts -> Ptr]
      BY <3>1, <2>1, <1>1 DEF NextWithout, RowTypes
    <3> QED
      BY <3>1, <3>2, <2>1, <1>1 DEF RowTypes
  <2>7. ContentsInv'
    <3>1. \A ej \in Equs, vj \in Vars :
             etype'[Reg(ej, vj)] = IF ej = ei /\ vj = vi THEN "none" ELSE etype[Reg(ej, vj)]
      BY <2>5, <1>e, EltFacts, RegFacts
    <3>2. ASSUME NEW ej \in Equs, NEW vj \in Vars PROVE Fits(ej, vj)'
      <4>1. Fits(ej, vj)
        OBVIOUS
      <4>2. CASE ej = ei /\ vj = vi
        BY <4>1, <4>2, <3>1, <1>q DEF Fits
      <4>3. CASE ~ (ej = ei /\ vj = vi)
        <5>1. (vj \in lequ'[ej] <=> vj \in lequ[ej]) /\ etype'[Reg(ej, vj)] = etype[Reg(ej, vj)]
          BY <4>3, <3>1, <1>q
        <5> QED
          BY <4>1, <5>1 DEF Fits
      <4> QED
        BY <4>2, <4>3
    <3>3. ASSUME NEW ej \in Equs, object'[ej] = "none" PROVE equs'[ej] = Nil
      <4>1. equs[ej] = Nil
        BY <3>3
      <4>2. ej = ei => equs[ei] # e
        BY <4>1, NilFacts
      <4> QED
        BY <4>1, <4>2, <2>1, <1>1 DEF RowTypes
    <3> QED
      BY <3>2, <3>3, AllFit
  <2>8. TypeOK'
    BY <2>1, <2>5, <2>6, <1>1, TypesSplitNext DEF Errors
  <2> QED
    BY <2>1, <2>3, <2>4, <2>7, <2>8, <1>e
<1> QED
  BY <1>2, <1>3

\* equ_rm_var as an operation.
LEMMA RmVarStep ==
  ASSUME CInv, NEW ei \in Equs, NEW vi \in Vars, RmVar(ei, vi)
  PROVE  CInv'
<1>1. /\ Idle /\ vi \in lequ[ei] /\ EquRmVar(ei, vi)
      /\ deleted' = deleted /\ object' = object /\ dual' = dual /\ nl' = nl /\ job' = job
  BY DEF RmVar
<1>2. /\ TypeOK /\ ColumnsInv /\ RowsInv /\ job = NoJob /\ job' = NoJob /\ job.op = "idle" /\ failed = "no"
      /\ \A ej \in Equs, vj \in Vars : Fits(ej, vj)
      /\ \A ej \in Equs : object[ej] = "none" => equs[ej] = Nil
  BY <1>1, IdleFacts
<1>3. JobInv' /\ (job \in Jobs)' /\ job'.op = "idle"
  BY <1>2, NoneInProgress
<1>4. TypeOK' /\ ColumnsInv' /\ RowsInv' /\ (failed' = "no" => ContentsInv')
  BY <1>1, <1>2, <1>3, EquRmVarStep
<1> QED
  BY <1>3, <1>4 DEF CInv

\* One element of a variable that is deleted.
LEMMA DeleteVarStepStep ==
  ASSUME CInv, DeleteVarStep
  PROVE  CInv'
<1>1. /\ failed = "no" /\ job.op = "delvar" /\ job.cme # Nil
      /\ deleted' = deleted /\ object' = object /\ dual' = dual /\ nl' = nl
  BY DEF DeleteVarStep
<1>2. /\ TypeOK /\ ColumnsInv /\ RowsInv /\ ContentsInv /\ JobInv /\ job \in Jobs
      /\ \A ej \in Equs : object[ej] = "none" => equs[ej] = Nil
  BY <1>1, LoopFacts, TypesSplit
<1>f. \A ej \in Equs, vj \in Vars : Fits(ej, vj)
  BY <1>1, <1>2 DEF ContentsInv, Ahead
<1>v. PICK vi \in Vars : vi = job.vi
  BY <1>1, <1>2 DEF JobInv
<1>e. PICK e \in Elts : e = job.cme /\ e = vars[vi] /\ e.vi = vi /\ e \in Live /\ e # Nil
  <2>1. job.cme = vars[vi] /\ vars[vi] # Nil
    BY <1>1, <1>2, <1>v DEF JobInv
  <2>2. vars[vi] \in OfColumn(vi)
    BY <2>1, <1>2, ColumnFacts
  <2> QED
    BY <2>1, <2>2 DEF OfColumn, Live
<1>3. CASE e.kind = "reg" /\ vi \in lequ[e.ei]
  <2>1. PICK ei \in Equs : ei = e.ei /\ e = Reg(ei, vi)
    BY <1>3, <1>e, EltKinds
  <2>2. EquRmVar(ei, vi) /\ job' = [job EXCEPT !.cme = next_equ[e]] /\ vi \in lequ[ei]
    BY <1>3, <1>v, <1>e, <2>1 DEF DeleteVarStep
  <2>3. job' \in Jobs /\ job'.op = "delvar" /\ job'.vi = vi /\ job'.cme = next_equ[e]
    <3>1. next_equ[e] \in Ptr
      BY <1>2 DEF TypeOK
    <3> QED
      BY <3>1, <2>2, <1>1, <1>2, <1>v DEF Jobs
  <2>4. /\ TypeOK' /\ ColumnsInv' /\ RowsInv'
        /\ failed' = "no" => ContentsInv' /\ Unlink(e)
    BY <2>1, <2>2, <2>3, <1>1, <1>2, <1>f, EquRmVarStep
  <2>5. ASSUME Unlink(e) PROVE JobInv'
    <3>1. prev_equ[e] = Nil
      BY <1>2, <1>e, ColumnFacts
    <3>2. vars'[vi] = next_equ[e]
      BY <3>1, <2>5, <1>2, <1>e DEF Unlink, VarsWithout, TypeOK
    <3> QED
      BY <3>2, <2>3 DEF JobInv
  <2> QED
    BY <2>3, <2>4, <2>5 DEF CInv
<1>4. CASE ~ (e.kind = "reg" /\ vi \in lequ[e.ei])
  <2>1. failed' = "NotLinear" /\ UNCHANGED matrix /\ lequ' = lequ /\ job' = job
    BY <1>4, <1>v, <1>e DEF DeleteVarStep
  <2>2. ColumnsInv' /\ RowsInv' /\ ElementTypes' /\ RowTypes'
    BY <2>1, <1>1, <1>2, MatrixWaits
  <2>3. EquationTypes'
    <3>1. EquationTypes
      BY <1>2, TypesSplit
    <3> QED
      BY <3>1, <2>1, <1>1 DEF EquationTypes
  <2>4. TypeOK'
    BY <2>1, <2>2, <2>3, <1>2, TypesSplitNext DEF Errors
  <2> QED
    BY <2>1, <2>2, <2>4, <1>1 DEF CInv
<1> QED
  BY <1>3, <1>4

\* The start of cmat_rm_equ.
LEMMA RmEquStep ==
  ASSUME CInv, NEW ei \in Equs, RmEqu(ei)
  PROVE  CInv'
<1>1. /\ failed = "no" /\ (Idle \/ job.op = "rmsrc") /\ equs[ei] # Nil
      /\ equs' = [equs EXCEPT ![ei] = Nil] /\ deleted' = deleted \cup {ei}
      /\ lequ' = [lequ EXCEPT ![ei] = {}] /\ nl' = [nl EXCEPT ![ei] = {}]
      /\ dual' = [dual EXCEPT ![ei] = Nil] /\ etype' = [etype EXCEPT ![Cst(ei)] = "none"]
      /\ job' = IF equs[ei] = Cst(ei) THEN NoJob ELSE [NoJob EXCEPT !.op = "rm", !.ei = ei, !.cme = equs[ei]]
      /\ UNCHANGED <<next_var, next_equ, prev_equ, vars, last_equ, n, is_deleted>>
      /\ object' = object /\ failed' = failed
  BY DEF RmEqu
<1>2. /\ TypeOK /\ ColumnsInv /\ RowsInv /\ ContentsInv /\ job.op \in {"idle", "rmsrc"}
      /\ \A ej \in Equs : object[ej] = "none" => equs[ej] = Nil
  BY <1>1, LoopFacts, IdleFacts
<1>s. \A ej \in Equs : RowStart(ej) = equs[ej]
  BY <1>2 DEF RowStart
<1>f. \A ej \in Equs, vj \in Vars : Fits(ej, vj)
  BY <1>2 DEF ContentsInv, Ahead
<1>c. Cst(ei) \in Elts /\ Cst(ei).kind = "cst" /\ Cst(ei).ei = ei /\ Cst(ei).vi = Nil
  BY EltFacts
<1>i. /\ Cst(ei) \in Live <=> equs[ei] = Cst(ei)
      /\ equs[ei] = Cst(ei) => Regular(ei) = {} /\ OfRow(ei) = {Cst(ei)}
  BY <1>2, <1>s, RowIs, RowFacts
<1>q. /\ \A ej \in Equs : equs'[ej] = IF ej = ei THEN Nil ELSE equs[ej]
      /\ \A ej \in Equs : lequ'[ej] = IF ej = ei THEN {} ELSE lequ[ej]
      /\ \A ej \in Equs : nl'[ej] = IF ej = ei THEN {} ELSE nl[ej]
      /\ \A x \in Elts : etype'[x] = IF x = Cst(ei) THEN "none" ELSE etype[x]
  BY <1>1, <1>2 DEF TypeOK
<1>L. \A x \in Elts : x \in Live' <=> x # Cst(ei) /\ x \in Live
  BY <1>q DEF Live
<1>3. /\ (job \in Jobs)'
      /\ IF equs[ei] = Cst(ei) THEN job' = NoJob /\ job'.op = "idle"
         ELSE job'.op = "rm" /\ job'.ei = ei /\ job'.cme = equs[ei]
  <2>1. CASE equs[ei] = Cst(ei)
    BY <2>1, <1>1, NoJobFacts
  <2>2. CASE equs[ei] # Cst(ei)
    <3>1. job' = [op |-> "rm", ei |-> ei, src |-> Nil, cme |-> equs[ei], prev |-> Nil, todo |-> {}, vi |-> Nil]
      BY <2>2, <1>1 DEF NoJob
    <3>2. "rm" \in Ops /\ Nil \in Ptr /\ equs[ei] \in Ptr
      BY <1>2 DEF Ops, Ptr, TypeOK
    <3>3. (job \in Jobs)' /\ job'.op = "rm" /\ job'.ei = ei /\ job'.cme = equs[ei]
      BY <3>1, <3>2, JobTyped
    <3> QED
      BY <2>2, <3>3
  <2> QED
    BY <2>1, <2>2
<1>4. ColumnsInv'
  BY <1>1, <1>2, <1>c, <1>L, ColumnsStay
<1>5. RowsInv'
  <2>n. \A x : x \in Live \/ x \in Live' => x \in Elts
    BY DEF Live
  <2>1. \A ej \in Equs : ej # ei => OfRow(ej)' = OfRow(ej)
    BY <2>n, <1>L, <1>c DEF OfRow
  <2>2. /\ equs[ei] = Cst(ei) => OfRow(ei)' = {}
        /\ equs[ei] # Cst(ei) => OfRow(ei)' = OfRow(ei)
    <3>1. CASE equs[ei] = Cst(ei)
      <4>1. \A x \in Elts : x \in Live /\ x.ei = ei /\ x.kind \in {"reg", "cst"} => x = Cst(ei)
        BY <3>1, <1>i DEF OfRow
      <4> QED
        BY <3>1, <4>1, <2>n, <1>L DEF OfRow
    <3>2. CASE equs[ei] # Cst(ei)
      BY <3>2, <2>n, <1>L, <1>i DEF OfRow
    <3> QED
      BY <3>1, <3>2
  <2>3. \A ej \in Equs : Listing(equs[ej], next_var, OfRow(ej))
    BY <1>2, <1>s DEF RowsInv
  <2>4. ASSUME NEW ej \in Equs PROVE Listing(RowStart(ej)', next_var', OfRow(ej)')
    <3>1. CASE ej = ei /\ equs[ei] = Cst(ei)
      <4>1. RowStart(ej)' = Nil
        BY <3>1, <1>3, <1>q DEF RowStart
      <4>2. Listing(Nil, next_var, {})
        BY ListEmpty
      <4> QED
        BY <3>1, <4>1, <4>2, <2>2, <1>1
    <3>2. CASE ej = ei /\ equs[ei] # Cst(ei)
      <4>1. RowStart(ej)' = equs[ei]
        BY <3>2, <1>3 DEF RowStart
      <4> QED
        BY <3>2, <4>1, <2>2, <2>3, <1>1
    <3>3. CASE ej # ei
      <4>1. RowStart(ej)' = equs[ej]
        BY <3>3, <1>3, <1>q DEF RowStart
      <4> QED
        BY <3>3, <4>1, <2>1, <2>3, <1>1
    <3> QED
      BY <3>1, <3>2, <3>3
  <2>5. \A x \in Elts : x \notin Live' \/ x.kind # "reg" => next_var'[x] = Nil
    BY <1>1, <1>2, <1>L, <1>c DEF RowsInv
  <2>6. ASSUME NEW ej \in Equs, Cst(ej) \in Live' PROVE equs'[ej] = Cst(ej)
    <3>1. Cst(ej) \in Elts /\ Cst(ej) # Cst(ei) /\ Cst(ej) \in Live
      BY <2>6, <1>L, <2>n
    <3> QED
      BY <3>1, <1>2, <1>q DEF RowsInv
  <2> QED
    BY <2>4, <2>5, <2>6 DEF RowsInv, Cst, Elt
<1>6. ContentsInv'
  <2>1. ASSUME NEW ej \in Equs, NEW vj \in Vars
        PROVE  Fits(ej, vj)' \/ (job'.op = "rm" /\ ej = job'.ei)
    <3>e. etype'[Reg(ej, vj)] = etype[Reg(ej, vj)] /\ Fits(ej, vj)
      BY <1>f, <1>q, <1>c, EltFacts
    <3>1. CASE ej = ei /\ equs[ei] = Cst(ei)
      <4>1. etype[Reg(ej, vj)] = "none"
        BY <3>1, <1>i, RegFacts
      <4> QED
        BY <3>1, <3>e, <4>1, <1>q DEF Fits
    <3>2. CASE ej = ei /\ equs[ei] # Cst(ei)
      BY <3>2, <1>3
    <3>3. CASE ej # ei
      BY <3>3, <3>e, <1>q DEF Fits
    <3> QED
      BY <3>1, <3>2, <3>3
  <2>2. \A ej \in Equs : object'[ej] = "none" => equs'[ej] = Nil
    BY <1>1, <1>2, <1>q
  <2>3. \A ej \in Equs : job'.op = "rm" /\ ej = job'.ei => lequ'[ej] = {} /\ nl'[ej] = {}
    BY <1>3, <1>q
  <2> QED
    BY <2>1, <2>2, <2>3 DEF ContentsInv
<1>7. JobInv'
  <2>1. CASE equs[ei] = Cst(ei)
    BY <2>1, <1>3, NoneInProgress
  <2>2. CASE equs[ei] # Cst(ei)
    BY <2>2, <1>1, <1>3, <1>q DEF JobInv
  <2> QED
    BY <2>1, <2>2
<1>8. TypeOK'
  <2>1. ElementTypes /\ RowTypes /\ EquationTypes /\ "none" \in Types /\ Nil \in Ptr
    BY <1>2, TypesSplit DEF Types, Ptr
  <2>2. ElementTypes'
    BY <2>1, <1>1 DEF ElementTypes
  <2>3. RowTypes'
    BY <2>1, <1>1 DEF RowTypes
  <2>4. EquationTypes'
    BY <2>1, <1>1 DEF EquationTypes
  <2> QED
    BY <2>2, <2>3, <2>4, <1>1, <1>3, TypesSplitNext DEF Errors
<1> QED
  BY <1>1, <1>4, <1>5, <1>6, <1>7, <1>8 DEF CInv

\* One element of an equation that is removed.
LEMMA RmStepStep ==
  ASSUME CInv, RmStep
  PROVE  CInv'
<1>1. /\ failed = "no" /\ job.op = "rm" /\ Unlink(job.cme)
      /\ next_var' = [next_var EXCEPT ![job.cme] = Nil]
      /\ job' = IF next_var[job.cme] = Nil THEN NoJob ELSE [job EXCEPT !.cme = next_var[job.cme]]
      /\ equs' = equs
      /\ deleted' = deleted /\ object' = object /\ dual' = dual /\ lequ' = lequ /\ nl' = nl
      /\ failed' = failed
  BY DEF RmStep, equdata
<1>2. /\ TypeOK /\ ColumnsInv /\ RowsInv /\ ContentsInv /\ JobInv /\ job \in Jobs
      /\ \A ej \in Equs : object[ej] = "none" => equs[ej] = Nil
  BY <1>1, LoopFacts, TypesSplit
<1>i. PICK ei \in Equs : ei = job.ei /\ equs[ei] = Nil /\ job.cme # Nil /\ lequ[ei] = {} /\ nl[ei] = {}
  BY <1>1, <1>2 DEF JobInv, ContentsInv
<1>s. RowStart(ei) = job.cme /\ \A ej \in Equs \ {ei} : RowStart(ej) = equs[ej]
  BY <1>1, <1>i DEF RowStart
<1>e. PICK e \in Live : e = job.cme /\ e \in Elts /\ e.kind = "reg" /\ e.ei = ei /\ e \in OfRow(ei)
  <2>1. job.cme \in OfRow(ei)
    BY <1>2, <1>i, <1>s, RowFacts
  <2>2. job.cme \in Live /\ job.cme \in Elts /\ job.cme.ei = ei /\ job.cme.kind \in {"reg", "cst"}
    BY <2>1 DEF OfRow, Live
  <2>3. job.cme.kind # "cst"
    <3>1. Cst(ei) \notin Live
      BY <1>2, <1>i, EltFacts, NilFacts DEF RowsInv
    <3> QED
      BY <3>1, <2>2, EltKinds
  <2> QED
    BY <2>1, <2>2, <2>3
<1>n. PICK s \in Ptr : s = next_var[e]
  BY <1>2, <1>e DEF TypeOK
<1>a. \A x \in Elts : next_var'[x] = IF x = e THEN Nil ELSE next_var[x]
  BY <1>1, <1>2, <1>e DEF TypeOK
<1>3. /\ job' \in Jobs
      /\ IF s = Nil THEN job' = NoJob /\ job'.op = "idle"
         ELSE job'.op = "rm" /\ job'.ei = ei /\ job'.cme = s
  <2>1. CASE s = Nil
    BY <2>1, <1>1, <1>e, <1>n, NoJobFacts
  <2>2. CASE s # Nil
    <3>1. job' = [job EXCEPT !.cme = s]
      BY <2>2, <1>1, <1>e, <1>n
    <3>2. job' \in Jobs /\ job'.op = "rm" /\ job'.ei = ei /\ job'.cme = s
      BY <3>1, <1>1, <1>2, <1>i DEF Jobs
    <3> QED
      BY <2>2, <3>2
  <2> QED
    BY <2>1, <2>2
<1>4. ColumnsInv' /\ Live' = Live \ {e}
  BY <1>1, <1>2, <1>e, UnlinkColumns
<1>5. ElementTypes' /\ \A x \in Elts : etype'[x] = IF x = e THEN "none" ELSE etype[x]
  BY <1>1, <1>2, <1>e, UnlinkTypes
<1>r. RowStart(ei)' = s /\ \A ej \in Equs \ {ei} : RowStart(ej)' = RowStart(ej)
  BY <1>1, <1>3, <1>i, <1>s DEF RowStart
<1>o. \A ej \in Equs : OfRow(ej)' = IF ej = ei THEN OfRow(ei) \ {e} ELSE OfRow(ej)
  BY <1>4, <1>e DEF OfRow
<1>l. Listing(s, next_var', OfRow(ei) \ {e})
  <2>1. Listing(e, next_var, OfRow(ei)) /\ Nil \notin OfRow(ei)
    BY <1>2, <1>s, <1>e, NilFacts DEF RowsInv
  <2>2. Listing(s, next_var, OfRow(ei) \ {e})
    BY <2>1, <1>e, <1>n, ListTail
  <2>3. \A x \in OfRow(ei) \ {e} : next_var'[x] = next_var[x]
    BY <1>a DEF OfRow, Live
  <2> QED
    BY <2>2, <2>3, ListSame
<1>6. RowsInv'
  <2>1. ASSUME NEW ej \in Equs PROVE Listing(RowStart(ej)', next_var', OfRow(ej)')
    <3>1. CASE ej = ei
      BY <3>1, <1>l, <1>o, <1>r
    <3>2. CASE ej # ei
      <4>1. Listing(RowStart(ej), next_var, OfRow(ej))
        BY <1>2 DEF RowsInv
      <4>2. \A x \in OfRow(ej) : next_var'[x] = next_var[x]
        BY <3>2, <1>a, <1>e DEF OfRow, Live
      <4>3. Listing(RowStart(ej), next_var', OfRow(ej))
        BY <4>1, <4>2, ListSame
      <4> QED
        BY <3>2, <4>3, <1>o, <1>r
    <3> QED
      BY <3>1, <3>2
  <2>2. \A x \in Elts : x \notin Live' \/ x.kind # "reg" => next_var'[x] = Nil
    BY <1>2, <1>4, <1>a DEF RowsInv
  <2>3. \A ej \in Equs : Cst(ej) \in Live' => equs'[ej] = Cst(ej)
    BY <1>1, <1>2, <1>4 DEF RowsInv
  <2> QED
    BY <2>1, <2>2, <2>3 DEF RowsInv, Cst, Elt
<1>7. ContentsInv'
  <2>1. ASSUME NEW ej \in Equs, NEW vj \in Vars
        PROVE  Fits(ej, vj)' \/ (job'.op = "rm" /\ ej = job'.ei)
    <3>1. CASE ej = ei /\ s = Nil
      <4>1. OfRow(ei)' = {}
        <5>1. Nil \notin OfRow(ei) \ {e}
          BY NilFacts
        <5> QED
          BY <3>1, <5>1, <1>l, <1>o, ListFirst
      <4>2. Reg(ei, vj) \notin Live'
        BY <4>1, EltFacts DEF OfRow
      <4>3. etype'[Reg(ei, vj)] = "none"
        BY <4>2, RegFacts
      <4> QED
        BY <3>1, <4>3, <1>1, <1>i DEF Fits
    <3>2. CASE ej = ei /\ s # Nil
      BY <3>2, <1>3
    <3>3. CASE ej # ei
      <4>1. Fits(ej, vj)
        BY <3>3, <1>1, <1>2, <1>i DEF ContentsInv, Ahead
      <4>2. etype'[Reg(ej, vj)] = etype[Reg(ej, vj)]
        BY <3>3, <1>5, <1>e, EltFacts
      <4> QED
        BY <4>1, <4>2, <1>1 DEF Fits
    <3> QED
      BY <3>1, <3>2, <3>3
  <2>2. \A ej \in Equs : object'[ej] = "none" => equs'[ej] = Nil
    BY <1>1, <1>2
  <2>3. \A ej \in Equs : job'.op = "rm" /\ ej = job'.ei => lequ'[ej] = {} /\ nl'[ej] = {}
    BY <1>1, <1>3, <1>i
  <2> QED
    BY <2>1, <2>2, <2>3 DEF ContentsInv
<1>8. JobInv'
  <2>1. CASE s = Nil
    BY <2>1, <1>3, NoneInProgress
  <2>2. CASE s # Nil
    BY <2>2, <1>1, <1>3, <1>i DEF JobInv
  <2> QED
    BY <2>1, <2>2
<1>9. TypeOK'
  <2>1. RowTypes /\ EquationTypes /\ Nil \in Ptr
    BY <1>2, TypesSplit DEF Ptr
  <2>2. RowTypes' /\ EquationTypes'
    BY <2>1, <1>1 DEF RowTypes, EquationTypes
  <2> QED
    BY <2>2, <1>1, <1>3, <1>5, TypesSplitNext DEF Errors
<1> QED
  BY <1>1, <1>4, <1>6, <1>7, <1>8, <1>9 DEF CInv

-----------------------------------------------------------------------------
(***************************************************************************)
(* Copying.                                                                *)
(***************************************************************************)

\* An equation without elements.
LEMMA NoRow ==
  ASSUME TypeOK, RowsInv, NEW ei \in Equs, RowStart(ei) = equs[ei], equs[ei] \in {Nil, Cst(ei)}
  PROVE  Regular(ei) = {} /\ \A vi \in Vars : etype[Reg(ei, vi)] = "none"
<1>1. FirstCme(ei) = Nil
  BY DEF FirstCme
<1>2. Regular(ei) = {}
  BY <1>1, RowIs, NilFacts
<1> QED
  BY <1>2, RegFacts

\* The start of a copy.
LEMMA StartDupStep ==
  ASSUME CInv, NEW src \in Equs, NEW dst \in Equs, NEW how \in {"dup", "except", "flip"},
         NEW vi \in Vars \cup {Nil}, StartDup(src, dst, how, vi)
  PROVE  CInv'
<1>1. /\ Idle /\ object[src] # "none" /\ equs[src] # Nil /\ object[dst] = "none"
      /\ (vi # Nil => vi \in lequ[src])
      /\ object' = [object EXCEPT ![dst] = object[src]]
      /\ dual' = [dual EXCEPT ![dst] = IF how = "dup" THEN Nil ELSE dual[src]]
      /\ lequ' = [lequ EXCEPT ![dst] = lequ[src] \ {vi}] /\ nl' = [nl EXCEPT ![dst] = nl[src]]
      /\ UNCHANGED matrix /\ UNCHANGED <<deleted, failed>>
  BY DEF StartDup, Editable
<1>2. /\ TypeOK /\ ColumnsInv /\ RowsInv /\ job.op = "idle" /\ failed = "no" /\ failed' = "no"
      /\ \A ej \in Equs : RowStart(ej) = equs[ej]
      /\ \A ej \in Equs, vj \in Vars : Fits(ej, vj)
      /\ \A ej \in Equs : object[ej] = "none" => equs[ej] = Nil
  BY <1>1, IdleFacts
<1>s. src # dst /\ equs[dst] = Nil
  BY <1>1, <1>2
<1>r. /\ Listing(FirstCme(src), next_var, Regular(src)) /\ FirstCme(src) \in Ptr
      /\ Regular(dst) = {} /\ \A vj \in Vars : etype[Reg(dst, vj)] = "none"
      /\ Cst(dst) \notin Live
  <2>1. FirstCme(src) \in Ptr
    BY <1>2 DEF FirstCme, TypeOK, Ptr
  <2>2. Cst(dst) \notin Live
    BY <1>2, <1>s, EltFacts, NilFacts DEF RowsInv
  <2> QED
    BY <2>1, <2>2, <1>2, <1>s, RowIs, NoRow
<1>3. /\ (job \in Jobs)' /\ job'.op = "copy" /\ job'.ei = dst /\ job'.src = src /\ job'.vi = vi
      /\ job'.cme = FirstCme(src) /\ job'.prev = Nil
  <2>1. job' = [op |-> "copy", ei |-> dst, src |-> src, cme |-> FirstCme(src), prev |-> Nil, todo |-> {}, vi |-> vi]
    BY DEF StartDup, NoJob
  <2>2. "copy" \in Ops /\ Nil \in Ptr
    BY DEF Ops, Ptr
  <2> QED
    BY <2>1, <2>2, <1>r, JobTyped
<1>4. /\ ColumnsInv' /\ RowsInv' /\ ElementTypes' /\ RowTypes' /\ etype' = etype /\ next_var' = next_var
      /\ equs' = equs /\ Live' = Live /\ \A ej \in Equs : Regular(ej)' = Regular(ej)
  BY <1>1, <1>2, <1>3, MatrixWaits
<1>q. /\ \A ej \in Equs : lequ'[ej] = IF ej = dst THEN lequ[src] \ {vi} ELSE lequ[ej]
      /\ \A ej \in Equs : nl'[ej] = IF ej = dst THEN nl[src] ELSE nl[ej]
      /\ \A ej \in Equs : object'[ej] = IF ej = dst THEN object[src] ELSE object[ej]
  BY <1>1, <1>2 DEF TypeOK
<1>5. EquationTypes'
  <2>1. EquationTypes
    BY <1>2, TypesSplit
  <2> QED
    BY <2>1, <1>1 DEF EquationTypes
<1>6. ContentsInv'
  <2>1. ASSUME NEW ej \in Equs, NEW vj \in Vars PROVE Fits(ej, vj)' \/ (job'.op = "copy" /\ ej = job'.ei)
    <3>1. CASE ej = dst
      BY <3>1, <1>3
    <3>2. CASE ej # dst
      <4>1. Fits(ej, vj)
        BY <1>2
      <4> QED
        BY <3>2, <4>1, <1>4, <1>q DEF Fits
    <3> QED
      BY <3>1, <3>2
  <2>2. \A ej \in Equs : object'[ej] = "none" => equs'[ej] = Nil
    BY <1>1, <1>2, <1>4, <1>q
  <2> QED
    BY <2>1, <2>2, <1>3 DEF ContentsInv
<1>7. JobInv'
  <2>1. EndOfRow(job.prev, job.ei)'
    BY <1>3, <1>4, <1>r DEF EndOfRow
  <2>2. CopyOf(job.ei, job.src, job.vi)'
    BY <1>1, <1>3, <1>4, <1>s, <1>q DEF CopyOf
  <2>3. PICK T : T = Regular(src)
    OBVIOUS
  <2>4. Listing(job.cme, next_var, T)'
    BY <2>3, <1>3, <1>4, <1>r
  <2>5. Copied(T)'
    BY <2>3, <1>3, <1>4, <1>r, RegFacts DEF Copied
  <2>6. T \in SUBSET Regular(job.src)'
    BY <2>3, <1>3, <1>4
  <2>7. object'[dst] # "none"
    BY <1>1, <1>q
  <2>8. Cst(job'.ei) \notin Live'
    BY <1>3, <1>4, <1>r
  <2> QED
    BY <2>1, <2>2, <2>4, <2>5, <2>6, <2>7, <2>8, <1>3 DEF JobInv, Cst, Elt
<1>8. TypeOK'
  BY <1>2, <1>3, <1>4, <1>5, TypesSplitNext DEF Errors
<1> QED
  BY <1>2, <1>4, <1>6, <1>7, <1>8 DEF CInv

\* What a step of a copy starts from.
LEMMA CopyFacts ==
  ASSUME CInv, failed = "no", job.op = "copy"
  PROVE  /\ TypeOK /\ ColumnsInv /\ RowsInv /\ job \in Jobs
         /\ \A ei \in Equs : RowStart(ei) = equs[ei]
         /\ \A ei \in Equs : object[ei] = "none" => equs[ei] = Nil
         /\ job.ei \in Equs /\ object[job.ei] # "none" /\ Cst(job.ei) \notin Live
         /\ EndOfRow(job.prev, job.ei) /\ CopyOf(job.ei, job.src, job.vi)
         /\ \E T \in SUBSET Regular(job.src) : Listing(job.cme, next_var, T) /\ Copied(T)
         /\ \A ei \in Equs \ {job.ei}, vi \in Vars : Fits(ei, vi)
<1>1. TypeOK /\ ColumnsInv /\ RowsInv /\ ContentsInv /\ JobInv /\ job \in Jobs
  BY LoopFacts, TypesSplit
<1>2. \A ei \in Equs \ {job.ei}, vi \in Vars : Fits(ei, vi)
  BY <1>1 DEF ContentsInv, Ahead
<1> QED
  BY <1>1, <1>2, LoopFacts DEF JobInv

\* The next element of the source is left out.
LEMMA CopySkipStep ==
  ASSUME CInv, failed = "no", job.op = "copy", job.cme # Nil, job.cme.vi = job.vi,
         job' = [job EXCEPT !.cme = next_var[job.cme]], UNCHANGED matrix,
         UNCHANGED <<deleted, equdata, failed>>
  PROVE  CInv'
<1>2. /\ TypeOK /\ ColumnsInv /\ RowsInv /\ job \in Jobs
      /\ \A ej \in Equs : object[ej] = "none" => equs[ej] = Nil
      /\ object[job.ei] # "none" /\ Cst(job.ei) \notin Live
      /\ EndOfRow(job.prev, job.ei) /\ CopyOf(job.ei, job.src, job.vi)
      /\ \A ej \in Equs \ {job.ei}, vj \in Vars : Fits(ej, vj)
  BY CopyFacts
<1>i. PICK ei \in Equs, src \in Equs : ei = job.ei /\ src = job.src /\ src # ei
  BY <1>2, CopyFacts DEF CopyOf
<1>T. PICK T \in SUBSET Regular(src) : Listing(job.cme, next_var, T) /\ Copied(T)
  BY <1>i, CopyFacts
<1>e. PICK e \in T : e = job.cme /\ e \in Elts /\ e = Reg(src, e.vi) /\ e.vi = job.vi
  <2>1. Nil \notin T
    BY NilFacts
  <2>2. job.cme \in T
    BY <2>1, <1>T, ListFirst
  <2> QED
    BY <2>2, RegFacts
<1>u. /\ object' = object /\ dual' = dual /\ lequ' = lequ /\ nl' = nl /\ deleted' = deleted /\ failed' = "no"
  BY DEF equdata
<1>3. /\ (job \in Jobs)' /\ job'.op = "copy" /\ job'.ei = ei /\ job'.src = src /\ job'.vi = job.vi
      /\ job'.cme = next_var[e] /\ job'.prev = job.prev
  <2>1. next_var[e] \in Ptr
    BY <1>2, <1>e DEF TypeOK
  <2> QED
    BY <2>1, <1>2, <1>i, <1>e DEF Jobs
<1>4. /\ ColumnsInv' /\ RowsInv' /\ ElementTypes' /\ RowTypes' /\ etype' = etype /\ next_var' = next_var
      /\ equs' = equs /\ Live' = Live /\ \A ej \in Equs : Regular(ej)' = Regular(ej)
  BY <1>2, <1>3, MatrixWaits
<1>5. EquationTypes'
  <2>1. EquationTypes
    BY <1>2, TypesSplit
  <2> QED
    BY <2>1, <1>u DEF EquationTypes
<1>6. ContentsInv'
  <2>1. \A ej \in Equs \ {ei}, vj \in Vars : Fits(ej, vj)'
    BY <1>2, <1>i, <1>4, <1>u DEF Fits
  <2> QED
    BY <2>1, <1>2, <1>3, <1>4, <1>u DEF ContentsInv
<1>7. JobInv'
  <2>1. EndOfRow(job.prev, job.ei)'
    BY <1>2, <1>3, <1>4, <1>i DEF EndOfRow
  <2>2. CopyOf(job.ei, job.src, job.vi)'
    BY <1>2, <1>3, <1>4, <1>i, <1>u DEF CopyOf
  <2>3. PICK S : S = T \ {e}
    OBVIOUS
  <2>4. Listing(job.cme, next_var, S)'
    <3>1. Listing(next_var[e], next_var, T \ {e})
      <4>1. Listing(e, next_var, T) /\ Nil \notin T
        BY <1>T, <1>e, NilFacts
      <4> QED
        BY <4>1, ListTail
    <3> QED
      BY <3>1, <2>3, <1>3, <1>4
  <2>5. Copied(S)'
    <3>1. ASSUME NEW vj \in Vars
          PROVE  etype[Reg(ei, vj)] = IF vj # job.vi /\ Reg(src, vj) \notin S THEN etype[Reg(src, vj)] ELSE "none"
      <4>1. etype[Reg(ei, vj)] = IF vj # job.vi /\ Reg(src, vj) \notin T THEN etype[Reg(src, vj)] ELSE "none"
        BY <1>T, <1>i DEF Copied
      <4>2. Reg(src, vj) = e => vj = job.vi
        BY <1>e, RegFacts
      <4> QED
        BY <4>1, <4>2, <2>3
    <3> QED
      BY <3>1, <1>3, <1>4 DEF Copied
  <2>6. S \in SUBSET Regular(job.src)'
    BY <2>3, <1>3, <1>4
  <2>7. object'[ei] # "none" /\ Cst(job'.ei) \notin Live'
    BY <1>2, <1>i, <1>u, <1>3, <1>4
  <2> QED
    BY <2>1, <2>2, <2>4, <2>5, <2>6, <2>7, <1>3 DEF JobInv, Cst, Elt
<1>8. TypeOK'
  BY <1>u, <1>3, <1>4, <1>5, TypesSplitNext DEF Errors
<1> QED
  BY <1>u, <1>4, <1>6, <1>7, <1>8 DEF CInv

\* The next element of the source is copied.
LEMMA CopyOneStep ==
  ASSUME CInv, failed = "no", job.op = "copy", job.cme # Nil, job.cme.vi # job.vi,
         EltNew(Reg(job.ei, job.cme.vi), CopyType(job.cme)), Link(Reg(job.ei, job.cme.vi), job.prev),
         job' = [job EXCEPT !.cme = next_var[job.cme], !.prev = Reg(job.ei, job.cme.vi)],
         UNCHANGED <<deleted, equdata, failed>>
  PROVE  CInv'
<1>2. /\ TypeOK /\ ColumnsInv /\ RowsInv /\ job \in Jobs
      /\ \A ej \in Equs : RowStart(ej) = equs[ej]
      /\ \A ej \in Equs : object[ej] = "none" => equs[ej] = Nil
      /\ object[job.ei] # "none"
      /\ EndOfRow(job.prev, job.ei) /\ CopyOf(job.ei, job.src, job.vi)
      /\ \A ej \in Equs \ {job.ei}, vj \in Vars : Fits(ej, vj)
  BY CopyFacts
<1>i. PICK ei \in Equs, src \in Equs : ei = job.ei /\ src = job.src /\ src # ei
  BY <1>2, CopyFacts DEF CopyOf
<1>T. PICK T \in SUBSET Regular(src) : Listing(job.cme, next_var, T) /\ Copied(T)
  BY <1>i, CopyFacts
<1>e. PICK e \in T : e = job.cme
  <2>1. Nil \notin T
    BY NilFacts
  <2> QED
    BY <2>1, <1>T, ListFirst
<1>v. PICK vi \in Vars : vi = e.vi /\ vi # job.vi /\ e \in Elts /\ e = Reg(src, vi) /\ e \in Live
  BY <1>e, RegFacts
<1>n. PICK new \in Elts : new = Reg(ei, vi) /\ new.kind = "reg" /\ new.ei = ei /\ new.vi = vi /\ new # Nil
  BY EltFacts, NilFacts
<1>y. PICK ty \in {"Lin", "NL"} : ty = etype[e]
  <2>1. Fits(src, vi) /\ etype[e] # "none"
    BY <1>2, <1>i, <1>v DEF Live
  <2> QED
    BY <2>1, <1>v DEF Fits
<1>u. /\ object' = object /\ dual' = dual /\ lequ' = lequ /\ nl' = nl /\ deleted' = deleted /\ failed' = "no"
  BY DEF equdata
<1>s. EltNew(new, ty) /\ Link(new, job.prev) /\ new \notin Live
  <2>1. EltNew(new, ty) /\ Link(new, job.prev)
    BY <1>i, <1>e, <1>v, <1>n, <1>y DEF CopyType
  <2>2. etype[new] = "none"
    BY <1>T, <1>i, <1>e, <1>v, <1>n DEF Copied
  <2> QED
    BY <2>1, <2>2 DEF Live
<1>3. /\ (job \in Jobs)' /\ job'.op = "copy" /\ job'.ei = ei /\ job'.src = src /\ job'.vi = job.vi
      /\ job'.cme = next_var[e] /\ job'.prev = new
  <2>1. next_var[e] \in Ptr /\ new \in Ptr
    BY <1>2, <1>v DEF TypeOK, Ptr
  <2>2. job' = [job EXCEPT !.cme = next_var[e], !.prev = new]
    BY <1>i, <1>e, <1>v, <1>n
  <2> QED
    BY <2>1, <2>2, <1>2, <1>i DEF Jobs
<1>4. ColumnsInv' /\ Live' = (Live \ {Cst(ei), Obj(vi)}) \cup {new}
  BY <1>2, <1>n, <1>s, EltNewColumns
<1>5. /\ RowsInv' /\ Regular(ei)' = Regular(ei) \cup {new} /\ next_var'[new] = Nil
      /\ \A ej \in Equs \ {ei} : Regular(ej)' = Regular(ej) /\ equs'[ej] = equs[ej]
      /\ \A x \in Elts : next_var'[x] = IF x = job.prev THEN new ELSE next_var[x]
  BY <1>2, <1>3, <1>4, <1>i, <1>n, <1>s, LinkRows
<1>6. /\ ElementTypes'
      /\ \A ej \in Equs, vj \in Vars :
            etype'[Reg(ej, vj)] = IF ej = ei /\ vj = vi THEN ty ELSE etype[Reg(ej, vj)]
  <2>1. /\ ElementTypes'
        /\ \A ej \in Equs, vj \in Vars : etype'[Reg(ej, vj)] = IF Reg(ej, vj) = new THEN ty ELSE etype[Reg(ej, vj)]
    BY <1>2, <1>n, <1>s, EltNewTypes
  <2> QED
    BY <2>1, <1>n, RegFacts
<1>7. RowTypes' /\ EquationTypes'
  <2>1. EquationTypes
    BY <1>2, TypesSplit
  <2>2. EquationTypes'
    BY <2>1, <1>u DEF EquationTypes
  <2> QED
    BY <2>2, <1>2, <1>n, <1>s, LinkTypes
<1>8. ContentsInv'
  <2>1. \A ej \in Equs \ {ei}, vj \in Vars : Fits(ej, vj)'
    BY <1>2, <1>i, <1>6, <1>u DEF Fits
  <2>2. \A ej \in Equs : object'[ej] = "none" => equs'[ej] = Nil
    BY <1>2, <1>i, <1>5, <1>u
  <2> QED
    BY <2>1, <2>2, <1>3 DEF ContentsInv
<1>9. JobInv'
  <2>1. EndOfRow(job.prev, job.ei)'
    BY <1>3, <1>5, <1>n DEF EndOfRow
  <2>2. CopyOf(job.ei, job.src, job.vi)'
    BY <1>2, <1>3, <1>5, <1>i, <1>u DEF CopyOf
  <2>3. PICK S : S = T \ {e}
    OBVIOUS
  <2>4. Listing(job.cme, next_var, S)'
    <3>1. Listing(next_var[e], next_var, S)
      <4>1. Listing(e, next_var, T) /\ Nil \notin T
        BY <1>T, <1>e, NilFacts
      <4> QED
        BY <4>1, <2>3, ListTail
    <3>2. ASSUME NEW x \in S PROVE next_var'[x] = next_var[x]
      <4>1. x \in Elts /\ x.ei = src /\ x # Nil
        BY <2>3, RegFacts, NilFacts
      <4>2. job.prev = Nil \/ job.prev.ei = ei
        BY <1>2, <1>i, RegFacts DEF EndOfRow
      <4> QED
        BY <4>1, <4>2, <1>i, <1>5
    <3>3. Listing(next_var[e], next_var', S)
      BY <3>1, <3>2, ListSame
    <3> QED
      BY <3>3, <1>3
  <2>5. Copied(S)'
    <3>1. ASSUME NEW vj \in Vars
          PROVE  etype'[Reg(ei, vj)] = IF vj # job.vi /\ Reg(src, vj) \notin S THEN etype'[Reg(src, vj)] ELSE "none"
      <4>1. etype[Reg(ei, vj)] = IF vj # job.vi /\ Reg(src, vj) \notin T THEN etype[Reg(src, vj)] ELSE "none"
        BY <1>T, <1>i DEF Copied
      <4>2. Reg(src, vj) = e <=> vj = vi
        BY <1>v, RegFacts
      <4>3. etype'[Reg(src, vj)] = etype[Reg(src, vj)]
        BY <1>i, <1>6
      <4>4. CASE vj = vi
        BY <4>2, <4>3, <4>4, <2>3, <1>v, <1>y, <1>6
      <4>5. CASE vj # vi
        BY <4>1, <4>2, <4>3, <4>5, <2>3, <1>6
      <4> QED
        BY <4>4, <4>5
    <3> QED
      BY <3>1, <1>3 DEF Copied
  <2>6. S \in SUBSET Regular(job.src)'
    BY <2>3, <1>3, <1>5, <1>i
  <2>7. object'[ei] # "none"
    BY <1>2, <1>i, <1>u
  <2>8. Cst(job'.ei) \notin Live'
    BY <1>3, <1>4, <1>n, EltFacts
  <2> QED
    BY <2>1, <2>2, <2>4, <2>5, <2>6, <2>7, <2>8, <1>3 DEF JobInv, Cst, Elt
<1>10. TypeOK'
  BY <1>u, <1>3, <1>6, <1>7, TypesSplitNext DEF Errors
<1> QED
  BY <1>u, <1>4, <1>5, <1>8, <1>9, <1>10 DEF CInv

\* One element of the source of a copy.
LEMMA CopyStepStep ==
  ASSUME CInv, CopyStep
  PROVE  CInv'
BY CopySkipStep, CopyOneStep DEF CopyStep

\* The end of a copy.
LEMMA CopyEndStep ==
  ASSUME CInv, CopyEnd
  PROVE  CInv'
<1>1. /\ failed = "no" /\ job.op = "copy" /\ job.cme = Nil
      /\ job' = [job EXCEPT !.op = "rmsrc", !.prev = Nil]
      /\ object' = object /\ dual' = dual /\ lequ' = lequ /\ nl' = nl /\ deleted' = deleted /\ failed' = "no"
  BY DEF CopyEnd, equdata
<1>2. /\ TypeOK /\ ColumnsInv /\ RowsInv /\ job \in Jobs
      /\ \A ej \in Equs : RowStart(ej) = equs[ej]
      /\ \A ej \in Equs : object[ej] = "none" => equs[ej] = Nil
      /\ object[job.ei] # "none"
      /\ EndOfRow(job.prev, job.ei) /\ CopyOf(job.ei, job.src, job.vi)
      /\ \A ej \in Equs \ {job.ei}, vj \in Vars : Fits(ej, vj)
  BY <1>1, CopyFacts
<1>i. PICK ei \in Equs, src \in Equs : ei = job.ei /\ src = job.src /\ src # ei
  BY <1>1, <1>2, CopyFacts DEF CopyOf
<1>T. \A vj \in Vars : etype[Reg(ei, vj)] = IF vj # job.vi THEN etype[Reg(src, vj)] ELSE "none"
  <2>1. PICK T \in SUBSET Regular(src) : Listing(Nil, next_var, T) /\ Copied(T)
    BY <1>1, <1>i, CopyFacts
  <2>2. T = {}
    <3>1. Nil \notin T
      BY NilFacts
    <3> QED
      BY <2>1, <3>1, ListFirst
  <2> QED
    BY <2>1, <2>2, <1>i DEF Copied
<1>3. /\ (job \in Jobs)' /\ job'.op = "rmsrc" /\ job'.ei = ei /\ job'.src = src /\ job'.vi = job.vi
  <2>1. "rmsrc" \in Ops /\ Nil \in Ptr
    BY DEF Ops, Ptr
  <2> QED
    BY <2>1, <1>1, <1>2, <1>i DEF Jobs
<1>c. Cst(ei) \in Elts /\ Cst(ei).kind = "cst" /\ Cst(ei).vi = Nil /\ Cst(ei) \in Ptr /\ Cst(ei) # Nil
  BY EltFacts, NilFacts DEF Ptr
<1>4. /\ ColumnsInv' /\ RowsInv' /\ ElementTypes' /\ RowTypes'
      /\ \A ej \in Equs, vj \in Vars : etype'[Reg(ej, vj)] = etype[Reg(ej, vj)]
      /\ \A ej \in Equs : ej # ei => equs'[ej] = equs[ej]
      /\ equs'[ei] # Nil
  <2>1. CASE equs[ei] = Nil
    <3>1. /\ etype' = [etype EXCEPT ![Cst(ei)] = "CstEqu"] /\ equs' = [equs EXCEPT ![ei] = Cst(ei)]
          /\ UNCHANGED <<next_var, next_equ, prev_equ, vars, last_equ, n, is_deleted>>
      BY <2>1, <1>i DEF CopyEnd, CstEqu
    <3>2. /\ \A x \in Elts : etype'[x] = IF x = Cst(ei) THEN "CstEqu" ELSE etype[x]
          /\ \A ej \in Equs : equs'[ej] = IF ej = ei THEN Cst(ei) ELSE equs[ej]
      BY <3>1, <1>2 DEF TypeOK
    <3>3. \A x \in Elts : x \in Live' <=> x = Cst(ei) \/ x \in Live
      BY <3>2 DEF Live
    <3>4. ColumnsInv'
      BY <3>1, <3>3, <1>2, <1>c, ColumnsStay
    <3>5. RowsInv'
      BY <2>1, <3>1, <3>3, <1>1, <1>2, <1>3, CstRows
    <3>6. ElementTypes' /\ RowTypes'
      <4>1. ElementTypes /\ RowTypes /\ "CstEqu" \in Types
        BY <1>2, TypesSplit DEF Types
      <4> QED
        BY <4>1, <3>1, <1>c DEF ElementTypes, RowTypes
    <3> QED
      BY <3>2, <3>4, <3>5, <3>6, <1>c, EltFacts
  <2>2. CASE equs[ei] # Nil
    <3>1. UNCHANGED matrix
      BY <2>2, <1>i DEF CopyEnd
    <3>2. ColumnsInv' /\ RowsInv' /\ ElementTypes' /\ RowTypes' /\ etype' = etype /\ equs' = equs
      BY <3>1, <1>1, <1>2, <1>3, MatrixWaits
    <3> QED
      BY <2>2, <3>2
  <2> QED
    BY <2>1, <2>2
<1>5. EquationTypes'
  <2>1. EquationTypes
    BY <1>2, TypesSplit
  <2> QED
    BY <2>1, <1>1 DEF EquationTypes
<1>6. ContentsInv'
  <2>1. ASSUME NEW ej \in Equs, NEW vj \in Vars PROVE Fits(ej, vj)'
    <3>1. CASE ej # ei
      BY <3>1, <1>1, <1>2, <1>i, <1>4 DEF Fits
    <3>2. CASE ej = ei
      <4>1. Fits(src, vj)
        BY <1>2, <1>i
      <4>2. /\ lequ[ei] = lequ[src] \ {job.vi} /\ nl[ei] = nl[src]
            /\ vj = job.vi => vj \in lequ[src]
        BY <1>2, <1>i, NilFacts DEF CopyOf
      <4>3. Fits(ei, vj)
        BY <4>1, <4>2, <1>T DEF Fits
      <4> QED
        BY <3>2, <4>3, <1>1, <1>4 DEF Fits
    <3> QED
      BY <3>1, <3>2
  <2>2. \A ej \in Equs : object'[ej] = "none" => equs'[ej] = Nil
    BY <1>1, <1>2, <1>i, <1>4
  <2> QED
    BY <2>1, <2>2, <1>3, AllFit
<1>7. JobInv'
  <2>1. CopyOf(job.ei, job.src, job.vi)'
    BY <1>1, <1>2, <1>3, <1>4, <1>i DEF CopyOf
  <2>2. Copied({})'
    BY <1>T, <1>3, <1>4 DEF Copied
  <2>3. object'[ei] # "none"
    BY <1>1, <1>2, <1>i
  <2> QED
    BY <2>1, <2>2, <2>3, <1>3, <1>4 DEF JobInv
<1>8. TypeOK'
  BY <1>1, <1>3, <1>4, <1>5, TypesSplitNext DEF Errors
<1> QED
  BY <1>1, <1>4, <1>6, <1>7, <1>8 DEF CInv

-----------------------------------------------------------------------------
(***************************************************************************)
(* The invariant holds.                                                    *)
(***************************************************************************)

\* The matrix is empty at first.
LEMMA InitCInv == Init => CInv
<1> SUFFICES ASSUME Init PROVE CInv
  OBVIOUS
<1>1. /\ etype = [e \in Elts |-> "none"] /\ next_var = [e \in Elts |-> Nil]
      /\ next_equ = [e \in Elts |-> Nil] /\ prev_equ = [e \in Elts |-> Nil]
      /\ equs = [ei \in Equs |-> Nil] /\ vars = [vi \in Vars |-> Nil] /\ last_equ = [vi \in Vars |-> Nil]
      /\ n = 0 /\ is_deleted = [vi \in Vars |-> FALSE] /\ deleted = {}
      /\ object = [ei \in Equs |-> "none"] /\ dual = [ei \in Equs |-> Nil]
      /\ lequ = [ei \in Equs |-> {}] /\ nl = [ei \in Equs |-> {}] /\ job = NoJob /\ failed = "no"
  BY DEF Init
<1>2. Live = {}
  BY <1>1 DEF Live
<1>3. TypeOK
  <2>1. ElementTypes
    BY <1>1 DEF ElementTypes, Types, Ptr
  <2>2. RowTypes /\ EquationTypes
    BY <1>1 DEF RowTypes, EquationTypes, Ptr
  <2> QED
    BY <2>1, <2>2, <1>1, NoJobFacts, TypesSplit DEF Errors
<1>4. ColumnsInv
  <2>1. \A vi \in Vars : Listing(vars[vi], next_equ, OfColumn(vi))
    BY <1>1, <1>2, ListEmpty DEF OfColumn
  <2>2. CountExact
    <3>1. {vi \in Vars : vars[vi] # Nil} = {}
      BY <1>1
    <3> QED
      BY <3>1, <1>1, FS_EmptySet DEF CountExact
  <2>3. \A vi \in Vars : Obj(vi) \in Elts
    BY EltFacts
  <2> QED
    BY <1>1, <1>2, <2>1, <2>2, <2>3 DEF ColumnsInv
<1>5. RowsInv
  <2>1. \A ei \in Equs : RowStart(ei) = Nil
    BY <1>1, NoJobFacts DEF RowStart
  <2>2. \A ei \in Equs : Listing(RowStart(ei), next_var, OfRow(ei))
    BY <1>2, <2>1, ListEmpty DEF OfRow
  <2> QED
    BY <1>1, <1>2, <2>2 DEF RowsInv
<1>6. ContentsInv
  <2>1. \A ei \in Equs, vi \in Vars : Fits(ei, vi)
    BY <1>1, EltFacts DEF Fits
  <2> QED
    BY <1>1, <2>1, NoJobFacts DEF ContentsInv
<1>7. JobInv
  BY <1>1, NoJobFacts DEF JobInv
<1> QED
  BY <1>1, <1>3, <1>4, <1>5, <1>6, <1>7 DEF CInv

\* Nothing happens.
LEMMA StutterCInv ==
  ASSUME CInv, UNCHANGED cvars
  PROVE  CInv'
<1>1. /\ UNCHANGED matrix /\ job' = job /\ failed' = failed /\ deleted' = deleted
      /\ object' = object /\ dual' = dual /\ lequ' = lequ /\ nl' = nl
  BY DEF cvars, equdata
<1>2. TypeOK /\ ColumnsInv /\ RowsInv /\ etype' = etype /\ next_var' = next_var /\ equs' = equs /\ vars' = vars
  BY <1>1 DEF CInv, matrix
<1>3. \A ei \in Equs : RowStart(ei)' = RowStart(ei)
  BY <1>1, <1>2 DEF RowStart
<1>4. /\ ColumnsInv' /\ RowsInv' /\ ElementTypes' /\ RowTypes' /\ Live' = Live
      /\ \A ei \in Equs : Regular(ei)' = Regular(ei)
  BY <1>1, <1>2, <1>3, MatrixStays
<1>5. TypeOK'
  <2>1. EquationTypes /\ job \in Jobs /\ failed \in Errors
    BY <1>2, TypesSplit
  <2>2. EquationTypes'
    BY <2>1, <1>1 DEF EquationTypes
  <2> QED
    BY <2>1, <2>2, <1>1, <1>4, TypesSplitNext
<1>6. ContentsInv => ContentsInv'
  BY <1>1, <1>2 DEF ContentsInv, Fits, Ahead
<1>7. JobInv => JobInv'
  BY <1>1, <1>2, <1>4 DEF JobInv, EndOfRow, Ahead, CopyOf, Copied, Regular, Cst, Elt
<1> QED
  BY <1>1, <1>4, <1>5, <1>6, <1>7 DEF CInv

\* Every step keeps the invariant.
LEMMA NextCInv == CInv /\ [Next]_cvars => CInv'
<1> SUFFICES ASSUME CInv, [Next]_cvars PROVE CInv'
  OBVIOUS
<1>1. ASSUME NEW ei \in Equs, AddToEquation(ei) PROVE CInv'
  BY <1>1, AddEquEmptyStep, AddNewVarStep, AddLvarStep, StartAppendStep, StartFillStep, StartAddVarsStep
     DEF AddToEquation
<1>2. ASSUME NEW ei \in Equs, RemoveFromEquation(ei) PROVE CInv'
  BY <1>2, RmVarStep, RmEquStep, StartDupStep DEF RemoveFromEquation
<1>3. ASSUME NEW vi \in Vars, SetObjVar(vi) \/ StartDeleteVar(vi) PROVE CInv'
  BY <1>3, SetObjVarStep, StartDeleteVarStep
<1>4. ASSUME Loop PROVE CInv'
  BY <1>4, AppendStepStep, AddVarsStepStep, SyncEndStep, RmStepStep, CopyStepStep, CopyEndStep,
     DeleteVarStepStep, DeleteVarEndStep DEF Loop
<1>5. CASE UNCHANGED cvars
  BY <1>5, StutterCInv
<1> QED
  BY <1>1, <1>2, <1>3, <1>4, <1>5 DEF Next

\* The rows and the columns are lists of the elements of the matrix, read either way, the matrix and
\* the equations say the same of every variable but for what the loop in progress has still to do,
\* and an error leaves the lists in order (cmat.c).
THEOREM CInvCorrect == Spec => []CInv
<1>1. Init => CInv
  BY InitCInv
<1>2. CInv /\ [Next]_cvars => CInv'
  BY NextCInv
<1> QED
  BY <1>1, <1>2, PTL DEF Spec

-----------------------------------------------------------------------------
(***************************************************************************)
(* The lists are exact.                                                    *)
(***************************************************************************)

\* A row has at most one element more than there are variables.
LEMMA RowFinite ==
  ASSUME NEW ei \in Equs
  PROVE  /\ IsFiniteSet(OfRow(ei)) /\ Cardinality(OfRow(ei)) <= Cardinality(Vars) + 1
         /\ Cardinality(Vars) \in Nat
<1> DEFINE f == [e \in OfRow(ei) |-> e.vi]
           V == Vars \cup {Nil}
<1>1. \A e \in OfRow(ei) : \/ e.vi \in Vars /\ e = Reg(ei, e.vi)
                           \/ e.vi = Nil /\ e = Cst(ei)
  BY EltKinds DEF OfRow, Live
<1>2. f \in Injection(OfRow(ei), V)
  <2>1. f \in [OfRow(ei) -> V]
    BY <1>1
  <2>2. \A a, b \in OfRow(ei) : f[a] = f[b] => a = b
    BY <1>1, NilFacts
  <2> QED
    BY <2>1, <2>2 DEF Injection, IsInjective
<1>3. IsFiniteSet(V) /\ Cardinality(V) = Cardinality(Vars) + 1 /\ Cardinality(Vars) \in Nat
  BY CMatAssumption, FS_AddElement, FS_CardinalityType
<1> HIDE DEF f, V
<1>4. IsFiniteSet(OfRow(ei)) /\ Cardinality(OfRow(ei)) <= Cardinality(V)
  BY <1>2, <1>3, FS_Injection
<1> QED
  BY <1>3, <1>4

\* A column has at most one element more than there are equations: of the placeholders, only one.
LEMMA ColumnFinite ==
  ASSUME ColumnsInv, NEW vi \in Vars
  PROVE  /\ IsFiniteSet(OfColumn(vi)) /\ Cardinality(OfColumn(vi)) <= Cardinality(Equs) + 1
         /\ Cardinality(Equs) \in Nat
<1> DEFINE f == [e \in OfColumn(vi) |-> IF e.kind = "reg" THEN e.ei ELSE Nil]
           E == Equs \cup {Nil}
<1>1. \A e \in OfColumn(vi) : \/ e.kind = "reg" /\ e.ei \in Equs /\ e = Reg(e.ei, vi)
                              \/ e.kind # "reg" /\ e = vars[vi]
  <2>1. \A e \in OfColumn(vi) : e \in Live /\ e \in Elts /\ e.vi = vi /\ vi # Nil
    BY NilFacts DEF OfColumn, Live
  <2> QED
    BY <2>1, EltKinds DEF ColumnsInv
<1>2. f \in Injection(OfColumn(vi), E)
  <2>1. f \in [OfColumn(vi) -> E]
    BY <1>1
  <2>2. \A a, b \in OfColumn(vi) : f[a] = f[b] => a = b
    BY <1>1, NilFacts
  <2> QED
    BY <2>1, <2>2 DEF Injection, IsInjective
<1>3. IsFiniteSet(E) /\ Cardinality(E) = Cardinality(Equs) + 1 /\ Cardinality(Equs) \in Nat
  BY CMatAssumption, FS_AddElement, FS_CardinalityType
<1> HIDE DEF f, E
<1>4. IsFiniteSet(OfColumn(vi)) /\ Cardinality(OfColumn(vi)) <= Cardinality(E)
  BY <1>2, <1>3, FS_Injection
<1> QED
  BY <1>3, <1>4

\* The walks of the properties meet exactly the elements of the lists.
LEMMA ListsExactHolds == CInv => ListsExact
<1> SUFFICES ASSUME CInv PROVE ListsExact
  OBVIOUS
<1>1. TypeOK /\ ColumnsInv /\ RowsInv
  BY DEF CInv
<1>2. RowsExact
  <2> SUFFICES ASSUME NEW ei \in Equs PROVE RowFrom(RowStart(ei)) = OfRow(ei)
    BY DEF RowsExact, OfRow
  <2>1. Listing(RowStart(ei), next_var, OfRow(ei)) /\ Nil \notin OfRow(ei)
    BY <1>1, NilFacts DEF RowsInv
  <2>2. Walk(RowStart(ei), next_var, Cardinality(Vars)) = OfRow(ei)
    BY <2>1, RowFinite, ListWalk
  <2> QED
    BY <2>2 DEF RowFrom
<1>3. \A vi \in Vars : Column(vi) = OfColumn(vi)
  <2> SUFFICES ASSUME NEW vi \in Vars PROVE Column(vi) = OfColumn(vi)
    OBVIOUS
  <2>1. Listing(vars[vi], next_equ, OfColumn(vi)) /\ Nil \notin OfColumn(vi)
    BY <1>1, NilFacts DEF ColumnsInv
  <2>2. Walk(vars[vi], next_equ, Cardinality(Equs)) = OfColumn(vi)
    BY <2>1, <1>1, ColumnFinite, ListWalk
  <2> QED
    BY <2>2 DEF Column
<1>4. ColumnsExact
  BY <1>3 DEF ColumnsExact, OfColumn
<1>5. BackwardExact
  BY <1>1, <1>3 DEF BackwardExact, ColumnsInv, Live
<1>6. CountExact
  BY <1>1 DEF ColumnsInv
<1> QED
  BY <1>1, <1>2, <1>4, <1>5, <1>6 DEF ListsExact

\* The list of an equation holds exactly its elements, even while it is unlinked one by one, the
\* list of a variable exactly the elements of the variable, forwards and backwards, and n counts the
\* variables (cmat.c).
THEOREM ListsExactCorrect == Spec => []ListsExact
<1>1. CInv => ListsExact
  BY ListsExactHolds
<1> QED
  BY <1>1, CInvCorrect, PTL

\* Between two operations the rows say what the equations say.
LEMMA MatchesHolds ==
  ASSUME CInv, Idle
  PROVE  \A ei \in Equs : equs[ei] # Nil =>
            /\ {e.vi : e \in {x \in Row(ei) : etype[x] = "Lin"}} = lequ[ei]
            /\ {e.vi : e \in {x \in Row(ei) : etype[x] = "NL"}} = nl[ei]
            /\ lequ[ei] \cap nl[ei] = {}
<1> SUFFICES ASSUME NEW ei \in Equs
             PROVE  /\ {e.vi : e \in {x \in Row(ei) : etype[x] = "Lin"}} = lequ[ei]
                    /\ {e.vi : e \in {x \in Row(ei) : etype[x] = "NL"}} = nl[ei]
                    /\ lequ[ei] \cap nl[ei] = {}
  OBVIOUS
<1>1. /\ TypeOK /\ RowsInv /\ RowStart(ei) = equs[ei]
      /\ \A vi \in Vars : Fits(ei, vi)
  BY IdleFacts
<1>2. Row(ei) = Regular(ei) /\ lequ[ei] \subseteq Vars /\ nl[ei] \subseteq Vars
  BY <1>1, RowIs DEF TypeOK
<1>3. \A e \in Regular(ei) : e.vi \in Vars /\ e = Reg(ei, e.vi)
  BY RegFacts
<1>4. \A vi \in Vars : /\ etype[Reg(ei, vi)] = "Lin" <=> vi \in lequ[ei]
                       /\ etype[Reg(ei, vi)] = "NL" <=> vi \in nl[ei]
                       /\ ~ (vi \in lequ[ei] /\ vi \in nl[ei])
  BY <1>1 DEF Fits
<1>5. \A vi \in Vars : etype[Reg(ei, vi)] # "none" => Reg(ei, vi) \in Regular(ei) /\ Reg(ei, vi).vi = vi
  BY RegFacts, EltFacts
<1>6. {e.vi : e \in {x \in Regular(ei) : etype[x] = "Lin"}} = lequ[ei]
  <2>1. \A v : v \in {e.vi : e \in {x \in Regular(ei) : etype[x] = "Lin"}} => v \in lequ[ei]
    BY <1>3, <1>4
  <2>2. ASSUME NEW v \in lequ[ei] PROVE v \in {e.vi : e \in {x \in Regular(ei) : etype[x] = "Lin"}}
    <3>1. Reg(ei, v) \in {x \in Regular(ei) : etype[x] = "Lin"} /\ Reg(ei, v).vi = v
      BY <1>2, <1>4, <1>5
    <3> QED
      BY <3>1
  <2> QED
    BY <2>1, <2>2
<1>7. {e.vi : e \in {x \in Regular(ei) : etype[x] = "NL"}} = nl[ei]
  <2>1. \A v : v \in {e.vi : e \in {x \in Regular(ei) : etype[x] = "NL"}} => v \in nl[ei]
    BY <1>3, <1>4
  <2>2. ASSUME NEW v \in nl[ei] PROVE v \in {e.vi : e \in {x \in Regular(ei) : etype[x] = "NL"}}
    <3>1. Reg(ei, v) \in {x \in Regular(ei) : etype[x] = "NL"} /\ Reg(ei, v).vi = v
      BY <1>2, <1>4, <1>5
    <3> QED
      BY <3>1
  <2> QED
    BY <2>1, <2>2
<1> QED
  BY <1>2, <1>4, <1>6, <1>7

\* A finished copy has what its source has, but for the variable that is left out.
LEMMA CopyHolds ==
  ASSUME CInv, job.op = "rmsrc"
  PROVE  /\ equs[job.ei] # Nil
         /\ {<<e.vi, etype[e]>> : e \in Row(job.ei)}
              = {c \in {<<e.vi, etype[e]>> : e \in Row(job.src)} : c[1] # job.vi}
<1>1. failed = "no"
  BY DEF CInv
<1>2. /\ TypeOK /\ RowsInv /\ JobInv /\ \A ei \in Equs : RowStart(ei) = equs[ei]
  BY <1>1, LoopFacts
<1>i. PICK ei \in Equs, src \in Equs : ei = job.ei /\ src = job.src
  BY <1>2 DEF JobInv, CopyOf
<1>3. equs[job.ei] # Nil /\ \A vj \in Vars : etype[Reg(ei, vj)] = IF vj # job.vi THEN etype[Reg(src, vj)] ELSE "none"
  BY <1>2, <1>i DEF JobInv, Copied
<1>4. Row(ei) = Regular(ei) /\ Row(src) = Regular(src)
  BY <1>2, RowIs
<1> DEFINE new == {<<e.vi, etype[e]>> : e \in Regular(ei)}
           old == {<<e.vi, etype[e]>> : e \in Regular(src)}
<1>5. ASSUME NEW c \in new PROVE c \in old /\ c[1] # job.vi
  <2>1. PICK e \in Regular(ei) : c = <<e.vi, etype[e]>>
    OBVIOUS
  <2>2. PICK vi \in Vars : vi = e.vi /\ e = Reg(ei, vi) /\ etype[e] # "none"
    BY RegFacts
  <2>3. vi # job.vi /\ etype[Reg(src, vi)] = etype[e]
    BY <1>3, <2>2
  <2>4. Reg(src, vi) \in Regular(src) /\ Reg(src, vi).vi = vi
    BY <2>2, <2>3, RegFacts, EltFacts
  <2> QED
    BY <2>1, <2>2, <2>3, <2>4
<1>6. ASSUME NEW c \in old, c[1] # job.vi PROVE c \in new
  <2>1. PICK e \in Regular(src) : c = <<e.vi, etype[e]>>
    OBVIOUS
  <2>2. PICK vi \in Vars : vi = e.vi /\ e = Reg(src, vi) /\ etype[e] # "none"
    BY RegFacts
  <2>3. vi # job.vi /\ etype[Reg(ei, vi)] = etype[e]
    BY <1>3, <1>6, <2>1, <2>2
  <2>4. Reg(ei, vi) \in Regular(ei) /\ Reg(ei, vi).vi = vi
    BY <2>2, <2>3, RegFacts, EltFacts
  <2> QED
    BY <2>1, <2>2, <2>3, <2>4
<1>7. new = {c \in old : c[1] # job.vi}
  BY <1>5, <1>6
<1> QED
  BY <1>3, <1>4, <1>7, <1>i

\* Between two operations every equation holds the variables of its row, each in the part its
\* element names, and a copy has the contents of its source when that is removed (cmat_chk_expensive,
\* rmdl_dup_equ, rmdl_equ_dup_except, rmdl_equ_flip).
THEOREM ContentsMatchCorrect == Spec => []ContentsMatch
<1>1. CInv => ContentsMatch
  BY MatchesHolds, CopyHolds DEF ContentsMatch, MatchesEquations, CopyExact
<1> QED
  BY <1>1, CInvCorrect, PTL

-----------------------------------------------------------------------------
(***************************************************************************)
(* How a variable leaves the container.                                    *)
(***************************************************************************)

\* A variable that loses its last element is marked.
LosesMarked == \A vi \in Vars : vars[vi] # Nil /\ vars'[vi] = Nil => is_deleted'[vi]

\* A variable without elements is in no row.
NoneWithoutFirst == \A vi \in Vars : vars[vi] = Nil => \A ei \in Equs : Reg(ei, vi) \notin Row(ei)

\* A new element takes no variable away.
LEMMA EltNewKeeps ==
  ASSUME TypeOK, NEW ei \in Equs, NEW vi \in Vars, NEW ty, EltNew(Reg(ei, vi), ty)
  PROVE  LosesMarked
<1>1. Reg(ei, vi).vi = vi /\ Reg(ei, vi) # Nil
  BY EltFacts, NilFacts
<1>2. vars' = vars \/ vars' = [vars EXCEPT ![vi] = Reg(ei, vi)]
  BY <1>1 DEF EltNew
<1> QED
  BY <1>1, <1>2 DEF LosesMarked, TypeOK

\* The last element of a variable that goes marks it.
LEMMA UnlinkMarks ==
  ASSUME TypeOK, NEW e, Unlink(e)
  PROVE  LosesMarked
<1>1. vars' = IF prev_equ[e] = Nil THEN [vars EXCEPT ![e.vi] = next_equ[e]] ELSE vars
  BY DEF Unlink, VarsWithout
<1>2. is_deleted' = IF prev_equ[e] = Nil /\ next_equ[e] = Nil THEN [is_deleted EXCEPT ![e.vi] = TRUE] ELSE is_deleted
  BY DEF Unlink, DeletedWithout, OnlyOne
<1> SUFFICES ASSUME NEW vi \in Vars, vars[vi] # Nil, vars'[vi] = Nil PROVE is_deleted'[vi]
  BY DEF LosesMarked
<1>3. vi = e.vi /\ prev_equ[e] = Nil /\ next_equ[e] = Nil
  BY <1>1 DEF TypeOK
<1> QED
  BY <1>2, <1>3 DEF TypeOK

\* The same for a variable that is removed from an equation.
LEMMA EquRmVarMarks ==
  ASSUME TypeOK, NEW ei, NEW vi, EquRmVar(ei, vi)
  PROVE  LosesMarked
BY UnlinkMarks DEF EquRmVar, LosesMarked, matrix

\* The rows hold elements of the matrix only.
LEMMA RowLive ==
  ASSUME CInv, NEW ei \in Equs
  PROVE  Row(ei) \subseteq Live
<1>1. TypeOK /\ RowsInv
  BY DEF CInv
<1>2. CASE ~ (job.op = "rm" /\ job.ei = ei)
  <2>1. RowStart(ei) = equs[ei]
    BY <1>2 DEF RowStart
  <2> QED
    BY <2>1, <1>1, RowIs DEF Regular
<1>3. CASE job.op = "rm" /\ job.ei = ei
  <2>1. equs[ei] = Nil
    BY <1>3 DEF CInv, JobInv
  <2>2. FirstCme(ei) = Nil
    BY <2>1 DEF FirstCme
  <2>3. Listing(Nil, next_var, {}) /\ IsFiniteSet({}) /\ Cardinality({}) = 0
    BY ListEmpty, FS_EmptySet
  <2>4. Cardinality(Vars) \in Nat
    BY CMatAssumption, FS_CardinalityType
  <2>5. Walk(Nil, next_var, Cardinality(Vars)) = {}
    BY <2>3, <2>4, ListWalk
  <2> QED
    BY <2>2, <2>5 DEF Row, RowFrom
<1> QED
  BY <1>2, <1>3

\* A variable without elements is in no row.
LEMMA NoneWithoutFirstHolds == CInv => NoneWithoutFirst
<1> SUFFICES ASSUME CInv, NEW vi \in Vars, vars[vi] = Nil, NEW ei \in Equs
             PROVE  Reg(ei, vi) \notin Row(ei)
  BY DEF NoneWithoutFirst
<1>1. OfColumn(vi) = {}
  BY HeadsFacts DEF CInv
<1>2. Reg(ei, vi) \notin Live
  BY <1>1, EltFacts DEF OfColumn
<1> QED
  BY <1>2, RowLive

\* Every step that takes a variable away marks it.
LEMMA NextMarks == CInv /\ Next => LosesMarked
<1> SUFFICES ASSUME CInv, Next PROVE LosesMarked
  OBVIOUS
<1>t. TypeOK
  BY DEF CInv
<1>u. vars' = vars => LosesMarked
  BY DEF LosesMarked
<1>m. UNCHANGED matrix => LosesMarked
  BY <1>u DEF matrix
<1>1. ASSUME NEW ei \in Equs, AddToEquation(ei) PROVE LosesMarked
  <2>1. ASSUME NEW obj \in Objects, NEW vi \in PerpVars \cup {Nil}, AddEquEmpty(ei, obj, vi) PROVE LosesMarked
    BY <2>1, <1>m DEF AddEquEmpty
  <2>2. ASSUME NEW vi \in Vars, AddNewVar(ei, vi) \/ AddLvar(ei, vi) PROVE LosesMarked
    BY <2>2, <1>t, EltNewKeeps DEF AddNewVar, AddLvar
  <2>3. ASSUME NEW S \in SUBSET Vars, NEW op \in {"append", "sync"}, StartAppend(op, ei, S) PROVE LosesMarked
    BY <2>3, <1>m DEF StartAppend
  <2>4. ASSUME NEW S \in SUBSET Vars, NEW T \in SUBSET Vars, StartFill(ei, S, T) PROVE LosesMarked
    BY <2>4, <1>m DEF StartFill
  <2>5. ASSUME NEW S \in SUBSET Vars, StartAddVars(ei, S) PROVE LosesMarked
    BY <2>5, <1>m DEF StartAddVars
  <2> QED
    BY <1>1, <2>1, <2>2, <2>3, <2>4, <2>5 DEF AddToEquation
<1>2. ASSUME NEW ei \in Equs, RemoveFromEquation(ei) PROVE LosesMarked
  <2>1. ASSUME NEW vi \in Vars, RmVar(ei, vi) PROVE LosesMarked
    BY <2>1, <1>t, EquRmVarMarks DEF RmVar
  <2>2. ASSUME RmEqu(ei) PROVE LosesMarked
    BY <2>2, <1>u DEF RmEqu
  <2>3. ASSUME NEW dst \in Equs, NEW how \in {"dup", "except", "flip"}, NEW vi \in Vars \cup {Nil},
               StartDup(ei, dst, how, vi)
        PROVE  LosesMarked
    BY <2>3, <1>m DEF StartDup
  <2> QED
    BY <1>2, <2>1, <2>2, <2>3 DEF RemoveFromEquation
<1>3. ASSUME NEW vi \in Vars, SetObjVar(vi) \/ StartDeleteVar(vi) PROVE LosesMarked
  <2>1. CASE SetObjVar(vi)
    <3>1. vars' = [vars EXCEPT ![vi] = Obj(vi)] /\ Obj(vi) # Nil
      BY <2>1, EltFacts, NilFacts DEF SetObjVar
    <3> QED
      BY <3>1, <1>t DEF LosesMarked, TypeOK
  <2>2. CASE StartDeleteVar(vi)
    BY <2>2, <1>m DEF StartDeleteVar
  <2> QED
    BY <1>3, <2>1, <2>2
<1>4. ASSUME NEW vi \in Vars, AppendStep(vi) PROVE LosesMarked
  <2>1. job.ei \in Equs
    BY <1>4 DEF AppendStep, CInv, JobInv
  <2>2. PICK ty : EltNew(Reg(job.ei, vi), ty)
    BY <1>4 DEF AppendStep
  <2> QED
    BY <2>1, <2>2, <1>t, EltNewKeeps
<1>5. ASSUME NEW vi \in Vars, AddVarsStep(vi) PROVE LosesMarked
  <2>1. job.ei \in Equs
    BY <1>5 DEF AddVarsStep, CInv, JobInv
  <2>2. vars' = vars \/ EltNew(Reg(job.ei, vi), "NL")
    BY <1>5 DEF AddVarsStep
  <2> QED
    BY <2>1, <2>2, <1>t, <1>u, EltNewKeeps
<1>6. ASSUME SyncEnd PROVE LosesMarked
  <2>1. job.ei \in Equs /\ FixVar(job.ei)
    BY <1>6 DEF SyncEnd, CInv, JobInv
  <2>2. dual[job.ei] \in Vars \cup {Nil}
    BY <2>1, <1>t DEF TypeOK
  <2>3. dual[job.ei] # Nil => Perp(job.ei, dual[job.ei]) # Nil
    BY <2>1, <2>2, EltFacts, NilFacts
  <2>4. vars' = vars \/ (dual[job.ei] # Nil /\ vars' = [vars EXCEPT ![dual[job.ei]] = Perp(job.ei, dual[job.ei])])
    BY <2>1 DEF FixVar
  <2> QED
    BY <2>3, <2>4, <1>t DEF LosesMarked, TypeOK
<1>7. ASSUME RmStep PROVE LosesMarked
  BY <1>7, <1>t, UnlinkMarks DEF RmStep
<1>8. ASSUME CopyStep PROVE LosesMarked
  <2>1. failed = "no" /\ job.op = "copy" /\ job.cme # Nil
    BY <1>8 DEF CopyStep
  <2>2. CASE job.cme.vi = job.vi
    BY <2>2, <1>8, <1>m DEF CopyStep
  <2>3. CASE job.cme.vi # job.vi
    <3>1. PICK src \in Equs : src = job.src /\ job.ei \in Equs
      BY <2>1, CopyFacts DEF CopyOf
    <3>2. PICK T \in SUBSET Regular(src) : Listing(job.cme, next_var, T)
      BY <2>1, <3>1, CopyFacts
    <3>3. Nil \notin T
      BY NilFacts
    <3>4. job.cme \in T
      BY <2>1, <3>2, <3>3, ListFirst
    <3>5. job.cme.vi \in Vars
      BY <3>4, RegFacts
    <3>6. EltNew(Reg(job.ei, job.cme.vi), CopyType(job.cme))
      BY <2>3, <1>8 DEF CopyStep
    <3> QED
      BY <3>1, <3>5, <3>6, <1>t, EltNewKeeps
  <2> QED
    BY <2>2, <2>3
<1>9. ASSUME CopyEnd PROVE LosesMarked
  BY <1>9, <1>u DEF CopyEnd, matrix
<1>10. ASSUME DeleteVarStep PROVE LosesMarked
  BY <1>10, <1>t, <1>m, EquRmVarMarks DEF DeleteVarStep
<1>11. ASSUME DeleteVarEnd PROVE LosesMarked
  <2>1. vars' = [vars EXCEPT ![job.vi] = Nil] /\ is_deleted' = [is_deleted EXCEPT ![job.vi] = TRUE]
    BY <1>11 DEF DeleteVarEnd
  <2> QED
    BY <2>1, <1>t DEF LosesMarked, TypeOK
<1> QED
  BY <1>1, <1>2, <1>3, <1>4, <1>5, <1>6, <1>7, <1>8, <1>9, <1>10, <1>11 DEF Next, Loop

\* A variable leaves the container only with its last element, or when it is deleted by name; it is
\* marked as deleted and in no equation (cmat_equ_rm_var, cmat_rm_equ, rctr_delete_var).
THEOREM LeavesWithLastCorrect == Spec => LeavesWithLast
<1>1. CInv => NoneWithoutFirst
  BY NoneWithoutFirstHolds
<1>2. ASSUME CInv, [Next]_cvars, NoneWithoutFirst'
      PROVE  [\A vi \in Vars : vars[vi] # Nil /\ vars'[vi] = Nil
                => is_deleted'[vi] /\ \A ei \in Equs : Reg(ei, vi) \notin Row(ei)']_cvars
  <2>1. CASE UNCHANGED cvars
    BY <2>1
  <2>2. CASE Next
    <3>1. LosesMarked
      BY <2>2, <1>2, NextMarks
    <3>2. ASSUME NEW vi \in Vars, vars'[vi] = Nil, NEW ei \in Equs PROVE Reg(ei, vi) \notin Row(ei)'
      BY <3>2, <1>2 DEF NoneWithoutFirst, Reg, Elt
    <3> QED
      BY <3>1, <3>2 DEF LosesMarked
  <2> QED
    BY <2>1, <2>2, <1>2
<1> QED
  BY <1>1, <1>2, CInvCorrect, PTL DEF Spec, LeavesWithLast

=============================================================================
