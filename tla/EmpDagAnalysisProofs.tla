------------------------ MODULE EmpDagAnalysisProofs ------------------------
(***************************************************************************)
(* Proofs about the analysis of an EMPDAG.                                 *)
(***************************************************************************)
EXTENDS EmpDagAnalysis, UIntArrayProofs, SequenceTheorems

-----------------------------------------------------------------------------
(***************************************************************************)
(* Reach squares a relation as often as there are nodes. That is enough:   *)
(* it is the transitive closure.                                           *)
(***************************************************************************)
Transitive(Q) == \A x, y, z : <<x, y>> \in Q /\ <<y, z>> \in Q => <<x, z>> \in Q

Squared(N, Q) == Q \cup {e \in N \X N : \E w \in N : <<e[1], w>> \in Q /\ <<w, e[2]>> \in Q}

\* cl squares R again and again.
Squares(cl, N, R) ==
  cl \in [Nat -> SUBSET (N \X N)] /\ cl[0] = R /\ \A k \in Nat : cl[k + 1] = Squared(N, cl[k])

\* Reach is the last of as many squares as there are nodes.
LEMMA ReachSquares ==
  ASSUME NEW d, NEW R \in SUBSET (Nodes(d) \X Nodes(d))
  PROVE  \E cl : Squares(cl, Nodes(d), R) /\ Reach(d, R) = cl[Cardinality(Nodes(d))]
<1> DEFINE N == Nodes(d)
           D == SUBSET (N \X N)
           Fix(f) == f = [k \in Nat |-> IF k = 0 THEN R ELSE Squared(N, f[k - 1])]
           cl == CHOOSE f : Fix(f)
<1>1. Reach(d, R) = cl[Cardinality(N)]
  BY DEF Reach, Squared
<1> HIDE DEF N
<1>2. \E f : Fix(f)
  <2> DEFINE G == [n \in Nat |-> [Q \in D |-> Squared(N, Q)]]
  <2>1. \A Q \in D : Squared(N, Q) \in D
    BY DEF Squared
  <2>2. G \in [Nat -> [D -> D]] /\ R \in D /\ \A n \in Nat, Q \in D : G[n][Q] = Squared(N, Q)
    BY <2>1 DEF N
  <2> HIDE DEF G, D
  <2>3. PICK f : Iterates(f, D, R, G)
    BY <2>2, RecursiveFunction
  <2>4. f \in [Nat -> D] /\ f[0] = R /\ \A n \in Nat : f[n + 1] = Squared(N, f[n])
    BY <2>2, <2>3 DEF Iterates
  <2>5. ASSUME NEW k \in Nat, k # 0 PROVE f[k] = Squared(N, f[k - 1])
    <3>1. k - 1 \in Nat /\ (k - 1) + 1 = k
      BY <2>5
    <3> QED BY <3>1, <2>4
  <2>6. f = [k \in Nat |-> IF k = 0 THEN R ELSE Squared(N, f[k - 1])]
    BY <2>4, <2>5
  <2> QED BY <2>6
<1>3. Fix(cl)
  BY <1>2
<1> HIDE DEF cl
<1>4. cl[0] = R
  BY <1>3
<1>5. ASSUME NEW k \in Nat PROVE cl[k + 1] = Squared(N, cl[k])
  <2>1. k + 1 \in Nat /\ k + 1 # 0 /\ (k + 1) - 1 = k
    OBVIOUS
  <2>2. cl[k + 1] = IF k + 1 = 0 THEN R ELSE Squared(N, cl[(k + 1) - 1])
    BY <1>3, <2>1
  <2> QED BY <2>1, <2>2
<1>6. \A k \in Nat : cl[k] \in D
  <2> DEFINE I == {k \in Nat : cl[k] \in D}
  <2>1. 0 \in I
    BY <1>4 DEF N
  <2>2. \A k \in Nat : k \in I => k + 1 \in I
    BY <1>5 DEF Squared
  <2> HIDE DEF I
  <2>3. Nat \subseteq I
    BY <2>1, <2>2, NatSetInduction
  <2> QED BY <2>3 DEF I
<1>7. Squares(cl, N, R)
  BY <1>3, <1>4, <1>5, <1>6 DEF Squares
<1> QED BY <1>1, <1>7 DEF N

\* A set that the arcs of R do not leave is left by none of the squares.
LEMMA ClosedUnderSquares ==
  ASSUME NEW N, NEW R, NEW cl, Squares(cl, N, R), NEW B,
         \A v \in B : \A w : <<v, w>> \in R => w \in B
  PROVE  \A k \in Nat : \A v \in B : \A w : <<v, w>> \in cl[k] => w \in B
<1> DEFINE I == {k \in Nat : \A v \in B : \A w : <<v, w>> \in cl[k] => w \in B}
<1>1. 0 \in I
  BY DEF Squares
<1>2. ASSUME NEW k \in Nat, k \in I PROVE k + 1 \in I
  <2>1. ASSUME NEW v \in B, NEW w, <<v, w>> \in cl[k + 1] PROVE w \in B
    <3>1. cl[k + 1] = Squared(N, cl[k])
      BY DEF Squares
    <3>2. CASE <<v, w>> \in cl[k]
      BY <1>2, <3>2
    <3>3. CASE <<v, w>> \notin cl[k]
      <4>1. PICK u \in N : <<v, u>> \in cl[k] /\ <<u, w>> \in cl[k]
        BY <2>1, <3>1, <3>3 DEF Squared
      <4> QED BY <1>2, <4>1
    <3> QED BY <3>2, <3>3
  <2> QED BY <2>1
<1> HIDE DEF I
<1>3. \A k \in Nat : k \in I => k + 1 \in I
  BY <1>2
<1>4. Nat \subseteq I
  BY <1>1, <1>3, NatSetInduction
<1> QED BY <1>4 DEF I

\* The squares grow, and stay within every transitive relation that contains R.
LEMMA SquaresBounds ==
  ASSUME NEW N, NEW R, NEW cl, Squares(cl, N, R)
  PROVE  /\ \A k \in Nat : R \subseteq cl[k]
         /\ \A Q : R \subseteq Q /\ Transitive(Q) => \A k \in Nat : cl[k] \subseteq Q
<1>1. \A k \in Nat : cl[k + 1] = Squared(N, cl[k])
  BY DEF Squares
<1>2. \A k \in Nat : R \subseteq cl[k]
  <2> DEFINE I == {k \in Nat : R \subseteq cl[k]}
  <2>1. 0 \in I
    BY DEF Squares
  <2>2. \A k \in Nat : k \in I => k + 1 \in I
    BY <1>1 DEF Squared
  <2> HIDE DEF I
  <2>3. Nat \subseteq I
    BY <2>1, <2>2, NatSetInduction
  <2> QED BY <2>3 DEF I
<1>3. ASSUME NEW Q, R \subseteq Q, Transitive(Q) PROVE \A k \in Nat : cl[k] \subseteq Q
  <2> DEFINE I == {k \in Nat : cl[k] \subseteq Q}
  <2>1. 0 \in I
    BY <1>3 DEF Squares
  <2>2. ASSUME NEW k \in Nat, k \in I PROVE k + 1 \in I
    <3>1. ASSUME NEW e \in cl[k + 1] PROVE e \in Q
      <4>1. CASE e \in cl[k]
        BY <2>2, <4>1
      <4>2. CASE e \notin cl[k]
        <5>1. e \in N \X N /\ \E w \in N : <<e[1], w>> \in cl[k] /\ <<w, e[2]>> \in cl[k]
          BY <1>1, <3>1, <4>2 DEF Squared
        <5>2. <<e[1], e[2]>> \in Q
          BY <1>3, <2>2, <5>1 DEF Transitive
        <5> QED BY <5>1, <5>2
      <4> QED BY <4>1, <4>2
    <3> QED BY <3>1
  <2> HIDE DEF I
  <2>3. \A k \in Nat : k \in I => k + 1 \in I
    BY <2>2
  <2>4. Nat \subseteq I
    BY <2>1, <2>3, NatSetInduction
  <2> QED BY <2>4 DEF I
<1> QED BY <1>2, <1>3

\* What one node reaches after as many squarings as there are nodes is closed.
LEMMA BallCloses ==
  ASSUME NEW N, IsFiniteSet(N), NEW R, NEW cl, Squares(cl, N, R), NEW x \in N
  PROVE  \A v, w : <<x, v>> \in cl[Cardinality(N)] /\ <<v, w>> \in R
                     => <<x, w>> \in cl[Cardinality(N)]
<1> DEFINE B(k) == {v \in N : <<x, v>> \in cl[k]}
           Closed(k) == \A v \in B(k) : \A w : <<v, w>> \in R => w \in B(k)
           I == {k \in Nat : Closed(k) \/ Cardinality(B(k)) >= k}
           c == Cardinality(N)
<1>1. /\ \A k \in Nat : cl[k] \in SUBSET (N \X N) /\ cl[k + 1] = Squared(N, cl[k])
      /\ \A k \in Nat : R \subseteq cl[k]
  <2>1. \A k \in Nat : cl[k] \in SUBSET (N \X N) /\ cl[k + 1] = Squared(N, cl[k])
    BY DEF Squares
  <2>2. \A k \in Nat : R \subseteq cl[k]
    BY SquaresBounds
  <2> QED BY <2>1, <2>2
<1>2. \A k \in Nat : IsFiniteSet(B(k)) /\ Cardinality(B(k)) \in Nat /\ Cardinality(B(k)) <= c
  <2>1. \A k : B(k) \in SUBSET N
    OBVIOUS
  <2> HIDE DEF B
  <2> QED BY <2>1, FS_Subset, FS_CardinalityType
<1>3. c \in Nat
  BY FS_CardinalityType
<1>4. 0 \in I
  BY <1>2
<1>5. ASSUME NEW k \in Nat, k \in I PROVE k + 1 \in I
  <2>1. B(k) \subseteq B(k + 1)
    BY <1>1 DEF Squared
  <2>2. CASE Closed(k)
    <3>1. \A v \in B(k) : \A w : <<v, w>> \in cl[k] => w \in B(k)
      <4> HIDE DEF B
      <4> QED BY <2>2, ClosedUnderSquares
    <3>2. B(k + 1) \subseteq B(k)
      BY <1>1, <3>1 DEF Squared
    <3>3. B(k + 1) = B(k)
      BY <2>1, <3>2
    <3> QED BY <2>2, <3>3
  <2>3. CASE ~ Closed(k)
    <3>0. PICK v \in B(k) : \E w : <<v, w>> \in R /\ w \notin B(k)
      BY <2>3
    <3>1. PICK w : <<v, w>> \in R /\ w \notin B(k)
      BY <3>0
    <3>2. <<x, v>> \in cl[k] /\ <<v, w>> \in cl[k] /\ w \in N
      BY <1>1, <3>1
    <3>3. w \in B(k + 1)
      BY <1>1, <3>2 DEF Squared
    <3>4. B(k) # B(k + 1)
      BY <3>1, <3>3
    <3>5. Cardinality(B(k)) >= k
      BY <1>5, <2>3
    <3> HIDE DEF B
    <3>6. Cardinality(B(k)) <= Cardinality(B(k + 1)) /\ Cardinality(B(k)) # Cardinality(B(k + 1))
      BY <1>2, <2>1, <3>4, FS_Subset
    <3> DEFINE a == Cardinality(B(k))
               b == Cardinality(B(k + 1))
    <3>7. a \in Nat /\ b \in Nat /\ a >= k /\ a <= b /\ a # b
      BY <1>2, <3>5, <3>6
    <3> HIDE DEF a, b
    <3>8. b >= k + 1
      BY <3>7
    <3> QED BY <3>8 DEF b
  <2> QED BY <2>2, <2>3
<1>6. c \in I
  <2> HIDE DEF I
  <2>1. \A k \in Nat : k \in I => k + 1 \in I
    BY <1>5
  <2> QED BY <1>3, <1>4, <2>1, NatSetInduction
<1>7. Closed(c)
  <2>1. CASE Cardinality(B(c)) >= c
    <3>1. B(c) \subseteq N /\ Cardinality(B(c)) = c
      BY <1>2, <1>3, <2>1
    <3> HIDE DEF B
    <3>2. B(c) = N
      BY <3>1, FS_Subset
    <3> QED BY <1>1, <1>3, <3>2
  <2> QED BY <1>6, <2>1
<1> QED BY <1>1, <1>3, <1>7

\* Reach is the transitive closure: the smallest transitive relation that contains R.
THEOREM ReachIsClosure ==
  ASSUME NEW d, IsFiniteSet(Nodes(d)), NEW R \in SUBSET (Nodes(d) \X Nodes(d))
  PROVE  /\ Reach(d, R) \in SUBSET (Nodes(d) \X Nodes(d))
         /\ R \subseteq Reach(d, R)
         /\ Transitive(Reach(d, R))
         /\ \A Q : R \subseteq Q /\ Transitive(Q) => Reach(d, R) \subseteq Q
<1> DEFINE N == Nodes(d)
           c == Cardinality(N)
<1>1. PICK cl : Squares(cl, N, R) /\ Reach(d, R) = cl[c]
  BY ReachSquares
<1>2. c \in Nat
  BY FS_CardinalityType
<1> HIDE DEF c
<1>3. cl[c] \in SUBSET (N \X N)
  BY <1>1, <1>2 DEF Squares
<1>4. R \subseteq cl[c] /\ \A Q : R \subseteq Q /\ Transitive(Q) => cl[c] \subseteq Q
  BY <1>1, <1>2, SquaresBounds
<1>5. ASSUME NEW x, NEW y, NEW z, <<x, y>> \in cl[c], <<y, z>> \in cl[c]
      PROVE  <<x, z>> \in cl[c]
  <2> DEFINE B == {v \in N : <<x, v>> \in cl[c]}
  <2>1. x \in N /\ y \in B
    BY <1>3, <1>5
  <2>2. \A v \in B : \A w : <<v, w>> \in R => w \in B
    <3>1. \A v, w : <<x, v>> \in cl[c] /\ <<v, w>> \in R => <<x, w>> \in cl[c]
      BY <1>1, <2>1, BallCloses DEF c
    <3> QED BY <1>3, <3>1
  <2>3. \A v \in B : \A w : <<v, w>> \in cl[c] => w \in B
    <3> HIDE DEF B
    <3> QED BY <1>1, <1>2, <2>2, ClosedUnderSquares
  <2> QED BY <1>5, <2>1, <2>3
<1> QED BY <1>1, <1>3, <1>4, <1>5 DEF Transitive
-----------------------------------------------------------------------------
(***************************************************************************)
(* The nodes, the arcs and the children of a node.                         *)
(***************************************************************************)

\* The uids of MPs and those of Nash nodes are apart, and give back the ids.
LEMMA Uids ==
  ASSUME NEW k \in Nat
  PROVE  /\ mpid2uid(k) \in Nat /\ uidisMP(mpid2uid(k)) /\ ~ uidisNash(mpid2uid(k))
         /\ nashid2uid(k) \in Nat /\ uidisNash(nashid2uid(k)) /\ ~ uidisMP(nashid2uid(k))
         /\ uid2id(mpid2uid(k)) = k /\ uid2id(nashid2uid(k)) = k
BY DEF mpid2uid, nashid2uid, uidisMP, uidisNash, uid2id

\* A node is an MP or a Nash node, and is known by its kind and its id.
LEMMA NodeIs ==
  ASSUME NEW d, WellFormedDag(d), NEW u \in Nodes(d)
  PROVE  /\ u \in Nat
         /\ u \in MpUids(d) <=> uidisMP(u)
         /\ u \in NashUids(d) <=> uidisNash(u)
         /\ uidisMP(u) <=> ~ uidisNash(u)
         /\ uidisMP(u) => uid2id(u) \in d.mps /\ u = mpid2uid(uid2id(u))
         /\ uidisNash(u) => uid2id(u) \in d.nashs /\ u = nashid2uid(uid2id(u))
<1>1. d.mps \subseteq Nat /\ d.nashs \subseteq Nat
  BY DEF WellFormedDag
<1>2. CASE u \in MpUids(d)
  <2>1. PICK m \in d.mps : u = mpid2uid(m)
    BY <1>2 DEF MpUids
  <2>2. u \notin NashUids(d)
    <3>1. ASSUME NEW n \in d.nashs, u = nashid2uid(n) PROVE FALSE
      BY <1>1, <2>1, <3>1, Uids
    <3> QED BY <3>1 DEF NashUids
  <2> QED BY <1>1, <1>2, <2>1, <2>2, Uids
<1>3. CASE u \in NashUids(d)
  <2>1. PICK n \in d.nashs : u = nashid2uid(n)
    BY <1>3 DEF NashUids
  <2>2. u \notin MpUids(d)
    <3>1. ASSUME NEW m \in d.mps, u = mpid2uid(m) PROVE FALSE
      BY <1>1, <2>1, <3>1, Uids
    <3> QED BY <3>1 DEF MpUids
  <2> QED BY <1>1, <1>3, <2>1, <2>2, Uids
<1> QED BY <1>2, <1>3 DEF Nodes

\* An EMPDAG has finitely many nodes.
LEMMA NodesFinite ==
  ASSUME NEW d, WellFormedDag(d)
  PROVE  IsFiniteSet(Nodes(d)) /\ IsFiniteSet(MpUids(d)) /\ Nodes(d) \subseteq Nat
<1>1. IsFiniteSet(d.mps) /\ IsFiniteSet(d.nashs)
  BY DEF WellFormedDag
<1>2. IsFiniteSet(MpUids(d))
  <2> DEFINE f == [m \in d.mps |-> mpid2uid(m)]
  <2>1. f \in Surjection(d.mps, MpUids(d))
    BY DEF Surjection, MpUids
  <2> HIDE DEF f
  <2> QED BY <1>1, <2>1, FS_Surjection
<1>3. IsFiniteSet(NashUids(d))
  <2> DEFINE f == [n \in d.nashs |-> nashid2uid(n)]
  <2>1. f \in Surjection(d.nashs, NashUids(d))
    BY DEF Surjection, NashUids
  <2> HIDE DEF f
  <2> QED BY <1>1, <2>1, FS_Surjection
<1>4. IsFiniteSet(Nodes(d))
  BY <1>2, <1>3, FS_Union DEF Nodes
<1>5. Nodes(d) \subseteq Nat
  BY NodeIs
<1> QED BY <1>2, <1>4, <1>5

\* The children of a node, over arcs of any kind.
Kids(d, u) == {c \in Nodes(d) : <<u, c>> \in Arcs(d)}

\* The arcs lead from nodes to nodes; a node with children is no dual MP.
LEMMA ArcsIs ==
  ASSUME NEW d, WellFormedDag(d)
  PROVE  /\ Arcs(d) \in SUBSET (Nodes(d) \X Nodes(d))
         /\ \A u \in Nodes(d) : uidisMP(u) =>
              Kids(d, u) = d.Carcs[uid2id(u)] \cup {mpid2uid(k) : k \in Range(d.Varcs[uid2id(u)])}
         /\ \A u \in Nodes(d) : uidisNash(u) => Kids(d, u) = d.narcs[uid2id(u)]
<1>1. \A m \in d.mps : m \in Nat /\ mpid2uid(m) \in Nodes(d) /\ mpid2uid(m) \in MpUids(d)
  BY DEF WellFormedDag, Nodes, MpUids
<1>2. \A n \in d.nashs : n \in Nat /\ nashid2uid(n) \in Nodes(d)
  BY DEF WellFormedDag, Nodes, NashUids
<1>3. \A m \in d.mps : d.Carcs[m] \in SUBSET Nodes(d) /\ Range(d.Varcs[m]) \subseteq d.mps
  <2> SUFFICES ASSUME NEW m \in d.mps
               PROVE  d.Carcs[m] \in SUBSET Nodes(d) /\ Range(d.Varcs[m]) \subseteq d.mps
    OBVIOUS
  <2>1. d.Carcs[m] \in SUBSET Nodes(d) /\ d.Varcs[m] \in Seq(d.mps)
    BY DEF WellFormedDag
  <2>2. \A k \in 1..Len(d.Varcs[m]) : d.Varcs[m][k] \in d.mps
    BY <2>1
  <2>3. DOMAIN d.Varcs[m] = 1..Len(d.Varcs[m])
    BY <2>1
  <2> QED BY <2>1, <2>2, <2>3 DEF Range
<1>4. \A n \in d.nashs : d.narcs[n] \subseteq MpUids(d) /\ MpUids(d) \subseteq Nodes(d)
  BY DEF WellFormedDag, Nodes
<1>5. \A e : e \in CtrlArcs(d) <=> \E p \in d.mps : \E c \in d.Carcs[p] : e = <<mpid2uid(p), c>>
  BY DEF CtrlArcs
<1>6. \A e : e \in VFArcs(d) <=> \E p \in d.mps : \E c \in Range(d.Varcs[p]) :
                                    e = <<mpid2uid(p), mpid2uid(c)>>
  BY DEF VFArcs
<1>7. \A e : e \in NashArcs(d) <=> \E n \in d.nashs : \E c \in d.narcs[n] : e = <<nashid2uid(n), c>>
  BY DEF NashArcs
<1>8. Arcs(d) \in SUBSET (Nodes(d) \X Nodes(d))
  BY <1>1, <1>2, <1>3, <1>4, <1>5, <1>6, <1>7 DEF Arcs
<1>9. ASSUME NEW u \in Nodes(d), uidisMP(u)
      PROVE  Kids(d, u) = d.Carcs[uid2id(u)] \cup {mpid2uid(k) : k \in Range(d.Varcs[uid2id(u)])}
  <2>1. uid2id(u) \in d.mps /\ u = mpid2uid(uid2id(u)) /\ ~ uidisNash(u)
    BY <1>9, NodeIs
  <2>2. \A p \in d.mps : u = mpid2uid(p) => p = uid2id(u)
    BY <1>1, Uids
  <2>3. \A n \in d.nashs : u # nashid2uid(n)
    BY <1>2, <2>1, Uids
  <2>4. \A c : <<u, c>> \in Arcs(d) <=> \/ c \in d.Carcs[uid2id(u)]
                                        \/ \E k \in Range(d.Varcs[uid2id(u)]) : c = mpid2uid(k)
    BY <1>5, <1>6, <1>7, <2>1, <2>2, <2>3 DEF Arcs
  <2>5. \A c : <<u, c>> \in Arcs(d) => c \in Nodes(d)
    BY <1>8
  <2> QED BY <2>4, <2>5 DEF Kids
<1>10. ASSUME NEW u \in Nodes(d), uidisNash(u)
       PROVE  Kids(d, u) = d.narcs[uid2id(u)]
  <2>1. uid2id(u) \in d.nashs /\ u = nashid2uid(uid2id(u)) /\ ~ uidisMP(u)
    BY <1>10, NodeIs
  <2>2. \A n \in d.nashs : u = nashid2uid(n) => n = uid2id(u)
    BY <1>2, Uids
  <2>3. \A p \in d.mps : u # mpid2uid(p)
    BY <1>1, <2>1, Uids
  <2>4. \A c : <<u, c>> \in Arcs(d) <=> c \in d.narcs[uid2id(u)]
    BY <1>5, <1>6, <1>7, <2>1, <2>2, <2>3 DEF Arcs
  <2>5. \A c : <<u, c>> \in Arcs(d) => c \in Nodes(d)
    BY <1>8
  <2> QED BY <2>4, <2>5 DEF Kids
<1> QED BY <1>8, <1>9, <1>10

\* SortedUids has each member of a finite set of naturals once.
LEMMA SortedUidsIs ==
  ASSUME NEW S \in SUBSET Nat, IsFiniteSet(S)
  PROVE  /\ SortedUids(S) \in Seq(S) /\ Len(SortedUids(S)) = Cardinality(S)
         /\ \A a, b \in 1..Cardinality(S) : a < b => SortedUids(S)[a] < SortedUids(S)[b]
         /\ \A x \in S : \E k \in 1..Cardinality(S) : SortedUids(S)[k] = x
<1> DEFINE c == Cardinality(S)
           q == SortedUids(S)
<1>1. c \in Nat
  BY FS_CardinalityType
<1>2. q \in [1..c -> S] /\ \A a, b \in 1..c : a < b => q[a] < q[b]
  <2>1. PICK n \in Nat : S \in SUBSET (0..(n - 1))
    BY FiniteBounded
  <2>2. \E t : Enumerates(t, S)
    BY <2>1, EnumerationExists
  <2>3. \E t \in [1..Cardinality(S) -> S] : \A a, b \in 1..Cardinality(S) : a < b => t[a] < t[b]
    BY <2>2 DEF Enumerates
  <2>4. SortedUids(S) = CHOOSE t \in [1..Cardinality(S) -> S] :
                          \A a, b \in 1..Cardinality(S) : a < b => t[a] < t[b]
    BY DEF SortedUids
  <2> HIDE DEF c, q
  <2> QED BY <2>3, <2>4 DEF c, q
<1> HIDE DEF q, c
<1>3. q \in Seq(S) /\ Len(q) = c
  BY <1>1, <1>2
<1>4. ASSUME NEW x \in S, \A k \in 1..c : q[k] # x PROVE FALSE
  <2> DEFINE S0 == S \ {x}
  <2>1. IsFiniteSet(S0) /\ Cardinality(S0) = c - 1
    BY <1>4, FS_RemoveElement DEF c
  <2>2. IsFiniteSet(1..c) /\ Cardinality(1..c) = c
    BY <1>1, FS_Interval
  <2>3. q \in [1..c -> S0]
    BY <1>2, <1>4
  <2> HIDE DEF S0
  <2>4. PICK a, b \in 1..c : a # b /\ q[a] = q[b]
    BY <1>1, <2>1, <2>2, <2>3, FS_PigeonHole
  <2>5. q[a] \in Nat /\ q[b] \in Nat
    BY <1>2
  <2> QED BY <1>2, <2>4, <2>5
<1> QED BY <1>1, <1>2, <1>3, <1>4 DEF q, c
-----------------------------------------------------------------------------
(***************************************************************************)
(* The states of the traversal.                                            *)
(***************************************************************************)
Stats == {NotExplored, InProgress, Processed, CycleStart, ErrorState}
Kinds == {"C", "V", "N"}
Vias == {"R", "C", "V", "N"}
PathTypes == {"Unset", "VFMin", "VFMax", "Ctrl", "Equil"}

Frames(d) ==
  [node : Nodes(d), via : Vias, depth : Nat,
   cur : (Kinds \cup {"none"}) \X (Nodes(d) \cup {EMPDAG_UID_NONE}), last : Int,
   path : PathTypes, start : Int, registered : BOOLEAN, todo : Seq(Kinds \X Nodes(d))]

Calls(d) ==
  [node : Nodes(d) \cup {EMPDAG_UID_NONE}, via : Vias, path : PathTypes, depth : Nat,
   start : Int, registered : BOOLEAN]

DfsStates(d) ==
  [stat : [Nodes(d) -> Stats], preorder : [Nodes(d) -> Nat], postorder : [Nodes(d) -> Nat],
   num_ancestors : [Nodes(d) -> Nat], timestamp : Nat, topo_order : Seq(Nodes(d)),
   num_visited_dual : Nat, isTree : BOOLEAN, hasVFPath : BOOLEAN,
   adversarial_mps : Seq(Nat), saddle_path_starts : Seq(Int), max_depth : Nat,
   stack : Seq(Frames(d)), mode : {"call", "loop", "ret", "end"}, arg : Calls(d),
   rc : Int, roots_done : Nat]

\* An entry of the loops over the children of u: the kind of the loop is that of the arc.
IsItem(d, u, x) ==
  /\ x[1] = "C" => <<u, x[2]>> \in CtrlArcs(d)
  /\ x[1] = "V" => <<u, x[2]>> \in VFArcs(d)
  /\ x[1] = "N" => <<u, x[2]>> \in NashArcs(d)

\* The loops of a node go over all of its children, each over an arc of its kind.
Complete(d, u, todo) ==
  /\ \A k \in 1..Len(todo) : IsItem(d, u, todo[k])
  /\ \A c \in Kids(d, u) : \E k \in 1..Len(todo) : todo[k][2] = c

\* What the mode says about the rest of the state.
Control(d, t) ==
  /\ t.roots_done <= Len(d.roots)
  /\ t.mode = "loop" => t.stack # <<>>
  /\ t.mode = "end" => t.stack = <<>>
  /\ t.mode = "call" => /\ t.arg.node \in Nodes(d)
                        /\ t.arg.via = "N" <=> uidisNash(t.arg.node)
  /\ \A k \in 1..Len(t.stack) :
       /\ t.stack[k].via = "N" <=> uidisNash(t.stack[k].node)
       /\ \A j \in 1..Len(t.stack[k].todo) : IsItem(d, t.stack[k].node, t.stack[k].todo[j])

\* The arcs of the three kinds, from the side of the parent.
LEMMA KindsOfArcs ==
  ASSUME NEW d, WellFormedDag(d), NEW u \in Nodes(d), NEW c
  PROVE  /\ <<u, c>> \in CtrlArcs(d) <=> uidisMP(u) /\ c \in d.Carcs[uid2id(u)]
         /\ <<u, c>> \in VFArcs(d) <=>
              uidisMP(u) /\ \E k \in Range(d.Varcs[uid2id(u)]) : c = mpid2uid(k)
         /\ <<u, c>> \in NashArcs(d) <=> uidisNash(u) /\ c \in d.narcs[uid2id(u)]
<1>1. \A m \in d.mps : m \in Nat /\ mpid2uid(m) \in Nodes(d)
  BY DEF WellFormedDag, Nodes, MpUids
<1>2. \A n \in d.nashs : n \in Nat /\ nashid2uid(n) \in Nodes(d)
  BY DEF WellFormedDag, Nodes, NashUids
<1>3. <<u, c>> \in CtrlArcs(d) <=> \E p \in d.mps : u = mpid2uid(p) /\ c \in d.Carcs[p]
  BY DEF CtrlArcs
<1>4. <<u, c>> \in VFArcs(d) <=> \E p \in d.mps : u = mpid2uid(p) /\ \E k \in Range(d.Varcs[p]) :
                                      c = mpid2uid(k)
  BY DEF VFArcs
<1>5. <<u, c>> \in NashArcs(d) <=> \E n \in d.nashs : u = nashid2uid(n) /\ c \in d.narcs[n]
  BY DEF NashArcs
<1>6. \A p \in d.mps : u = mpid2uid(p) => p = uid2id(u) /\ uidisMP(u)
  BY <1>1, Uids
<1>7. \A n \in d.nashs : u = nashid2uid(n) => n = uid2id(u) /\ uidisNash(u)
  BY <1>2, Uids
<1>8. uidisMP(u) => uid2id(u) \in d.mps /\ u = mpid2uid(uid2id(u))
  BY NodeIs
<1>9. uidisNash(u) => uid2id(u) \in d.nashs /\ u = nashid2uid(uid2id(u))
  BY NodeIs
<1> QED BY <1>3, <1>4, <1>5, <1>6, <1>7, <1>8, <1>9

\* The loops over the Carcs and over the Varcs of an MP.
MpLoops(d, u, ci, vi) ==
  /\ ci \in Seq(Kinds \X Nodes(d)) /\ vi \in Seq(Kinds \X Nodes(d))
  /\ \A k \in 1..Len(ci) : IsItem(d, u, ci[k])
  /\ \A k \in 1..Len(vi) : IsItem(d, u, vi[k])
  /\ \A c \in d.Carcs[uid2id(u)] : \E k \in 1..Len(ci) : ci[k][2] = c
  /\ \A j \in Range(d.Varcs[uid2id(u)]) : \E k \in 1..Len(vi) : vi[k][2] = mpid2uid(j)

\* The loops over the Carcs, over the Varcs and over the children of a Nash node.
LEMMA ItemsAre ==
  ASSUME NEW d, WellFormedDag(d), NEW u \in Nodes(d), NEW ci, NEW vi, NEW ni,
         ci = CtrlItems(d, uid2id(u)), vi = VFItems(d, uid2id(u)), ni = NashItems(d, uid2id(u))
  PROVE  /\ uidisMP(u) => MpLoops(d, u, ci, vi)
         /\ uidisNash(u) => ni \in Seq(Kinds \X Nodes(d)) /\ Complete(d, u, ni)
<1>1. ASSUME NEW S \in SUBSET Nodes(d)
      PROVE  /\ SortedUids(S) \in Seq(S)
             /\ \A x \in S : \E k \in 1..Len(SortedUids(S)) : SortedUids(S)[k] = x
  <2>1. S \in SUBSET Nat /\ IsFiniteSet(S)
    BY NodesFinite, FS_Subset
  <2> QED BY <2>1, SortedUidsIs
<1>2. CASE uidisMP(u)
  <2> DEFINE m == uid2id(u)
             q == SortedUids(d.Carcs[m])
             v == d.Varcs[m]
  <2>1. m \in d.mps /\ d.Carcs[m] \in SUBSET Nodes(d) /\ v \in Seq(d.mps)
    BY <1>2, NodeIs DEF WellFormedDag
  <2>2. q \in Seq(d.Carcs[m]) /\ \A x \in d.Carcs[m] : \E k \in 1..Len(q) : q[k] = x
    BY <1>1, <2>1
  <2>3. \A c : <<u, c>> \in CtrlArcs(d) <=> c \in d.Carcs[m]
    BY <1>2, KindsOfArcs
  <2>4. \A c : <<u, c>> \in VFArcs(d) <=> \E k \in Range(v) : c = mpid2uid(k)
    BY <1>2, KindsOfArcs
  <2>5. ci = [k \in 1..Len(q) |-> <<"C", q[k]>>]
    BY DEF CtrlItems
  <2>6. vi = [k \in 1..Len(v) |-> <<"V", mpid2uid(v[k])>>]
    BY DEF VFItems
  <2>7. \A j \in d.mps : mpid2uid(j) \in Nodes(d)
    BY DEF Nodes, MpUids
  <2>8. \A k \in 1..Len(v) : v[k] \in d.mps /\ v[k] \in Range(v)
    BY <2>1 DEF Range
  <2>9. \A j \in Range(v) : \E k \in 1..Len(v) : v[k] = j
    BY <2>1 DEF Range
  <2> HIDE DEF q, v, m
  <2>10. ci \in Seq(Kinds \X Nodes(d)) /\ Len(ci) = Len(q)
    BY <2>1, <2>2, <2>5 DEF Kinds
  <2>11. vi \in Seq(Kinds \X Nodes(d)) /\ Len(vi) = Len(v)
    BY <2>1, <2>6, <2>7, <2>8 DEF Kinds
  <2>12. \A k \in 1..Len(ci) : IsItem(d, u, ci[k])
    <3>1. \A k \in 1..Len(q) : q[k] \in d.Carcs[m]
      BY <2>2
    <3> QED BY <2>3, <2>5, <2>10, <3>1 DEF IsItem
  <2>13. \A k \in 1..Len(vi) : IsItem(d, u, vi[k])
    BY <2>4, <2>6, <2>8, <2>11 DEF IsItem
  <2>14. \A c \in d.Carcs[m] : \E k \in 1..Len(ci) : ci[k][2] = c
    BY <2>2, <2>5, <2>10
  <2>15. \A j \in Range(v) : \E k \in 1..Len(vi) : vi[k][2] = mpid2uid(j)
    BY <2>6, <2>9, <2>11, SMTT(30)
  <2>16. ~ uidisNash(u)
    BY <1>2, NodeIs
  <2> QED BY <2>10, <2>11, <2>12, <2>13, <2>14, <2>15, <2>16 DEF m, v, MpLoops
<1>3. CASE uidisNash(u)
  <2> DEFINE n == uid2id(u)
             q == SortedUids(d.narcs[n])
  <2>1. n \in d.nashs /\ d.narcs[n] \in SUBSET Nodes(d)
    BY <1>3, NodeIs DEF WellFormedDag, Nodes
  <2>2. q \in Seq(d.narcs[n]) /\ \A x \in d.narcs[n] : \E k \in 1..Len(q) : q[k] = x
    BY <1>1, <2>1
  <2>3. \A c : <<u, c>> \in NashArcs(d) <=> c \in d.narcs[n]
    BY <1>3, KindsOfArcs
  <2>4. ni = [k \in 1..Len(q) |-> <<"N", q[k]>>]
    BY DEF NashItems
  <2>5. Kids(d, u) = d.narcs[n]
    BY <1>3, ArcsIs
  <2> HIDE DEF q, n
  <2>6. \A k \in 1..Len(q) : q[k] \in d.narcs[n]
    BY <2>2
  <2>7. ni \in Seq(Kinds \X Nodes(d)) /\ Len(ni) = Len(q)
    BY <2>1, <2>2, <2>4 DEF Kinds
  <2>8. \A k \in 1..Len(ni) : IsItem(d, u, ni[k])
    BY <2>3, <2>4, <2>6, <2>7 DEF IsItem
  <2>9. \A c \in d.narcs[n] : \E k \in 1..Len(ni) : ni[k][2] = c
    BY <2>2, <2>4, <2>7
  <2>10. ~ uidisMP(u)
    BY <1>3, NodeIs
  <2> QED BY <2>5, <2>7, <2>8, <2>9, <2>10 DEF n, Complete
<1> QED BY <1>2, <1>3, NodeIs

\* The entries of c are those of a and those of b.
Merges(c, a, b) ==
  /\ \A k \in 1..Len(c) : \/ \E j \in 1..Len(a) : c[k] = a[j]
                          \/ \E j \in 1..Len(b) : c[k] = b[j]
  /\ \A j \in 1..Len(a) : \E k \in 1..Len(c) : c[k] = a[j]
  /\ \A j \in 1..Len(b) : \E k \in 1..Len(c) : c[k] = b[j]

\* One list after the other has the entries of both.
LEMMA Concatenated ==
  ASSUME NEW D, NEW a \in Seq(D), NEW b \in Seq(D), NEW c, c = a \o b
  PROVE  c \in Seq(D) /\ Merges(c, a, b) /\ Merges(c, b, a)
<1> DEFINE n == Len(a)
           m == Len(b)
<1>1. n \in Nat /\ m \in Nat /\ c \in Seq(D) /\ Len(c) = n + m
  OBVIOUS
<1>2. \A k \in 1..(n + m) : c[k] = IF k <= n THEN a[k] ELSE b[k - n]
  OBVIOUS
<1> HIDE DEF n, m
<1>3. \A k \in 1..(n + m) : \/ \E j \in 1..n : c[k] = a[j]
                            \/ \E j \in 1..m : c[k] = b[j]
  <2>1. ASSUME NEW k \in 1..(n + m), ~ k <= n PROVE k - n \in 1..m /\ c[k] = b[k - n]
    BY <1>1, <1>2, <2>1
  <2>2. ASSUME NEW k \in 1..(n + m), k <= n PROVE k \in 1..n /\ c[k] = a[k]
    BY <1>1, <1>2, <2>2
  <2> QED BY <2>1, <2>2
<1>4. \A j \in 1..n : j \in 1..(n + m) /\ c[j] = a[j]
  BY <1>1, <1>2
<1>5. \A j \in 1..m : n + j \in 1..(n + m) /\ c[n + j] = b[j]
  <2>1. ASSUME NEW j \in 1..m PROVE n + j \in 1..(n + m) /\ ~ n + j <= n /\ (n + j) - n = j
    BY <1>1
  <2> QED BY <1>2, <2>1
<1> QED BY <1>1, <1>3, <1>4, <1>5 DEF n, m, Merges

\* The frame of a call has all the children of its node to visit.
LEMMA NewFrameIs ==
  ASSUME NEW d, WellFormedDag(d), NEW a \in Calls(d), a.node \in Nodes(d),
         a.via = "N" <=> uidisNash(a.node)
  PROVE  /\ NewFrame(d, a) \in Frames(d)
         /\ NewFrame(d, a).node = a.node /\ NewFrame(d, a).via = a.via
         /\ NewFrame(d, a).depth = a.depth /\ NewFrame(d, a).last = RcOK
         /\ NewFrame(d, a).start = (IF a.via = "V" THEN a.start ELSE uid2id(a.node))
         /\ NewFrame(d, a).registered = (a.via = "V" /\ a.registered)
         /\ Complete(d, a.node, NewFrame(d, a).todo)
<1> DEFINE u == a.node
           m == uid2id(u)
           f == NewFrame(d, a)
           td == CASE a.via = "N" -> NashItems(d, m)
                   [] a.via = "C" -> CtrlItems(d, m) \o VFItems(d, m)
                   [] OTHER       -> VFItems(d, m) \o CtrlItems(d, m)
           pt == CASE a.via = "N" -> "Equil"
                   [] a.via = "V" -> a.path
                   [] OTHER       -> sense2pathtype(d.sense[m])
<1>1. f = [node |-> u, via |-> a.via, depth |-> a.depth,
           cur |-> <<"none", EMPDAG_UID_NONE>>, last |-> RcOK, path |-> pt,
           start |-> IF a.via = "V" THEN a.start ELSE m,
           registered |-> a.via = "V" /\ a.registered, todo |-> td]
  BY DEF NewFrame
<1>2. pt \in PathTypes
  BY DEF Calls, PathTypes, sense2pathtype
<1>3. td \in Seq(Kinds \X Nodes(d)) /\ Complete(d, u, td)
  <2> DEFINE ci == CtrlItems(d, m)
             vi == VFItems(d, m)
             ni == NashItems(d, m)
  <2>0. /\ uidisMP(u) => MpLoops(d, u, ci, vi)
        /\ uidisNash(u) => ni \in Seq(Kinds \X Nodes(d)) /\ Complete(d, u, ni)
    BY ItemsAre, Zenon
  <2>1. CASE a.via = "N"
    <3>1. td = ni
      BY <2>1
    <3>2. uidisNash(u)
      BY <2>1
    <3> HIDE DEF td, ni, u
    <3> QED BY <2>0, <3>1, <3>2
  <2>2. CASE a.via # "N"
    <3>1. uidisMP(u)
      BY <2>2, NodeIs
    <3>2. MpLoops(d, u, ci, vi)
      BY <2>0, <3>1
    <3>3. td = ci \o vi \/ td = vi \o ci
      BY <2>2
    <3>4. \A c \in Kids(d, u) : c \in d.Carcs[m] \/ \E j \in Range(d.Varcs[m]) : c = mpid2uid(j)
      BY <3>1, ArcsIs
    <3> HIDE DEF ci, vi, td, u
    <3>5. td \in Seq(Kinds \X Nodes(d)) /\ Merges(td, ci, vi)
      <4> DEFINE D == Kinds \X Nodes(d)
      <4>0. ci \in Seq(D) /\ vi \in Seq(D)
        BY <3>2 DEF MpLoops
      <4> HIDE DEF D
      <4>1. CASE td = ci \o vi
        BY <4>0, <4>1, Concatenated, Zenon DEF D
      <4>2. CASE td = vi \o ci
        BY <4>0, <4>2, Concatenated, Zenon DEF D
      <4> QED BY <3>3, <4>1, <4>2
    <3>6. \A k \in 1..Len(td) : IsItem(d, u, td[k])
      BY <3>2, <3>5 DEF MpLoops, Merges
    <3>7. \A c \in Kids(d, u) : \E k \in 1..Len(td) : td[k][2] = c
      <4>1. ASSUME NEW c \in d.Carcs[m] PROVE \E k \in 1..Len(td) : td[k][2] = c
        <5>1. PICK j \in 1..Len(ci) : ci[j][2] = c
          BY <3>2 DEF MpLoops
        <5>2. PICK k \in 1..Len(td) : td[k] = ci[j]
          BY <3>5 DEF Merges
        <5> QED BY <5>1, <5>2
      <4>2. ASSUME NEW i \in Range(d.Varcs[m]) PROVE \E k \in 1..Len(td) : td[k][2] = mpid2uid(i)
        <5>1. PICK j \in 1..Len(vi) : vi[j][2] = mpid2uid(i)
          BY <3>2 DEF MpLoops
        <5>2. PICK k \in 1..Len(td) : td[k] = vi[j]
          BY <3>5 DEF Merges
        <5> QED BY <5>1, <5>2
      <4> QED BY <3>4, <4>1, <4>2
    <3> QED BY <3>5, <3>6, <3>7 DEF Complete
  <2> QED BY <2>1, <2>2
<1>4. m \in Int /\ a.start \in Int /\ a.via \in Vias /\ a.depth \in Nat /\ a.registered \in BOOLEAN
  BY NodeIs DEF Calls, uid2id
<1> HIDE DEF td, pt, f, m
<1>5. f \in Frames(d)
  BY <1>1, <1>2, <1>3, <1>4 DEF Frames, RcOK
<1> QED BY <1>1, <1>3, <1>5 DEF f, m
-----------------------------------------------------------------------------
(***************************************************************************)
(* The steps of the traversal, by what they do to the state.               *)
(***************************************************************************)
KeepsOrder(t, n) ==
  n.topo_order = t.topo_order /\ n.num_visited_dual = t.num_visited_dual

KeepsTimes(t, n) ==
  n.preorder = t.preorder /\ n.postorder = t.postorder /\ n.timestamp = t.timestamp

\* The node u was reached before.
Seen(t, u, n) ==
  /\ n.mode = "ret" /\ n.stack = t.stack /\ n.roots_done = t.roots_done
  /\ KeepsOrder(t, n) /\ KeepsTimes(t, n)
  /\ \/ /\ t.stat[u] = InProgress /\ n.rc = ErrCycle /\ n.isTree = t.isTree
        /\ n.stat = [t.stat EXCEPT ![u] = CycleStart]
     \/ t.stat[u] = Processed /\ n.rc = RcOK /\ n.isTree = FALSE /\ n.stat = t.stat
     \/ /\ t.stat[u] \in {CycleStart, ErrorState} /\ n.rc = ErrStatus
        /\ n.isTree = t.isTree /\ n.stat = [t.stat EXCEPT ![u] = ErrorState]

SeenStep(t, n) == t.mode = "call" /\ Seen(t, t.arg.node, n)

\* The node is a dual MP: its primal is called in its place.
DualStep(d, t, n) ==
  /\ t.mode = "call" /\ t.stat[t.arg.node] = NotExplored
  /\ uidisMP(t.arg.node) /\ d.type[uid2id(t.arg.node)] = "Dual"
  /\ n.mode = "call" /\ n.stack = t.stack /\ n.roots_done = t.roots_done
  /\ n.arg.node = mpid2uid(d.primal[uid2id(t.arg.node)])
  /\ n.stat = [t.stat EXCEPT ![t.arg.node] = Processed]
  /\ n.topo_order = t.topo_order /\ n.num_visited_dual = t.num_visited_dual + 1
  /\ KeepsTimes(t, n) /\ n.isTree = t.isTree

\* The node is a Nash node without children.
ChildlessStep(t, n) ==
  /\ t.mode = "call" /\ t.stat[t.arg.node] = NotExplored
  /\ n.mode = "ret" /\ n.rc = ErrNashNoChild /\ n.stack = t.stack /\ n.roots_done = t.roots_done
  /\ n.stat = [t.stat EXCEPT ![t.arg.node] = InProgress]
  /\ KeepsOrder(t, n) /\ n.isTree = t.isTree
  /\ n.preorder = [t.preorder EXCEPT ![t.arg.node] = t.timestamp + 1]
  /\ n.postorder = t.postorder /\ n.timestamp = t.timestamp + 1

\* The node is entered: it goes on the stack.
PushStep(d, t, n) ==
  /\ t.mode = "call" /\ t.stat[t.arg.node] = NotExplored
  /\ n.mode = "loop" /\ n.roots_done = t.roots_done
  /\ n.stat = [t.stat EXCEPT ![t.arg.node] = InProgress]
  /\ \E f \in Frames(d) : /\ n.stack = Append(t.stack, f)
                          /\ f.node = t.arg.node /\ Complete(d, f.node, f.todo) /\ f.last = RcOK
  /\ KeepsOrder(t, n) /\ n.isTree = t.isTree
  /\ n.preorder = [t.preorder EXCEPT ![t.arg.node] = t.timestamp + 1]
  /\ n.postorder = t.postorder /\ n.timestamp = t.timestamp + 1

\* The top frame is given up.
FailStep(t, n) ==
  /\ t.mode \in {"loop", "ret"} /\ t.stack # <<>>
  /\ n.mode = "ret" /\ n.stack = Front(t.stack) /\ n.roots_done = t.roots_done /\ n.rc # RcOK
  /\ n.stat = t.stat
  /\ KeepsOrder(t, n) /\ KeepsTimes(t, n) /\ n.isTree = t.isTree

\* The top frame has no child left: its node is finished.
LeaveStep(t, n) ==
  /\ t.mode = "loop" /\ t.stack # <<>> /\ Last(t.stack).todo = <<>>
  /\ n.mode = "ret" /\ n.stack = Front(t.stack) /\ n.roots_done = t.roots_done /\ n.rc = RcOK
  /\ n.stat = [t.stat EXCEPT ![Last(t.stack).node] = Processed]
  /\ n.topo_order = Append(t.topo_order, Last(t.stack).node)
  /\ n.num_visited_dual = t.num_visited_dual
  /\ n.preorder = t.preorder /\ n.timestamp = t.timestamp + 1 /\ n.isTree = t.isTree
  /\ n.postorder = [t.postorder EXCEPT ![Last(t.stack).node] = t.timestamp + 1]

\* The two stacks differ in the top frame, and there not in the node.
SameNodes(t, n) ==
  /\ Len(n.stack) = Len(t.stack)
  /\ \A k \in 1..Len(t.stack) : n.stack[k].node = t.stack[k].node
  /\ \A k \in 1..Len(t.stack) : k < Len(t.stack) => n.stack[k] = t.stack[k]

\* The next child of the top frame is called.
VisitStep(t, n) ==
  /\ t.mode = "loop" /\ t.stack # <<>> /\ Last(t.stack).todo # <<>>
  /\ n.mode = "call" /\ n.roots_done = t.roots_done /\ n.stat = t.stat
  /\ n.arg.node = Head(Last(t.stack).todo)[2]
  /\ SameNodes(t, n) /\ n.stack[Len(t.stack)].todo = Tail(Last(t.stack).todo)
  /\ KeepsOrder(t, n) /\ KeepsTimes(t, n) /\ n.isTree = t.isTree

\* A call returned and the top frame goes on.
ResumeStep(t, n) ==
  /\ t.mode = "ret" /\ t.stack # <<>> /\ t.rc <= 0 /\ t.rc # ErrCycle
  /\ n.mode = "loop" /\ n.roots_done = t.roots_done /\ n.stat = t.stat
  /\ SameNodes(t, n) /\ n.stack[Len(t.stack)].todo = Last(t.stack).todo
  /\ KeepsOrder(t, n) /\ KeepsTimes(t, n) /\ n.isTree = t.isTree

\* The next root is called.
RootStep(d, t, n) ==
  /\ t.mode = "ret" /\ t.stack = <<>> /\ t.rc = RcOK /\ t.roots_done + 1 \in 1..Len(d.roots)
  /\ n.mode = "call" /\ n.stack = t.stack /\ n.roots_done = t.roots_done + 1
  /\ n.arg.node = d.roots[t.roots_done + 1] /\ n.stat = t.stat
  /\ KeepsOrder(t, n) /\ KeepsTimes(t, n) /\ n.isTree = t.isTree

\* The traversal is over.
EndStep(t, n) ==
  /\ t.mode = "ret" /\ t.stack = <<>>
  /\ n.mode = "end" /\ n.stack = t.stack /\ n.roots_done = t.roots_done
  /\ n.rc = t.rc /\ n.stat = t.stat
  /\ KeepsOrder(t, n) /\ KeepsTimes(t, n) /\ n.isTree = t.isTree

\* A state that differs from a traversal state in what a return sets.
LEMMA ReturnIs ==
  ASSUME NEW d, NEW t \in DfsStates(d), NEW code \in Int, NEW n, n = Return(t, code)
  PROVE  /\ n \in DfsStates(d)
         /\ n.mode = "ret" /\ n.rc = code /\ n.stack = t.stack /\ n.roots_done = t.roots_done
         /\ n.stat = t.stat /\ n.isTree = t.isTree /\ KeepsOrder(t, n) /\ KeepsTimes(t, n)
<1>1. NoCall \in Calls(d)
  BY DEF NoCall, Calls, Vias, PathTypes, EMPDAG_UID_NONE
<1> QED BY <1>1 DEF Return, DfsStates, KeepsOrder, KeepsTimes

\* What a node that was reached before does to the state.
LEMMA SeenIs ==
  ASSUME NEW d, NEW t \in DfsStates(d), NEW u \in Nodes(d), t.stat[u] # NotExplored, NEW n,
         n = SeenBefore(t, u)
  PROVE  n \in DfsStates(d) /\ Seen(t, u, n)
<1>1. t.stat[u] \in Stats /\ ErrCycle \in Int /\ RcOK \in Int /\ ErrStatus \in Int
  BY DEF DfsStates, ErrCycle, RcOK, ErrStatus
<1>2. ASSUME NEW x \in Stats, NEW t1, t1 = [t EXCEPT !.stat[u] = x]
      PROVE  /\ t1 \in DfsStates(d) /\ t1.stat = [t.stat EXCEPT ![u] = x]
             /\ t1.stack = t.stack /\ t1.roots_done = t.roots_done
             /\ KeepsOrder(t, t1) /\ KeepsTimes(t, t1) /\ t1.isTree = t.isTree
  BY <1>2 DEF DfsStates, KeepsOrder, KeepsTimes
<1>3. ASSUME NEW t1, t1 = [t EXCEPT !.isTree = FALSE]
      PROVE  /\ t1 \in DfsStates(d) /\ t1.stat = t.stat
             /\ t1.stack = t.stack /\ t1.roots_done = t.roots_done
             /\ KeepsOrder(t, t1) /\ KeepsTimes(t, t1) /\ t1.isTree = FALSE
  BY <1>3 DEF DfsStates, KeepsOrder, KeepsTimes
<1>4. CASE t.stat[u] = InProgress
  <2>1. PICK t1 : t1 = [t EXCEPT !.stat[u] = CycleStart]
    OBVIOUS
  <2>2. n = Return(t1, ErrCycle)
    BY <1>4, <2>1, Zenon DEF SeenBefore, InProgress, Processed
  <2>3. /\ t1 \in DfsStates(d) /\ t1.stat = [t.stat EXCEPT ![u] = CycleStart] /\ t1.isTree = t.isTree
        /\ t1.stack = t.stack /\ t1.roots_done = t.roots_done
        /\ KeepsOrder(t, t1) /\ KeepsTimes(t, t1)
    BY <1>2, <2>1 DEF Stats
  <2>4. /\ n \in DfsStates(d) /\ n.stat = t1.stat /\ n.isTree = t1.isTree
        /\ n.mode = "ret" /\ n.rc = ErrCycle /\ n.stack = t1.stack /\ n.roots_done = t1.roots_done
        /\ KeepsOrder(t1, n) /\ KeepsTimes(t1, n)
    BY <1>1, <2>2, <2>3, ReturnIs
  <2> QED BY <1>4, <2>3, <2>4 DEF KeepsOrder, KeepsTimes, Seen
<1>5. CASE t.stat[u] = Processed
  <2>1. PICK t1 : t1 = [t EXCEPT !.isTree = FALSE]
    OBVIOUS
  <2>2. n = Return(t1, RcOK)
    BY <1>5, <2>1, Zenon DEF SeenBefore, InProgress, Processed
  <2>3. /\ t1 \in DfsStates(d) /\ t1.stat = t.stat /\ t1.isTree = FALSE
        /\ t1.stack = t.stack /\ t1.roots_done = t.roots_done
        /\ KeepsOrder(t, t1) /\ KeepsTimes(t, t1)
    BY <1>3, <2>1
  <2>4. /\ n \in DfsStates(d) /\ n.stat = t1.stat /\ n.isTree = t1.isTree
        /\ n.mode = "ret" /\ n.rc = RcOK /\ n.stack = t1.stack /\ n.roots_done = t1.roots_done
        /\ KeepsOrder(t1, n) /\ KeepsTimes(t1, n)
    BY <1>1, <2>2, <2>3, ReturnIs
  <2> QED BY <1>5, <2>3, <2>4 DEF KeepsOrder, KeepsTimes, Seen
<1>6. CASE t.stat[u] \in {CycleStart, ErrorState}
  <2>1. PICK t1 : t1 = [t EXCEPT !.stat[u] = ErrorState]
    OBVIOUS
  <2>2. n = Return(t1, ErrStatus)
    BY <1>6, <2>1, Zenon DEF SeenBefore, InProgress, Processed, CycleStart, ErrorState
  <2>3. /\ t1 \in DfsStates(d) /\ t1.stat = [t.stat EXCEPT ![u] = ErrorState] /\ t1.isTree = t.isTree
        /\ t1.stack = t.stack /\ t1.roots_done = t.roots_done
        /\ KeepsOrder(t, t1) /\ KeepsTimes(t, t1)
    BY <1>2, <2>1 DEF Stats
  <2>4. /\ n \in DfsStates(d) /\ n.stat = t1.stat /\ n.isTree = t1.isTree
        /\ n.mode = "ret" /\ n.rc = ErrStatus /\ n.stack = t1.stack /\ n.roots_done = t1.roots_done
        /\ KeepsOrder(t1, n) /\ KeepsTimes(t1, n)
    BY <1>1, <2>2, <2>3, ReturnIs
  <2> QED BY <1>6, <2>3, <2>4 DEF KeepsOrder, KeepsTimes, Seen
<1> QED BY <1>1, <1>4, <1>5, <1>6 DEF Stats

DualDone(d, t, st, k, a, n) ==
  /\ n \in DfsStates(d)
  /\ n.stat = st /\ n.num_visited_dual = k /\ n.arg = a /\ n.topo_order = t.topo_order
  /\ n.mode = t.mode /\ n.stack = t.stack /\ n.roots_done = t.roots_done
  /\ KeepsTimes(t, n) /\ n.isTree = t.isTree

\* A state that differs from a traversal state in what a dual MP sets.
LEMMA DualIs ==
  ASSUME NEW d, NEW t \in DfsStates(d), NEW st \in [Nodes(d) -> Stats], NEW k \in Nat,
         NEW a \in Calls(d), NEW n,
         n = [t EXCEPT !.stat = st, !.num_visited_dual = k, !.arg = a]
  PROVE  DualDone(d, t, st, k, a, n)
BY DEF DualDone, DfsStates, KeepsTimes

StartedDone(d, t, st, pre, k, n) ==
  /\ n \in DfsStates(d)
  /\ n.stat = st /\ n.preorder = pre /\ n.timestamp = k /\ n.postorder = t.postorder
  /\ n.mode = t.mode /\ n.stack = t.stack /\ n.roots_done = t.roots_done
  /\ KeepsOrder(t, n) /\ n.isTree = t.isTree

\* The same for what the head of a dfs_* function sets.
LEMMA StartedIs ==
  ASSUME NEW d, NEW t \in DfsStates(d), NEW st \in [Nodes(d) -> Stats],
         NEW pre \in [Nodes(d) -> Nat], NEW k \in Nat, NEW md \in Nat, NEW n,
         n = [t EXCEPT !.stat = st, !.preorder = pre, !.timestamp = k, !.max_depth = md]
  PROVE  StartedDone(d, t, st, pre, k, n)
BY DEF StartedDone, DfsStates, KeepsOrder

StackedDone(d, t, stk, mode, a, n) ==
  /\ n \in DfsStates(d)
  /\ n.stack = stk /\ n.mode = mode /\ n.arg = a /\ n.rc = t.rc
  /\ n.stat = t.stat /\ n.roots_done = t.roots_done
  /\ KeepsOrder(t, n) /\ KeepsTimes(t, n) /\ n.isTree = t.isTree

\* The same for what a change of the stack sets.
LEMMA StackedIs ==
  ASSUME NEW d, NEW t \in DfsStates(d), NEW stk \in Seq(Frames(d)),
         NEW mode \in {"call", "loop", "ret", "end"}, NEW a \in Calls(d), NEW n,
         n = [t EXCEPT !.stack = stk, !.mode = mode, !.arg = a]
  PROVE  StackedDone(d, t, stk, mode, a, n)
BY DEF StackedDone, DfsStates, KeepsOrder, KeepsTimes
\* The entry of a node is one of four steps.
LEMMA EnterIs ==
  ASSUME NEW d, WellFormedDag(d), NEW t \in DfsStates(d), Control(d, t), t.mode = "call",
         NEW n, n = EnterNode(d, t)
  PROVE  /\ n \in DfsStates(d) /\ Control(d, n)
         /\ SeenStep(t, n) \/ DualStep(d, t, n) \/ ChildlessStep(t, n) \/ PushStep(d, t, n)
<1> DEFINE a == t.arg
           u == a.node
           f == NewFrame(d, a)
           isDual == a.via \in {"C", "V"} /\ d.type[uid2id(u)] = "Dual"
           dual == [t EXCEPT !.stat[u] = Processed, !.num_visited_dual = @ + 1,
                             !.arg.node = mpid2uid(d.primal[uid2id(u)])]
           deeper == a.via # "N" /\ f.todo = <<>> /\ a.depth > t.max_depth
           st == [t EXCEPT !.stat[u] = InProgress, !.preorder[u] = t.timestamp + 1,
                           !.timestamp = @ + 1,
                           !.max_depth = IF deeper THEN a.depth ELSE @]
           push == [st EXCEPT !.stack = Append(@, f), !.mode = "loop", !.arg = NoCall]
<1>1. a \in Calls(d) /\ u \in Nodes(d) /\ (a.via = "N" <=> uidisNash(u)) /\ t.stat[u] \in Stats
  BY DEF DfsStates, Control
<1>2. n = CASE t.stat[u] # NotExplored -> SeenBefore(t, u)
            [] t.stat[u] = NotExplored /\ isDual -> dual
            [] t.stat[u] = NotExplored /\ ~isDual /\ a.via = "N" /\ f.todo = <<>> ->
                 Return(st, ErrNashNoChild)
            [] OTHER -> push
  BY Zenon DEF EnterNode
<1>3. /\ f \in Frames(d) /\ f.node = u /\ f.via = a.via /\ f.last = RcOK /\ Complete(d, u, f.todo)
  BY <1>1, NewFrameIs
<1>4. /\ \A k \in 1..Len(t.stack) :
           /\ t.stack[k].via = "N" <=> uidisNash(t.stack[k].node)
           /\ \A j \in 1..Len(t.stack[k].todo) : IsItem(d, t.stack[k].node, t.stack[k].todo[j])
      /\ t.roots_done <= Len(d.roots)
  BY DEF Control
<1>5. CASE t.stat[u] # NotExplored
  <2>1. n = SeenBefore(t, u)
    BY <1>2, <1>5
  <2>2. n \in DfsStates(d) /\ SeenStep(t, n)
    BY <1>1, <1>5, <2>1, SeenIs DEF SeenStep
  <2>3. Control(d, n)
    BY <1>4, <2>2 DEF Control, SeenStep, Seen
  <2> QED BY <2>2, <2>3
<1>6. CASE t.stat[u] = NotExplored /\ isDual
  <2>1. n = dual
    BY <1>2, <1>6
  <2>2. uidisMP(u) /\ ~ uidisNash(u)
    BY <1>1, <1>6, NodeIs
  <2>3. mpid2uid(d.primal[uid2id(u)]) \in Nodes(d) /\ ~ uidisNash(mpid2uid(d.primal[uid2id(u)]))
    <3>1. uid2id(u) \in d.mps
      BY <1>1, <2>2, NodeIs
    <3>2. d.primal[uid2id(u)] \in d.mps /\ d.primal[uid2id(u)] \in Nat
      BY <1>6, <3>1 DEF WellFormedDag
    <3> QED BY <3>2, Uids DEF Nodes, MpUids
  <2>4. n.arg = [a EXCEPT !.node = mpid2uid(d.primal[uid2id(u)])] /\ n.mode = t.mode
        /\ n.stack = t.stack
    BY <2>1 DEF DfsStates
  <2>5. n \in DfsStates(d) /\ DualStep(d, t, n)
    <3> DEFINE v == mpid2uid(d.primal[uid2id(u)])
    <3>1. v \in Nodes(d) /\ n = [t EXCEPT !.stat[u] = Processed, !.num_visited_dual = @ + 1,
                                         !.arg.node = v]
      BY <2>1, <2>3
    <3> HIDE DEF v, dual, u
    <3>2. [a EXCEPT !.node = v] \in Calls(d) /\ [a EXCEPT !.node = v].node = v
      BY <1>1, <3>1 DEF Calls
    <3>3. [t.stat EXCEPT ![u] = Processed] \in [Nodes(d) -> Stats]
      BY <1>1 DEF DfsStates, Stats
    <3>4. n = [t EXCEPT !.stat = [t.stat EXCEPT ![u] = Processed],
                        !.num_visited_dual = t.num_visited_dual + 1,
                        !.arg = [a EXCEPT !.node = v]]
      BY <3>1
    <3>5. t.num_visited_dual + 1 \in Nat
      BY DEF DfsStates
    <3>6. DualDone(d, t, [t.stat EXCEPT ![u] = Processed], t.num_visited_dual + 1,
                   [a EXCEPT !.node = v], n)
      BY <3>2, <3>3, <3>4, <3>5, DualIs, Zenon
    <3> QED BY <1>6, <2>2, <3>2, <3>6 DEF DualStep, DualDone, v, u
  <2>6. n.arg.via = a.via /\ n.arg.node = mpid2uid(d.primal[uid2id(u)])
    BY <1>1, <2>4 DEF Calls
  <2>7. Control(d, n)
    BY <1>1, <1>4, <2>2, <2>3, <2>4, <2>5, <2>6 DEF Control, DualStep
  <2> QED BY <2>5, <2>7
<1>7. CASE t.stat[u] = NotExplored /\ ~isDual
  <2>1. /\ st \in DfsStates(d) /\ st.stack = t.stack /\ st.roots_done = t.roots_done
        /\ st.stat = [t.stat EXCEPT ![u] = InProgress]
        /\ KeepsOrder(t, st) /\ st.isTree = t.isTree
        /\ st.preorder = [t.preorder EXCEPT ![u] = t.timestamp + 1]
        /\ st.postorder = t.postorder /\ st.timestamp = t.timestamp + 1
    <3> DEFINE md == IF deeper THEN a.depth ELSE t.max_depth
    <3>1. md \in Nat /\ a.depth \in Nat
      BY <1>1 DEF DfsStates, Calls
    <3>2. st = [t EXCEPT !.stat[u] = InProgress, !.preorder[u] = t.timestamp + 1,
                         !.timestamp = t.timestamp + 1, !.max_depth = md]
      OBVIOUS
    <3> HIDE DEF deeper, md, st, u
    <3>3. /\ t.timestamp + 1 \in Nat /\ md \in Nat
          /\ [t.stat EXCEPT ![u] = InProgress] \in [Nodes(d) -> Stats]
          /\ [t.preorder EXCEPT ![u] = t.timestamp + 1] \in [Nodes(d) -> Nat]
      BY <1>1, <3>1 DEF DfsStates, Stats
    <3>4. st = [t EXCEPT !.stat = [t.stat EXCEPT ![u] = InProgress],
                         !.preorder = [t.preorder EXCEPT ![u] = t.timestamp + 1],
                         !.timestamp = t.timestamp + 1, !.max_depth = md]
      BY <3>2
    <3>5. StartedDone(d, t, [t.stat EXCEPT ![u] = InProgress],
                      [t.preorder EXCEPT ![u] = t.timestamp + 1], t.timestamp + 1, st)
      BY <3>3, <3>4, StartedIs, Zenon
    <3> QED BY <3>5 DEF StartedDone, u
  <2>2. CASE a.via = "N" /\ f.todo = <<>>
    <3> HIDE DEF st, f
    <3>1. n = Return(st, ErrNashNoChild) /\ ErrNashNoChild \in Int
      BY <1>2, <1>7, <2>2 DEF ErrNashNoChild
    <3>2. n \in DfsStates(d) /\ ChildlessStep(t, n)
      <4>1. /\ n \in DfsStates(d) /\ n.stat = st.stat /\ n.isTree = st.isTree
            /\ n.mode = "ret" /\ n.rc = ErrNashNoChild /\ n.stack = st.stack
            /\ n.roots_done = st.roots_done /\ KeepsOrder(st, n) /\ KeepsTimes(st, n)
        BY <2>1, <3>1, ReturnIs
      <4> QED BY <1>7, <2>1, <4>1 DEF KeepsOrder, KeepsTimes, ChildlessStep
    <3>3. Control(d, n)
      BY <1>4, <3>2 DEF Control, ChildlessStep
    <3> QED BY <3>2, <3>3
  <2>3. CASE ~ (a.via = "N" /\ f.todo = <<>>)
    <3>0. NoCall \in Calls(d)
      BY DEF NoCall, Calls, Vias, PathTypes, EMPDAG_UID_NONE
    <3>1. n = push
      <4> HIDE DEF push, st, f
      <4> QED BY <1>2, <1>7, <2>3
    <3> HIDE DEF st, f
    <3>2. n \in DfsStates(d) /\ n.stack = Append(t.stack, f) /\ n.mode = "loop"
          /\ KeepsOrder(st, n) /\ KeepsTimes(st, n) /\ n.isTree = st.isTree /\ n.stat = st.stat
          /\ n.roots_done = st.roots_done
      <4>1. st.stack \in Seq(Frames(d)) /\ Append(st.stack, f) \in Seq(Frames(d))
        BY <1>3, <2>1 DEF DfsStates
      <4>2. n = [st EXCEPT !.stack = Append(st.stack, f), !.mode = "loop", !.arg = NoCall]
        BY <3>1
      <4> HIDE DEF push
      <4>3. StackedDone(d, st, Append(st.stack, f), "loop", NoCall, n)
        BY <2>1, <3>0, <4>1, <4>2, StackedIs, Zenon
      <4> QED BY <2>1, <4>3 DEF StackedDone
    <3>3. PushStep(d, t, n)
      BY <1>3, <1>7, <2>1, <3>2 DEF PushStep, KeepsOrder, KeepsTimes
    <3>4. t.stack \in Seq(Frames(d))
      BY DEF DfsStates
    <3>5. Len(n.stack) = Len(t.stack) + 1 /\ n.stack[Len(t.stack) + 1] = f /\ n.stack # <<>>
          /\ \A k \in 1..Len(t.stack) : n.stack[k] = t.stack[k]
      BY <1>3, <3>2, <3>4
    <3>6. \A j \in 1..Len(f.todo) : IsItem(d, f.node, f.todo[j])
      BY <1>3 DEF Complete
    <3>7. Control(d, n)
      <4>1. ASSUME NEW k \in 1..Len(n.stack)
            PROVE  /\ n.stack[k].via = "N" <=> uidisNash(n.stack[k].node)
                   /\ \A j \in 1..Len(n.stack[k].todo) : IsItem(d, n.stack[k].node, n.stack[k].todo[j])
        <5>1. CASE k = Len(t.stack) + 1
          BY <1>1, <1>3, <3>5, <3>6, <5>1
        <5>2. CASE k # Len(t.stack) + 1
          <6>1. k \in 1..Len(t.stack) /\ n.stack[k] = t.stack[k]
            BY <3>4, <3>5, <5>2
          <6> QED BY <1>4, <6>1
        <5> QED BY <5>1, <5>2
      <4>2. n.roots_done = t.roots_done
        BY <3>3 DEF PushStep
      <4> QED BY <1>4, <3>2, <3>5, <4>1, <4>2 DEF Control
    <3> QED BY <3>2, <3>3, <3>7
  <2> QED BY <2>2, <2>3
<1> QED BY <1>5, <1>6, <1>7
-----------------------------------------------------------------------------
\* The list without its last entry.
LEMMA FrontIs ==
  ASSUME NEW S, NEW q \in Seq(S), q # <<>>
  PROVE  /\ Len(q) \in Nat /\ Len(q) >= 1 /\ Last(q) = q[Len(q)] /\ q[Len(q)] \in S
         /\ Front(q) \in Seq(S) /\ Len(Front(q)) = Len(q) - 1
         /\ \A k \in 1..(Len(q) - 1) : Front(q)[k] = q[k]
<1>1. Len(q) \in Nat /\ Len(q) >= 1
  OBVIOUS
<1>2. Front(q) = SubSeq(q, 1, Len(q) - 1) /\ Last(q) = q[Len(q)]
  BY DEF Front, Last
<1>3. Len(q) - 1 \in Nat /\ \A k \in 1..(Len(q) - 1) : q[k] \in S
  BY <1>1
<1>4. /\ SubSeq(q, 1, Len(q) - 1) \in Seq(S) /\ Len(SubSeq(q, 1, Len(q) - 1)) = Len(q) - 1
      /\ \A k \in 1..(Len(q) - 1) : SubSeq(q, 1, Len(q) - 1)[k] = q[k]
  <2> DEFINE m == Len(q) - 1
  <2>1. m \in Int /\ 1 \in Int /\ \A i \in 1..m : q[i] \in S
    BY <1>1, <1>3
  <2>2. /\ SubSeq(q, 1, m) \in Seq(S)
        /\ Len(SubSeq(q, 1, m)) = IF 1 <= m THEN m - 1 + 1 ELSE 0
        /\ \A i \in 1..(m - 1 + 1) : SubSeq(q, 1, m)[i] = q[1 + i - 1]
    <3> HIDE DEF m
    <3> QED BY <2>1, SubSeqProperties
  <2>3. \A k \in 1..m : k \in 1..(m - 1 + 1) /\ 1 + k - 1 = k
    BY <2>1
  <2>4. Len(SubSeq(q, 1, m)) = m
    <3>1. m \in Nat /\ (1 <= m => m - 1 + 1 = m) /\ (~ 1 <= m => m = 0)
      <4>1. m \in Nat
        BY <1>3
      <4> HIDE DEF m
      <4> QED BY <4>1
    <3> HIDE DEF m
    <3> QED BY <2>2, <3>1
  <2>5. \A k \in 1..m : SubSeq(q, 1, m)[k] = q[k]
    <3> HIDE DEF m
    <3> QED BY <2>2, <2>3
  <2> QED BY <2>2, <2>4, <2>5
<1>5. q[Len(q)] \in S
  BY <1>1
<1> QED BY <1>1, <1>2, <1>4, <1>5

\* What the states of a traversal say of their stacks.
LEMMA StackIs ==
  ASSUME NEW d, NEW t \in DfsStates(d), t.stack # <<>>
  PROVE  /\ t.stack \in Seq(Frames(d)) /\ Len(t.stack) \in Nat /\ Len(t.stack) >= 1
         /\ Last(t.stack) \in Frames(d) /\ Last(t.stack) = t.stack[Len(t.stack)]
         /\ Front(t.stack) \in Seq(Frames(d)) /\ Len(Front(t.stack)) = Len(t.stack) - 1
         /\ \A k \in 1..(Len(t.stack) - 1) : Front(t.stack)[k] = t.stack[k]
<1>1. t.stack \in Seq(Frames(d))
  BY DEF DfsStates
<1> QED BY <1>1, FrontIs

\* What the frames below the top satisfy is still satisfied when the top is gone.
LEMMA ControlPopped ==
  ASSUME NEW d, NEW t \in DfsStates(d), Control(d, t), t.stack # <<>>, NEW n \in DfsStates(d),
         n.mode = "ret", n.stack = Front(t.stack), n.roots_done = t.roots_done
  PROVE  Control(d, n)
<1>1. ASSUME NEW k \in 1..Len(n.stack)
      PROVE  k \in 1..Len(t.stack) /\ n.stack[k] = t.stack[k]
  BY StackIs
<1> QED BY <1>1 DEF Control

\* The same when the top frame gets other loop variables.
LEMMA ControlTop ==
  ASSUME NEW d, NEW t \in DfsStates(d), Control(d, t), t.stack # <<>>, NEW n \in DfsStates(d),
         n.mode \in {"loop", "call"}, n.roots_done = t.roots_done, NEW g \in Frames(d), n.stack = [t.stack EXCEPT ![Len(t.stack)] = g],
         g.node = Last(t.stack).node, g.via = Last(t.stack).via,
         g.todo = Last(t.stack).todo \/ (g.todo = Tail(Last(t.stack).todo) /\ Last(t.stack).todo # <<>>),
         n.mode = "call" => n.arg.node \in Nodes(d) /\ (n.arg.via = "N" <=> uidisNash(n.arg.node))
  PROVE  Control(d, n)
<1> DEFINE f == Last(t.stack)
           q == f.todo
<1>1. /\ t.stack \in Seq(Frames(d)) /\ Len(t.stack) \in Nat /\ Len(t.stack) >= 1
      /\ f = t.stack[Len(t.stack)] /\ q \in Seq(Kinds \X Nodes(d))
  BY StackIs DEF Frames
<1>2. Len(n.stack) = Len(t.stack) /\ n.stack # <<>>
  BY <1>1
<1>3. ASSUME NEW k \in 1..Len(n.stack)
      PROVE  /\ n.stack[k].via = "N" <=> uidisNash(n.stack[k].node)
             /\ \A j \in 1..Len(n.stack[k].todo) : IsItem(d, n.stack[k].node, n.stack[k].todo[j])
  <2>1. /\ t.stack[k].via = "N" <=> uidisNash(t.stack[k].node)
        /\ \A j \in 1..Len(t.stack[k].todo) : IsItem(d, t.stack[k].node, t.stack[k].todo[j])
    BY <1>2 DEF Control
  <2>2. CASE k # Len(t.stack)
    <3>1. n.stack[k] = t.stack[k]
      BY <1>1, <1>2, <2>2
    <3> QED BY <2>1, <3>1
  <2>3. CASE k = Len(t.stack)
    <3>1. n.stack[k] = g /\ t.stack[k] = f
      BY <1>1, <1>2, <2>3
    <3>2. \A j \in 1..Len(q) : IsItem(d, f.node, q[j])
      BY <2>1, <3>1
    <3> HIDE DEF f
    <3>3. \A j \in 1..Len(g.todo) : IsItem(d, f.node, g.todo[j])
      <4>1. CASE g.todo = q
        BY <3>2, <4>1
      <4>2. CASE g.todo = Tail(q) /\ q # <<>>
        <5>1. ASSUME NEW j \in 1..Len(Tail(q)) PROVE j + 1 \in 1..Len(q) /\ Tail(q)[j] = q[j + 1]
          BY <1>1, <4>2
        <5> HIDE DEF q
        <5> QED BY <3>2, <4>2, <5>1
      <4> QED BY <4>1, <4>2 DEF f
    <3> QED BY <2>1, <3>1, <3>3 DEF f
  <2> QED BY <2>2, <2>3
<1> QED BY <1>2, <1>3 DEF Control

\* The two stacks have the same nodes when only the top frame changed.
LEMMA TopIs ==
  ASSUME NEW d, NEW t \in DfsStates(d), t.stack # <<>>, NEW n,
         NEW g \in Frames(d), g.node = Last(t.stack).node, n.stack = [t.stack EXCEPT ![Len(t.stack)] = g]
  PROVE  SameNodes(t, n) /\ n.stack \in Seq(Frames(d)) /\ n.stack[Len(t.stack)] = g
         /\ Front(n.stack) = Front(t.stack)
<1>1. /\ t.stack \in Seq(Frames(d)) /\ Len(t.stack) \in Nat /\ Len(t.stack) >= 1
      /\ Last(t.stack) = t.stack[Len(t.stack)]
  BY StackIs
<1>2. Len(n.stack) = Len(t.stack) /\ n.stack \in Seq(Frames(d)) /\ n.stack[Len(t.stack)] = g
      /\ \A k \in 1..Len(t.stack) : k < Len(t.stack) => n.stack[k] = t.stack[k]
  BY <1>1
<1>3. \A k \in 1..Len(t.stack) : n.stack[k].node = t.stack[k].node
  BY <1>1, <1>2
<1>4. Front(n.stack) = Front(t.stack)
  <2> DEFINE a == Front(n.stack)
             b == Front(t.stack)
             m == Len(t.stack) - 1
  <2>1. n.stack # <<>>
    BY <1>1, <1>2
  <2>2. a \in Seq(Frames(d)) /\ Len(a) = m /\ \A k \in 1..m : a[k] = n.stack[k]
    <3> DEFINE q == n.stack
    <3>1. q \in Seq(Frames(d)) /\ q # <<>> /\ Len(q) - 1 = m /\ a = Front(q)
      BY <1>2, <2>1
    <3> HIDE DEF q, a, m
    <3>2. /\ Front(q) \in Seq(Frames(d)) /\ Len(Front(q)) = Len(q) - 1
          /\ \A k \in 1..(Len(q) - 1) : Front(q)[k] = q[k]
      BY <3>1, FrontIs
    <3> QED BY <3>1, <3>2 DEF q
  <2>3. b \in Seq(Frames(d)) /\ Len(b) = m /\ \A k \in 1..m : b[k] = t.stack[k]
    BY StackIs
  <2>4. m \in Nat /\ \A k \in 1..m : n.stack[k] = t.stack[k]
    BY <1>1, <1>2
  <2> HIDE DEF a, b, m
  <2>5. \A k \in 1..Len(a) : a[k] = b[k]
    BY <2>2, <2>3, <2>4
  <2>6. Len(a) = Len(b)
    BY <2>2, <2>3
  <2> QED BY <2>2, <2>3, <2>5, <2>6, SeqEqual DEF a, b
<1> QED BY <1>2, <1>3, <1>4 DEF SameNodes
PopDone(d, t, code, n) ==
  /\ n \in DfsStates(d)
  /\ n.mode = "ret" /\ n.rc = code /\ n.stack = Front(t.stack) /\ n.roots_done = t.roots_done
  /\ n.stat = t.stat /\ n.isTree = t.isTree /\ KeepsOrder(t, n) /\ KeepsTimes(t, n)

\* A return that takes the top frame away.
LEMMA PopIs ==
  ASSUME NEW d, NEW t \in DfsStates(d), t.stack # <<>>, NEW code \in Int, NEW n, n = Pop(t, code)
  PROVE  PopDone(d, t, code, n)
<1>1. PICK t1 : t1 = [t EXCEPT !.stack = Front(t.stack)]
  OBVIOUS
<1>2. t1 \in DfsStates(d) /\ t1.stack = Front(t.stack) /\ t1.roots_done = t.roots_done
      /\ t1.stat = t.stat /\ t1.isTree = t.isTree /\ KeepsOrder(t, t1) /\ KeepsTimes(t, t1)
  <2>1. Front(t.stack) \in Seq(Frames(d))
    BY StackIs
  <2> QED BY <1>1, <2>1 DEF DfsStates, KeepsOrder, KeepsTimes
<1>3. n = Return(t1, code)
  BY <1>1 DEF Pop
<1>4. /\ n \in DfsStates(d)
      /\ n.mode = "ret" /\ n.rc = code /\ n.stack = t1.stack /\ n.roots_done = t1.roots_done
      /\ n.stat = t1.stat /\ n.isTree = t1.isTree /\ KeepsOrder(t1, n) /\ KeepsTimes(t1, n)
  BY <1>2, <1>3, ReturnIs
<1> QED BY <1>2, <1>4 DEF PopDone, KeepsOrder, KeepsTimes

FinishDone(d, t, st, post, k, top, n) ==
  /\ n \in DfsStates(d)
  /\ n.stat = st /\ n.postorder = post /\ n.timestamp = k /\ n.topo_order = top
  /\ n.num_visited_dual = t.num_visited_dual /\ n.preorder = t.preorder
  /\ n.mode = t.mode /\ n.stack = t.stack /\ n.roots_done = t.roots_done /\ n.isTree = t.isTree

\* A state that differs from a traversal state in what the tail of a dfs_* function sets.
LEMMA FinishIs ==
  ASSUME NEW d, NEW t \in DfsStates(d), NEW st \in [Nodes(d) -> Stats],
         NEW post \in [Nodes(d) -> Nat], NEW k \in Nat, NEW top \in Seq(Nodes(d)), NEW n,
         n = [t EXCEPT !.stat = st, !.postorder = post, !.timestamp = k, !.topo_order = top]
  PROVE  FinishDone(d, t, st, post, k, top, n)
BY DEF FinishDone, DfsStates

\* The tail of a dfs_* function finishes the node or fails.
LEMMA LeaveIs ==
  ASSUME NEW d, NEW t \in DfsStates(d), Control(d, t), t.mode = "loop", t.stack # <<>>,
         Last(t.stack).todo = <<>>, NEW n, n = LeaveNode(d, t)
  PROVE  n \in DfsStates(d) /\ Control(d, n) /\ (FailStep(t, n) \/ LeaveStep(t, n))
<1> DEFINE f == Last(t.stack)
           u == f.node
           st == [t.stat EXCEPT ![u] = Processed]
           post == [t.postorder EXCEPT ![u] = t.timestamp + 1]
           k == t.timestamp + 1
           top == Append(t.topo_order, u)
           t1 == [t EXCEPT !.stat = st, !.postorder = post, !.timestamp = k, !.topo_order = top]
<1>1. f \in Frames(d) /\ u \in Nodes(d)
  BY StackIs DEF Frames
<1>2. n = IF f.via = "R" /\ TwoArcsFromOneParent(d, uid2id(u)) THEN Pop(t, ErrStatus)
          ELSE Pop(t1, RcOK)
  BY DEF LeaveNode, Top
<1>3. st \in [Nodes(d) -> Stats] /\ post \in [Nodes(d) -> Nat] /\ k \in Nat /\ top \in Seq(Nodes(d))
  BY <1>1 DEF DfsStates, Stats
<1>4. CASE f.via = "R" /\ TwoArcsFromOneParent(d, uid2id(u))
  <2>1. n = Pop(t, ErrStatus) /\ ErrStatus \in Int /\ ErrStatus # RcOK
    <3> HIDE DEF t1, f
    <3> QED BY <1>2, <1>4 DEF ErrStatus, RcOK
  <2>2. PopDone(d, t, ErrStatus, n)
    BY <2>1, PopIs
  <2>3. FailStep(t, n) /\ n \in DfsStates(d)
    BY <2>1, <2>2 DEF FailStep, PopDone
  <2>4. Control(d, n)
    BY <2>3, ControlPopped DEF FailStep
  <2> QED BY <2>3, <2>4
<1>5. CASE ~ (f.via = "R" /\ TwoArcsFromOneParent(d, uid2id(u)))
  <2>1. n = Pop(t1, RcOK) /\ RcOK \in Int
    <3> HIDE DEF t1, f
    <3> QED BY <1>2, <1>5 DEF RcOK
  <2> HIDE DEF st, post, k, top
  <2>2. FinishDone(d, t, st, post, k, top, t1)
    BY <1>3, FinishIs, Zenon
  <2> HIDE DEF t1
  <2>3. PopDone(d, t1, RcOK, n)
    <3>1. t1 \in DfsStates(d) /\ t1.stack # <<>>
      BY <2>2 DEF FinishDone
    <3> QED BY <2>1, <3>1, PopIs
  <2>4. LeaveStep(t, n) /\ n \in DfsStates(d)
    BY <2>2, <2>3 DEF LeaveStep, FinishDone, PopDone, KeepsOrder, KeepsTimes, st, post, k, top
  <2>5. Control(d, n)
    BY <2>4, ControlPopped DEF LeaveStep
  <2> QED BY <2>4, <2>5
<1> QED BY <1>4, <1>5
\* A state that the invariants of the order and of the intervals do not tell apart, but
\* for the stack, the mode, the call and the code.
Quiet(d, t, n) ==
  /\ n \in DfsStates(d)
  /\ n.stat = t.stat /\ n.isTree = t.isTree /\ n.roots_done = t.roots_done
  /\ KeepsOrder(t, n) /\ KeepsTimes(t, n)

CountedDone(d, t, stk, n) == Quiet(d, t, n) /\ n.stack = stk /\ n.adversarial_mps = t.adversarial_mps
                             /\ n.saddle_path_starts = t.saddle_path_starts

\* A state that differs from a traversal state in what is counted for a child.
LEMMA CountedIs ==
  ASSUME NEW d, NEW t \in DfsStates(d), NEW stk \in Seq(Frames(d)), NEW na \in [Nodes(d) -> Nat],
         NEW n, n = [t EXCEPT !.stack = stk, !.num_ancestors = na]
  PROVE  CountedDone(d, t, stk, n)
BY DEF CountedDone, Quiet, DfsStates, KeepsOrder, KeepsTimes

\* The same for the flag of the VF arcs.
LEMMA FlaggedIs ==
  ASSUME NEW d, NEW t \in DfsStates(d), NEW vf \in BOOLEAN, NEW n, n = [t EXCEPT !.hasVFPath = vf]
  PROVE  CountedDone(d, t, t.stack, n)
BY DEF CountedDone, Quiet, DfsStates, KeepsOrder, KeepsTimes

RegisteredDone(d, t, stk, n) == Quiet(d, t, n) /\ n.stack = stk

\* The same for what an adversarial child sets.
LEMMA RegisteredIs ==
  ASSUME NEW d, NEW t \in DfsStates(d), NEW stk \in Seq(Frames(d)), NEW x \in Seq(Nat),
         NEW y \in Seq(Int), NEW n,
         n = [t EXCEPT !.adversarial_mps = x, !.saddle_path_starts = y, !.stack = stk]
  PROVE  RegisteredDone(d, t, stk, n)
BY DEF RegisteredDone, Quiet, DfsStates, KeepsOrder, KeepsTimes

CallDone(d, t, a, n) == Quiet(d, t, n) /\ n.stack = t.stack /\ n.mode = "call" /\ n.arg = a

\* The same for a call.
LEMMA CallIs ==
  ASSUME NEW d, NEW t \in DfsStates(d), NEW a \in Calls(d), NEW n,
         n = [t EXCEPT !.mode = "call", !.arg = a]
  PROVE  CallDone(d, t, a, n)
BY DEF CallDone, Quiet, DfsStates, KeepsOrder, KeepsTimes

\* The children of a node, by the loop that visits them.
LEMMA ItemIs ==
  ASSUME NEW d, WellFormedDag(d), NEW u \in Nodes(d), NEW x \in Kinds \X Nodes(d), IsItem(d, u, x)
  PROVE  /\ x[2] \in Nodes(d) /\ <<u, x[2]>> \in Arcs(d)
         /\ x[1] # "C" => uidisMP(x[2]) /\ ~ uidisNash(x[2])
<1>1. x[1] \in Kinds /\ x[2] \in Nodes(d)
  OBVIOUS
<1>2. <<u, x[2]>> \in Arcs(d)
  BY <1>1 DEF Kinds, IsItem, Arcs
<1>3. ASSUME x[1] = "V" PROVE uidisMP(x[2])
  <2>1. PICK k \in Range(d.Varcs[uid2id(u)]) : x[2] = mpid2uid(k)
    BY <1>1, <1>3, KindsOfArcs DEF IsItem
  <2>2. uidisMP(u)
    BY <1>1, <1>3, KindsOfArcs DEF IsItem
  <2>3. uid2id(u) \in d.mps
    BY <2>2, NodeIs
  <2>4. d.Varcs[uid2id(u)] \in Seq(d.mps) /\ d.mps \subseteq Nat
    BY <2>3 DEF WellFormedDag
  <2>5. k \in Nat
    BY <2>4 DEF Range
  <2> QED BY <2>1, <2>5, Uids
<1>4. ASSUME x[1] = "N" PROVE uidisMP(x[2])
  <2>1. uidisNash(u) /\ x[2] \in d.narcs[uid2id(u)]
    BY <1>1, <1>4, KindsOfArcs DEF IsItem
  <2>2. uid2id(u) \in d.nashs
    BY <2>1, NodeIs
  <2>3. x[2] \in MpUids(d)
    BY <2>1, <2>2 DEF WellFormedDag
  <2> QED BY <1>1, <2>3, NodeIs
<1> QED BY <1>1, <1>2, <1>3, <1>4, NodeIs DEF Kinds
\* The fields of a frame.
LEMMA FrameIs ==
  ASSUME NEW d, NEW f \in Frames(d)
  PROVE  f.node \in Nodes(d) /\ f.depth + 1 \in Nat /\ f.start \in Int /\ f.registered \in BOOLEAN
         /\ f.path \in PathTypes /\ f.todo \in Seq(Kinds \X Nodes(d))
BY DEF Frames

\* The frame f once its next child is taken.
NextChild(f) == [f EXCEPT !.todo = Tail(f.todo), !.cur = Head(f.todo)]

\* Taking a child leaves a frame, and so does the mark that a path is registered.
LEMMA NextChildIs ==
  ASSUME NEW d, NEW f \in Frames(d), f.todo # <<>>
  PROVE  /\ Head(f.todo) \in Kinds \X Nodes(d) /\ Head(f.todo) = f.todo[1]
         /\ NextChild(f) \in Frames(d) /\ NextChild(f).node = f.node /\ NextChild(f).via = f.via
         /\ NextChild(f).todo = Tail(f.todo)
<1>1. f.todo \in Seq(Kinds \X Nodes(d))
  BY DEF Frames
<1>2. Head(f.todo) \in Kinds \X Nodes(d) /\ Head(f.todo) = f.todo[1]
      /\ Tail(f.todo) \in Seq(Kinds \X Nodes(d))
  BY <1>1
<1>3. Head(f.todo) \in (Kinds \cup {"none"}) \X (Nodes(d) \cup {EMPDAG_UID_NONE})
  BY <1>2
<1> DEFINE q == Tail(f.todo)
           x == Head(f.todo)
<1>4. q \in Seq(Kinds \X Nodes(d)) /\ x \in (Kinds \cup {"none"}) \X (Nodes(d) \cup {EMPDAG_UID_NONE})
      /\ NextChild(f) = [f EXCEPT !.todo = q, !.cur = x]
  BY <1>2, <1>3 DEF NextChild
<1>5. NextChild(f) \in Frames(d) /\ NextChild(f).node = f.node /\ NextChild(f).via = f.via
      /\ NextChild(f).todo = q
  <2> HIDE DEF q, x
  <2> QED BY <1>4 DEF Frames
<1> QED BY <1>2, <1>5

\* A turn of the loop over the children visits the next one or fails.
LEMMA VisitIs ==
  ASSUME NEW d, WellFormedDag(d), NEW t \in DfsStates(d), Control(d, t), t.mode = "loop",
         t.stack # <<>>, Last(t.stack).todo # <<>>, NEW n, n = VisitChild(d, t)
  PROVE  n \in DfsStates(d) /\ Control(d, n) /\ (FailStep(t, n) \/ VisitStep(t, n))
<1> DEFINE f == Last(t.stack)
           x == Head(f.todo)
           kind == x[1]
           c == x[2]
           L == Len(t.stack)
           csense == d.sense[uid2id(c)]
           adv == Adversarial(f.path, csense)
           counted == [t EXCEPT !.stack[L].todo = Tail(@),
                                !.stack[L].cur = <<kind, c>>,
                                !.num_ancestors[c] = @ + 1,
                                !.hasVFPath = @ \/ kind = "V"]
           registered == [counted EXCEPT
                            !.adversarial_mps = Append(@, uid2id(c)),
                            !.saddle_path_starts =
                               IF f.registered THEN @ ELSE Append(@, f.start),
                            !.stack[L].registered = TRUE]
           Args(via, path) == [node |-> c, via |-> via, path |-> path,
                               depth |-> f.depth + 1, start |-> f.start,
                               registered |-> f.registered \/ (kind = "V" /\ adv)]
           Call(s1, via, path) == [s1 EXCEPT !.mode = "call", !.arg = Args(via, path)]
           g == NextChild(f)
           stk == [t.stack EXCEPT ![L] = g]
<1>1. /\ f \in Frames(d) /\ t.stack \in Seq(Frames(d)) /\ f = t.stack[L] /\ L \in Nat /\ L >= 1
  BY StackIs
<1>0. f.todo # <<>>
  OBVIOUS
<1>2. /\ x \in Kinds \X Nodes(d) /\ x = f.todo[1]
      /\ g \in Frames(d) /\ g.node = f.node /\ g.via = f.via /\ g.todo = Tail(f.todo)
  <2> HIDE DEF f
  <2> QED BY <1>0, <1>1, NextChildIs
<1>3. kind \in Kinds /\ c \in Nodes(d) /\ x = <<kind, c>>
  <2> HIDE DEF x
  <2> QED BY <1>2
<1>4. IsItem(d, f.node, x)
  <2>1. 1 \in 1..Len(f.todo)
    BY <1>1 DEF Frames
  <2>2. \A j \in 1..Len(f.todo) : IsItem(d, f.node, f.todo[j])
    <3>1. L \in 1..Len(t.stack)
      BY <1>1
    <3> QED BY <1>1, <3>1 DEF Control
  <2> QED BY <1>2, <2>1, <2>2
<1>5. f.node \in Nodes(d) /\ f.depth + 1 \in Nat /\ f.start \in Int /\ f.registered \in BOOLEAN
      /\ f.path \in PathTypes
  BY <1>1, FrameIs
<1>6. kind # "C" => uidisMP(c) /\ ~ uidisNash(c)
  <2> HIDE DEF f, x
  <2> QED BY <1>2, <1>4, <1>5, ItemIs
<1>7. adv \in BOOLEAN
  BY DEF Adversarial
<1>8. ASSUME NEW via \in Vias, NEW path \in PathTypes
      PROVE  Args(via, path) \in Calls(d) /\ Args(via, path).node = c /\ Args(via, path).via = via
  <2> HIDE DEF f, x, adv
  <2> QED BY <1>3, <1>5, <1>7, <1>8 DEF Calls
<1>9. stk \in Seq(Frames(d)) /\ Len(stk) = L /\ stk[L] = g
  <2> HIDE DEF g
  <2> QED BY <1>1, <1>2
<1>10. CountedDone(d, t, stk, counted)
  <2> DEFINE stk0 == [t.stack EXCEPT ![L].todo = Tail(@), ![L].cur = <<kind, c>>]
             na == [t.num_ancestors EXCEPT ![c] = @ + 1]
             vf == (t.hasVFPath \/ kind = "V")
             t2 == [t EXCEPT !.stack[L].todo = Tail(@), !.stack[L].cur = <<kind, c>>,
                             !.num_ancestors[c] = @ + 1]
  <2>1. t2 = [t EXCEPT !.stack = stk0, !.num_ancestors = na]
    <3> HIDE DEF x, f
    <3> QED OBVIOUS
  <2>2. stk0 = stk
    <3>1. [f EXCEPT !.todo = Tail(@), !.cur = <<kind, c>>] = g
      <4> HIDE DEF f
      <4> QED BY <1>1, <1>3 DEF NextChild
    <3>2. stk0 = [t.stack EXCEPT ![L] = [t.stack[L] EXCEPT !.todo = Tail(@), !.cur = <<kind, c>>]]
      <4> HIDE DEF f, x
      <4> QED BY <1>1
    <3> HIDE DEF f, x, stk0
    <3> QED BY <1>1, <3>1, <3>2
  <2>3. na \in [Nodes(d) -> Nat] /\ vf \in BOOLEAN
    <3>1. t.num_ancestors \in [Nodes(d) -> Nat] /\ t.hasVFPath \in BOOLEAN
      BY DEF DfsStates
    <3> HIDE DEF x
    <3> QED BY <1>3, <3>1
  <2>4. counted = [t2 EXCEPT !.hasVFPath = @ \/ kind = "V"]
    <3> HIDE DEF x
    <3> QED OBVIOUS
  <2> HIDE DEF stk, na, stk0, t2, x, counted
  <2>5. CountedDone(d, t, stk, t2) /\ t2.hasVFPath = t.hasVFPath
    <3>1. t2 = [t EXCEPT !.stack = stk, !.num_ancestors = na]
      BY <2>1, <2>2
    <3>2. CountedDone(d, t, stk, t2)
      BY <1>9, <2>3, <3>1, CountedIs, Zenon
    <3>3. t2.hasVFPath = t.hasVFPath
      BY <3>1 DEF DfsStates
    <3> QED BY <3>2, <3>3
  <2>6. CountedDone(d, t2, t2.stack, counted)
    <3>1. t2 \in DfsStates(d)
      BY <2>5 DEF CountedDone, Quiet
    <3>2. counted = [t2 EXCEPT !.hasVFPath = vf]
      BY <2>4, <2>5
    <3> HIDE DEF vf
    <3> QED BY <2>3, <3>1, <3>2, FlaggedIs
  <2> QED BY <2>5, <2>6 DEF CountedDone, Quiet, KeepsOrder, KeepsTimes
<1> DEFINE code == ErrStatus
<1>11. n = CASE kind = "C" -> Call(counted, IF uidisMP(c) THEN "C" ELSE "N", "Ctrl")
             [] kind = "N" -> Call(counted, "R", "Equil")
             [] kind = "V" /\ csense = "feas" -> Pop(counted, code)
             [] OTHER -> Call(IF adv THEN registered ELSE counted, "V", f.path)
  BY Zenon DEF VisitChild, Top
<1> HIDE DEF counted
<1>12. ASSUME NEW t2 \in DfsStates(d), Quiet(d, t, t2), NEW h \in Frames(d),
              t2.stack = [t.stack EXCEPT ![L] = h], h.node = f.node, h.via = f.via, h.todo = Tail(f.todo),
              NEW via \in Vias, NEW path \in PathTypes, via = "N" <=> uidisNash(c),
              n = Call(t2, via, path)
       PROVE  n \in DfsStates(d) /\ Control(d, n) /\ VisitStep(t, n)
  <2> DEFINE a == Args(via, path)
  <2>1. a \in Calls(d) /\ a.node = c /\ a.via = via
    BY <1>8
  <2> HIDE DEF a
  <2>2. CallDone(d, t2, a, n)
    BY <1>12, <2>1, CallIs, Zenon DEF a
  <2>3. /\ SameNodes(t, n) /\ n.stack[L] = h
    <3>1. n.stack = [t.stack EXCEPT ![L] = h]
      BY <1>12, <2>2 DEF CallDone
    <3>2. h \in Frames(d) /\ h.node = Last(t.stack).node
      BY <1>12
    <3> QED BY <3>1, <3>2, TopIs
  <2>4. n \in DfsStates(d) /\ VisitStep(t, n)
    BY <1>0, <1>12, <2>1, <2>2, <2>3 DEF CallDone, VisitStep, Quiet, KeepsOrder, KeepsTimes
  <2>5. Control(d, n)
    <3>1. n.stack = [t.stack EXCEPT ![L] = h] /\ n.mode = "call"
          /\ n.arg.node \in Nodes(d) /\ (n.arg.via = "N" <=> uidisNash(n.arg.node))
          /\ n.roots_done = t.roots_done
      BY <1>3, <1>12, <2>1, <2>2 DEF CallDone, Quiet
    <3> QED BY <1>0, <1>12, <2>4, <3>1, ControlTop
  <2> QED BY <2>4, <2>5
<1> HIDE DEF registered, Call
<1>13. counted \in DfsStates(d) /\ Quiet(d, t, counted) /\ counted.stack = stk
       /\ counted.adversarial_mps = t.adversarial_mps
       /\ counted.saddle_path_starts = t.saddle_path_starts
  BY <1>10 DEF CountedDone, Quiet
<1>14. uidisMP(c) <=> ~ uidisNash(c)
  BY <1>3, NodeIs
<1>15. CASE kind = "C"
  <2> DEFINE via == IF uidisMP(c) THEN "C" ELSE "N"
  <2>1. n = Call(counted, via, "Ctrl")
    <3> HIDE DEF x, f, csense, adv, code
    <3> QED BY <1>11, <1>15
  <2>2. via \in Vias /\ "Ctrl" \in PathTypes /\ (via = "N" <=> uidisNash(c))
    BY <1>14 DEF Vias, PathTypes
  <2> HIDE DEF via, x, f, g
  <2> QED BY <1>2, <1>12, <1>13, <2>1, <2>2
<1>16. CASE kind = "N"
  <2>1. n = Call(counted, "R", "Equil")
    <3> HIDE DEF x, f, csense, adv, code
    <3> QED BY <1>11, <1>16
  <2>2. "R" \in Vias /\ "Equil" \in PathTypes /\ ("R" = "N" <=> uidisNash(c))
    BY <1>6, <1>16 DEF Vias, PathTypes
  <2> HIDE DEF x, f, g
  <2> QED BY <1>2, <1>12, <1>13, <2>1, <2>2
<1>17. CASE kind = "V" /\ csense = "feas"
  <2>1. n = Pop(counted, ErrStatus) /\ ErrStatus \in Int /\ ErrStatus # RcOK
    <3> HIDE DEF x, f, csense, adv
    <3> QED BY <1>11, <1>17 DEF ErrStatus, RcOK
  <2>2. Front(counted.stack) = Front(t.stack) /\ counted.stack # <<>>
    <3>1. counted.stack = [t.stack EXCEPT ![Len(t.stack)] = g]
      BY <1>13
    <3>2. g \in Frames(d) /\ g.node = Last(t.stack).node
      BY <1>2
    <3> HIDE DEF g, f, stk
    <3>3. Front(counted.stack) = Front(t.stack)
      BY <3>1, <3>2, TopIs
    <3> QED BY <1>1, <1>9, <1>13, <3>3
  <2>3. PopDone(d, counted, ErrStatus, n)
    BY <1>13, <2>1, <2>2, PopIs
  <2>4. n \in DfsStates(d) /\ FailStep(t, n)
    BY <1>13, <2>1, <2>2, <2>3 DEF PopDone, FailStep, Quiet, KeepsOrder, KeepsTimes
  <2>5. Control(d, n)
    BY <2>4, ControlPopped DEF FailStep
  <2> QED BY <2>4, <2>5
<1>18. CASE kind = "V" /\ csense # "feas"
  <2>1. n = Call(IF adv THEN registered ELSE counted, "V", f.path)
    <3> HIDE DEF x, f, csense, adv, code
    <3> QED BY <1>11, <1>18
  <2>2. "V" \in Vias /\ f.path \in PathTypes /\ ("V" = "N" <=> uidisNash(c))
    <3> HIDE DEF x, f
    <3> QED BY <1>5, <1>6, <1>18 DEF Vias
  <2>3. CASE ~ adv
    <3>1. n = Call(counted, "V", f.path)
      <4> HIDE DEF adv, f
      <4> QED BY <2>1, <2>3
    <3> HIDE DEF x, f, g
    <3> QED BY <1>2, <1>12, <1>13, <2>2, <3>1
  <2>4. CASE adv
    <3> DEFINE h == [g EXCEPT !.registered = TRUE]
               adversarial == Append(counted.adversarial_mps, uid2id(c))
               starts == IF f.registered THEN counted.saddle_path_starts
                         ELSE Append(counted.saddle_path_starts, f.start)
               stk2 == [t.stack EXCEPT ![L] = h]
    <3>1. n = Call(registered, "V", f.path)
      <4> HIDE DEF adv, f
      <4> QED BY <2>1, <2>4
    <3>2. h \in Frames(d) /\ h.node = f.node /\ h.via = f.via /\ h.todo = Tail(f.todo)
      <4> HIDE DEF g, f
      <4> QED BY <1>2 DEF Frames
    <3>3. adversarial \in Seq(Nat) /\ starts \in Seq(Int)
      <4>1. uid2id(c) \in Nat
        <5>1. c \in Nat
          BY <1>3, NodeIs
        <5> HIDE DEF x
        <5> QED BY <5>1 DEF uid2id
      <4> HIDE DEF x, f
      <4> QED BY <1>5, <1>13, <4>1 DEF DfsStates
    <3>4. registered = [counted EXCEPT !.adversarial_mps = adversarial, !.saddle_path_starts = starts,
                                       !.stack = [counted.stack EXCEPT ![L].registered = TRUE]]
      <4> HIDE DEF x, f
      <4> QED BY DEF registered
    <3>5. [counted.stack EXCEPT ![L].registered = TRUE] = stk2
      <4> HIDE DEF f, g
      <4> QED BY <1>1, <1>9, <1>13
    <3>6. stk2 \in Seq(Frames(d))
      <4> HIDE DEF h
      <4> QED BY <1>1, <3>2
    <3>7. registered = [counted EXCEPT !.adversarial_mps = adversarial,
                                       !.saddle_path_starts = starts, !.stack = stk2]
      <4> HIDE DEF adversarial, starts, stk2
      <4> QED BY <3>4, <3>5
    <3>8. RegisteredDone(d, counted, stk2, registered)
      <4> HIDE DEF adversarial, starts, stk2
      <4> QED BY <1>13, <3>3, <3>6, <3>7, RegisteredIs, Zenon
    <3>9. registered \in DfsStates(d) /\ Quiet(d, t, registered) /\ registered.stack = stk2
      BY <1>13, <3>8 DEF RegisteredDone, Quiet, KeepsOrder, KeepsTimes
    <3> HIDE DEF x, f, h
    <3> QED BY <1>12, <2>2, <3>1, <3>2, <3>9
  <2> QED BY <2>3, <2>4
<1> QED BY <1>3, <1>15, <1>16, <1>17, <1>18 DEF Kinds
\* One turn of the loops of the top frame.
LEMMA LoopIs ==
  ASSUME NEW d, WellFormedDag(d), NEW t \in DfsStates(d), Control(d, t), t.mode = "loop",
         NEW n, n = Loop(d, t)
  PROVE  n \in DfsStates(d) /\ Control(d, n) /\ (FailStep(t, n) \/ LeaveStep(t, n) \/ VisitStep(t, n))
<1> DEFINE f == Last(t.stack)
           dropped == f.last # RcOK /\ (f.todo = <<>> \/ Head(f.todo)[1] # "C")
<1>1. t.stack # <<>>
  BY DEF Control
<1>2. n = CASE dropped -> Pop(t, ErrStatus)
            [] f.last = RcOK /\ f.todo = <<>> -> LeaveNode(d, t)
            [] OTHER -> VisitChild(d, t)
  BY Zenon DEF Loop, Top
<1> HIDE DEF f
<1>3. CASE dropped
  <2>1. n = Pop(t, ErrStatus) /\ ErrStatus \in Int /\ ErrStatus # RcOK
    BY <1>2, <1>3 DEF ErrStatus, RcOK
  <2>2. PopDone(d, t, ErrStatus, n)
    BY <1>1, <2>1, PopIs
  <2>3. FailStep(t, n) /\ n \in DfsStates(d)
    BY <1>1, <2>1, <2>2 DEF FailStep, PopDone
  <2>4. Control(d, n)
    BY <1>1, <2>3, ControlPopped DEF FailStep
  <2> QED BY <2>3, <2>4
<1>4. CASE ~ dropped /\ f.last = RcOK /\ f.todo = <<>>
  <2>1. n = LeaveNode(d, t) /\ Last(t.stack).todo = <<>>
    BY <1>2, <1>4 DEF f
  <2> QED BY <1>1, <2>1, LeaveIs
<1>5. CASE ~ dropped /\ ~ (f.last = RcOK /\ f.todo = <<>>)
  <2>1. n = VisitChild(d, t) /\ f.todo # <<>>
    BY <1>2, <1>5
  <2>2. Last(t.stack).todo # <<>>
    BY <2>1 DEF f
  <2> QED BY <1>1, <2>1, <2>2, VisitIs
<1> QED BY <1>3, <1>4, <1>5

\* A call came back to the top frame: it goes on or is given up.
LEMMA ReturnedIs ==
  ASSUME NEW d, WellFormedDag(d), NEW t \in DfsStates(d), Control(d, t), t.mode = "ret",
         t.stack # <<>>, NEW n, n = ChildReturned(t)
  PROVE  n \in DfsStates(d) /\ Control(d, n) /\ (FailStep(t, n) \/ ResumeStep(t, n))
<1> DEFINE L == Len(t.stack)
           f == Last(t.stack)
           closing == IF f.cur[1] = "V" THEN f.cur[2] ELSE f.node
           code == IF t.stat[closing] = CycleStart THEN ErrGeneric ELSE ErrCycle
           code2 == IF f.cur[1] = "C" THEN t.rc ELSE RcOK
           loop == [t EXCEPT !.mode = "loop", !.stack[L].last = code2]
<1>1. n = CASE t.rc > 0 -> Pop(t, t.rc)
            [] t.rc = ErrCycle -> Pop(t, code)
            [] OTHER -> loop
  BY Zenon DEF ChildReturned, Top
<1>2. t.rc \in Int
  BY DEF DfsStates
<1> HIDE DEF loop, code
<1>3. ASSUME NEW r \in Int, r # RcOK, n = Pop(t, r) PROVE n \in DfsStates(d) /\ Control(d, n) /\ FailStep(t, n)
  <2>1. PopDone(d, t, r, n)
    BY <1>3, PopIs
  <2>2. FailStep(t, n) /\ n \in DfsStates(d)
    BY <1>3, <2>1 DEF FailStep, PopDone
  <2>3. Control(d, n)
    BY <2>2, ControlPopped DEF FailStep
  <2> QED BY <2>2, <2>3
<1>4. CASE t.rc > 0
  <2>1. n = Pop(t, t.rc) /\ t.rc # RcOK
    BY <1>1, <1>2, <1>4 DEF RcOK, ErrCycle
  <2> QED BY <1>2, <1>3, <2>1
<1>5. CASE t.rc = ErrCycle
  <2>1. n = Pop(t, code)
    BY <1>1, <1>5 DEF ErrCycle
  <2>2. code \in Int /\ code # RcOK
    BY DEF code, ErrGeneric, ErrCycle, RcOK
  <2> QED BY <1>3, <2>1, <2>2
<1>6. CASE ~ t.rc > 0 /\ t.rc # ErrCycle
  <2> DEFINE g == [f EXCEPT !.last = code2]
             stk == [t.stack EXCEPT ![L] = g]
  <2>1. /\ f \in Frames(d) /\ t.stack \in Seq(Frames(d)) /\ f = t.stack[L] /\ L \in Nat /\ L >= 1
    BY StackIs
  <2>2. code2 \in Int
    BY <1>2 DEF RcOK
  <2>3. g \in Frames(d) /\ g.node = f.node /\ g.via = f.via /\ g.todo = f.todo
    <3> HIDE DEF f, code2
    <3> QED BY <2>1, <2>2 DEF Frames
  <2>4. stk \in Seq(Frames(d))
    <3> HIDE DEF g, f
    <3> QED BY <2>1, <2>3
  <2>5. n = [t EXCEPT !.stack = stk, !.mode = "loop", !.arg = t.arg]
    <3>1. n = [t EXCEPT !.mode = "loop", !.stack[L].last = code2]
      <4>1. n = loop
        BY <1>1, <1>6
      <4> QED BY <4>1 DEF loop
    <3>2. [t.stack EXCEPT ![L].last = code2] = stk
      <4> HIDE DEF f, code2
      <4> QED BY <2>1
    <3>3. n = [t EXCEPT !.mode = "loop", !.stack = [t.stack EXCEPT ![L].last = code2]]
      <4> HIDE DEF f, code2
      <4> QED BY <3>1
    <3> HIDE DEF f, stk, code2
    <3>4. n = [t EXCEPT !.mode = "loop", !.stack = stk]
      BY <3>2, <3>3
    <3> QED BY <3>4 DEF DfsStates
  <2>6. StackedDone(d, t, stk, "loop", t.arg, n)
    <3>1. t.arg \in Calls(d)
      BY DEF DfsStates
    <3> HIDE DEF stk
    <3> QED BY <2>4, <2>5, <3>1, StackedIs, Zenon
  <2>7. SameNodes(t, n) /\ n.stack[L] = g /\ n.stack = [t.stack EXCEPT ![Len(t.stack)] = g]
    <3>1. n.stack = [t.stack EXCEPT ![Len(t.stack)] = g]
      BY <2>6 DEF StackedDone
    <3>2. g \in Frames(d) /\ g.node = Last(t.stack).node
      BY <2>3
    <3> HIDE DEF g, f, stk
    <3> QED BY <3>1, <3>2, TopIs
  <2>8. n \in DfsStates(d) /\ ResumeStep(t, n)
    <3>1. n.stack[L].todo = Last(t.stack).todo
      BY <2>3, <2>7
    <3> HIDE DEF g, stk
    <3> QED BY <1>2, <1>6, <2>6, <2>7, <3>1 DEF StackedDone, ResumeStep, KeepsOrder, KeepsTimes
  <2>9. Control(d, n)
    <3>1. g \in Frames(d) /\ g.node = Last(t.stack).node /\ g.via = Last(t.stack).via
          /\ g.todo = Last(t.stack).todo
      BY <2>3
    <3>2. n.mode = "loop" /\ n.roots_done = t.roots_done
      BY <2>8 DEF ResumeStep
    <3> HIDE DEF g, f, stk
    <3> QED BY <2>7, <2>8, <3>1, <3>2, ControlTop
  <2> QED BY <2>8, <2>9
<1> QED BY <1>4, <1>5, <1>6

\* The loop over the roots calls the next one or ends.
LEMMA RootsIs ==
  ASSUME NEW d, WellFormedDag(d), NEW t \in DfsStates(d), Control(d, t), t.mode = "ret",
         t.stack = <<>>, NEW n, n = NextRoot(d, t)
  PROVE  n \in DfsStates(d) /\ Control(d, n) /\ (RootStep(d, t, n) \/ EndStep(t, n))
<1> DEFINE k == t.roots_done + 1
           u == d.roots[k]
           a == [node |-> u, via |-> IF uidisMP(u) THEN "R" ELSE "N", path |-> "Unset", depth |-> 0,
                 start |-> EMPDAG_UID_NONE, registered |-> FALSE]
           finished == t.rc # RcOK \/ t.roots_done = Len(d.roots)
<1>1. n = IF finished THEN [t EXCEPT !.mode = "end"]
          ELSE [t EXCEPT !.mode = "call", !.roots_done = k, !.arg = a]
  BY DEF NextRoot
<1>2. t.roots_done \in Nat /\ d.roots \in Seq(Nodes(d)) /\ Len(d.roots) \in Nat
      /\ t.roots_done <= Len(d.roots)
  BY DEF DfsStates, WellFormedDag, Control
<1>3. CASE finished
  <2>1. n = [t EXCEPT !.mode = "end"]
    <3> HIDE DEF a
    <3> QED BY <1>1, <1>3
  <2>2. n \in DfsStates(d) /\ Quiet(d, t, n) /\ n.mode = "end" /\ n.stack = t.stack /\ n.rc = t.rc
    BY <2>1 DEF DfsStates, Quiet, KeepsOrder, KeepsTimes
  <2>3. EndStep(t, n)
    BY <2>2 DEF EndStep, Quiet
  <2>4. Control(d, n)
    BY <1>2, <2>2 DEF Control, Quiet
  <2> QED BY <2>2, <2>3, <2>4
<1>4. CASE ~ finished
  <2>1. k \in 1..Len(d.roots) /\ u \in Nodes(d) /\ k \in Nat
    BY <1>2, <1>4
  <2>2. a \in Calls(d) /\ a.node = u /\ (a.via = "N" <=> uidisNash(u))
    <3>1. uidisMP(u) <=> ~ uidisNash(u)
      BY <2>1, NodeIs
    <3> HIDE DEF u
    <3> QED BY <2>1, <3>1 DEF Calls, Vias, PathTypes, EMPDAG_UID_NONE
  <2>3. n = [t EXCEPT !.mode = "call", !.roots_done = k, !.arg = a]
    <3> HIDE DEF a, k
    <3> QED BY <1>1, <1>4
  <2>4. n \in DfsStates(d) /\ n.mode = "call" /\ n.roots_done = k /\ n.arg = a /\ n.stack = t.stack
        /\ n.stat = t.stat /\ KeepsOrder(t, n) /\ KeepsTimes(t, n) /\ n.isTree = t.isTree
    <3> HIDE DEF a, k
    <3> QED BY <2>1, <2>2, <2>3 DEF DfsStates, KeepsOrder, KeepsTimes
  <2>5. t.rc = RcOK
    BY <1>4
  <2> HIDE DEF a
  <2>6. RootStep(d, t, n)
    BY <2>1, <2>2, <2>4, <2>5 DEF RootStep
  <2>7. Control(d, n)
    <3> HIDE DEF u, k
    <3> QED BY <1>2, <2>1, <2>2, <2>4 DEF Control
  <2> QED BY <2>4, <2>6, <2>7
<1> QED BY <1>3, <1>4

\* One step of the traversal is one of ten.
Steps(d, t, n) ==
  \/ SeenStep(t, n) \/ DualStep(d, t, n) \/ ChildlessStep(t, n) \/ PushStep(d, t, n)
  \/ FailStep(t, n) \/ LeaveStep(t, n) \/ VisitStep(t, n)
  \/ ResumeStep(t, n) \/ RootStep(d, t, n) \/ EndStep(t, n)

\* One step of the traversal leaves a state of the traversal, under control.
LEMMA DfsStepIs ==
  ASSUME NEW d, WellFormedDag(d), NEW t \in DfsStates(d), Control(d, t), t.mode # "end",
         NEW n, n = DfsStep(d, t)
  PROVE  n \in DfsStates(d) /\ Control(d, n) /\ Steps(d, t, n)
<1>1. t.mode \in {"call", "loop", "ret"}
  BY DEF DfsStates
<1>2. n = CASE t.mode = "call" -> EnterNode(d, t)
            [] t.mode = "loop" -> Loop(d, t)
            [] t.mode = "ret" /\ t.stack = <<>> -> NextRoot(d, t)
            [] OTHER -> ChildReturned(t)
  BY Zenon DEF DfsStep
<1>3. CASE t.mode = "call"
  <2>1. n = EnterNode(d, t)
    BY <1>2, <1>3
  <2> QED BY <1>3, <2>1, EnterIs DEF Steps
<1>4. CASE t.mode = "loop"
  <2>1. n = Loop(d, t)
    BY <1>2, <1>4
  <2> QED BY <1>4, <2>1, LoopIs DEF Steps
<1>5. CASE t.mode = "ret" /\ t.stack = <<>>
  <2>1. n = NextRoot(d, t)
    BY <1>2, <1>5
  <2> QED BY <1>5, <2>1, RootsIs DEF Steps
<1>6. CASE t.mode = "ret" /\ t.stack # <<>>
  <2>1. n = ChildReturned(t)
    BY <1>2, <1>6
  <2> QED BY <1>6, <2>1, ReturnedIs DEF Steps
<1> QED BY <1>1, <1>3, <1>4, <1>5, <1>6
\* The traversal starts in one of its states.
LEMMA DfsInitIs ==
  ASSUME NEW d, WellFormedDag(d)
  PROVE  dfsdata_init(d) \in DfsStates(d) /\ Control(d, dfsdata_init(d))
<1>1. NoCall \in Calls(d)
  BY DEF NoCall, Calls, Vias, PathTypes, EMPDAG_UID_NONE
<1>2. dfsdata_init(d) \in DfsStates(d)
  BY <1>1 DEF dfsdata_init, DfsStates, Stats, RcOK
<1>3. Len(d.roots) \in Nat
  BY DEF WellFormedDag
<1>4. Control(d, dfsdata_init(d))
  BY <1>3 DEF Control, dfsdata_init
<1> QED BY <1>2, <1>4

-----------------------------------------------------------------------------
(***************************************************************************)
(* The invariant of the traversal.                                         *)
(***************************************************************************)
OnStack(t) == {t.stack[k].node : k \in 1..Len(t.stack)}

\* The traversal came to the node u, and is done with it for good or ill.
Settled(t, u) == t.stat[u] # NotExplored /\ u \notin OnStack(t)

Todo(f) == {f.todo[k][2] : k \in 1..Len(f.todo)}

\* A node is on the stack once, and not finished.
StackInv(t) ==
  /\ \A j, k \in 1..Len(t.stack) : t.stack[j].node = t.stack[k].node => j = k
  /\ \A k \in 1..Len(t.stack) : t.stat[t.stack[k].node] \in {InProgress, CycleStart, ErrorState}

\* The call that the top frame made came back with a code that ends its loop.
Failing(t) == t.mode = "ret" /\ (t.rc > 0 \/ t.rc = ErrCycle)

\* Every child of a node on the stack is to be visited, is being visited or is settled, but
\* for the child that makes the top frame fail.
KidsInv(d, t) ==
  \A k \in 1..Len(t.stack) : \A c \in Kids(d, t.stack[k].node) :
    \/ c \in Todo(t.stack[k]) \/ Settled(t, c)
    \/ k < Len(t.stack) /\ t.stack[k + 1].node = c
    \/ k = Len(t.stack) /\ t.mode = "call" /\ t.arg.node = c
    \/ k = Len(t.stack) /\ Failing(t)

\* A node has its place in the order after all of its children; what is finished is in the
\* order or dual.
OrderInv(d, t) ==
  /\ \A i, j \in 1..Len(t.topo_order) : t.topo_order[i] = t.topo_order[j] => i = j
  /\ \A i \in 1..Len(t.topo_order) : t.stat[t.topo_order[i]] = Processed
  /\ \A i \in 1..Len(t.topo_order) : \A c \in Kids(d, t.topo_order[i]) :
       Settled(t, c) /\ \A j \in 1..Len(t.topo_order) : t.topo_order[j] = c => j < i
  /\ \A u \in Nodes(d) : t.stat[u] = Processed =>
       u \in Range(t.topo_order) \/ (uidisMP(u) /\ d.type[uid2id(u)] = "Dual")

Finished(d, t) == {u \in Nodes(d) : t.stat[u] = Processed}

CountInv(d, t) == Cardinality(Finished(d, t)) = Len(t.topo_order) + t.num_visited_dual

\* A root, or a node below one.
Reached(d, u) ==
  \/ u \in Range(d.roots)
  \/ \E r \in Range(d.roots) : <<r, u>> \in Reach(d, Arcs(d) \cup DualSteps(d))

ReachedInv(d, t) ==
  /\ \A u \in Nodes(d) : t.stat[u] # NotExplored => Reached(d, u)
  /\ t.mode = "call" => Reached(d, t.arg.node)

DfsInv(d, t) == StackInv(t) /\ KidsInv(d, t) /\ OrderInv(d, t) /\ CountInv(d, t) /\ ReachedInv(d, t)
\* What the changes of the stack do to the nodes on it.
LEMMA StackSame ==
  ASSUME NEW d, NEW t \in DfsStates(d), NEW n, n.stack = t.stack \/ SameNodes(t, n)
  PROVE  /\ Len(n.stack) = Len(t.stack) /\ OnStack(n) = OnStack(t)
         /\ \A k \in 1..Len(t.stack) : n.stack[k].node = t.stack[k].node
         /\ \A k \in 1..Len(t.stack) : k < Len(t.stack) => n.stack[k] = t.stack[k]
BY DEF SameNodes, OnStack

\* The same when a frame is pushed.
LEMMA StackPushed ==
  ASSUME NEW d, NEW t \in DfsStates(d), NEW n, NEW f \in Frames(d), n.stack = Append(t.stack, f)
  PROVE  /\ Len(t.stack) \in Nat /\ Len(n.stack) = Len(t.stack) + 1
         /\ OnStack(n) = OnStack(t) \cup {f.node} /\ n.stack[Len(t.stack) + 1] = f
         /\ \A k \in 1..Len(t.stack) : n.stack[k] = t.stack[k]
<1>1. t.stack \in Seq(Frames(d)) /\ Len(t.stack) \in Nat
  BY DEF DfsStates
<1>2. /\ Len(n.stack) = Len(t.stack) + 1 /\ n.stack[Len(t.stack) + 1] = f
      /\ \A k \in 1..Len(t.stack) : n.stack[k] = t.stack[k]
  BY <1>1
<1>3. OnStack(n) = OnStack(t) \cup {f.node}
  <2> DEFINE L == Len(t.stack)
  <2>1. ASSUME NEW u \in OnStack(n) PROVE u \in OnStack(t) \cup {f.node}
    <3>1. PICK k \in 1..(L + 1) : u = n.stack[k].node
      BY <1>2, <2>1 DEF OnStack
    <3>2. k = L + 1 \/ k \in 1..L
      BY <1>1
    <3> QED BY <1>2, <3>1, <3>2 DEF OnStack
  <2>2. ASSUME NEW u \in OnStack(t) PROVE u \in OnStack(n)
    <3>1. PICK k \in 1..L : u = t.stack[k].node
      BY <2>2 DEF OnStack
    <3>2. k \in 1..(L + 1)
      BY <1>1
    <3> QED BY <1>2, <3>1, <3>2 DEF OnStack
  <2>3. f.node \in OnStack(n)
    <3>1. L + 1 \in 1..(L + 1)
      BY <1>1
    <3> QED BY <1>2, <3>1 DEF OnStack
  <2> QED BY <2>1, <2>2, <2>3
<1> QED BY <1>1, <1>2, <1>3

\* The same when the top frame is taken away.
LEMMA StackPopped ==
  ASSUME NEW d, NEW t \in DfsStates(d), t.stack # <<>>, StackInv(t), NEW n, n.stack = Front(t.stack)
  PROVE  /\ Len(t.stack) \in Nat /\ Len(t.stack) >= 1 /\ Len(n.stack) = Len(t.stack) - 1
         /\ Last(t.stack) = t.stack[Len(t.stack)] /\ Last(t.stack).node \in Nodes(d)
         /\ Last(t.stack).node \in OnStack(t)
         /\ OnStack(n) = OnStack(t) \ {Last(t.stack).node}
         /\ \A k \in 1..Len(n.stack) : n.stack[k] = t.stack[k] /\ k \in 1..Len(t.stack)
<1> DEFINE L == Len(t.stack)
           f == Last(t.stack)
<1>1. /\ L \in Nat /\ L >= 1 /\ Len(n.stack) = L - 1 /\ f = t.stack[L] /\ f \in Frames(d)
      /\ \A k \in 1..(L - 1) : n.stack[k] = t.stack[k]
  BY StackIs
<1>2. f.node \in Nodes(d)
  BY <1>1, FrameIs
<1>3. f.node \in OnStack(t)
  <2>1. L \in 1..L
    BY <1>1
  <2> QED BY <1>1, <2>1 DEF OnStack
<1>4. OnStack(n) = OnStack(t) \ {f.node}
  <2> HIDE DEF f
  <2>1. ASSUME NEW u \in OnStack(n) PROVE u \in OnStack(t) /\ u # f.node
    <3>1. PICK k \in 1..(L - 1) : u = n.stack[k].node
      BY <1>1, <2>1 DEF OnStack
    <3>2. k \in 1..L /\ L \in 1..L /\ k # L
      BY <1>1
    <3>3. u = t.stack[k].node
      BY <1>1, <3>1
    <3>4. u # t.stack[L].node
      BY <3>2, <3>3 DEF StackInv
    <3> QED BY <1>1, <3>2, <3>3, <3>4 DEF OnStack
  <2>2. ASSUME NEW u \in OnStack(t), u # f.node PROVE u \in OnStack(n)
    <3>1. PICK k \in 1..L : u = t.stack[k].node
      BY <2>2 DEF OnStack
    <3>2. k \in 1..(L - 1)
      BY <1>1, <2>2, <3>1
    <3> QED BY <1>1, <3>1, <3>2 DEF OnStack
  <2> QED BY <2>1, <2>2
<1> QED BY <1>1, <1>2, <1>3, <1>4

\* A node that is settled stays so.
LEMMA SettledStays ==
  ASSUME NEW d, NEW t \in DfsStates(d), NEW n \in DfsStates(d), StackInv(t), Control(d, t),
         Steps(d, t, n), NEW u \in Nodes(d), Settled(t, u)
  PROVE  Settled(n, u)
<1>1. t.stat[u] # NotExplored /\ u \notin OnStack(t)
  BY DEF Settled
<1>2. \A v : t.stat[v] = NotExplored => v # u
  BY <1>1
<1>3. t.stat \in [Nodes(d) -> Stats]
  BY DEF DfsStates
<1>4. CASE SeenStep(t, n)
  <2>1. OnStack(n) = OnStack(t)
    BY <1>4, StackSame DEF SeenStep, Seen
  <2> QED BY <1>1, <1>3, <1>4, <2>1
        DEF Settled, SeenStep, Seen, NotExplored, CycleStart, ErrorState, Processed
<1>5. CASE DualStep(d, t, n)
  <2>1. OnStack(n) = OnStack(t)
    BY <1>5, StackSame DEF DualStep
  <2> QED BY <1>1, <1>3, <1>5, <2>1 DEF Settled, DualStep, NotExplored, Processed
<1>6. CASE ChildlessStep(t, n)
  <2>1. OnStack(n) = OnStack(t)
    BY <1>6, StackSame DEF ChildlessStep
  <2> QED BY <1>1, <1>3, <1>6, <2>1 DEF Settled, ChildlessStep, NotExplored, InProgress
<1>7. CASE PushStep(d, t, n)
  <2>1. PICK f \in Frames(d) : n.stack = Append(t.stack, f) /\ f.node = t.arg.node
    BY <1>7 DEF PushStep
  <2>2. OnStack(n) = OnStack(t) \cup {t.arg.node}
    BY <2>1, StackPushed
  <2>3. t.arg.node # u /\ n.stat = [t.stat EXCEPT ![t.arg.node] = InProgress]
    BY <1>2, <1>7 DEF PushStep
  <2> QED BY <1>1, <1>3, <2>2, <2>3 DEF Settled
<1>8. CASE FailStep(t, n)
  <2>1. OnStack(n) = OnStack(t) \ {Last(t.stack).node} /\ n.stat = t.stat
    BY <1>8, StackPopped DEF FailStep
  <2> QED BY <1>1, <2>1 DEF Settled
<1>9. CASE LeaveStep(t, n)
  <2>1. OnStack(n) = OnStack(t) \ {Last(t.stack).node}
    BY <1>9, StackPopped DEF LeaveStep
  <2>2. n.stat = [t.stat EXCEPT ![Last(t.stack).node] = Processed]
    BY <1>9 DEF LeaveStep
  <2> QED BY <1>1, <1>3, <2>1, <2>2 DEF Settled, NotExplored, Processed
<1>10. CASE VisitStep(t, n) \/ ResumeStep(t, n) \/ RootStep(d, t, n) \/ EndStep(t, n)
  <2>1. n.stat = t.stat /\ (n.stack = t.stack \/ SameNodes(t, n))
    BY <1>10 DEF VisitStep, ResumeStep, RootStep, EndStep
  <2>2. OnStack(n) = OnStack(t)
    BY <2>1, StackSame
  <2> QED BY <1>1, <2>1, <2>2 DEF Settled
<1> QED BY <1>4, <1>5, <1>6, <1>7, <1>8, <1>9, <1>10 DEF Steps
\* A node that was not reached is not on the stack; one that is finished is settled.
LEMMA StackStats ==
  ASSUME NEW d, NEW t \in DfsStates(d), StackInv(t), NEW u \in Nodes(d)
  PROVE  /\ t.stat[u] = NotExplored => u \notin OnStack(t)
         /\ t.stat[u] = Processed => Settled(t, u)
BY DEF StackInv, OnStack, Settled, NotExplored, Processed, InProgress, CycleStart, ErrorState

\* A step keeps the nodes on the stack distinct and unfinished.
LEMMA StackInvStep ==
  ASSUME NEW d, NEW t \in DfsStates(d), NEW n \in DfsStates(d), StackInv(t), Control(d, t),
         Steps(d, t, n)
  PROVE  StackInv(n)
<1> DEFINE Open == {InProgress, CycleStart, ErrorState}
           L == Len(t.stack)
<1>1. t.stat \in [Nodes(d) -> Stats] /\ t.stack \in Seq(Frames(d)) /\ L \in Nat
      /\ \A k \in 1..L : t.stack[k].node \in Nodes(d)
  <2>1. t.stat \in [Nodes(d) -> Stats] /\ t.stack \in Seq(Frames(d))
    BY DEF DfsStates
  <2>2. \A k \in 1..L : t.stack[k] \in Frames(d)
    BY <2>1
  <2>3. \A g \in Frames(d) : g.node \in Nodes(d)
    BY FrameIs
  <2> QED BY <2>1, <2>2, <2>3
<1>2. t.mode = "call" => t.arg.node \in Nodes(d)
  BY DEF Control
<1>3. /\ \A j, k \in 1..L : t.stack[j].node = t.stack[k].node => j = k
      /\ \A k \in 1..L : t.stat[t.stack[k].node] \in Open
  BY DEF StackInv
<1>4. ASSUME \A k \in 1..L : n.stack[k].node = t.stack[k].node, Len(n.stack) = L,
             \A k \in 1..L : n.stat[t.stack[k].node] \in Open
      PROVE  StackInv(n)
  BY <1>3, <1>4 DEF StackInv
<1>5. CASE SeenStep(t, n)
  <2>1. Len(n.stack) = L /\ \A k \in 1..L : n.stack[k].node = t.stack[k].node
    BY <1>5, StackSame DEF SeenStep, Seen
  <2>2. n.stat = t.stat \/ \E x \in Open : n.stat = [t.stat EXCEPT ![t.arg.node] = x]
    BY <1>5 DEF SeenStep, Seen
  <2>3. \A k \in 1..L : n.stat[t.stack[k].node] \in Open
    BY <1>1, <1>3, <2>2
  <2> QED BY <1>4, <2>1, <2>3
<1>6. CASE DualStep(d, t, n) \/ ChildlessStep(t, n)
  <2>1. n.stack = t.stack /\ t.arg.node \in Nodes(d) /\ t.stat[t.arg.node] = NotExplored
    BY <1>2, <1>6 DEF DualStep, ChildlessStep
  <2>2. Len(n.stack) = L /\ \A k \in 1..L : n.stack[k].node = t.stack[k].node
    BY <2>1
  <2>3. \A k \in 1..L : t.stack[k].node # t.arg.node
    BY <1>3, <2>1 DEF NotExplored, InProgress, CycleStart, ErrorState
  <2>4. \E x : n.stat = [t.stat EXCEPT ![t.arg.node] = x]
    BY <1>6 DEF DualStep, ChildlessStep
  <2>5. \A k \in 1..L : n.stat[t.stack[k].node] \in Open
    BY <1>1, <1>3, <2>3, <2>4
  <2> QED BY <1>4, <2>2, <2>5
<1>7. CASE PushStep(d, t, n)
  <2>1. PICK f \in Frames(d) : n.stack = Append(t.stack, f) /\ f.node = t.arg.node
    BY <1>7 DEF PushStep
  <2>2. /\ Len(n.stack) = L + 1 /\ n.stack[L + 1] = f
        /\ \A k \in 1..L : n.stack[k] = t.stack[k]
    BY <2>1, StackPushed
  <2>3. t.arg.node \in Nodes(d) /\ t.stat[t.arg.node] = NotExplored
        /\ n.stat = [t.stat EXCEPT ![t.arg.node] = InProgress]
    BY <1>2, <1>7 DEF PushStep
  <2>4. \A k \in 1..L : t.stack[k].node # f.node
    BY <1>3, <2>1, <2>3 DEF NotExplored, InProgress, CycleStart, ErrorState
  <2>5. \A k \in 1..L : n.stat[n.stack[k].node] \in Open
    BY <1>1, <1>3, <2>1, <2>2, <2>3, <2>4
  <2>6. n.stat[n.stack[L + 1].node] \in Open
    BY <1>1, <2>1, <2>2, <2>3
  <2>7. \A k \in 1..(L + 1) : k = L + 1 \/ k \in 1..L
    BY <1>1
  <2>8. \A j, k \in 1..(L + 1) : n.stack[j].node = n.stack[k].node => j = k
    BY <1>3, <2>2, <2>4, <2>7
  <2> HIDE DEF Open, L
  <2> QED BY <2>2, <2>5, <2>6, <2>7, <2>8 DEF StackInv, Open
<1>8. CASE FailStep(t, n) \/ LeaveStep(t, n)
  <2>1. t.stack # <<>> /\ n.stack = Front(t.stack)
    BY <1>8 DEF FailStep, LeaveStep
  <2>2. /\ Len(n.stack) = L - 1 /\ Last(t.stack) = t.stack[L] /\ L >= 1
        /\ \A k \in 1..Len(n.stack) : n.stack[k] = t.stack[k] /\ k \in 1..L
    BY <2>1, StackPopped
  <2>3. n.stat = t.stat \/ n.stat = [t.stat EXCEPT ![t.stack[L].node] = Processed]
    <3>1. n.stat = t.stat \/ n.stat = [t.stat EXCEPT ![Last(t.stack).node] = Processed]
      BY <1>8 DEF FailStep, LeaveStep
    <3> QED BY <2>2, <3>1
  <2>4. \A k \in 1..Len(n.stack) : t.stack[k].node # t.stack[L].node
    <3>1. L \in 1..L /\ \A k \in 1..Len(n.stack) : k # L
      BY <1>1, <2>2
    <3> QED BY <1>3, <2>2, <3>1
  <2>5. \A k \in 1..Len(n.stack) : n.stat[n.stack[k].node] \in Open
    <3> HIDE DEF Open, L
    <3>1. ASSUME NEW k \in 1..Len(n.stack) PROVE n.stat[n.stack[k].node] \in Open
      <4>1. n.stack[k] = t.stack[k] /\ k \in 1..L /\ t.stack[k].node # t.stack[L].node
        BY <2>2, <2>4
      <4>2. n.stat[t.stack[k].node] = t.stat[t.stack[k].node]
        BY <1>1, <2>3, <4>1
      <4> QED BY <1>3, <4>1, <4>2
    <3> QED BY <3>1
  <2>6. \A j, k \in 1..Len(n.stack) : n.stack[j].node = n.stack[k].node => j = k
    BY <1>3, <2>2
  <2> QED BY <2>5, <2>6 DEF StackInv
<1>9. CASE VisitStep(t, n) \/ ResumeStep(t, n) \/ RootStep(d, t, n) \/ EndStep(t, n)
  <2>1. n.stat = t.stat /\ (n.stack = t.stack \/ SameNodes(t, n))
    BY <1>9 DEF VisitStep, ResumeStep, RootStep, EndStep
  <2>2. Len(n.stack) = L /\ \A k \in 1..L : n.stack[k].node = t.stack[k].node
    BY <2>1, StackSame
  <2> QED BY <1>3, <1>4, <2>1, <2>2
<1> QED BY <1>5, <1>6, <1>7, <1>8, <1>9 DEF Steps

\* The state of one child of a node on the stack.
KidInv(t, k, c) ==
  \/ c \in Todo(t.stack[k]) \/ Settled(t, c)
  \/ k < Len(t.stack) /\ t.stack[k + 1].node = c
  \/ k = Len(t.stack) /\ t.mode = "call" /\ t.arg.node = c
  \/ k = Len(t.stack) /\ Failing(t)

\* A step keeps what is known of the children of the nodes on the stack.
LEMMA KidsInvStep ==
  ASSUME NEW d, NEW t \in DfsStates(d), NEW n \in DfsStates(d), StackInv(t), KidsInv(d, t),
         Control(d, t), Steps(d, t, n)
  PROVE  KidsInv(d, n)
<1> DEFINE L == Len(t.stack)
<1>1. t.stat \in [Nodes(d) -> Stats] /\ t.stack \in Seq(Frames(d)) /\ L \in Nat /\ t.rc \in Int
  <2>1. t.stat \in [Nodes(d) -> Stats] /\ t.stack \in Seq(Frames(d)) /\ t.rc \in Int
    BY DEF DfsStates
  <2> QED BY <2>1
<1>2. t.mode = "call" => t.arg.node \in Nodes(d)
  BY DEF Control
<1>3. \A k \in 1..L : \A c \in Kids(d, t.stack[k].node) : KidInv(t, k, c)
  BY DEF KidsInv, KidInv
<1>4. \A u \in Nodes(d) : Settled(t, u) => Settled(n, u)
  BY SettledStays
<1>5. \A u : Kids(d, u) \subseteq Nodes(d)
  BY DEF Kids
<1>6. SUFFICES ASSUME NEW k \in 1..Len(n.stack), NEW c \in Kids(d, n.stack[k].node)
               PROVE  KidInv(n, k, c)
  BY DEF KidsInv, KidInv
<1>7. c \in Nodes(d)
  BY <1>5
<1>8. CASE SeenStep(t, n)
  <2>1. n.stack = t.stack /\ KidInv(t, k, c) /\ t.mode = "call" /\ n.mode = "ret"
    BY <1>3, <1>6, <1>8 DEF SeenStep, Seen
  <2>2. ASSUME t.arg.node = c PROVE Settled(n, c) \/ Failing(n)
    <3>1. CASE t.stat[c] = Processed
      BY <1>4, <1>7, <3>1, StackStats
    <3>2. CASE t.stat[c] # Processed
      BY <1>8, <2>2, <3>2 DEF SeenStep, Seen, Failing, ErrStatus
    <3> QED BY <3>1, <3>2
  <2> QED BY <1>4, <1>7, <2>1, <2>2 DEF KidInv, Failing
<1>9. CASE DualStep(d, t, n) \/ ChildlessStep(t, n)
  <2>1. n.stack = t.stack /\ KidInv(t, k, c) /\ t.mode = "call"
    BY <1>3, <1>6, <1>9 DEF DualStep, ChildlessStep
  <2>2. ASSUME t.arg.node = c PROVE Settled(n, c)
    <3>1. c \notin OnStack(t)
      BY <1>7, <1>9, <2>2, StackStats DEF DualStep, ChildlessStep
    <3>2. OnStack(n) = OnStack(t)
      BY <2>1 DEF OnStack
    <3>3. n.stat[c] # NotExplored
      BY <1>1, <1>7, <1>9, <2>2 DEF DualStep, ChildlessStep, NotExplored, InProgress, Processed
    <3> QED BY <3>1, <3>2, <3>3 DEF Settled
  <2> QED BY <1>4, <1>7, <2>1, <2>2 DEF KidInv, Failing
<1>10. CASE PushStep(d, t, n)
  <2>1. PICK f \in Frames(d) : /\ n.stack = Append(t.stack, f)
                               /\ f.node = t.arg.node /\ Complete(d, f.node, f.todo)
    BY <1>10 DEF PushStep
  <2>2. /\ Len(n.stack) = L + 1 /\ n.stack[L + 1] = f
        /\ \A j \in 1..L : n.stack[j] = t.stack[j]
    BY <2>1, StackPushed
  <2>3. CASE k = L + 1
    <3>1. \E j \in 1..Len(f.todo) : f.todo[j][2] = c
      BY <1>6, <2>1, <2>2, <2>3 DEF Complete
    <3> QED BY <2>2, <2>3, <3>1 DEF KidInv, Todo
  <2>4. CASE k # L + 1
    <3>1. k \in 1..L
      BY <1>1, <2>2, <2>4
    <3>2. n.stack[k] = t.stack[k] /\ KidInv(t, k, c)
      BY <1>3, <1>6, <2>2, <3>1
    <3>3. t.mode = "call"
      BY <1>10 DEF PushStep
    <3>4. CASE k < L
      <4>1. k + 1 \in 1..L /\ k # L /\ k < L + 1
        BY <1>1, <3>1, <3>4
      <4>2. n.stack[k + 1] = t.stack[k + 1]
        BY <2>2, <4>1
      <4> QED BY <1>4, <1>7, <2>2, <3>2, <4>1, <4>2 DEF KidInv
    <3>5. CASE k = L
      <4>1. k < Len(n.stack) /\ n.stack[k + 1].node = t.arg.node
        BY <1>1, <2>1, <2>2, <3>5
      <4> QED BY <1>4, <1>7, <3>2, <3>3, <3>5, <4>1 DEF KidInv, Failing
    <3> QED BY <1>1, <3>1, <3>4, <3>5
  <2> QED BY <2>3, <2>4
<1>11. CASE FailStep(t, n) \/ LeaveStep(t, n)
  <2>1. t.stack # <<>> /\ n.stack = Front(t.stack)
    BY <1>11 DEF FailStep, LeaveStep
  <2> DEFINE u == Last(t.stack).node
  <2>2. /\ Len(n.stack) = L - 1 /\ Last(t.stack) = t.stack[L] /\ L >= 1 /\ u \in Nodes(d)
        /\ OnStack(n) = OnStack(t) \ {u} /\ u \in OnStack(t)
        /\ \A j \in 1..Len(n.stack) : n.stack[j] = t.stack[j] /\ j \in 1..L
    BY <2>1, StackPopped
  <2>3. Settled(n, u)
    <3>1. t.stat[u] # NotExplored
      BY <2>2, StackStats
    <3>2. n.stat[u] # NotExplored
      <4>1. n.stat = t.stat \/ n.stat = [t.stat EXCEPT ![u] = Processed]
        BY <1>11 DEF FailStep, LeaveStep
      <4> HIDE DEF u
      <4> QED BY <1>1, <2>2, <3>1, <4>1 DEF NotExplored, Processed
    <3> QED BY <2>2, <3>2 DEF Settled
  <2>4. n.stack[k] = t.stack[k] /\ KidInv(t, k, c) /\ k < L /\ k + 1 \in 1..L
    BY <1>1, <1>3, <1>6, <2>2
  <2>5. CASE k + 1 = L
    BY <1>4, <1>7, <2>2, <2>3, <2>4, <2>5 DEF KidInv
  <2>6. CASE k + 1 # L
    <3>1. k + 1 \in 1..Len(n.stack) /\ k < Len(n.stack)
      BY <1>1, <2>2, <2>4, <2>6
    <3>2. n.stack[k + 1] = t.stack[k + 1]
      BY <2>2, <3>1
    <3> QED BY <1>4, <1>7, <2>4, <3>1, <3>2 DEF KidInv
  <2> QED BY <2>5, <2>6
<1>12. CASE VisitStep(t, n) \/ ResumeStep(t, n)
  <2>1. /\ SameNodes(t, n) /\ t.stack # <<>>
    BY <1>12 DEF VisitStep, ResumeStep
  <2>2. /\ Len(n.stack) = L /\ \A j \in 1..L : n.stack[j].node = t.stack[j].node
        /\ \A j \in 1..L : j < L => n.stack[j] = t.stack[j]
    BY <2>1, StackSame
  <2>3. KidInv(t, k, c) /\ k \in 1..L
    BY <1>3, <1>6, <2>2
  <2>4. ~ Failing(t) /\ t.mode # "call"
    BY <1>1, <1>12 DEF VisitStep, ResumeStep, Failing
  <2>5. CASE k < L
    <3>1. k + 1 \in 1..L /\ k # L
      BY <1>1, <2>3, <2>5
    <3>2. n.stack[k] = t.stack[k] /\ n.stack[k + 1].node = t.stack[k + 1].node
      BY <2>2, <2>3, <2>5, <3>1
    <3> QED BY <1>4, <1>7, <2>2, <2>3, <3>1, <3>2 DEF KidInv
  <2>6. CASE k = L
    <3>1. c \in Todo(t.stack[L]) \/ Settled(t, c)
      BY <1>1, <2>3, <2>4, <2>6 DEF KidInv
    <3>2. ASSUME c \in Todo(t.stack[L]) PROVE KidInv(n, k, c)
      <4> DEFINE q == t.stack[L].todo
      <4>1. PICK j \in 1..Len(q) : q[j][2] = c
        BY <3>2 DEF Todo
      <4>2. t.stack[L] = Last(t.stack) /\ q \in Seq(Kinds \X Nodes(d))
        BY <2>1, StackIs, FrameIs
      <4>3. CASE ResumeStep(t, n)
        <5>1. n.stack[L].todo = q
          BY <4>2, <4>3 DEF ResumeStep
        <5> QED BY <2>6, <4>1, <5>1 DEF KidInv, Todo
      <4>4. CASE VisitStep(t, n)
        <5>1. /\ n.stack[L].todo = Tail(q) /\ q # <<>> /\ n.mode = "call"
              /\ n.arg.node = Head(q)[2]
          BY <4>2, <4>4 DEF VisitStep
        <5>2. CASE j = 1
          BY <2>2, <2>6, <4>1, <4>2, <5>1, <5>2 DEF KidInv
        <5>3. CASE j # 1
          <6>1. j - 1 \in 1..Len(Tail(q)) /\ Tail(q)[j - 1] = q[j]
            BY <4>1, <4>2, <5>1, <5>3
          <6> HIDE DEF q
          <6> QED BY <2>6, <4>1, <5>1, <6>1 DEF KidInv, Todo
        <5> QED BY <5>2, <5>3
      <4> QED BY <1>12, <4>3, <4>4
    <3> QED BY <1>4, <1>7, <3>1, <3>2 DEF KidInv
  <2> QED BY <1>1, <2>3, <2>5, <2>6
<1>13. CASE RootStep(d, t, n) \/ EndStep(t, n)
  <2>1. n.stack = <<>>
    BY <1>13 DEF RootStep, EndStep
  <2> QED BY <1>6, <2>1
<1> QED BY <1>8, <1>9, <1>10, <1>11, <1>12, <1>13 DEF Steps
\* What is finished by a step: a dual MP, or the node of the top frame.
LEMMA FinishedStep ==
  ASSUME NEW d, NEW t \in DfsStates(d), NEW n \in DfsStates(d), StackInv(t), Control(d, t),
         Steps(d, t, n)
  PROVE  /\ DualStep(d, t, n) => /\ t.arg.node \in Nodes(d) \ Finished(d, t)
                                 /\ Finished(d, n) = Finished(d, t) \cup {t.arg.node}
         /\ LeaveStep(t, n) => /\ Last(t.stack).node \in Nodes(d) \ Finished(d, t)
                               /\ Finished(d, n) = Finished(d, t) \cup {Last(t.stack).node}
         /\ ~ DualStep(d, t, n) /\ ~ LeaveStep(t, n) =>
              /\ Finished(d, n) = Finished(d, t)
              /\ n.topo_order = t.topo_order /\ n.num_visited_dual = t.num_visited_dual
<1>1. t.stat \in [Nodes(d) -> Stats]
  BY DEF DfsStates
<1>2. t.mode = "call" => t.arg.node \in Nodes(d)
  BY DEF Control
<1>3. ASSUME DualStep(d, t, n)
      PROVE  /\ t.arg.node \in Nodes(d) \ Finished(d, t)
             /\ Finished(d, n) = Finished(d, t) \cup {t.arg.node}
  <2> DEFINE u == t.arg.node
  <2>1. u \in Nodes(d) /\ t.stat[u] = NotExplored /\ n.stat = [t.stat EXCEPT ![u] = Processed]
    BY <1>2, <1>3 DEF DualStep
  <2> HIDE DEF u
  <2>2. u \in Nodes(d) \ Finished(d, t) /\ Finished(d, n) = Finished(d, t) \cup {u}
    BY <1>1, <2>1 DEF Finished, NotExplored, Processed
  <2> QED BY <2>2 DEF u
<1>4. ASSUME LeaveStep(t, n)
      PROVE  /\ Last(t.stack).node \in Nodes(d) \ Finished(d, t)
             /\ Finished(d, n) = Finished(d, t) \cup {Last(t.stack).node}
  <2> DEFINE u == Last(t.stack).node
  <2>1. u \in Nodes(d) /\ u \in OnStack(t) /\ n.stat = [t.stat EXCEPT ![u] = Processed]
    BY <1>4, StackPopped DEF LeaveStep
  <2>2. t.stat[u] # Processed
    BY <2>1, StackStats DEF Settled
  <2> HIDE DEF u
  <2>3. u \in Nodes(d) \ Finished(d, t) /\ Finished(d, n) = Finished(d, t) \cup {u}
    BY <1>1, <2>1, <2>2 DEF Finished
  <2> QED BY <2>3 DEF u
<1>5. ASSUME ~ DualStep(d, t, n), ~ LeaveStep(t, n)
      PROVE  /\ Finished(d, n) = Finished(d, t)
             /\ n.topo_order = t.topo_order /\ n.num_visited_dual = t.num_visited_dual
  <2>1. n.topo_order = t.topo_order /\ n.num_visited_dual = t.num_visited_dual
    BY <1>5 DEF Steps, SeenStep, Seen, ChildlessStep, PushStep, FailStep, VisitStep, ResumeStep,
                RootStep, EndStep, KeepsOrder
  <2>2. \/ n.stat = t.stat
        \/ /\ t.mode = "call" /\ t.stat[t.arg.node] # Processed
           /\ \E x \in {InProgress, CycleStart, ErrorState} : n.stat = [t.stat EXCEPT ![t.arg.node] = x]
    BY <1>5 DEF Steps, SeenStep, Seen, ChildlessStep, PushStep, FailStep, VisitStep, ResumeStep,
                RootStep, EndStep, NotExplored, InProgress, Processed, CycleStart, ErrorState
  <2>3. CASE n.stat = t.stat
    BY <2>1, <2>3 DEF Finished
  <2>4. CASE n.stat # t.stat
    <3>1. PICK x \in {InProgress, CycleStart, ErrorState} : n.stat = [t.stat EXCEPT ![t.arg.node] = x]
      BY <2>2, <2>4
    <3>2. x # Processed /\ t.arg.node \in Nodes(d) /\ t.stat[t.arg.node] # Processed
      BY <1>2, <2>2, <2>4 DEF Processed, InProgress, CycleStart, ErrorState
    <3>3. Finished(d, n) = Finished(d, t)
      BY <1>1, <3>1, <3>2 DEF Finished
    <3> QED BY <2>1, <3>3
  <2> QED BY <2>3, <2>4
<1> QED BY <1>3, <1>4, <1>5

\* A step keeps the count of what is finished.
LEMMA CountInvStep ==
  ASSUME NEW d, WellFormedDag(d), NEW t \in DfsStates(d), NEW n \in DfsStates(d), StackInv(t),
         Control(d, t), CountInv(d, t), Steps(d, t, n)
  PROVE  CountInv(d, n)
<1>1. IsFiniteSet(Finished(d, t))
  <2>1. Finished(d, t) \subseteq Nodes(d)
    BY DEF Finished
  <2> QED BY <2>1, NodesFinite, FS_Subset
<1>2. \A u : u \notin Finished(d, t) =>
        Cardinality(Finished(d, t) \cup {u}) = Cardinality(Finished(d, t)) + 1
  BY <1>1, FS_AddElement
<1>3. t.topo_order \in Seq(Nodes(d)) /\ t.num_visited_dual \in Nat /\ Len(t.topo_order) \in Nat
  BY DEF DfsStates
<1>4. CASE DualStep(d, t, n)
  <2>1. Cardinality(Finished(d, n)) = Cardinality(Finished(d, t)) + 1
    BY <1>2, <1>4, FinishedStep
  <2>2. n.topo_order = t.topo_order /\ n.num_visited_dual = t.num_visited_dual + 1
    BY <1>4 DEF DualStep
  <2> QED BY <1>3, <2>1, <2>2 DEF CountInv
<1>5. CASE LeaveStep(t, n)
  <2>1. Cardinality(Finished(d, n)) = Cardinality(Finished(d, t)) + 1
    BY <1>2, <1>5, FinishedStep
  <2>2. Len(n.topo_order) = Len(t.topo_order) + 1 /\ n.num_visited_dual = t.num_visited_dual
    <3>1. n.topo_order = Append(t.topo_order, Last(t.stack).node)
          /\ n.num_visited_dual = t.num_visited_dual
      BY <1>5 DEF LeaveStep
    <3> QED BY <1>3, <3>1
  <2> QED BY <1>3, <2>1, <2>2 DEF CountInv
<1>6. CASE ~ DualStep(d, t, n) /\ ~ LeaveStep(t, n)
  BY <1>6, FinishedStep DEF CountInv
<1> QED BY <1>4, <1>5, <1>6

\* A step keeps the children of a node before it in the order.
LEMMA OrderInvStep ==
  ASSUME NEW d, NEW t \in DfsStates(d), NEW n \in DfsStates(d), StackInv(t), KidsInv(d, t),
         OrderInv(d, t), Control(d, t), Steps(d, t, n)
  PROVE  OrderInv(d, n)
<1> DEFINE q == t.topo_order
           m == Len(t.topo_order)
<1>1. q \in Seq(Nodes(d)) /\ m \in Nat /\ \A i \in 1..m : q[i] \in Nodes(d)
  <2>1. q \in Seq(Nodes(d))
    BY DEF DfsStates
  <2> QED BY <2>1
<1>2. \A u \in Nodes(d) : Settled(t, u) => Settled(n, u)
  BY SettledStays
<1>3. \A u : Kids(d, u) \subseteq Nodes(d)
  BY DEF Kids
<1>4. /\ \A i, j \in 1..m : q[i] = q[j] => i = j
      /\ \A i \in 1..m : q[i] \in Finished(d, t)
      /\ \A i \in 1..m : \A c \in Kids(d, q[i]) :
           Settled(t, c) /\ \A j \in 1..m : q[j] = c => j < i
      /\ \A u \in Finished(d, t) : u \in Range(q) \/ (uidisMP(u) /\ d.type[uid2id(u)] = "Dual")
  BY <1>1 DEF OrderInv, Finished
<1>5. ASSUME n.topo_order = q, Finished(d, t) \subseteq Finished(d, n),
             \A u \in Finished(d, n) \ Finished(d, t) : uidisMP(u) /\ d.type[uid2id(u)] = "Dual"
      PROVE  OrderInv(d, n)
  <2>1. \A i \in 1..m : n.stat[q[i]] = Processed
    BY <1>4, <1>5 DEF Finished
  <2>2. \A i \in 1..m : \A c \in Kids(d, q[i]) : Settled(n, c) /\ \A j \in 1..m : q[j] = c => j < i
    BY <1>2, <1>3, <1>4
  <2>3. \A u \in Nodes(d) : n.stat[u] = Processed =>
          u \in Range(q) \/ (uidisMP(u) /\ d.type[uid2id(u)] = "Dual")
    <3>1. \A u \in Nodes(d) : n.stat[u] = Processed => u \in Finished(d, n)
      BY DEF Finished
    <3> QED BY <1>4, <1>5, <3>1
  <2>4. n.topo_order = q /\ Len(n.topo_order) = m
    BY <1>5
  <2> HIDE DEF q, m
  <2> QED BY <1>4, <2>1, <2>2, <2>3, <2>4 DEF OrderInv
<1>6. CASE DualStep(d, t, n)
  <2>1. n.topo_order = q /\ uidisMP(t.arg.node) /\ d.type[uid2id(t.arg.node)] = "Dual"
    BY <1>6 DEF DualStep
  <2>2. Finished(d, n) = Finished(d, t) \cup {t.arg.node}
    BY <1>6, FinishedStep
  <2> QED BY <1>5, <2>1, <2>2
<1>7. CASE ~ DualStep(d, t, n) /\ ~ LeaveStep(t, n)
  <2>1. n.topo_order = q /\ Finished(d, n) = Finished(d, t)
    BY <1>7, FinishedStep
  <2> QED BY <1>5, <2>1
<1>8. CASE LeaveStep(t, n)
  <2> DEFINE L == Len(t.stack)
             u == Last(t.stack).node
             r == n.topo_order
  <2>1. /\ L \in Nat /\ L >= 1 /\ u = t.stack[L].node /\ u \in Nodes(d) /\ u \in OnStack(t)
        /\ t.stack[L].todo = <<>> /\ t.mode = "loop"
    BY <1>8, StackPopped DEF LeaveStep
  <2>2. u \notin Finished(d, t) /\ Finished(d, n) = Finished(d, t) \cup {u}
    BY <1>8, FinishedStep
  <2>3. r = Append(q, u)
    BY <1>8 DEF LeaveStep
  <2>4. \A c \in Kids(d, u) : Settled(t, c)
    <3>1. ASSUME NEW c \in Kids(d, u) PROVE Settled(t, c)
      <4>1. L \in 1..L /\ c \in Kids(d, t.stack[L].node)
        BY <2>1
      <4>2. c \notin Todo(t.stack[L]) /\ ~ L < L
        BY <2>1 DEF Todo
      <4> QED BY <2>1, <4>1, <4>2 DEF KidsInv, Failing
    <3> QED BY <3>1
  <2>5. ~ Settled(t, u)
    BY <2>1 DEF Settled
  <2> HIDE DEF q, u, r, L, m
  <2>6. Len(r) = m + 1 /\ r[m + 1] = u /\ \A i \in 1..m : r[i] = q[i]
    BY <1>1, <2>1, <2>3 DEF m, q
  <2>7. \A i \in 1..(m + 1) : i = m + 1 \/ (i \in 1..m /\ i < m + 1)
    BY <1>1
  <2>8. \A i \in 1..m : q[i] # u
    BY <1>4, <2>2
  <2>9. \A i, j \in 1..(m + 1) : r[i] = r[j] => i = j
    BY <1>4, <2>6, <2>7, <2>8
  <2>10. \A i \in 1..(m + 1) : n.stat[r[i]] = Processed
    <3>1. \A i \in 1..(m + 1) : r[i] \in Finished(d, n)
      BY <1>4, <2>2, <2>6, <2>7
    <3> QED BY <3>1 DEF Finished
  <2>11. ASSUME NEW i \in 1..(m + 1), NEW c \in Kids(d, r[i])
         PROVE  Settled(n, c) /\ \A j \in 1..(m + 1) : r[j] = c => j < i
    <3>1. Settled(t, c)
      <4>1. CASE i = m + 1
        BY <2>4, <2>6, <2>11, <4>1
      <4>2. CASE i # m + 1
        BY <1>4, <2>6, <2>7, <2>11, <4>2
      <4> QED BY <4>1, <4>2
    <3>2. Settled(n, c) /\ c # u
      BY <1>2, <1>3, <2>5, <3>1
    <3>3. ASSUME NEW j \in 1..(m + 1), r[j] = c PROVE j < i
      <4>1. j \in 1..m /\ q[j] = c
        BY <2>6, <2>7, <3>2, <3>3
      <4>2. CASE i = m + 1
        BY <1>1, <4>1, <4>2
      <4>3. CASE i # m + 1
        <5>1. i \in 1..m /\ r[i] = q[i]
          BY <2>6, <2>7, <4>3
        <5> QED BY <1>4, <2>11, <4>1, <5>1
      <4> QED BY <4>2, <4>3
    <3> QED BY <3>2, <3>3
  <2>12. ASSUME NEW v \in Nodes(d), n.stat[v] = Processed
         PROVE  v \in Range(r) \/ (uidisMP(v) /\ d.type[uid2id(v)] = "Dual")
    <3>1. v \in Finished(d, t) \/ v = u
      BY <2>2, <2>12 DEF Finished
    <3>2. r \in Seq(Nodes(d)) /\ q \in Seq(Nodes(d))
      BY <1>1 DEF r, DfsStates
    <3>3. \A i \in 1..(m + 1) : r[i] \in Range(r)
      BY <2>6, <3>2 DEF Range
    <3>4. u \in Range(r)
      <4>1. m + 1 \in 1..(m + 1)
        BY <1>1
      <4> QED BY <2>6, <3>3, <4>1
    <3>5. Range(q) \subseteq Range(r)
      <4>1. ASSUME NEW x \in Range(q) PROVE x \in Range(r)
        <5>1. PICK i \in 1..m : q[i] = x
          BY <3>2, <4>1 DEF Range, m, q
        <5>2. i \in 1..(m + 1)
          BY <1>1
        <5> QED BY <2>6, <3>3, <5>1, <5>2
      <4> QED BY <4>1
    <3> QED BY <1>4, <3>1, <3>4, <3>5
  <2> QED BY <2>6, <2>9, <2>10, <2>11, <2>12 DEF OrderInv, r
<1> QED BY <1>6, <1>7, <1>8
\* From a root or a node below one the steps lead to nodes below a root.
LEMMA ReachedStep ==
  ASSUME NEW d, WellFormedDag(d), NEW u \in Nodes(d), Reached(d, u), NEW v,
         <<u, v>> \in Arcs(d) \cup DualSteps(d)
  PROVE  Reached(d, v)
<1> DEFINE R == Arcs(d) \cup DualSteps(d)
           C == Reach(d, R)
<1>1. DualSteps(d) \in SUBSET (Nodes(d) \X Nodes(d))
  <2>1. ASSUME NEW m \in d.mps, d.type[m] = "Dual"
        PROVE  mpid2uid(m) \in Nodes(d) /\ mpid2uid(d.primal[m]) \in Nodes(d)
    BY <2>1 DEF WellFormedDag, Nodes, MpUids
  <2> QED BY <2>1 DEF DualSteps
<1>2. R \in SUBSET (Nodes(d) \X Nodes(d)) /\ IsFiniteSet(Nodes(d))
  BY <1>1, ArcsIs, NodesFinite
<1>3. R \subseteq C /\ Transitive(C)
  <2> HIDE DEF R
  <2> QED BY <1>2, ReachIsClosure
<1>4. CASE u \in Range(d.roots)
  <2>1. <<u, v>> \in C
    BY <1>3
  <2> QED BY <1>4, <2>1 DEF Reached
<1>5. ASSUME NEW r \in Range(d.roots), <<r, u>> \in C PROVE Reached(d, v)
  <2>1. <<r, v>> \in C
    <3> HIDE DEF C
    <3> QED BY <1>3, <1>5 DEF Transitive
  <2> QED BY <1>5, <2>1 DEF Reached
<1> QED BY <1>4, <1>5 DEF Reached

\* The child that is called next is a child of the node of the top frame.
LEMMA VisitFollows ==
  ASSUME NEW d, WellFormedDag(d), NEW t \in DfsStates(d), Control(d, t), NEW n, VisitStep(t, n)
  PROVE  /\ Last(t.stack).node \in Nodes(d) /\ n.arg.node \in Nodes(d)
         /\ Last(t.stack).node \in OnStack(t)
         /\ <<Last(t.stack).node, n.arg.node>> \in Arcs(d)
<1> DEFINE f == Last(t.stack)
           L == Len(t.stack)
<1>1. f \in Frames(d) /\ f = t.stack[L] /\ L \in Nat /\ L >= 1 /\ f.todo # <<>>
      /\ n.arg.node = Head(f.todo)[2]
  BY StackIs DEF VisitStep
<1>2. L \in 1..L /\ f.node \in OnStack(t)
  BY <1>1 DEF OnStack
<1>3. \A j \in 1..Len(f.todo) : IsItem(d, f.node, f.todo[j])
  BY <1>1, <1>2 DEF Control
<1> HIDE DEF f, L
<1>4. f.node \in Nodes(d) /\ f.todo \in Seq(Kinds \X Nodes(d))
  BY <1>1, FrameIs
<1>5. Head(f.todo) \in Kinds \X Nodes(d) /\ IsItem(d, f.node, Head(f.todo))
  BY <1>1, <1>3, <1>4
<1>6. <<f.node, n.arg.node>> \in Arcs(d) /\ n.arg.node \in Nodes(d)
  BY <1>1, <1>4, <1>5, ItemIs
<1> QED BY <1>2, <1>4, <1>6 DEF f

\* A step keeps within what is below the roots.
LEMMA ReachedInvStep ==
  ASSUME NEW d, WellFormedDag(d), NEW t \in DfsStates(d), NEW n \in DfsStates(d), StackInv(t),
         ReachedInv(d, t), Control(d, t), Steps(d, t, n)
  PROVE  ReachedInv(d, n)
<1>1. t.stat \in [Nodes(d) -> Stats]
  BY DEF DfsStates
<1>2. t.mode = "call" => t.arg.node \in Nodes(d) /\ Reached(d, t.arg.node)
  BY DEF Control, ReachedInv
<1>3. \A u \in Nodes(d) : t.stat[u] # NotExplored => Reached(d, u)
  BY DEF ReachedInv
<1>4. ASSUME NEW u \in Nodes(d), n.stat[u] # NotExplored PROVE Reached(d, u)
  <2>1. \/ n.stat = t.stat
        \/ t.mode = "call" /\ \E x : n.stat = [t.stat EXCEPT ![t.arg.node] = x]
        \/ \E x : n.stat = [t.stat EXCEPT ![Last(t.stack).node] = x] /\ LeaveStep(t, n)
    BY DEF Steps, SeenStep, Seen, DualStep, ChildlessStep, PushStep, FailStep, LeaveStep, VisitStep,
           ResumeStep, RootStep, EndStep
  <2>2. CASE n.stat = t.stat
    BY <1>3, <1>4, <2>2
  <2>3. CASE t.mode = "call" /\ \E x : n.stat = [t.stat EXCEPT ![t.arg.node] = x]
    BY <1>1, <1>2, <1>3, <1>4, <2>3
  <2>4. CASE \E x : n.stat = [t.stat EXCEPT ![Last(t.stack).node] = x] /\ LeaveStep(t, n)
    <3> DEFINE w == Last(t.stack).node
    <3>1. w \in Nodes(d) /\ w \in OnStack(t)
      BY <2>4, StackPopped DEF LeaveStep
    <3>2. t.stat[w] # NotExplored
      BY <3>1, StackStats
    <3> HIDE DEF w
    <3>3. PICK x : n.stat = [t.stat EXCEPT ![w] = x]
      BY <2>4 DEF w
    <3>4. t.stat[u] # NotExplored
      BY <1>1, <1>4, <3>1, <3>2, <3>3
    <3> QED BY <1>3, <3>4
  <2> QED BY <2>1, <2>2, <2>3, <2>4
<1>5. ASSUME n.mode = "call" PROVE Reached(d, n.arg.node)
  <2>1. DualStep(d, t, n) \/ VisitStep(t, n) \/ RootStep(d, t, n)
    BY <1>5 DEF Steps, SeenStep, Seen, ChildlessStep, PushStep, FailStep, LeaveStep,
           ResumeStep, EndStep
  <2>2. CASE DualStep(d, t, n)
    <3> DEFINE u == t.arg.node
    <3>1. /\ u \in Nodes(d) /\ Reached(d, u) /\ uidisMP(u) /\ d.type[uid2id(u)] = "Dual"
          /\ n.arg.node = mpid2uid(d.primal[uid2id(u)])
      BY <1>2, <2>2 DEF DualStep
    <3>2. uid2id(u) \in d.mps /\ u = mpid2uid(uid2id(u))
      BY <3>1, NodeIs
    <3> HIDE DEF u
    <3>3. <<u, n.arg.node>> \in DualSteps(d)
      BY <3>1, <3>2 DEF DualSteps
    <3> QED BY <3>1, <3>3, ReachedStep
  <2>3. CASE VisitStep(t, n)
    <3>1. /\ Last(t.stack).node \in Nodes(d) /\ n.arg.node \in Nodes(d)
          /\ Last(t.stack).node \in OnStack(t)
          /\ <<Last(t.stack).node, n.arg.node>> \in Arcs(d)
      BY <2>3, VisitFollows
    <3>2. Reached(d, Last(t.stack).node)
      BY <1>3, <3>1, StackStats
    <3> QED BY <3>1, <3>2, ReachedStep
  <2>4. CASE RootStep(d, t, n)
    <3>1. d.roots \in Seq(Nodes(d)) /\ t.roots_done + 1 \in 1..Len(d.roots)
          /\ n.arg.node = d.roots[t.roots_done + 1]
      BY <2>4 DEF RootStep, WellFormedDag
    <3> QED BY <3>1 DEF Range, Reached
  <2> QED BY <2>1, <2>2, <2>3, <2>4
<1> QED BY <1>4, <1>5 DEF ReachedInv

\* The traversal starts in its invariant and keeps it.
THEOREM DfsInvHolds ==
  ASSUME NEW d, WellFormedDag(d)
  PROVE  /\ DfsInv(d, dfsdata_init(d))
         /\ \A t \in DfsStates(d) : \A n : /\ Control(d, t) /\ DfsInv(d, t) /\ t.mode # "end"
                                           /\ n = DfsStep(d, t)
                                           => n \in DfsStates(d) /\ Control(d, n) /\ DfsInv(d, n)
<1>1. DfsInv(d, dfsdata_init(d))
  <2> DEFINE t == dfsdata_init(d)
  <2>1. t.stack = <<>> /\ t.topo_order = <<>> /\ t.num_visited_dual = 0 /\ t.mode = "ret"
        /\ \A u \in Nodes(d) : t.stat[u] = NotExplored
    BY DEF dfsdata_init
  <2> HIDE DEF t
  <2>2. Finished(d, t) = {}
    BY <2>1 DEF Finished, NotExplored, Processed
  <2>3. CountInv(d, t)
    BY <2>1, <2>2, FS_EmptySet DEF CountInv
  <2>4. StackInv(t) /\ KidsInv(d, t)
    BY <2>1 DEF StackInv, KidsInv
  <2>5. OrderInv(d, t)
    BY <2>1 DEF OrderInv, NotExplored, Processed
  <2>6. ReachedInv(d, t)
    BY <2>1 DEF ReachedInv
  <2> QED BY <2>3, <2>4, <2>5, <2>6 DEF DfsInv, t
<1>2. ASSUME NEW t \in DfsStates(d), NEW n, Control(d, t), DfsInv(d, t), t.mode # "end",
             n = DfsStep(d, t)
      PROVE  n \in DfsStates(d) /\ Control(d, n) /\ DfsInv(d, n)
  <2>1. n \in DfsStates(d) /\ Control(d, n) /\ Steps(d, t, n)
    BY <1>2, DfsStepIs
  <2>2. StackInv(t) /\ KidsInv(d, t) /\ OrderInv(d, t) /\ CountInv(d, t) /\ ReachedInv(d, t)
    BY <1>2 DEF DfsInv
  <2>3. StackInv(n) /\ KidsInv(d, n)
    BY <1>2, <2>1, <2>2, StackInvStep, KidsInvStep
  <2>4. OrderInv(d, n)
    BY <1>2, <2>1, <2>2, OrderInvStep
  <2>5. CountInv(d, n)
    BY <1>2, <2>1, <2>2, CountInvStep
  <2>6. ReachedInv(d, n)
    BY <1>2, <2>1, <2>2, ReachedInvStep
  <2> QED BY <2>1, <2>3, <2>4, <2>5, <2>6 DEF DfsInv
<1> QED BY <1>1, <1>2
-----------------------------------------------------------------------------
(***************************************************************************)
(* The intervals [preorder, postorder] of an EMPDAG without dual MPs.      *)
(***************************************************************************)
Path(d, u, v) == <<u, v>> \in Reach(d, Arcs(d))

\* The clock is ahead of every time; a time is set when a node is entered, the other when it
\* is finished.
TimesInv(d, t) ==
  \A u \in Nodes(d) : /\ t.preorder[u] <= t.timestamp /\ t.postorder[u] <= t.timestamp
                      /\ t.stat[u] = NotExplored => t.preorder[u] = 0
                      /\ t.postorder[u] > 0 <=> t.stat[u] = Processed

\* The stack is a path, and the call that its top frame makes follows an arc.
PathInv(d, t) ==
  /\ \A j, k \in 1..Len(t.stack) : j < k => Path(d, t.stack[j].node, t.stack[k].node)
  /\ t.mode = "call" /\ t.stack # <<>> => Path(d, t.stack[Len(t.stack)].node, t.arg.node)

\* What was finished since a node was entered is below that node.
NestInv(d, t) ==
  \A u, v \in Nodes(d) :
    /\ u \in OnStack(t) \/ t.postorder[u] > t.postorder[v]
    /\ t.preorder[u] < t.preorder[v] /\ t.postorder[v] > 0
    => Path(d, u, v)

\* Arcs are paths, and paths compose.
LEMMA Paths ==
  ASSUME NEW d, WellFormedDag(d)
  PROVE  /\ \A u \in Nodes(d), v \in Nodes(d) : <<u, v>> \in Arcs(d) => Path(d, u, v)
         /\ \A u, v, w : Path(d, u, v) /\ Path(d, v, w) => Path(d, u, w)
<1>1. Arcs(d) \in SUBSET (Nodes(d) \X Nodes(d)) /\ IsFiniteSet(Nodes(d))
  BY ArcsIs, NodesFinite
<1>2. Arcs(d) \subseteq Reach(d, Arcs(d)) /\ Transitive(Reach(d, Arcs(d)))
  BY <1>1, ReachIsClosure
<1> QED BY <1>2 DEF Path, Transitive

\* Without dual MPs no step passes over one.
LEMMA NoDualStep ==
  ASSUME NEW d, WellFormedDag(d), NoDual(d), NEW t, NEW n, Control(d, t)
  PROVE  ~ DualStep(d, t, n)
<1> SUFFICES ASSUME DualStep(d, t, n) PROVE FALSE
  OBVIOUS
<1>1. t.arg.node \in Nodes(d) /\ uidisMP(t.arg.node) /\ d.type[uid2id(t.arg.node)] = "Dual"
  BY DEF DualStep, Control
<1> QED BY <1>1, NodeIs DEF NoDual

\* The node u is entered.
Entered(t, n, u) ==
  /\ t.stat[u] = NotExplored /\ u \notin OnStack(t)
  /\ n.stat = [t.stat EXCEPT ![u] = InProgress] /\ n.postorder = t.postorder
  /\ n.preorder = [t.preorder EXCEPT ![u] = t.timestamp + 1] /\ n.timestamp = t.timestamp + 1

\* The node u is finished.
Left(t, n, u) ==
  /\ u \in OnStack(t) /\ n.stat = [t.stat EXCEPT ![u] = Processed] /\ n.preorder = t.preorder
  /\ n.postorder = [t.postorder EXCEPT ![u] = t.timestamp + 1] /\ n.timestamp = t.timestamp + 1

\* No node is entered or finished.
Untimed(d, t, n) ==
  /\ KeepsTimes(t, n)
  /\ \A u \in Nodes(d) : /\ n.stat[u] = NotExplored <=> t.stat[u] = NotExplored
                         /\ n.stat[u] = Processed <=> t.stat[u] = Processed

\* A step enters a node, finishes one or leaves the times alone.
LEMMA TimeSteps ==
  ASSUME NEW d, WellFormedDag(d), NoDual(d), NEW t \in DfsStates(d), Control(d, t), StackInv(t),
         NEW n, Steps(d, t, n)
  PROVE  \/ /\ ChildlessStep(t, n) \/ PushStep(d, t, n)
            /\ t.mode = "call" /\ t.arg.node \in Nodes(d) /\ Entered(t, n, t.arg.node)
         \/ /\ LeaveStep(t, n) /\ Last(t.stack).node \in Nodes(d)
            /\ Left(t, n, Last(t.stack).node)
         \/ /\ \/ SeenStep(t, n) \/ FailStep(t, n) \/ VisitStep(t, n) \/ ResumeStep(t, n)
               \/ RootStep(d, t, n) \/ EndStep(t, n)
            /\ Untimed(d, t, n)
<1>1. t.mode = "call" => t.arg.node \in Nodes(d)
  BY DEF Control
<1>2. CASE ChildlessStep(t, n) \/ PushStep(d, t, n)
  <2>1. t.mode = "call" /\ t.stat[t.arg.node] = NotExplored
    BY <1>2 DEF ChildlessStep, PushStep
  <2>2. t.arg.node \notin OnStack(t)
    BY <1>1, <2>1, StackStats
  <2> QED BY <1>1, <1>2, <2>1, <2>2 DEF ChildlessStep, PushStep, Entered
<1>3. CASE LeaveStep(t, n)
  <2>1. t.stack # <<>> /\ n.stack = Front(t.stack)
    BY <1>3 DEF LeaveStep
  <2>2. Last(t.stack).node \in Nodes(d) /\ Last(t.stack).node \in OnStack(t)
    BY <2>1, StackPopped
  <2> QED BY <1>3, <2>2 DEF LeaveStep, Left
<1>4. CASE SeenStep(t, n)
  <2>1. t.arg.node \in Nodes(d) /\ KeepsTimes(t, n)
    BY <1>1, <1>4 DEF SeenStep, Seen
  <2>2. \/ n.stat = t.stat
        \/ \E x \in {CycleStart, ErrorState} :
             /\ t.stat[t.arg.node] \notin {NotExplored, Processed}
             /\ n.stat = [t.stat EXCEPT ![t.arg.node] = x]
    BY <1>4 DEF SeenStep, Seen, NotExplored, Processed, InProgress, CycleStart, ErrorState
  <2>3. t.stat \in [Nodes(d) -> Stats]
    BY DEF DfsStates
  <2>4. Untimed(d, t, n)
    BY <2>1, <2>2, <2>3 DEF Untimed, NotExplored, Processed, CycleStart, ErrorState
  <2> QED BY <1>4, <2>4
<1>5. CASE FailStep(t, n) \/ VisitStep(t, n) \/ ResumeStep(t, n) \/ RootStep(d, t, n) \/ EndStep(t, n)
  BY <1>5 DEF FailStep, VisitStep, ResumeStep, RootStep, EndStep, Untimed
<1> QED BY <1>2, <1>3, <1>4, <1>5, NoDualStep DEF Steps

\* A step keeps the times in order.
LEMMA TimesInvStep ==
  ASSUME NEW d, WellFormedDag(d), NoDual(d), NEW t \in DfsStates(d), Control(d, t), StackInv(t),
         NEW n, Steps(d, t, n), TimesInv(d, t)
  PROVE  TimesInv(d, n)
<1>1. /\ t.stat \in [Nodes(d) -> Stats] /\ t.timestamp \in Nat
      /\ t.preorder \in [Nodes(d) -> Nat] /\ t.postorder \in [Nodes(d) -> Nat]
  BY DEF DfsStates
<1>2. \A u \in Nodes(d) : /\ t.preorder[u] <= t.timestamp /\ t.postorder[u] <= t.timestamp
                          /\ t.stat[u] = NotExplored => t.preorder[u] = 0
                          /\ t.postorder[u] > 0 <=> t.stat[u] = Processed
  BY DEF TimesInv
<1>3. ASSUME NEW u \in Nodes(d), Entered(t, n, u) PROVE TimesInv(d, n)
  BY <1>1, <1>2, <1>3 DEF TimesInv, Entered, NotExplored, InProgress, Processed
<1>4. ASSUME NEW u \in Nodes(d), Left(t, n, u) PROVE TimesInv(d, n)
  BY <1>1, <1>2, <1>4 DEF TimesInv, Left, NotExplored, Processed
<1>5. CASE Untimed(d, t, n)
  BY <1>2, <1>5 DEF TimesInv, Untimed, KeepsTimes
<1> QED BY <1>3, <1>4, <1>5, TimeSteps
\* The stack stays a path.
LEMMA PathInvStep ==
  ASSUME NEW d, WellFormedDag(d), NoDual(d), NEW t \in DfsStates(d), Control(d, t), StackInv(t),
         NEW n \in DfsStates(d), Steps(d, t, n), PathInv(d, t)
  PROVE  PathInv(d, n)
<1> DEFINE L == Len(t.stack)
<1>1. L \in Nat /\ t.stack \in Seq(Frames(d))
  BY DEF DfsStates
<1>2. /\ \A j, k \in 1..L : j < k => Path(d, t.stack[j].node, t.stack[k].node)
      /\ t.mode = "call" /\ t.stack # <<>> => Path(d, t.stack[L].node, t.arg.node)
  BY DEF PathInv
<1>3. ASSUME Len(n.stack) = L, \A k \in 1..L : n.stack[k].node = t.stack[k].node,
             n.mode = "call" /\ n.stack # <<>> => VisitStep(t, n)
      PROVE  PathInv(d, n)
  <2>1. ASSUME n.mode = "call", n.stack # <<>> PROVE Path(d, n.stack[Len(n.stack)].node, n.arg.node)
    <3>1. VisitStep(t, n) /\ t.stack # <<>>
      BY <1>3, <2>1 DEF VisitStep
    <3>2. Last(t.stack).node \in Nodes(d) /\ n.arg.node \in Nodes(d)
          /\ <<Last(t.stack).node, n.arg.node>> \in Arcs(d)
      BY <3>1, VisitFollows
    <3>3. Path(d, Last(t.stack).node, n.arg.node)
      BY <3>2, Paths
    <3>4. L \in 1..L /\ Last(t.stack) = t.stack[L]
      BY <1>1, <3>1, StackIs
    <3> QED BY <1>3, <3>3, <3>4
  <2> QED BY <1>2, <1>3, <2>1 DEF PathInv
<1>4. CASE SeenStep(t, n) \/ ChildlessStep(t, n) \/ VisitStep(t, n) \/ ResumeStep(t, n)
           \/ RootStep(d, t, n) \/ EndStep(t, n)
  <2>1. n.stack = t.stack \/ SameNodes(t, n)
    BY <1>4 DEF SeenStep, Seen, ChildlessStep, VisitStep, ResumeStep, RootStep, EndStep
  <2>2. Len(n.stack) = L /\ \A k \in 1..L : n.stack[k].node = t.stack[k].node
    BY <2>1, StackSame
  <2>3. n.mode = "call" /\ n.stack # <<>> => VisitStep(t, n)
    BY <1>4 DEF SeenStep, Seen, ChildlessStep, ResumeStep, RootStep, EndStep
  <2> QED BY <1>3, <2>2, <2>3
<1>5. CASE PushStep(d, t, n)
  <2>1. PICK f \in Frames(d) : n.stack = Append(t.stack, f) /\ f.node = t.arg.node
    BY <1>5 DEF PushStep
  <2>2. Len(n.stack) = L + 1 /\ n.stack[L + 1] = f /\ \A k \in 1..L : n.stack[k] = t.stack[k]
    BY <2>1, StackPushed
  <2>3. t.mode = "call" /\ n.mode = "loop"
    BY <1>5 DEF PushStep
  <2>4. ASSUME NEW j \in 1..L PROVE Path(d, t.stack[j].node, f.node)
    <3>1. t.stack # <<>> /\ L \in 1..L
      BY <1>1
    <3>2. Path(d, t.stack[L].node, f.node)
      BY <1>2, <2>1, <2>3, <3>1
    <3>3. CASE j = L
      BY <3>2, <3>3
    <3>4. CASE j # L
      <4>1. Path(d, t.stack[j].node, t.stack[L].node)
        BY <1>1, <1>2, <3>1, <3>4
      <4> QED BY <3>2, <4>1, Paths
    <3> QED BY <3>3, <3>4
  <2>5. \A j, k \in 1..(L + 1) : j < k => j \in 1..L /\ (k \in 1..L \/ k = L + 1)
    BY <1>1
  <2> HIDE DEF L
  <2> QED BY <1>2, <2>2, <2>3, <2>4, <2>5 DEF PathInv
<1>6. CASE FailStep(t, n) \/ LeaveStep(t, n)
  <2>1. t.stack # <<>> /\ n.stack = Front(t.stack) /\ n.mode = "ret"
    BY <1>6 DEF FailStep, LeaveStep
  <2>2. \A k \in 1..Len(n.stack) : n.stack[k] = t.stack[k] /\ k \in 1..L
    BY <2>1, StackPopped
  <2> QED BY <1>2, <2>1, <2>2 DEF PathInv
<1> QED BY <1>4, <1>5, <1>6, NoDualStep DEF Steps

\* What is nested stays below.
LEMMA NestInvStep ==
  ASSUME NEW d, WellFormedDag(d), NoDual(d), NEW t \in DfsStates(d), Control(d, t), StackInv(t),
         NEW n \in DfsStates(d), Steps(d, t, n), TimesInv(d, t), PathInv(d, t), NestInv(d, t)
  PROVE  NestInv(d, n)
<1>1. /\ t.stat \in [Nodes(d) -> Stats] /\ t.timestamp \in Nat
      /\ t.preorder \in [Nodes(d) -> Nat] /\ t.postorder \in [Nodes(d) -> Nat]
  BY DEF DfsStates
<1>2. \A u \in Nodes(d) : /\ t.preorder[u] <= t.timestamp /\ t.postorder[u] <= t.timestamp
                          /\ t.stat[u] = NotExplored => t.preorder[u] = 0
                          /\ t.postorder[u] > 0 <=> t.stat[u] = Processed
  BY DEF TimesInv
<1>3. ASSUME NEW u \in Nodes(d), NEW v \in Nodes(d), u \in OnStack(t) \/ t.postorder[u] > t.postorder[v],
             t.preorder[u] < t.preorder[v], t.postorder[v] > 0
      PROVE  Path(d, u, v)
  BY <1>3 DEF NestInv
<1> SUFFICES ASSUME NEW u \in Nodes(d), NEW v \in Nodes(d),
                    u \in OnStack(n) \/ n.postorder[u] > n.postorder[v],
                    n.preorder[u] < n.preorder[v], n.postorder[v] > 0
             PROVE  Path(d, u, v)
  BY DEF NestInv
<1>4. CASE (ChildlessStep(t, n) \/ PushStep(d, t, n)) /\ t.mode = "call" /\ t.arg.node \in Nodes(d)
           /\ Entered(t, n, t.arg.node)
  <2> DEFINE c == t.arg.node
  <2>1. /\ t.stat[c] = NotExplored /\ n.postorder = t.postorder
        /\ n.preorder = [t.preorder EXCEPT ![c] = t.timestamp + 1]
    BY <1>4 DEF Entered
  <2>2. t.postorder[c] = 0
    BY <1>1, <1>2, <1>4, <2>1 DEF NotExplored, Processed
  <2>3. v # c /\ n.preorder[v] = t.preorder[v]
    BY <1>1, <2>1, <2>2
  <2>4. u # c
    BY <1>1, <1>2, <1>4, <2>1, <2>3
  <2>5. u \in OnStack(n) => u \in OnStack(t)
    <3>1. CASE ChildlessStep(t, n)
      BY <3>1 DEF ChildlessStep, OnStack
    <3>2. CASE PushStep(d, t, n)
      <4>1. PICK f \in Frames(d) : n.stack = Append(t.stack, f) /\ f.node = c
        BY <3>2 DEF PushStep
      <4>2. OnStack(n) = OnStack(t) \cup {c}
        BY <4>1, StackPushed
      <4> QED BY <2>4, <4>2
    <3> QED BY <1>4, <3>1, <3>2
  <2> QED BY <1>1, <1>3, <2>1, <2>3, <2>4, <2>5
<1>5. CASE LeaveStep(t, n) /\ Last(t.stack).node \in Nodes(d) /\ Left(t, n, Last(t.stack).node)
  <2> DEFINE w == Last(t.stack).node
             L == Len(t.stack)
  <2>1. /\ w \in Nodes(d) /\ w \in OnStack(t) /\ n.preorder = t.preorder
        /\ n.postorder = [t.postorder EXCEPT ![w] = t.timestamp + 1]
    BY <1>5 DEF Left
  <2>2. t.stack # <<>> /\ n.stack = Front(t.stack)
    BY <1>5 DEF LeaveStep
  <2>3. /\ L \in Nat /\ L >= 1 /\ Len(n.stack) = L - 1 /\ w = t.stack[L].node
        /\ OnStack(n) = OnStack(t) \ {w}
        /\ \A k \in 1..Len(n.stack) : n.stack[k] = t.stack[k] /\ k \in 1..L
    BY <2>2, StackPopped
  <2> HIDE DEF w, L
  <2>4. CASE v = w
    <3>1. n.postorder[v] = t.timestamp + 1 /\ n.postorder[u] <= t.timestamp + 1
      BY <1>1, <1>2, <2>1, <2>4
    <3>2. u \in OnStack(n)
      BY <1>1, <2>1, <3>1
    <3>3. PICK k \in 1..(L - 1) : u = n.stack[k].node
      BY <2>3, <3>2 DEF OnStack
    <3>4. k \in 1..L /\ L \in 1..L /\ k < L /\ u = t.stack[k].node
      BY <2>3, <3>3
    <3> QED BY <2>3, <2>4, <3>4 DEF PathInv, L
  <2>5. CASE v # w
    <3>1. n.postorder[v] = t.postorder[v]
      BY <1>1, <2>1, <2>5
    <3>2. CASE u = w
      BY <1>3, <2>1, <3>1, <3>2
    <3>3. CASE u # w
      BY <1>1, <1>3, <2>1, <2>3, <3>1, <3>3
    <3> QED BY <3>2, <3>3
  <2> QED BY <2>4, <2>5
<1>6. CASE /\ \/ SeenStep(t, n) \/ FailStep(t, n) \/ VisitStep(t, n) \/ ResumeStep(t, n)
              \/ RootStep(d, t, n) \/ EndStep(t, n)
           /\ Untimed(d, t, n)
  <2>1. OnStack(n) \subseteq OnStack(t)
    <3>1. CASE FailStep(t, n)
      <4>1. OnStack(n) = OnStack(t) \ {Last(t.stack).node}
        BY <3>1, StackPopped DEF FailStep
      <4> QED BY <4>1
    <3>2. CASE SeenStep(t, n) \/ VisitStep(t, n) \/ ResumeStep(t, n) \/ RootStep(d, t, n) \/ EndStep(t, n)
      <4>1. n.stack = t.stack \/ SameNodes(t, n)
        BY <3>2 DEF SeenStep, Seen, VisitStep, ResumeStep, RootStep, EndStep
      <4> QED BY <4>1, StackSame
    <3> QED BY <1>6, <3>1, <3>2
  <2>2. n.preorder = t.preorder /\ n.postorder = t.postorder
    BY <1>6 DEF Untimed, KeepsTimes
  <2> QED BY <1>3, <2>1, <2>2
<1> QED BY <1>4, <1>5, <1>6, TimeSteps

\* What the intervals are good for, and what keeps them so.
IntervalInv(d, t) == TimesInv(d, t) /\ PathInv(d, t) /\ NestInv(d, t)

\* The traversal of an EMPDAG without dual MPs starts with sound intervals and keeps them so.
THEOREM IntervalInvHolds ==
  ASSUME NEW d, WellFormedDag(d)
  PROVE  /\ IntervalInv(d, dfsdata_init(d))
         /\ NoDual(d) => \A t \in DfsStates(d) : \A n :
              /\ Control(d, t) /\ StackInv(t) /\ t.mode # "end" /\ n = DfsStep(d, t)
              /\ IntervalInv(d, t)
              => IntervalInv(d, n)
<1>1. IntervalInv(d, dfsdata_init(d))
  <2> DEFINE t == dfsdata_init(d)
  <2>1. /\ t.stack = <<>> /\ t.mode = "ret" /\ t.timestamp = 0
        /\ \A u \in Nodes(d) : t.stat[u] = NotExplored /\ t.preorder[u] = 0 /\ t.postorder[u] = 0
    BY DEF dfsdata_init
  <2> HIDE DEF t
  <2>2. TimesInv(d, t)
    BY <2>1 DEF TimesInv, NotExplored, Processed
  <2>3. PathInv(d, t) /\ NestInv(d, t)
    BY <2>1 DEF PathInv, NestInv
  <2> QED BY <2>2, <2>3 DEF IntervalInv, t
<1>2. ASSUME NoDual(d), NEW t \in DfsStates(d), NEW n, Control(d, t), StackInv(t), t.mode # "end",
             n = DfsStep(d, t), IntervalInv(d, t)
      PROVE  IntervalInv(d, n)
  <2>1. n \in DfsStates(d) /\ Steps(d, t, n)
    BY <1>2, DfsStepIs
  <2>2. TimesInv(d, t) /\ PathInv(d, t) /\ NestInv(d, t)
    BY <1>2 DEF IntervalInv
  <2>3. TimesInv(d, n)
    BY <1>2, <2>1, <2>2, TimesInvStep
  <2>4. PathInv(d, n)
    BY <1>2, <2>1, <2>2, PathInvStep
  <2>5. NestInv(d, n)
    BY <1>2, <2>1, <2>2, NestInvStep
  <2> QED BY <2>3, <2>4, <2>5 DEF IntervalInv
<1> QED BY <1>1, <1>2
-----------------------------------------------------------------------------
(***************************************************************************)
(* What the order says about the arcs once every node was seen.            *)
(***************************************************************************)

\* A node that is not finished is a hidden MP.
Visited(d, t) ==
  \A u \in Nodes(d) : t.stat[u] # Processed => uidisMP(u) /\ d.hidden[uid2id(u)]

\* The order rules out cycles of shown nodes once every node was seen.
LEMMA OrderIsAcyclic ==
  ASSUME NEW d, WellFormedDag(d), NEW t \in DfsStates(d), OrderInv(d, t), Visited(d, t)
  PROVE  ShownAcyclic(d)
<1> DEFINE N == Nodes(d)
           q == t.topo_order
           D == {e \in N \X N : /\ t.stat[e[2]] = Processed
                                /\ \/ t.stat[e[1]] # Processed
                                   \/ \E i \in 1..Len(q) :
                                        q[i] = e[1] /\ \A j \in 1..Len(q) : q[j] = e[2] => j < i}
<1>1. Arcs(d) \subseteq N \X N /\ ShownArcs(d) \subseteq N \X N
  BY ArcsIs DEF ShownArcs
<1>2. Len(q) \in Nat /\ q \in Seq(N)
  BY DEF DfsStates
<1>3. ASSUME NEW x \in N, NEW y \in N, <<x, y>> \in ShownArcs(d) PROVE <<x, y>> \in D
  <2>1. t.stat[y] = Processed /\ <<x, y>> \in Arcs(d)
    BY <1>3 DEF Visited, ShownArcs, IsHidden
  <2>2. CASE t.stat[x] # Processed
    BY <2>1, <2>2
  <2>3. CASE t.stat[x] = Processed
    <3>1. y \in Kids(d, x)
      BY <2>1 DEF Kids
    <3>2. x \in Range(q)
      <4>1. SUFFICES ASSUME uidisMP(x), d.type[uid2id(x)] = "Dual" PROVE FALSE
        BY <2>3 DEF OrderInv
      <4>2. uid2id(x) \in d.mps
        BY <4>1, NodeIs
      <4>3. d.Carcs[uid2id(x)] = {} /\ d.Varcs[uid2id(x)] = <<>>
        BY <4>1, <4>2 DEF WellFormedDag
      <4>4. Range(d.Varcs[uid2id(x)]) = {}
        BY <4>3 DEF Range
      <4>5. Kids(d, x) = {}
        BY <4>1, <4>3, <4>4, ArcsIs
      <4> QED BY <3>1, <4>5
    <3>3. PICK i \in 1..Len(q) : q[i] = x
      BY <1>2, <3>2 DEF Range
    <3>4. \A j \in 1..Len(q) : q[j] = y => j < i
      BY <3>1, <3>3 DEF OrderInv
    <3> QED BY <2>1, <3>3, <3>4
  <2> QED BY <2>2, <2>3
<1>4. ShownArcs(d) \subseteq D
  <2>1. \A e \in ShownArcs(d) : e[1] \in N /\ e[2] \in N /\ e = <<e[1], e[2]>>
    BY <1>1
  <2> QED BY <1>3, <2>1
<1>5. Transitive(D)
  <2> SUFFICES ASSUME NEW x, NEW y, NEW z, <<x, y>> \in D, <<y, z>> \in D
               PROVE  <<x, z>> \in D
    BY DEF Transitive
  <2>1. x \in N /\ y \in N /\ z \in N /\ t.stat[y] = Processed /\ t.stat[z] = Processed
    OBVIOUS
  <2>2. CASE t.stat[x] # Processed
    BY <2>1, <2>2
  <2>3. CASE t.stat[x] = Processed
    <3>1. PICK i \in 1..Len(q) : q[i] = x /\ \A j \in 1..Len(q) : q[j] = y => j < i
      BY <2>3
    <3>2. PICK k \in 1..Len(q) : q[k] = y /\ \A j \in 1..Len(q) : q[j] = z => j < k
      BY <2>1
    <3>3. k < i
      BY <3>1, <3>2
    <3>4. \A j \in 1..Len(q) : q[j] = z => j < i
      BY <1>2, <3>2, <3>3
    <3> QED BY <2>1, <3>1, <3>4
  <2> QED BY <2>2, <2>3
<1>6. \A u : <<u, u>> \notin D
  <2> SUFFICES ASSUME NEW u, <<u, u>> \in D PROVE FALSE
    OBVIOUS
  <2>1. PICK i \in 1..Len(q) : q[i] = u /\ \A j \in 1..Len(q) : q[j] = u => j < i
    OBVIOUS
  <2> QED BY <1>2, <2>1
<1> HIDE DEF D
<1>7. Reach(d, ShownArcs(d)) \subseteq D
  BY <1>1, <1>4, <1>5, NodesFinite, ReachIsClosure
<1> QED BY <1>6, <1>7 DEF ShownAcyclic

\* Every node but the hidden MPs is below a root once every node was seen.
LEMMA VisitedIsReachable ==
  ASSUME NEW d, WellFormedDag(d), NEW t \in DfsStates(d), ReachedInv(d, t), Visited(d, t)
  PROVE  AllReachable(d)
<1>1. ASSUME NEW u \in Nodes(d)
      PROVE  Reached(d, u) \/ (uidisMP(u) /\ d.hidden[uid2id(u)])
  BY <1>1 DEF ReachedInv, Visited, NotExplored, Processed
<1> QED BY <1>1 DEF Reached, AllReachable

\* The counts that the analysis compares say that every node was seen.
LEMMA AllSeenIs ==
  ASSUME WellFormedDag(dag), s \in DfsStates(dag), CountInv(dag, s), AllSeen
  PROVE  Visited(dag, s)
<1> DEFINE N == Nodes(dag)
           F == Finished(dag, s)
           H == HiddenUnseen
           U == {mpid2uid(m) : m \in H}
<1>1. IsFiniteSet(N) /\ F \subseteq N /\ IsFiniteSet(F)
      /\ Cardinality(F) = Len(s.topo_order) + s.num_visited_dual
  BY NodesFinite, FS_Subset DEF Finished, CountInv
<1>2. \A m \in H : m \in dag.mps /\ m \in Nat /\ mpid2uid(m) \in N /\ uidisMP(mpid2uid(m))
                   /\ dag.hidden[uid2id(mpid2uid(m))] /\ s.stat[mpid2uid(m)] # Processed
  BY Uids DEF HiddenUnseen, WellFormedDag, Nodes, MpUids
<1>3. IsFiniteSet(H)
  <2>1. IsFiniteSet(dag.mps)
    BY DEF WellFormedDag
  <2> QED BY <2>1, FS_Subset DEF HiddenUnseen
<1> HIDE DEF F, H
<1>4. IsFiniteSet(U) /\ Cardinality(U) = Cardinality(H)
  <2> DEFINE g == [m \in H |-> mpid2uid(m)]
  <2>1. \A a, b \in H : mpid2uid(a) = mpid2uid(b) => a = b
    BY <1>2, Uids
  <2>2. g \in [H -> U] /\ \A m \in H : g[m] = mpid2uid(m)
    OBVIOUS
  <2>3. \A x \in U : \E m \in H : g[m] = x
    OBVIOUS
  <2> HIDE DEF g
  <2>4. g \in Surjection(H, U) /\ g \in Injection(H, U)
    BY <2>1, <2>2, <2>3 DEF Surjection, Injection, IsInjective
  <2> HIDE DEF U
  <2> QED BY <1>3, <2>4, FS_Surjection
<1>5. U \subseteq N /\ \A u \in U : uidisMP(u) /\ dag.hidden[uid2id(u)] /\ s.stat[u] # Processed
  BY <1>2
<1>6. F \cap U = {}
  BY <1>5 DEF F, Finished
<1> HIDE DEF U
<1>7. F \cup U = N \/ F = N
  <2>1. Cardinality(F \cup U) = Cardinality(F) + Cardinality(U)
    <3>1. Cardinality(F) \in Nat /\ Cardinality(U) \in Nat /\ Cardinality(F \cap U) = 0
      BY <1>1, <1>4, <1>6, FS_CardinalityType, FS_EmptySet
    <3>2. Cardinality(F \cup U) = Cardinality(F) + Cardinality(U) - Cardinality(F \cap U)
      BY <1>1, <1>4, FS_Union
    <3> QED BY <3>1, <3>2
  <2>2. Cardinality(F) = Cardinality(N) \/ Cardinality(F) + Cardinality(H) = Cardinality(N)
    BY <1>1 DEF AllSeen, H
  <2>3. CASE Cardinality(F) = Cardinality(N)
    BY <1>1, <2>3, FS_Subset
  <2>4. CASE Cardinality(F) + Cardinality(H) = Cardinality(N)
    <3>1. Cardinality(F \cup U) = Cardinality(N) /\ F \cup U \in SUBSET N
      BY <1>1, <1>4, <1>5, <2>1, <2>4
    <3> QED BY <1>1, <3>1, FS_Subset
  <2> QED BY <2>2, <2>3, <2>4
<1>8. \A u \in N : u \in F \/ u \in U
  BY <1>7
<1> QED BY <1>5, <1>8 DEF Visited, F, Finished
-----------------------------------------------------------------------------
(***************************************************************************)
(* The invariant of the analysis.                                          *)
(***************************************************************************)
TypedAn(d, t, a) ==
  /\ {"phase", "status", "level", "todo"} \subseteq DOMAIN a
  /\ a.phase \in {"start", "dfs", "nodes", "done"}
  /\ a.status \in {"none", "OK", "error", "aborted"}
  /\ a.level \in [Nodes(d) -> Nat \cup {Unwritten}]
  /\ a.todo \in 0..Len(t.topo_order)
  /\ a.phase \in {"start", "dfs"} => a.todo = 0

\* What is analysed or accepted went through the whole traversal.
SeenFirst == an.phase = "nodes" \/ an.status = "OK" => s.mode = "end" /\ AllSeen

AInv ==
  /\ dag \in Dags
  /\ s \in DfsStates(dag) /\ Control(dag, s) /\ DfsInv(dag, s)
  /\ NoDual(dag) => IntervalInv(dag, s)
  /\ TypedAn(dag, s, an)
  /\ SeenFirst

\* A reverse arc leads back to a node.
LEMMA RarcsAre ==
  ASSUME NEW d, WellFormedDag(d), NEW u \in Nodes(d)
  PROVE  /\ Rarcs(d, u) \in SUBSET Nat /\ IsFiniteSet(Rarcs(d, u))
         /\ \A r \in Rarcs(d, u) : parent_uid(r) \in Nodes(d)
<1>1. \A k \in Nat : /\ rarcCTRLuid(mpid2uid(k)) \in Nat /\ rarcVFuid(mpid2uid(k)) \in Nat
                     /\ parent_uid(rarcCTRLuid(mpid2uid(k))) = mpid2uid(k)
                     /\ parent_uid(rarcVFuid(mpid2uid(k))) = mpid2uid(k)
                     /\ parent_uid(mpid2uid(k)) = mpid2uid(k)
                     /\ parent_uid(nashid2uid(k)) = nashid2uid(k)
                     /\ nashid2uid(k) \in Nat /\ mpid2uid(k) \in Nat
  BY DEF rarcCTRLuid, rarcVFuid, mpid2uid, nashid2uid, parent_uid
<1>2. \A m \in d.mps : m \in Nat /\ mpid2uid(m) \in Nodes(d)
  BY DEF WellFormedDag, Nodes, MpUids
<1>3. \A n \in d.nashs : n \in Nat /\ nashid2uid(n) \in Nodes(d)
  BY DEF WellFormedDag, Nodes, NashUids
<1>4. uidisMP(u) => Rarcs(d, u) \subseteq RarcsOf(d, uid2id(u))
  <2>1. uidisMP(u) => uid2id(u) \in d.mps
    BY NodeIs
  <2> QED BY <2>1 DEF Rarcs, WellFormedDag
<1>5. ~ uidisMP(u) => Rarcs(d, u) \subseteq NashRarcsOf(d, uid2id(u))
  <2>1. ~ uidisMP(u) => uid2id(u) \in d.nashs
    BY NodeIs
  <2> QED BY <2>1 DEF Rarcs, WellFormedDag
<1>6. ASSUME NEW r \in Rarcs(d, u)
      PROVE  \/ \E k \in d.mps : r \in {rarcCTRLuid(mpid2uid(k)), rarcVFuid(mpid2uid(k)), mpid2uid(k)}
             \/ \E k \in d.nashs : r = nashid2uid(k)
  BY <1>4, <1>5, <1>6 DEF RarcsOf, NashRarcsOf
<1>7. Rarcs(d, u) \in SUBSET Nat /\ \A r \in Rarcs(d, u) : parent_uid(r) \in Nodes(d)
  BY <1>1, <1>2, <1>3, <1>6
<1>8. IsFiniteSet(Rarcs(d, u))
  <2> DEFINE C == {rarcCTRLuid(mpid2uid(k)) : k \in d.mps}
             V == {rarcVFuid(mpid2uid(k)) : k \in d.mps}
             M == MpUids(d)
             S == NashUids(d)
  <2>1. IsFiniteSet(M) /\ IsFiniteSet(S)
    <3>1. S \subseteq Nodes(d) /\ IsFiniteSet(Nodes(d)) /\ IsFiniteSet(MpUids(d))
      BY NodesFinite DEF Nodes
    <3> QED BY <3>1, FS_Subset
  <2>2. IsFiniteSet(C) /\ IsFiniteSet(V)
    <3> DEFINE f == [k \in d.mps |-> rarcCTRLuid(mpid2uid(k))]
               g == [k \in d.mps |-> rarcVFuid(mpid2uid(k))]
    <3>1. IsFiniteSet(d.mps)
      BY DEF WellFormedDag
    <3>2. f \in Surjection(d.mps, C) /\ g \in Surjection(d.mps, V)
      BY DEF Surjection
    <3> HIDE DEF f, g, C, V
    <3> QED BY <3>1, <3>2, FS_Surjection
  <2>3. Rarcs(d, u) \subseteq C \cup V \cup M \cup S
    BY <1>6 DEF MpUids, NashUids
  <2> HIDE DEF C, V, M, S
  <2>4. IsFiniteSet(C \cup V \cup M \cup S)
    BY <2>1, <2>2, FS_Union
  <2> QED BY <2>3, <2>4, FS_Subset
<1> QED BY <1>7, <1>8

\* The level read for the first reverse arc is a number, whatever was in the array.
LEMMA LevelAtIs ==
  ASSUME NEW d, WellFormedDag(d), NEW u \in Nodes(d), NEW lvl \in [Nodes(d) -> Nat \cup {Unwritten}],
         NEW junk \in Junk(d, u), SortedUids(Rarcs(d, u)) # <<>>
  PROVE  /\ LevelAt(lvl, SortedUids(Rarcs(d, u)), 1, junk) \in Nat
         /\ LevelOver(lvl, SortedUids(Rarcs(d, u)), 1, junk) \in Nat
<1> DEFINE rs == SortedUids(Rarcs(d, u))
           w == LevelRead(rs, 1)
<1>1. rs \in Seq(Rarcs(d, u)) /\ \A r \in Rarcs(d, u) : parent_uid(r) \in Nodes(d)
  BY RarcsAre, SortedUidsIs
<1>2. 1 \in 1..Len(rs) /\ rs[1] \in Rarcs(d, u)
  BY <1>1
<1>3. w \in Nodes(d)
  BY <1>1, <1>2 DEF LevelRead
<1>4. junk \in [{LevelRead(rs, k) : k \in 1..Len(rs)} -> JunkLevels]
  BY DEF Junk
<1>5. junk[w] \in Nat
  BY <1>2, <1>4, JunkLevelsAssumption
<1> HIDE DEF rs, w
<1>6. LevelAt(lvl, rs, 1, junk) \in Nat
  BY <1>3, <1>5 DEF LevelAt, w
<1>7. LevelOver(lvl, rs, 1, junk) \in Nat
  BY <1>6 DEF LevelOver
<1> QED BY <1>6, <1>7 DEF rs
\* The results of the analysis of a node that is not fatal have a level.
LEMMA AnalysisLevels ==
  ASSUME WellFormedDag(dag), s \in DfsStates(dag), NEW u \in Nodes(dag),
         an.level \in [Nodes(dag) -> Nat \cup {Unwritten}], NEW junk \in Junk(dag, u), NEW build
  PROVE  /\ uidisNash(u) => analyze_nash(dag, an.level, uid2id(u), junk, build).level
                                \in Nat \cup {Unwritten}
         /\ uidisMP(u) => \A V : analyze_mp(dag, s, an.level, uid2id(u), V, junk).level
                                   \in Nat \cup {Unwritten}
<1>1. Fatal.level \in Nat \cup {Unwritten}
  BY DEF Fatal
<1>2. ASSUME uidisNash(u)
      PROVE  analyze_nash(dag, an.level, uid2id(u), junk, build).level \in Nat \cup {Unwritten}
  <2> DEFINE rs == SortedUids(dag.nrarcs[uid2id(u)])
             l == IF rs = <<>> THEN 0 ELSE LevelAt(an.level, rs, 1, junk)
  <2>1. Rarcs(dag, u) = dag.nrarcs[uid2id(u)]
    BY <1>2, NodeIs DEF Rarcs
  <2>2. l \in Nat
    BY <2>1, LevelAtIs
  <2>3. analyze_nash(dag, an.level, uid2id(u), junk, build).level \in {l, Fatal.level}
    BY DEF analyze_nash, Fatal
  <2> QED BY <1>1, <2>2, <2>3
<1>3. ASSUME uidisMP(u), NEW V
      PROVE  analyze_mp(dag, s, an.level, uid2id(u), V, junk).level \in Nat \cup {Unwritten}
  <2> DEFINE rs == SortedUids(dag.rarcs[uid2id(u)])
             l == IF rs = <<>> THEN 0 ELSE LevelOver(an.level, rs, 1, junk)
  <2>1. Rarcs(dag, u) = dag.rarcs[uid2id(u)]
    BY <1>3 DEF Rarcs
  <2>2. l \in Nat
    BY <2>1, LevelAtIs
  <2>3. analyze_mp(dag, s, an.level, uid2id(u), V, junk).level \in {l, Fatal.level}
    BY DEF analyze_mp
  <2> QED BY <1>1, <2>2, <2>3
<1> QED BY <1>2, <1>3

\* The analysis starts in its invariant.
LEMMA AInit == Init => AInv
<1> SUFFICES ASSUME Init PROVE AInv
  OBVIOUS
<1>1. dag \in Dags /\ WellFormedDag(dag) /\ s = dfsdata_init(dag)
  BY DagsAssumption DEF Init
<1>2. s \in DfsStates(dag) /\ Control(dag, s) /\ DfsInv(dag, s) /\ IntervalInv(dag, s)
  BY <1>1, DfsInitIs, DfsInvHolds, IntervalInvHolds
<1>3. an.phase = "start" /\ an.status = "none" /\ an.todo = 0
      /\ an.level = [u \in Nodes(dag) |-> Unwritten]
      /\ {"phase", "status", "level", "todo"} \subseteq DOMAIN an
  BY DEF Init
<1>4. Len(s.topo_order) \in Nat
  BY <1>2 DEF DfsStates
<1>5. TypedAn(dag, s, an)
  BY <1>3, <1>4 DEF TypedAn
<1> QED BY <1>1, <1>2, <1>3, <1>5 DEF AInv, SeenFirst

\* Reject and Abort end the analysis and keep the rest.
LEMMA RejectIs ==
  ASSUME TypedAn(dag, s, an)
  PROVE  /\ TypedAn(dag, s, Reject) /\ Reject.phase = "done" /\ Reject.status = "error"
         /\ TypedAn(dag, s, Abort) /\ Abort.phase = "done" /\ Abort.status = "aborted"
BY DEF TypedAn, Reject, Abort

\* Every step keeps the invariant.
LEMMA AStep == AInv /\ [Next]_vars => AInv'
<1> SUFFICES ASSUME AInv, [Next]_vars PROVE AInv'
  OBVIOUS
<1>1. dag \in Dags /\ WellFormedDag(dag) /\ s \in DfsStates(dag) /\ Control(dag, s) /\ DfsInv(dag, s)
      /\ (NoDual(dag) => IntervalInv(dag, s)) /\ TypedAn(dag, s, an) /\ SeenFirst
  BY DagsAssumption DEF AInv
<1>2. dag' = dag
  BY DEF Next, Start, Traverse, Check, AnalyzeMp, AnalyzeNash, Finish, Done, vars
<1>3. CASE UNCHANGED vars
  BY <1>1, <1>3 DEF AInv, SeenFirst, AllSeen, HiddenUnseen, vars
<1>4. CASE Traverse
  <2>1. an.phase = "dfs" /\ s.mode # "end" /\ s' = DfsStep(dag, s) /\ an' = an
    BY <1>4 DEF Traverse
  <2>2. s' \in DfsStates(dag) /\ Control(dag, s') /\ DfsInv(dag, s')
    BY <1>1, <2>1, DfsInvHolds
  <2>3. NoDual(dag) => IntervalInv(dag, s')
    BY <1>1, <2>1, <2>2, IntervalInvHolds DEF DfsInv
  <2>4. Len(s'.topo_order) \in Nat
    BY <2>2 DEF DfsStates
  <2>5. TypedAn(dag, s', an')
    BY <1>1, <2>1, <2>4 DEF TypedAn
  <2>6. an.status # "OK"
    BY <1>1, <2>1 DEF SeenFirst
  <2> QED BY <1>1, <1>2, <2>1, <2>2, <2>3, <2>5, <2>6 DEF AInv, SeenFirst
\* It remains to see what the other actions do to an.
<1>5. SUFFICES ASSUME s' = s
               PROVE  /\ TypedAn(dag, s, an')
                      /\ an'.phase = "nodes" \/ an'.status = "OK" => s.mode = "end" /\ AllSeen
  <2>1. Next \/ UNCHANGED vars
    OBVIOUS
  <2>2. CASE s' = s
    BY <1>1, <1>2, <1>5, <2>2 DEF AInv, SeenFirst, AllSeen, HiddenUnseen
  <2> QED BY <1>3, <1>4, <2>1, <2>2
             DEF Next, Start, Check, AnalyzeMp, AnalyzeNash, Finish, Done
<1>6. Len(s.topo_order) \in Nat /\ s.topo_order \in Seq(Nodes(dag))
  BY <1>1 DEF DfsStates
<1>7. CASE Start
  <2> DEFINE root == IF valid_uid(an.uid_root) THEN an.uid_root ELSE dag.roots[1]
  <2>1. /\ an.phase = "start"
        /\ \/ an' = Reject
           \/ an' = [Reject EXCEPT !.uid_root = root]
           \/ an' = [an EXCEPT !.phase = "dfs", !.uid_root = root,
                               !.rootnode = RootFeature(dag, root)]
    BY <1>7 DEF Start
  <2> HIDE DEF root
  <2>2. TypedAn(dag, s, an')
    BY <1>1, <2>1 DEF TypedAn, Reject
  <2>3. an'.phase # "nodes" /\ an'.status \in {"error", an.status}
    BY <1>1, <2>1 DEF TypedAn, Reject
  <2> QED BY <1>1, <2>2, <2>3 DEF SeenFirst
<1>8. CASE Check
  <2>1. CASE an' = Reject
    BY <1>1, <2>1, RejectIs
  <2>2. CASE an' # Reject
    <3>1. s.mode = "end" /\ AllSeen
          /\ an' = [an EXCEPT !.phase = "nodes",
                             !.todo = IF s.num_visited_dual > 0 THEN 0 ELSE Len(s.topo_order)]
      BY <1>8, <2>2 DEF Check
    <3>2. TypedAn(dag, s, an')
      BY <1>1, <1>6, <3>1 DEF TypedAn
    <3> QED BY <3>1, <3>2
  <2> QED BY <2>1, <2>2
<1>9. ASSUME an.phase = "nodes", an.todo > 0, NEW a, a.level \in Nat \cup {Unwritten},
             an' = Record(s.topo_order[an.todo], a)
      PROVE  TypedAn(dag, s, an')
  <2>1. CASE an' = Reject \/ an' = Abort
    BY <1>1, <2>1, RejectIs
  <2>2. CASE an' # Reject /\ an' # Abort
    <3> DEFINE u == s.topo_order[an.todo]
               i == an.issues + IF a.verdict = "issue" THEN 1 ELSE 0
    <3>1. an' = [an EXCEPT !.todo = @ - 1, !.issues = i, !.level[u] = a.level,
                           !.feat = @ \cup a.feat, !.roles = @ \cup a.roles]
      BY <1>9, <2>2 DEF Record
    <3> HIDE DEF u, i
    <3>2. an.todo - 1 \in 0..Len(s.topo_order)
      BY <1>1, <1>6, <1>9 DEF TypedAn
    <3>3. [an.level EXCEPT ![u] = a.level] \in [Nodes(dag) -> Nat \cup {Unwritten}]
      BY <1>1, <1>9 DEF TypedAn
    <3>4. /\ DOMAIN an' = DOMAIN an /\ an'.phase = an.phase /\ an'.status = an.status
          /\ "todo" \in DOMAIN an => an'.todo = an.todo - 1
          /\ "level" \in DOMAIN an => an'.level = [an.level EXCEPT ![u] = a.level]
      BY <3>1
    <3> QED BY <1>1, <1>9, <3>2, <3>3, <3>4 DEF TypedAn
  <2> QED BY <2>1, <2>2
<1>10. ASSUME an.phase = "nodes", an.todo > 0
       PROVE  s.topo_order[an.todo] \in Nodes(dag) /\ an.level \in [Nodes(dag) -> Nat \cup {Unwritten}]
  BY <1>1, <1>6, <1>10 DEF TypedAn
<1>11. CASE AnalyzeMp
  <2> DEFINE u == s.topo_order[an.todo]
  <2>1. an.phase = "nodes" /\ an.todo > 0 /\ uidisMP(u)
    BY <1>11 DEF AnalyzeMp
  <2>2. PICK V \in EquationVars(uid2id(u)), junk \in Junk(dag, u) :
          an' = IF dag.hidden[uid2id(u)] THEN [an EXCEPT !.todo = @ - 1]
                ELSE Record(u, analyze_mp(dag, s, an.level, uid2id(u), V, junk))
    BY <1>11 DEF AnalyzeMp
  <2>3. CASE an' = [an EXCEPT !.todo = @ - 1]
    BY <1>1, <1>6, <2>1, <2>3 DEF TypedAn, SeenFirst
  <2>4. CASE an' = Record(u, analyze_mp(dag, s, an.level, uid2id(u), V, junk))
    <3>1. analyze_mp(dag, s, an.level, uid2id(u), V, junk).level \in Nat \cup {Unwritten}
      BY <1>1, <1>10, <2>1, AnalysisLevels
    <3>2. TypedAn(dag, s, an')
      BY <1>9, <2>1, <2>4, <3>1
    <3> QED BY <1>1, <2>1, <3>2 DEF SeenFirst
  <2> QED BY <2>2, <2>3, <2>4
<1>12. CASE AnalyzeNash
  <2> DEFINE u == s.topo_order[an.todo]
  <2>1. an.phase = "nodes" /\ an.todo > 0 /\ uidisNash(u)
    BY <1>12 DEF AnalyzeNash
  <2>2. PICK junk \in Junk(dag, u), build \in Builds :
          an' = Record(u, analyze_nash(dag, an.level, uid2id(u), junk, build))
    BY <1>12 DEF AnalyzeNash
  <2>3. analyze_nash(dag, an.level, uid2id(u), junk, build).level \in Nat \cup {Unwritten}
    BY <1>1, <1>10, <2>1, AnalysisLevels
  <2>4. TypedAn(dag, s, an')
    BY <1>9, <2>1, <2>2, <2>3
  <2> QED BY <1>1, <2>1, <2>4 DEF SeenFirst
<1>13. CASE Finish
  <2>1. an.phase = "nodes"
    BY <1>13 DEF Finish
  <2>2. CASE an' = Reject
    BY <1>1, <2>2, RejectIs
  <2>3. CASE an' # Reject
    <3> DEFINE mps == SortSeq(s.adversarial_mps, LAMBDA x, y : SortKey(x) < SortKey(y))
               type == empdag_infertype(an.rootnode, an.feat, Len(s.topo_order))
    <3>1. an' = [an EXCEPT !.phase = "done", !.status = "OK", !.mps2reformulate = mps,
                           !.saddle_path_starts = s.saddle_path_starts,
                           !.istree = s.isTree, !.type = type]
      BY <1>13, <2>3 DEF Finish
    <3> HIDE DEF mps, type
    <3>2. TypedAn(dag, s, an')
      BY <1>1, <3>1 DEF TypedAn
    <3> QED BY <1>1, <2>1, <3>2 DEF SeenFirst
  <2> QED BY <2>2, <2>3
<1>14. CASE an' = an
  BY <1>1, <1>14 DEF SeenFirst
<1> QED BY <1>7, <1>8, <1>11, <1>12, <1>13, <1>14 DEF Next, Traverse, Done, vars
\* The invariant holds throughout.
LEMMA AnalysisInv == Spec => []AInv
BY AInit, AStep, PTL DEF Spec

\* The state of the traversal and of the analysis is well typed throughout: no step reads the
\* stack, the order or the levels outside of what was written or is junk.
THEOREM AnalysisTypes == Spec => []TypeOK
<1>1. AInv => TypeOK
  <2> SUFFICES ASSUME AInv PROVE TypeOK
    OBVIOUS
  <2>1. s \in DfsStates(dag) /\ TypedAn(dag, s, an)
    BY DEF AInv
  <2>2. Range(s.topo_order) \subseteq Nodes(dag)
    BY <2>1 DEF DfsStates, Range
  <2> QED BY <2>1, <2>2 DEF TypeOK, DfsStates, TypedAn, Stats
<1> QED BY <1>1, AnalysisInv, PTL

\* empdag_analysis accepts no EMPDAG with a cycle of nodes that are all shown, nor one with a
\* node that is neither below a root nor a hidden MP, whatever the codes that the traversal
\* drops.
LEMMA InvAccepts == AInv => AcceptedIsDag
<1> SUFFICES ASSUME AInv, Accepted PROVE ShownAcyclic(dag) /\ AllReachable(dag)
  BY DEF AcceptedIsDag
<1>1. WellFormedDag(dag) /\ s \in DfsStates(dag) /\ OrderInv(dag, s) /\ CountInv(dag, s)
      /\ ReachedInv(dag, s) /\ AllSeen
  BY DagsAssumption DEF AInv, DfsInv, SeenFirst, Accepted
<1>2. Visited(dag, s)
  BY <1>1, AllSeenIs
<1> QED BY <1>1, <1>2, OrderIsAcyclic, VisitedIsReachable

\* The order of the traversal has children before their parents.
LEMMA InvOrders == AInv => ChildrenFinishFirst
<1> SUFFICES ASSUME AInv, NEW i \in 1..Len(s.topo_order), NEW j \in 1..Len(s.topo_order),
                    <<s.topo_order[i], s.topo_order[j]>> \in Arcs(dag)
             PROVE  j < i
  BY DEF ChildrenFinishFirst
<1>1. WellFormedDag(dag) /\ OrderInv(dag, s)
  BY DagsAssumption DEF AInv, DfsInv
<1>2. Arcs(dag) \subseteq Nodes(dag) \X Nodes(dag)
  BY <1>1, ArcsIs
<1>3. s.topo_order[j] \in Kids(dag, s.topo_order[i])
  BY <1>2 DEF Kids
<1> QED BY <1>1, <1>3 DEF OrderInv

\* The intervals that is_ancestor and lca compare are nested only along paths.
LEMMA InvNests == AInv => NestedArePaths
<1> SUFFICES ASSUME AInv, Accepted, NoDual(dag), NEW u \in Nodes(dag), NEW v \in Nodes(dag),
                    s.stat[v] = Processed, Encloses(s, u, v)
             PROVE  <<u, v>> \in Reach(dag, Arcs(dag))
  BY DEF NestedArePaths
<1>1. WellFormedDag(dag) /\ s \in DfsStates(dag)
      /\ TimesInv(dag, s) /\ NestInv(dag, s)
  BY DagsAssumption DEF AInv, IntervalInv
<1>2. s.preorder \in [Nodes(dag) -> Nat] /\ s.postorder \in [Nodes(dag) -> Nat]
  BY <1>1 DEF DfsStates
<1>3. s.preorder[u] < s.preorder[v] /\ s.postorder[u] > s.postorder[v]
  BY DEF Encloses
<1>4. s.postorder[v] > 0
  BY <1>1 DEF TimesInv
<1> QED BY <1>1, <1>2, <1>3, <1>4 DEF NestInv, Path

\* What empdag_analysis leaves for the passes that follow is sound, whatever the EMPDAG: each
\* cycle that it accepts passes through a hidden MP, each node that is out of reach is hidden,
\* the order has children first, and the interval of a finished node is within another only
\* along a path.
THEOREM TraversalIsSound == Spec => []TraversalSound
<1>1. AInv => TraversalSound
  BY InvAccepts, InvOrders, InvNests DEF TraversalSound
<1> QED BY <1>1, AnalysisInv, PTL
=============================================================================
