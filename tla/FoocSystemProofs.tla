-------------------------- MODULE FoocSystemProofs --------------------------
(***************************************************************************)
(* Proofs about the layout of the MCP and the terms of its equations, for  *)
(* source models of any size. The numbers that the filters and the walk    *)
(* over the equations hand out are all of one form, the count of the       *)
(* smaller members of a set (Before), a bijection from the set to an       *)
(* initial segment of the naturals. The bag of the terms is at any time    *)
(* the set of the terms of the variables whose MP had its turn (TermsAt).  *)
(***************************************************************************)
EXTENDS FoocSystem, FiniteSetTheorems, TLAPS

AP == INSTANCE UIntArrayProofs

-----------------------------------------------------------------------------
(***************************************************************************)
(* Counting.                                                               *)
(***************************************************************************)

\* The count is a number, and at most that of all members.
LEMMA BeforeType ==
  ASSUME NEW S \in SUBSET Int, IsFiniteSet(S), NEW x \in Int
  PROVE  /\ Before(S, x) \in Nat /\ Cardinality(S) \in Nat
         /\ Before(S, x) <= Cardinality(S)
         /\ x \in S => Before(S, x) < Cardinality(S)
<1> DEFINE B == {u \in S : u < x}
<1>1. B \in SUBSET S /\ IsFiniteSet(B)
  BY FS_Subset
<1>2. Cardinality(B) \in Nat /\ Cardinality(S) \in Nat /\ Cardinality(B) <= Cardinality(S)
  BY <1>1, FS_Subset, FS_CardinalityType
<1>3. x \in S => Cardinality(B) # Cardinality(S)
  BY <1>1, FS_Subset
<1> QED BY <1>2, <1>3 DEF Before

\* One further, the count grows by the member that was passed.
LEMMA BeforeNext ==
  ASSUME NEW S \in SUBSET Int, IsFiniteSet(S), NEW x \in Int
  PROVE  Before(S, x + 1) = IF x \in S THEN Before(S, x) + 1 ELSE Before(S, x)
<1> DEFINE B == {u \in S : u < x}
<1>1. IsFiniteSet(B) /\ x \notin B
  BY FS_Subset
<1>2. {u \in S : u < x + 1} = IF x \in S THEN B \cup {x} ELSE B
  <2>1. \A u \in S : u < x + 1 <=> u < x \/ u = x
    <3>1. \A u \in S : u \in Int
      OBVIOUS
    <3> QED BY <3>1
  <2> QED BY <2>1
<1>3. Cardinality(B \cup {x}) = Cardinality(B) + 1
  BY <1>1, FS_AddElement
<1> QED BY <1>2, <1>3 DEF Before

\* The count is monotone, strictly behind a member.
LEMMA BeforeMonotone ==
  ASSUME NEW S \in SUBSET Int, IsFiniteSet(S), NEW x \in Int, NEW y \in Int, x < y
  PROVE  /\ Before(S, x) <= Before(S, y)
         /\ x \in S => Before(S, x) < Before(S, y)
<1> DEFINE B == {u \in S : u < x}  C == {u \in S : u < y}
<1>1. B \in SUBSET C /\ IsFiniteSet(C) /\ IsFiniteSet(B)
  <2>1. \A u \in S : u < x => u < y
    <3>1. \A u \in S : u \in Int
      OBVIOUS
    <3> QED BY <3>1
  <2>2. B \in SUBSET C
    BY <2>1
  <2> QED BY <2>2, FS_Subset
<1>2. Cardinality(B) \in Nat /\ Cardinality(C) \in Nat /\ Cardinality(B) <= Cardinality(C)
  BY <1>1, FS_Subset, FS_CardinalityType
<1>3. x \in S => Cardinality(B) # Cardinality(C)
  BY <1>1, FS_Subset
<1> QED BY <1>2, <1>3 DEF Before

\* Two members have different counts.
LEMMA BeforeInjective ==
  ASSUME NEW S \in SUBSET Int, IsFiniteSet(S), NEW x \in S, NEW y \in S,
         Before(S, x) = Before(S, y)
  PROVE  x = y
<1>1. x \in Int /\ y \in Int /\ Before(S, x) \in Nat /\ Before(S, y) \in Nat
  BY BeforeType
<1> QED BY <1>1, BeforeMonotone

\* Every number below the number of members is the count of one.
LEMMA BeforeOnto ==
  ASSUME NEW S \in SUBSET Int, IsFiniteSet(S), NEW n \in 0 .. Cardinality(S) - 1
  PROVE  \E x \in S : Before(S, x) = n
<1> DEFINE c == Cardinality(S)  f == [x \in S |-> Before(S, x)]
<1>1. c \in Nat
  BY FS_CardinalityType
<1>2. f \in [S -> 0 .. c - 1]
  BY BeforeType
<1>3. f \in Injection(S, 0 .. c - 1)
  BY <1>2, BeforeInjective DEF Injection, IsInjective
<1>4. IsFiniteSet(0 .. c - 1) /\ Cardinality(0 .. c - 1) = c
  BY <1>1, FS_Interval
<1>5. f \in Surjection(S, 0 .. c - 1)
  BY <1>3, <1>4, FS_Injection
<1> QED BY <1>5 DEF Surjection

\* Nothing is before the first member, everything before what is behind the last.
LEMMA BeforeEnds ==
  ASSUME NEW n \in Nat, NEW S \in SUBSET (0 .. n - 1)
  PROVE  /\ IsFiniteSet(S) /\ S \in SUBSET Int
         /\ Before(S, 0) = 0 /\ Before(S, n) = Cardinality(S)
<1>1. IsFiniteSet(S)
  <2>1. IsFiniteSet(0 .. n - 1)
    BY FS_Interval
  <2> QED BY <2>1, FS_Subset
<1>2. {u \in S : u < 0} = {} /\ {u \in S : u < n} = S
  <2>1. \A u \in S : u \in 0 .. n - 1
    OBVIOUS
  <2>2. \A u \in S : ~(u < 0) /\ u < n
    BY <2>1
  <2> QED BY <2>2
<1> QED BY <1>1, <1>2, FS_EmptySet DEF Before

-----------------------------------------------------------------------------
(***************************************************************************)
(* The equations of a source model by their role, and the numbers of its   *)
(* variables.                                                              *)
(***************************************************************************)
Obj == Kept("objective")
Vif == Kept("vifunction")
Con == Kept("constraint")
NL == Con \cap m.nl
LIN == Con \ m.nl

\* A set of numbers below a bound is finite.
LEMMA Bounded ==
  ASSUME NEW n \in Nat, NEW S, S \subseteq 0 .. n - 1
  PROVE  IsFiniteSet(S) /\ S \in SUBSET Int /\ Cardinality(S) \in Nat
<1>1. IsFiniteSet(0 .. n - 1)
  BY FS_Interval
<1>2. IsFiniteSet(S)
  BY <1>1, FS_Subset
<1> QED BY <1>2, FS_CardinalityType

\* Disjoint sets add up.
LEMMA DisjointUnion ==
  ASSUME NEW S, NEW T, IsFiniteSet(S), IsFiniteSet(T), S \cap T = {}
  PROVE  IsFiniteSet(S \cup T) /\ Cardinality(S \cup T) = Cardinality(S) + Cardinality(T)
<1>1. Cardinality(S) \in Nat /\ Cardinality(T) \in Nat
  BY FS_CardinalityType
<1>2. Cardinality(S \cap T) = 0
  BY FS_EmptySet
<1>3. IsFiniteSet(S \cup T) /\ Cardinality(S \cup T) = Cardinality(S) + Cardinality(T) - Cardinality(S \cap T)
  BY FS_Union
<1> QED BY <1>1, <1>2, <1>3

\* The kept equations are those of the three roles.
LEMMA Roles ==
  ASSUME WellFormed(m)
  PROVE  /\ m.keep = Obj \cup Vif \cup Con
         /\ Obj \cap Vif = {} /\ Obj \cap Con = {} /\ Vif \cap Con = {}
         /\ \A e \in m.keep : m.object[e] = "Mapping" <=> e \notin Con
         /\ Con = NL \cup LIN /\ NL \cap LIN = {}
         /\ m.ne \in Nat
         /\ \A e \in m.keep : e \in 0 .. m.ne - 1
         /\ NL \subseteq 0 .. m.ne - 1 /\ LIN \subseteq 0 .. m.ne - 1
         /\ Obj \subseteq 0 .. m.ne - 1 /\ Vif \subseteq 0 .. m.ne - 1 /\ Con \subseteq 0 .. m.ne - 1
<1>1. m.keep = Obj \cup Vif \cup Con
  BY DEF WellFormed, Obj, Vif, Con, Kept, KeptIn
<1>2. Obj \cap Vif = {} /\ Obj \cap Con = {} /\ Vif \cap Con = {}
  BY DEF Obj, Vif, Con, Kept, KeptIn
<1>3. \A e \in m.keep : m.object[e] = "Mapping" <=> e \notin Con
  BY DEF WellFormed, Con, Kept, KeptIn
<1>4. m.ne \in Nat /\ m.keep \subseteq 0 .. m.ne - 1
  BY DEF WellFormed
<1> QED BY <1>1, <1>2, <1>3, <1>4 DEF NL, LIN

\* Their numbers.
LEMMA RoleCounts ==
  ASSUME WellFormed(m)
  PROVE  /\ Cardinality(m.keep) = Cardinality(Obj) + Cardinality(Vif) + Cardinality(Con)
         /\ Cardinality(Con) = Cardinality(NL) + Cardinality(LIN)
         /\ Cardinality(Obj) \in Nat /\ Cardinality(Vif) \in Nat /\ Cardinality(Con) \in Nat
         /\ Cardinality(NL) \in Nat /\ Cardinality(LIN) \in Nat
         /\ Obj \in SUBSET Int /\ Vif \in SUBSET Int /\ Con \in SUBSET Int
         /\ NL \in SUBSET Int /\ LIN \in SUBSET Int
         /\ IsFiniteSet(Obj) /\ IsFiniteSet(Vif) /\ IsFiniteSet(Con)
         /\ IsFiniteSet(NL) /\ IsFiniteSet(LIN)
<1>1. IsFiniteSet(Obj) /\ IsFiniteSet(Vif) /\ IsFiniteSet(Con) /\ IsFiniteSet(NL) /\ IsFiniteSet(LIN)
  BY Roles, Bounded
<1>2. /\ Cardinality(Obj) \in Nat /\ Cardinality(Vif) \in Nat /\ Cardinality(Con) \in Nat
      /\ Cardinality(NL) \in Nat /\ Cardinality(LIN) \in Nat
  BY <1>1, FS_CardinalityType
<1>3. Cardinality(Obj \cup Vif) = Cardinality(Obj) + Cardinality(Vif) /\ IsFiniteSet(Obj \cup Vif)
  BY <1>1, Roles, DisjointUnion
<1>4. (Obj \cup Vif) \cap Con = {}
  BY Roles
<1>5. Cardinality((Obj \cup Vif) \cup Con) = Cardinality(Obj \cup Vif) + Cardinality(Con)
  BY <1>1, <1>3, <1>4, DisjointUnion
<1>6. Cardinality(NL \cup LIN) = Cardinality(NL) + Cardinality(LIN)
  BY <1>1, Roles, DisjointUnion
<1>7. m.keep = (Obj \cup Vif) \cup Con /\ Con = NL \cup LIN
  BY Roles
<1>8. /\ Obj \in SUBSET Int /\ Vif \in SUBSET Int /\ Con \in SUBSET Int
      /\ NL \in SUBSET Int /\ LIN \in SUBSET Int
  BY Roles, Bounded
<1> QED BY <1>1, <1>2, <1>3, <1>5, <1>6, <1>7, <1>8

\* As many VI functions as variables that have one.
LEMMA VifCount ==
  ASSUME WellFormed(m)
  PROVE  /\ Cardinality(ViVars(m) \ m.zero) = Cardinality(Vif)
         /\ IsFiniteSet(ViVars(m) \ m.zero) /\ IsFiniteSet(ViVars(m))
<1> DEFINE V == ViVars(m) \ m.zero  f == [e \in Vif |-> m.dual[e]]
<1>1. /\ V = {m.dual[e] : e \in Vif}
      /\ \A e, d \in Vif : m.dual[e] = m.dual[d] => e = d
      /\ m.nv \in Nat
  BY DEF WellFormed, Vif, Kept
<1>2. ViVars(m) \subseteq 0 .. m.nv - 1
  BY DEF ViVars
<1>3. IsFiniteSet(V) /\ IsFiniteSet(ViVars(m))
  BY <1>1, <1>2, Bounded
<1>4. f \in Bijection(Vif, V)
  BY <1>1 DEF Bijection, Injection, Surjection, IsInjective
<1> QED BY <1>3, <1>4, RoleCounts, FS_Bijection DEF ExistsBijection

\* The variables that have an equation F.
LEMMA Fooc ==
  ASSUME WellFormed(m)
  PROVE  /\ FoocVars \subseteq m.live /\ m.live \subseteq 0 .. m.nv - 1
         /\ m.live \in SUBSET Int /\ IsFiniteSet(m.live)
         /\ FoocVars \in SUBSET Int /\ IsFiniteSet(FoocVars)
         /\ n_primalvars \in Nat /\ n_foocvars \in Nat /\ n_foocvars <= n_primalvars
         /\ \A v \in Vif : m.dual[v] \in FoocVars
         /\ m.zero \cap m.live \subseteq FoocVars
         /\ m.mps = <<>> => FoocVars = m.live
         /\ \A k \in Mps : MpVars(k) \cap m.live \subseteq FoocVars
<1>1. FoocVars \subseteq m.live /\ m.live \subseteq 0 .. m.nv - 1 /\ m.nv \in Nat
  BY DEF FoocVars, WellFormed
<1>2. m.live \in SUBSET Int /\ IsFiniteSet(m.live) /\ FoocVars \in SUBSET Int /\ IsFiniteSet(FoocVars)
  <2>1. FoocVars \subseteq 0 .. m.nv - 1
    BY <1>1
  <2> QED BY <1>1, <2>1, Bounded
<1>3. n_primalvars \in Nat /\ n_foocvars \in Nat /\ n_foocvars <= n_primalvars
  BY <1>1, <1>2, FS_CardinalityType, FS_Subset DEF n_primalvars, n_foocvars
<1>4. m.mps = <<>> => FoocVars = m.live
  BY DEF FoocVars, WellFormed
<1>5. ASSUME NEW v \in ViVars(m) \cap m.live PROVE v \in FoocVars
  <2>1. m.own[v] \in MpIds(m)
    BY DEF ViVars
  <2>2. m.mps # <<>> => \E k \in Mps : m.own[v] = Mp(k)
    BY <2>1 DEF MpIds, ToSet, Mps, Mp
  <2> QED BY <1>4, <1>5, <2>2 DEF FoocVars
<1>6. \A v \in Vif : m.dual[v] \in FoocVars
  <2>1. \A v \in Vif : m.dual[v] \in ViVars(m) \cap m.live
    BY DEF WellFormed, Vif, Kept
  <2> QED BY <1>5, <2>1
<1>7. m.zero \cap m.live \subseteq FoocVars
  BY <1>5 DEF WellFormed
<1>8. \A k \in Mps : MpVars(k) \cap m.live \subseteq FoocVars
  BY DEF MpVars, FoocVars
<1> QED BY <1>1, <1>2, <1>3, <1>4, <1>6, <1>7, <1>8

\* The renumbering of the variables and of their equations: one to one, onto the places of the
\* equations F, and inverse to each other.
LEMMA Renumbering ==
  ASSUME WellFormed(m)
  PROVE  /\ \A v \in m.live : rosetta_vars(v) \in 0 .. n_primalvars - 1
         /\ \A u, v \in m.live : rosetta_vars(u) = rosetta_vars(v) => u = v
         /\ \A v \in FoocVars : ei_F(v) \in 0 .. n_foocvars - 1 /\ vi_F(ei_F(v)) = rosetta_vars(v)
         /\ \A u, v \in FoocVars : ei_F(u) = ei_F(v) => u = v
         /\ \A n \in 0 .. n_foocvars - 1 : \E v \in FoocVars : ei_F(v) = n
         /\ \A v : v \notin FoocVars => ei_F(v) = NA
<1>1. \A v \in m.live : Before(m.live, v) \in 0 .. n_primalvars - 1
  BY Fooc, BeforeType DEF n_primalvars
<1>2. \A u, v \in m.live : Before(m.live, u) = Before(m.live, v) => u = v
  BY Fooc, BeforeInjective
<1>3. \A v \in FoocVars : Before(FoocVars, v) \in 0 .. n_foocvars - 1
  BY Fooc, BeforeType DEF n_foocvars
<1>4. \A u, v \in FoocVars : Before(FoocVars, u) = Before(FoocVars, v) => u = v
  BY Fooc, BeforeInjective
<1>5. \A n \in 0 .. n_foocvars - 1 : \E v \in FoocVars : Before(FoocVars, v) = n
  BY Fooc, BeforeOnto DEF n_foocvars
<1>6. \A v \in FoocVars : ei_F(v) = Before(FoocVars, v)
  BY DEF ei_F
<1>7. \A v \in m.live : rosetta_vars(v) = Before(m.live, v)
  BY DEF rosetta_vars
<1>8. ASSUME NEW v \in FoocVars PROVE vi_F(ei_F(v)) = rosetta_vars(v)
  <2>1. v = CHOOSE u \in FoocVars : Before(FoocVars, u) = Before(FoocVars, v)
    BY <1>4
  <2> QED BY <1>6, <2>1 DEF vi_F
<1>9. \A v : v \notin FoocVars => ei_F(v) = NA
  BY DEF ei_F
<1> QED BY <1>1, <1>2, <1>3, <1>4, <1>5, <1>6, <1>7, <1>8, <1>9

-----------------------------------------------------------------------------
(***************************************************************************)
(* The sorted list of the objective equations, and its maps.               *)
(***************************************************************************)

\* The sequence t is s, of members of D, with x inserted at place p.
IsInsertion(t, s, p, x, D) ==
  /\ t \in Seq(D)
  /\ Len(t) = Len(s) + 1
  /\ \A q \in 1 .. Len(s) + 1 : t[q] = IF q < p THEN s[q] ELSE IF q = p THEN x ELSE s[q - 1]

\* What the concatenation of two sequences is.
LEMMA ConcatIs ==
  ASSUME NEW D, NEW s \in Seq(D), NEW t \in Seq(D)
  PROVE  /\ s \o t \in Seq(D) /\ Len(s \o t) = Len(s) + Len(t) /\ Len(s) \in Nat /\ Len(t) \in Nat
         /\ \A q \in 1 .. Len(s) : (s \o t)[q] = s[q]
         /\ \A q \in 1 .. Len(t) : (s \o t)[Len(s) + q] = t[q]
<1>1. s \o t \in Seq(D) /\ Len(s \o t) = Len(s) + Len(t) /\ Len(s) \in Nat /\ Len(t) \in Nat
  OBVIOUS
<1>2. ASSUME NEW q \in 1 .. Len(s) PROVE (s \o t)[q] = s[q]
  OBVIOUS
<1>3. ASSUME NEW q \in 1 .. Len(t) PROVE (s \o t)[Len(s) + q] = t[q]
  OBVIOUS
<1> QED BY <1>1, <1>2, <1>3

\* What InsertAt makes of a sequence.
LEMMA InsertAtIs ==
  ASSUME NEW D, NEW s \in Seq(D), NEW x \in D, NEW p \in 1 .. Len(s) + 1
  PROVE  IsInsertion(InsertAt(s, p, x), s, p, x, D)
<1> DEFINE a == SubSeq(s, 1, p - 1)  b == SubSeq(s, p, Len(s))
<1>1. /\ a \in Seq(D) /\ Len(a) = p - 1
      /\ \A q \in 1 .. p - 1 : a[q] = s[q]
  OBVIOUS
<1>2. /\ b \in Seq(D) /\ Len(b) = Len(s) - p + 1
      /\ \A q \in 1 .. Len(s) - p + 1 : b[q] = s[p + q - 1]
  OBVIOUS
<1>3. <<x>> \in Seq(D) /\ Len(<<x>>) = 1 /\ <<x>>[1] = x
  OBVIOUS
<1> HIDE DEF a, b
<1>4. /\ a \o <<x>> \in Seq(D) /\ Len(a \o <<x>>) = p
      /\ \A q \in 1 .. p : (a \o <<x>>)[q] = IF q < p THEN s[q] ELSE x
  BY <1>1, <1>3
<1> DEFINE c == a \o <<x>>
<1> HIDE DEF c
<1>5. /\ c \in Seq(D) /\ Len(c) = p
      /\ \A q \in 1 .. p : c[q] = IF q < p THEN s[q] ELSE x
  BY <1>4 DEF c
<1>6. /\ c \o b \in Seq(D) /\ Len(c \o b) = Len(s) + 1
      /\ \A q \in 1 .. Len(s) + 1 : (c \o b)[q] = IF q <= p THEN c[q] ELSE b[q - p]
  <2>1. Len(s) \in Nat /\ p \in 1 .. Len(s) + 1
    OBVIOUS
  <2>2. c \o b \in Seq(D) /\ Len(c \o b) = Len(c) + Len(b)
    BY <1>2, <1>5, ConcatIs
  <2>3. \A q \in 1 .. Len(c) : (c \o b)[q] = c[q]
    BY <1>2, <1>5, ConcatIs
  <2>4. \A q \in 1 .. Len(b) : (c \o b)[Len(c) + q] = b[q]
    BY <1>2, <1>5, ConcatIs
  <2>5. ASSUME NEW q \in 1 .. Len(s) + 1 PROVE (c \o b)[q] = IF q <= p THEN c[q] ELSE b[q - p]
    <3>1. CASE q <= p
      BY <1>5, <2>1, <2>3, <3>1
    <3>2. CASE ~(q <= p)
      <4>1. q - p \in 1 .. Len(b) /\ Len(c) + (q - p) = q
        BY <1>2, <1>5, <2>1, <3>2
      <4>2. (c \o b)[Len(c) + (q - p)] = b[q - p]
        BY <2>4, <4>1
      <4> QED BY <3>2, <4>1, <4>2
    <3> QED BY <3>1, <3>2
  <2> QED BY <1>2, <1>5, <2>1, <2>2, <2>5
<1>7. ASSUME NEW q \in 1 .. Len(s) + 1
      PROVE (c \o b)[q] = IF q < p THEN s[q] ELSE IF q = p THEN x ELSE s[q - 1]
  <2>0. Len(s) \in Nat /\ p \in Int /\ q \in Int
    OBVIOUS
  <2>1. CASE q <= p
    BY <1>5, <1>6, <2>1
  <2>2. CASE ~(q <= p)
    <3>1. b[q - p] = s[p + (q - p) - 1]
      BY <1>2, <2>2
    <3> QED BY <1>6, <2>0, <2>2, <3>1
  <2> QED BY <2>1, <2>2
<1> QED BY <1>6, <1>7 DEF InsertAt, IsInsertion, a, b, c

\* The list is sorted strictly and has objective equations only.
SortedList == /\ objequs \in Seq(Obj)
              /\ \A p, q \in DOMAIN objequs : p < q => objequs[p] < objequs[q]

\* The two maps between the list and the MPs.
Maps ==
  /\ objequs2mps \in Seq(Mps) /\ Len(objequs2mps) = Len(objequs)
  /\ mp2objequ \in [Mps -> {NA} \cup DOMAIN objequs]
  /\ \A p \in DOMAIN objequs : mp2objequ[objequs2mps[p]] = p
  /\ \A k \in Mps : mp2objequ[k] # NA =>
         objequs2mps[mp2objequ[k]] = k /\ objequs[mp2objequ[k]] = m.objequ[Mp(k)]

\* The place of a new objective equation is between the smaller and the larger ones.
LEMMA PlaceSplits ==
  ASSUME WellFormed(m), SortedList, NEW o \in Obj, \A p \in DOMAIN objequs : objequs[p] # o
  PROVE  /\ Place(o) \in 1 .. Len(objequs) + 1
         /\ \A p \in DOMAIN objequs : IF p < Place(o) THEN objequs[p] < o ELSE o < objequs[p]
<1> DEFINE P == {p \in 1 .. Len(objequs) : objequs[p] <= o}
<1>1. /\ o \in Int /\ DOMAIN objequs = 1 .. Len(objequs)
      /\ Len(objequs) \in Nat /\ \A p \in DOMAIN objequs : objequs[p] \in Int
  <2>1. \A e \in Obj : e \in Int
    BY RoleCounts
  <2>2. \A p \in DOMAIN objequs : objequs[p] \in Obj
    BY DEF SortedList
  <2> QED BY <2>1, <2>2 DEF SortedList
<1>2. CASE P = {}
  <2>1. Place(o) = 1
    BY <1>2 DEF Place
  <2> QED BY <1>1, <1>2, <2>1
<1>3. CASE P # {}
  <2>1. \E q \in P : \A p \in P : p <= q
    <3> DEFINE T == {Len(objequs) - p : p \in P}
    <3>1. T \in SUBSET Nat /\ T # {}
      BY <1>1, <1>3
    <3>2. PICK t \in T : \A u \in T : t <= u
      BY <3>1, AP!LeastNumber
    <3>3. PICK q \in P : t = Len(objequs) - q
      OBVIOUS
    <3>4. ASSUME NEW p \in P PROVE p <= q
      <4>1. t <= Len(objequs) - p
        BY <3>2
      <4> QED BY <1>1, <3>3, <4>1
    <3> QED BY <3>3, <3>4
  <2>2. PICK q \in P : Place(o) = 1 + q /\ \A p \in P : p <= q
    <3> DEFINE c == CHOOSE p \in P : \A r \in P : r <= p
    <3>1. c \in P /\ \A r \in P : r <= c
      BY <2>1
    <3>2. Place(o) = 1 + c
      BY <1>3 DEF Place
    <3> QED BY <3>1, <3>2
  <2>3. objequs[q] < o
    BY <1>1
  <2>4. ASSUME NEW p \in DOMAIN objequs
        PROVE IF p < Place(o) THEN objequs[p] < o ELSE o < objequs[p]
    <3>1. p <= q => objequs[p] <= objequs[q]
      BY <1>1 DEF SortedList
    <3>2. p > q => p \notin P
      BY <1>1, <2>2
    <3> QED BY <1>1, <2>2, <2>3, <3>1, <3>2
  <2> QED BY <1>1, <2>2, <2>4
<1> QED BY <1>2, <1>3

\* Inserting the objective equation of an MP that has none in the list yet.
LEMMA FillObjequKeeps ==
  ASSUME WellFormed(m), SortedList, Maps, NEW k \in Mps, mp2objequ[k] = NA,
         NEW o \in Obj, o = m.objequ[Mp(k)], FillObjequ(k, o), UNCHANGED m
  PROVE  /\ SortedList' /\ Maps'
         /\ \A j \in Mps : j # k /\ mp2objequ[j] = NA => mp2objequ'[j] = NA
         /\ {objequs'[p] : p \in DOMAIN objequs'} = {objequs[p] : p \in DOMAIN objequs} \cup {o}
<1> DEFINE n == Len(objequs)  P == Place(o)
<1>1. \A p \in DOMAIN objequs : objequs2mps[p] \in Mps /\ objequs2mps[p] # k
  <2>1. \A p \in DOMAIN objequs : p # NA
    BY DEF SortedList, NA
  <2> QED BY <2>1 DEF Maps, SortedList
<1>2. \A p \in DOMAIN objequs : objequs[p] # o
  <2> SUFFICES ASSUME NEW p \in DOMAIN objequs, objequs[p] = o PROVE FALSE
    OBVIOUS
  <2> DEFINE j == objequs2mps[p]
  <2>1. j \in Mps /\ j # k /\ mp2objequ[j] = p /\ p # NA
    BY <1>1 DEF Maps, SortedList, NA
  <2>2. m.objequ[Mp(j)] = o
    BY <2>1 DEF Maps
  <2>3. Mp(j) \in MpIds(m) /\ Mp(k) \in MpIds(m)
    BY <2>1 DEF MpIds, ToSet, Mps, Mp
  <2>4. m.eown[o] = Mp(j) /\ m.eown[o] = Mp(k)
    <3>1. o # NA
      BY Roles DEF NA
    <3> QED BY <2>2, <2>3, <3>1 DEF WellFormed
  <2>5. \A p1, q1 \in DOMAIN m.mps : m.mps[p1] = m.mps[q1] => p1 = q1
    BY DEF WellFormed
  <2>6. j \in DOMAIN m.mps /\ k \in DOMAIN m.mps /\ m.mps[j] = m.mps[k] /\ j # k
    BY <2>1, <2>4 DEF Mps, Mp
  <2> QED BY <2>5, <2>6
<1>3. /\ P \in 1 .. n + 1 /\ n \in Nat /\ DOMAIN objequs = 1 .. n
      /\ \A p \in 1 .. n : IF p < P THEN objequs[p] < o ELSE o < objequs[p]
  BY <1>2, PlaceSplits DEF SortedList
<1> HIDE DEF P, n
<1>4. /\ objequs' \in Seq(Obj) /\ Len(objequs') = n + 1
      /\ \A q \in 1 .. n + 1 :
            objequs'[q] = IF q < P THEN objequs[q] ELSE IF q = P THEN o ELSE objequs[q - 1]
  <2>1. objequs \in Seq(Obj) /\ P \in 1 .. Len(objequs) + 1 /\ objequs' = InsertAt(objequs, P, o)
    BY <1>3 DEF FillObjequ, SortedList, P, n
  <2>2. IsInsertion(InsertAt(objequs, P, o), objequs, P, o, Obj)
    BY <2>1, InsertAtIs
  <2> QED BY <2>1, <2>2 DEF n, IsInsertion
<1>5. /\ objequs2mps' \in Seq(Mps) /\ Len(objequs2mps') = n + 1
      /\ \A q \in 1 .. n + 1 :
            objequs2mps'[q] = IF q < P THEN objequs2mps[q] ELSE IF q = P THEN k ELSE objequs2mps[q - 1]
  <2>1. /\ objequs2mps \in Seq(Mps) /\ Len(objequs2mps) = n /\ P \in 1 .. Len(objequs2mps) + 1
        /\ objequs2mps' = InsertAt(objequs2mps, P, k)
    BY <1>3 DEF FillObjequ, Maps, P, n
  <2>2. IsInsertion(InsertAt(objequs2mps, P, k), objequs2mps, P, k, Mps)
    BY <2>1, InsertAtIs
  <2> QED BY <2>1, <2>2 DEF IsInsertion
<1>6. mp2objequ' = [j \in Mps |->
           IF j = k THEN P
           ELSE IF \E p \in P .. n : objequs2mps[p] = j
                THEN 1 + (CHOOSE p \in P .. n : objequs2mps[p] = j)
                ELSE mp2objequ[j]]
  BY DEF FillObjequ, P, n
<1>7. Obj' = Obj /\ Mps' = Mps /\ \A j : Mp(j)' = Mp(j)
  BY DEF Obj, Kept, Mps, Mp
<1>8. \A p \in 1 .. n : objequs[p] \in Int /\ o \in Int
  <2>1. \A e \in Obj : e \in Int
    BY RoleCounts
  <2>2. \A p \in 1 .. n : objequs[p] \in Obj
    BY <1>3 DEF SortedList
  <2> QED BY <2>1, <2>2
<1>9. DOMAIN objequs' = 1 .. n + 1
  BY <1>4
<1>10. SortedList'
  <2>1. ASSUME NEW p \in 1 .. n + 1, NEW q \in 1 .. n + 1, p < q
        PROVE objequs'[p] < objequs'[q]
    <3>1. \A r, t \in 1 .. n : r < t => objequs[r] < objequs[t]
      BY <1>3 DEF SortedList
    <3>2. CASE q < P
      BY <1>3, <1>4, <2>1, <3>1, <3>2
    <3>3. CASE p > P
      <4>1. objequs'[p] = objequs[p - 1] /\ objequs'[q] = objequs[q - 1]
        BY <1>3, <1>4, <2>1, <3>3
      <4> QED BY <1>3, <2>1, <3>1, <3>3, <4>1
    <3>4. CASE p <= P /\ P <= q
      <4>1. p < P => objequs'[p] = objequs[p] /\ objequs[p] < o /\ p \in 1 .. n
        BY <1>3, <1>4, <2>1, <3>4
      <4>2. P < q => objequs'[q] = objequs[q - 1] /\ o < objequs[q - 1] /\ q - 1 \in 1 .. n
        BY <1>3, <1>4, <2>1, <3>4
      <4>3. /\ p = P => objequs'[p] = o
            /\ q = P => objequs'[q] = o
        BY <1>3, <1>4
      <4> QED BY <1>3, <1>8, <2>1, <3>4, <4>1, <4>2, <4>3
    <3> QED BY <1>3, <3>2, <3>3, <3>4
  <2> QED BY <1>4, <1>7, <1>9, <2>1 DEF SortedList
<1>11. ASSUME NEW j \in Mps, j # k, NEW p \in 1 .. n, objequs2mps[p] = j
       PROVE mp2objequ'[j] = IF p < P THEN p ELSE p + 1
  <2>1. \A q \in 1 .. n : objequs2mps[q] = j => q = p
    BY <1>3, <1>11 DEF Maps
  <2>2. CASE p < P
    <3>1. ~ \E q \in P .. n : objequs2mps[q] = j
      BY <1>3, <2>1, <2>2
    <3> QED BY <1>3, <1>6, <1>11, <2>2, <3>1 DEF Maps
  <2>3. CASE p >= P
    <3>1. p \in P .. n /\ P .. n \subseteq 1 .. n
      BY <1>3, <2>3
    <3>2. p = CHOOSE q \in P .. n : objequs2mps[q] = j
      BY <1>11, <2>1, <3>1
    <3>3. mp2objequ'[j] = 1 + p
      BY <1>6, <1>11, <3>1, <3>2
    <3> QED BY <1>3, <2>3, <3>3
  <2> QED BY <1>3, <2>2, <2>3
<1>12. ASSUME NEW j \in Mps, j # k, \A p \in 1 .. n : objequs2mps[p] # j
       PROVE mp2objequ'[j] = NA /\ mp2objequ[j] = NA
  <2>1. mp2objequ'[j] = mp2objequ[j]
    BY <1>3, <1>6, <1>12
  <2>2. mp2objequ[j] = NA
    BY <1>3, <1>12 DEF Maps
  <2> QED BY <2>1, <2>2
<1>13. mp2objequ'[k] = P
  BY <1>6
<1>14. ASSUME NEW q \in 1 .. n + 1 PROVE mp2objequ'[objequs2mps'[q]] = q
  <2>1. CASE q = P
    BY <1>5, <1>13, <2>1
  <2>2. CASE q < P
    <3>1. q \in 1 .. n /\ objequs2mps'[q] = objequs2mps[q]
      BY <1>3, <1>5, <2>2
    <3> QED BY <1>1, <1>3, <1>11, <2>2, <3>1
  <2>3. CASE q > P
    <3>1. q - 1 \in 1 .. n /\ objequs2mps'[q] = objequs2mps[q - 1] /\ ~(q - 1 < P) /\ (q - 1) + 1 = q
      BY <1>3, <1>5, <2>3
    <3> QED BY <1>1, <1>3, <1>11, <3>1
  <2> QED BY <1>3, <2>1, <2>2, <2>3
<1>15. ASSUME NEW j \in Mps
       PROVE /\ mp2objequ'[j] \in {NA} \cup 1 .. n + 1
             /\ mp2objequ'[j] # NA => /\ objequs2mps'[mp2objequ'[j]] = j
                                      /\ objequs'[mp2objequ'[j]] = m.objequ[Mp(j)]
  <2>1. CASE j = k
    BY <1>3, <1>4, <1>5, <1>13, <2>1
  <2>2. CASE j # k /\ \A p \in 1 .. n : objequs2mps[p] # j
    BY <1>12, <2>2
  <2>3. ASSUME j # k, NEW p \in 1 .. n, objequs2mps[p] = j
        PROVE /\ mp2objequ'[j] \in 1 .. n + 1
              /\ objequs2mps'[mp2objequ'[j]] = j
              /\ objequs'[mp2objequ'[j]] = m.objequ[Mp(j)]
    <3>1. mp2objequ[j] = p /\ p # NA
      BY <1>3, <2>3 DEF Maps, NA
    <3>2. objequs[p] = m.objequ[Mp(j)]
      BY <3>1 DEF Maps
    <3>3. CASE p < P
      BY <1>3, <1>4, <1>5, <1>11, <2>3, <3>2, <3>3
    <3>4. CASE ~(p < P)
      <4>1. p + 1 \in 1 .. n + 1 /\ ~(p + 1 < P) /\ p + 1 # P /\ (p + 1) - 1 = p
        BY <1>3, <3>4
      <4>2. objequs'[p + 1] = objequs[p] /\ objequs2mps'[p + 1] = objequs2mps[p]
        BY <1>4, <1>5, <4>1
      <4> QED BY <1>11, <2>3, <3>2, <3>4, <4>1, <4>2
    <3> QED BY <3>3, <3>4
  <2> QED BY <2>1, <2>2, <2>3
<1>16. Maps'
  <2>1. mp2objequ' \in [Mps -> {NA} \cup 1 .. n + 1]
    <3>1. DOMAIN mp2objequ' = Mps /\ mp2objequ' = [j \in Mps |-> mp2objequ'[j]]
      BY <1>6
    <3> QED BY <1>15, <3>1
  <2>2. Maps' <=>
           /\ objequs2mps' \in Seq(Mps) /\ Len(objequs2mps') = Len(objequs')
           /\ mp2objequ' \in [Mps -> {NA} \cup DOMAIN objequs']
           /\ \A p \in DOMAIN objequs' : mp2objequ'[objequs2mps'[p]] = p
           /\ \A j \in Mps : mp2objequ'[j] # NA =>
                 objequs2mps'[mp2objequ'[j]] = j /\ objequs'[mp2objequ'[j]] = m.objequ[Mp(j)]
    BY <1>7 DEF Maps
  <2> QED BY <1>4, <1>5, <1>9, <1>14, <1>15, <2>1, <2>2
<1>17. \A j \in Mps : j # k /\ mp2objequ[j] = NA => mp2objequ'[j] = NA
  <2> SUFFICES ASSUME NEW j \in Mps, j # k, mp2objequ[j] = NA PROVE mp2objequ'[j] = NA
    OBVIOUS
  <2>1. \A p \in 1 .. n : objequs2mps[p] # j
    BY <1>3 DEF Maps, NA
  <2> QED BY <1>12, <2>1
<1>18. {objequs'[p] : p \in DOMAIN objequs'} = {objequs[p] : p \in DOMAIN objequs} \cup {o}
  <2>1. ASSUME NEW p \in 1 .. n + 1 PROVE objequs'[p] \in {objequs[q] : q \in 1 .. n} \cup {o}
    <3>1. CASE p < P
      BY <1>3, <1>4, <3>1
    <3>2. CASE p = P
      BY <1>4, <3>2
    <3>3. CASE p > P
      <4>1. p - 1 \in 1 .. n /\ objequs'[p] = objequs[p - 1]
        BY <1>3, <1>4, <3>3
      <4> QED BY <4>1
    <3> QED BY <1>3, <3>1, <3>2, <3>3
  <2>2. ASSUME NEW q \in 1 .. n PROVE \E p \in 1 .. n + 1 : objequs'[p] = objequs[q]
    <3>1. CASE q < P
      BY <1>3, <1>4, <3>1
    <3>2. CASE ~(q < P)
      <4>1. q + 1 \in 1 .. n + 1 /\ ~(q + 1 < P) /\ q + 1 # P /\ (q + 1) - 1 = q
        BY <1>3, <3>2
      <4> QED BY <1>4, <4>1
    <3> QED BY <3>1, <3>2
  <2>3. P \in 1 .. n + 1 /\ objequs'[P] = o
    BY <1>3, <1>4
  <2> DEFINE new == {objequs'[p] : p \in 1 .. n + 1}  old == {objequs[q] : q \in 1 .. n}
  <2>4. \A x \in new : x \in old \cup {o}
    BY <2>1
  <2>5. \A x \in old : x \in new
    BY <2>2
  <2>6. o \in new
    BY <2>3
  <2>7. new = old \cup {o}
    BY <2>4, <2>5, <2>6
  <2> QED BY <1>3, <1>9, <2>7
<1> QED BY <1>10, <1>16, <1>17, <1>18

-----------------------------------------------------------------------------
(***************************************************************************)
(* The loop over the MPs: what the list and the number of VI functions     *)
(* account for.                                                            *)
(***************************************************************************)

\* The objective equations in the list.
Listed == {objequs[p] : p \in DOMAIN objequs}

\* The variables with a VI function of the MPs before the j-th.
ViDone(j) == {v \in ViVars(m) \ m.zero : \E k \in Mps : k < j /\ m.own[v] = Mp(k)}

Counted == n_vifuncs \in 0 .. Cardinality(Vif) /\ n_vizerofuncs \in Nat

FillInv ==
  /\ i \in 1 .. Len(m.mps) + 1
  /\ Listed = {m.objequ[Mp(k)] : k \in {j \in Mps : j < i}} \ {NA}
  /\ \A k \in Mps : i <= k => mp2objequ[k] = NA
  /\ n_vifuncs = Cardinality(ViDone(i))

\* The list has all objective equations, and all VI functions are counted.
Full == Listed = Obj /\ n_vifuncs = Cardinality(Vif)

Assembly == {"layout", "inject", "zero", "lists", "primal", "done"}

ListInv ==
  /\ WellFormed(m) /\ SortedList /\ (m.mps # <<>> => Maps) /\ Counted
  /\ pc = "fill" => FillInv
  /\ pc \in Assembly => Full

\* The places of a sequence of MPs.
LEMMA MpsIs ==
  ASSUME WellFormed(m)
  PROVE  /\ Mps = 1 .. Len(m.mps) /\ Len(m.mps) \in Nat
         /\ \A k \in Mps : Mp(k) \in MpIds(m)
         /\ \A j, k \in Mps : Mp(j) = Mp(k) => j = k
         /\ m.mps # <<>> => \A x \in MpIds(m) : \E k \in Mps : x = Mp(k)
         /\ m.mps = <<>> => MpIds(m) = {0}
<1>1. m.mps \in Seq(Nat) /\ \A p, q \in DOMAIN m.mps : m.mps[p] = m.mps[q] => p = q
  BY DEF WellFormed
<1> QED BY <1>1 DEF Mps, Mp, MpIds, ToSet

\* The list has no more equations than there are objective equations.
LEMMA ListLength ==
  ASSUME WellFormed(m), SortedList
  PROVE  /\ Len(objequs) \in Nat /\ Len(objequs) <= Cardinality(Obj)
         /\ Listed \subseteq Obj
         /\ Listed = Obj => Len(objequs) = Cardinality(Obj)
<1> DEFINE n == Len(objequs)
<1>1. n \in Nat /\ DOMAIN objequs = 1 .. n /\ objequs \in [1 .. n -> Obj]
  BY DEF SortedList
<1>2. \A p \in 1 .. n : objequs[p] \in Int
  <2>1. \A e \in Obj : e \in Int
    BY RoleCounts
  <2> QED BY <1>1, <2>1
<1>3. ASSUME NEW p \in 1 .. n, NEW q \in 1 .. n, objequs[p] = objequs[q] PROVE p = q
  <2>1. ~(p < q) /\ ~(q < p)
    BY <1>1, <1>2, <1>3 DEF SortedList
  <2> QED BY <1>1, <2>1
<1>4. objequs \in Injection(1 .. n, Obj)
  BY <1>1, <1>3 DEF Injection, IsInjective
<1>5. IsFiniteSet(1 .. n) /\ Cardinality(1 .. n) = n
  BY <1>1, FS_Interval
<1>6. n <= Cardinality(Obj) /\ (n = Cardinality(Obj) <=> objequs \in Surjection(1 .. n, Obj))
  BY <1>4, <1>5, RoleCounts, FS_Injection
<1>7. Listed = Obj => objequs \in Surjection(1 .. n, Obj)
  BY <1>1 DEF Listed, Surjection
<1> QED BY <1>1, <1>6, <1>7 DEF Listed

\* The sizes of the MCP are numbers, and in the end those of its parts.
LEMMA Sizes ==
  ASSUME WellFormed(m), SortedList, Counted
  PROVE  /\ cons_size \in Nat /\ mcp_size \in Nat /\ mcp_size = cons_size + n_foocvars
         /\ Full => cons_size = Cardinality(Con)
<1>1. n_foocvars \in Nat
  BY Fooc
<1>2. /\ Len(objequs) \in Nat /\ Len(objequs) <= Cardinality(Obj)
      /\ Full => Len(objequs) = Cardinality(Obj)
  BY ListLength DEF Full
<1>3. /\ Cardinality(m.keep) = Cardinality(Obj) + Cardinality(Vif) + Cardinality(Con)
      /\ Cardinality(Obj) \in Nat /\ Cardinality(Vif) \in Nat /\ Cardinality(Con) \in Nat
  BY RoleCounts
<1>4. n_vifuncs \in 0 .. Cardinality(Vif) /\ (Full => n_vifuncs = Cardinality(Vif))
  BY DEF Counted, Full
<1>5. cons_size \in Nat /\ (Full => cons_size = Cardinality(Con))
  BY <1>2, <1>3, <1>4 DEF cons_size
<1> QED BY <1>1, <1>5 DEF mcp_size

\* What one more MP adds to the variables with a VI function.
LEMMA ViDoneNext ==
  ASSUME WellFormed(m), NEW j \in Mps
  PROVE  /\ IsFiniteSet(ViDone(j)) /\ Cardinality(ViDone(j)) \in Nat
         /\ m.type[Mp(j)] # "vi" => ViDone(j + 1) = ViDone(j)
         /\ m.type[Mp(j)] = "vi" =>
              Cardinality(ViDone(j + 1)) = Cardinality(ViDone(j)) + (Cardinality(MpVars(j)) - Cardinality(Zeros(j)))
         /\ Cardinality(Zeros(j)) \in Nat /\ Cardinality(MpVars(j)) \in Nat
<1> DEFINE New == MpVars(j) \ Zeros(j)
<1>1. \A k \in Mps : k < j + 1 <=> k < j \/ k = j
  BY MpsIs
<1>2. IsFiniteSet(ViDone(j)) /\ Cardinality(ViDone(j)) \in Nat
  <2>1. ViDone(j) \in SUBSET (ViVars(m) \ m.zero)
    BY DEF ViDone
  <2> QED BY <2>1, VifCount, FS_Subset, FS_CardinalityType
<1>3. ViDone(j + 1) = ViDone(j) \cup {v \in ViVars(m) \ m.zero : m.own[v] = Mp(j)}
  BY <1>1 DEF ViDone
<1>4. m.type[Mp(j)] # "vi" => {v \in ViVars(m) \ m.zero : m.own[v] = Mp(j)} = {}
  BY DEF ViVars
<1>5. m.type[Mp(j)] = "vi" => {v \in ViVars(m) \ m.zero : m.own[v] = Mp(j)} = New
  BY MpsIs DEF ViVars, MpVars, Zeros
<1>6. ViDone(j) \cap {v \in ViVars(m) \ m.zero : m.own[v] = Mp(j)} = {}
  <2>1. \A k \in Mps : k < j => Mp(k) # Mp(j)
    BY MpsIs
  <2> QED BY <2>1 DEF ViDone
<1>7. IsFiniteSet(MpVars(j))
  <2>1. MpVars(j) \subseteq 0 .. m.nv - 1 /\ m.nv \in Nat
    BY DEF MpVars, WellFormed
  <2> QED BY <2>1, Bounded
<1>8. /\ IsFiniteSet(New) /\ IsFiniteSet(Zeros(j))
      /\ Cardinality(New) = Cardinality(MpVars(j)) - Cardinality(Zeros(j))
  <2>1. Zeros(j) \in SUBSET MpVars(j) /\ MpVars(j) \cap Zeros(j) = Zeros(j)
    BY DEF Zeros
  <2>2. IsFiniteSet(Zeros(j))
    BY <1>7, <2>1, FS_Subset
  <2>3. /\ IsFiniteSet(MpVars(j) \ Zeros(j))
        /\ Cardinality(MpVars(j) \ Zeros(j)) = Cardinality(MpVars(j)) - Cardinality(MpVars(j) \cap Zeros(j))
    BY <1>7, FS_Difference
  <2> QED BY <2>1, <2>2, <2>3
<1>9. Cardinality(Zeros(j)) \in Nat /\ Cardinality(MpVars(j)) \in Nat
  BY <1>7, <1>8, FS_CardinalityType
<1>10. m.type[Mp(j)] = "vi" => Cardinality(ViDone(j + 1)) = Cardinality(ViDone(j)) + Cardinality(New)
  BY <1>2, <1>3, <1>5, <1>6, <1>8, DisjointUnion
<1> QED BY <1>2, <1>3, <1>4, <1>8, <1>9, <1>10

\* Never more than there are VI functions.
LEMMA ViDoneBound ==
  ASSUME WellFormed(m), NEW j
  PROVE  /\ Cardinality(ViDone(j)) \in 0 .. Cardinality(Vif)
         /\ ViDone(1) = {}
         /\ m.mps # <<>> /\ j = Len(m.mps) + 1 => Cardinality(ViDone(j)) = Cardinality(Vif)
<1>1. ViDone(j) \in SUBSET (ViVars(m) \ m.zero)
  BY DEF ViDone
<1>2. Cardinality(ViDone(j)) \in Nat /\ Cardinality(ViDone(j)) <= Cardinality(Vif) /\ Cardinality(Vif) \in Nat
  BY <1>1, VifCount, RoleCounts, FS_Subset, FS_CardinalityType
<1>3. ViDone(1) = {}
  BY MpsIs DEF ViDone
<1>4. m.mps # <<>> /\ j = Len(m.mps) + 1 => ViDone(j) = ViVars(m) \ m.zero
  <2> SUFFICES ASSUME m.mps # <<>>, j = Len(m.mps) + 1, NEW v \in ViVars(m) \ m.zero PROVE v \in ViDone(j)
    BY <1>1
  <2>1. PICK k \in Mps : m.own[v] = Mp(k)
    BY MpsIs DEF ViVars
  <2>2. k < j
    BY MpsIs
  <2> QED BY <2>1, <2>2 DEF ViDone
<1>5. Cardinality(ViVars(m) \ m.zero) = Cardinality(Vif)
  BY VifCount
<1>6. Cardinality(ViDone(j)) \in 0 .. Cardinality(Vif)
  BY <1>2
<1> QED BY <1>3, <1>4, <1>5, <1>6

\* The indices below the next one.
LEMMA BelowNext ==
  ASSUME WellFormed(m), NEW j \in Mps
  PROVE  /\ {k \in Mps : k < j + 1} = {k \in Mps : k < j} \cup {j}
         /\ j + 1 \in 1 .. Len(m.mps) + 1 /\ j \in Int
         /\ \A k \in Mps : j + 1 <= k => j <= k /\ k # j
BY MpsIs

\* An optimisation problem.
LEMMA FillOptKeeps ==
  ASSUME ListInv, FillOpt
  PROVE  ListInv'
<1> DEFINE oe == m.objequ[Mp(i)]  ov == m.objvar[Mp(i)]
<1>1. /\ WellFormed(m) /\ SortedList /\ Maps /\ Counted /\ FillInv /\ i \in Mps
      /\ m' = m /\ n_vifuncs' = n_vifuncs /\ n_vizerofuncs' = n_vizerofuncs
      /\ pc = "fill" /\ m.type[Mp(i)] = "opt"
  BY MpsIs DEF ListInv, FillOpt, Stop, fillVars
<1>2. /\ WellFormed(m)' /\ Obj' = Obj /\ Vif' = Vif /\ Mps' = Mps /\ (\A j : Mp(j)' = Mp(j))
      /\ \A j : ViDone(j)' = ViDone(j)
  BY <1>1 DEF WellFormed, Obj, Vif, Kept, KeptIn, Mps, Mp, ViDone, ViVars, MpIds
<1>3. Counted'
  BY <1>1, <1>2 DEF Counted
<1>4. CASE Stop("error") /\ UNCHANGED fillVars
  <2>1. objequs' = objequs /\ objequs2mps' = objequs2mps /\ mp2objequ' = mp2objequ /\ pc' = "error"
    BY <1>4 DEF Stop, fillVars
  <2>2. SortedList' /\ Maps'
    BY <1>1, <1>2, <2>1 DEF SortedList, Maps
  <2> QED BY <1>2, <1>3, <2>1, <2>2 DEF ListInv, Assembly
<1>5. CASE /\ (oe = NA) # (ov = NA)
           /\ IF oe # NA THEN FillObjequ(i, oe) ELSE UNCHANGED <<objequs, mp2objequ, objequs2mps>>
           /\ i' = i + 1
           /\ UNCHANGED <<m, pc, n_vifuncs, n_vizerofuncs>>
  <2>1. {k \in Mps : k < i + 1} = {k \in Mps : k < i} \cup {i} /\ i + 1 \in 1 .. Len(m.mps) + 1
        /\ \A k \in Mps : i + 1 <= k => i <= k /\ k # i
    BY <1>1, BelowNext
  <2>2. ViDone(i + 1) = ViDone(i)
    BY <1>1, ViDoneNext
  <2>3. {m.objequ[Mp(k)] : k \in {j \in Mps : j < i + 1}} = {m.objequ[Mp(k)] : k \in {j \in Mps : j < i}} \cup {oe}
    BY <2>1
  <2>4. mp2objequ[i] = NA /\ \A k \in Mps : i + 1 <= k => k # i /\ mp2objequ[k] = NA
    BY <1>1, <2>1, BelowNext DEF FillInv
  <2>5. CASE oe # NA
    <3>1. oe \in Obj
      BY <1>1, <2>5, MpsIs DEF WellFormed, Obj, Kept
    <3>2. FillObjequ(i, oe)
      BY <1>5, <2>5
    <3>3. /\ SortedList' /\ Maps'
          /\ \A j \in Mps : j # i /\ mp2objequ[j] = NA => mp2objequ'[j] = NA
          /\ {objequs'[p] : p \in DOMAIN objequs'} = {objequs[p] : p \in DOMAIN objequs} \cup {oe}
      BY <1>1, <2>4, <3>1, <3>2, FillObjequKeeps
    <3>4. Listed' = Listed \cup {oe}
      BY <3>3 DEF Listed
    <3>5. FillInv'
      <4>1. Listed' = {m.objequ[Mp(k)] : k \in {j \in Mps : j < i + 1}} \ {NA}
        BY <1>1, <2>3, <2>5, <3>4 DEF FillInv
      <4>2. n_vifuncs = Cardinality(ViDone(i + 1))
        BY <1>1, <2>2 DEF FillInv
      <4>3. \A k \in Mps : i + 1 <= k => mp2objequ'[k] = NA
        BY <2>4, <3>3
      <4> QED BY <1>1, <1>2, <1>5, <2>1, <4>1, <4>2, <4>3 DEF FillInv
    <3> QED BY <1>1, <1>2, <1>3, <1>5, <3>3, <3>5 DEF ListInv, Assembly
  <2>6. CASE oe = NA
    <3>1. objequs' = objequs /\ objequs2mps' = objequs2mps /\ mp2objequ' = mp2objequ
      BY <1>5, <2>6
    <3>2. SortedList' /\ Maps' /\ Listed' = Listed
      BY <1>1, <1>2, <3>1 DEF SortedList, Maps, Listed
    <3>3. FillInv'
      <4>1. Listed = {m.objequ[Mp(k)] : k \in {j \in Mps : j < i + 1}} \ {NA}
        BY <1>1, <2>3, <2>6 DEF FillInv
      <4>2. n_vifuncs = Cardinality(ViDone(i + 1))
        BY <1>1, <2>2 DEF FillInv
      <4>3. i' = i + 1 /\ n_vifuncs' = n_vifuncs /\ m' = m
        BY <1>5
      <4>4. \A k \in Mps : i + 1 <= k => mp2objequ[k] = NA
        BY <2>4
      <4> QED BY <1>2, <2>1, <3>1, <3>2, <4>1, <4>2, <4>3, <4>4 DEF FillInv
    <3> QED BY <1>1, <1>2, <1>3, <1>5, <3>2, <3>3 DEF ListInv, Assembly
  <2> QED BY <2>5, <2>6
<1> QED BY <1>4, <1>5 DEF FillOpt

\* A VI.
LEMMA FillViKeeps ==
  ASSUME ListInv, FillVi
  PROVE  ListInv'
<1>1. /\ WellFormed(m) /\ SortedList /\ Maps /\ Counted /\ FillInv /\ i \in Mps
      /\ m' = m /\ objequs' = objequs /\ mp2objequ' = mp2objequ /\ objequs2mps' = objequs2mps
      /\ pc = "fill" /\ pc' = "fill" /\ m.type[Mp(i)] = "vi" /\ i' = i + 1
  BY MpsIs DEF ListInv, FillVi
<1>2. /\ WellFormed(m)' /\ Obj' = Obj /\ Vif' = Vif /\ Mps' = Mps /\ (\A j : Mp(j)' = Mp(j))
      /\ \A j : ViDone(j)' = ViDone(j)
  BY <1>1 DEF WellFormed, Obj, Vif, Kept, KeptIn, Mps, Mp, ViDone, ViVars, MpIds
<1>3. SortedList' /\ Maps' /\ Listed' = Listed
  BY <1>1, <1>2 DEF SortedList, Maps, Listed
<1>4. {k \in Mps : k < i + 1} = {k \in Mps : k < i} \cup {i} /\ i + 1 \in 1 .. Len(m.mps) + 1
      /\ \A k \in Mps : i + 1 <= k => i <= k /\ k # i
  BY <1>1, BelowNext
<1>5. m.objequ[Mp(i)] = NA
  BY <1>1, MpsIs DEF WellFormed
<1>6. Listed = {m.objequ[Mp(k)] : k \in {j \in Mps : j < i + 1}} \ {NA}
  BY <1>1, <1>4, <1>5 DEF FillInv
<1>7. /\ Cardinality(ViDone(i)) \in Nat /\ Cardinality(Zeros(i)) \in Nat /\ Cardinality(MpVars(i)) \in Nat
      /\ Cardinality(ViDone(i + 1)) = Cardinality(ViDone(i)) + (Cardinality(MpVars(i)) - Cardinality(Zeros(i)))
  BY <1>1, ViDoneNext
<1>8. n_vifuncs' = Cardinality(ViDone(i + 1)) /\ n_vizerofuncs' \in Nat
  BY <1>1, <1>7 DEF FillVi, FillInv, Counted
<1>9. Counted'
  BY <1>1, <1>2, <1>8, ViDoneBound DEF Counted
<1>10. FillInv'
  BY <1>1, <1>2, <1>3, <1>4, <1>6, <1>8 DEF FillInv
<1> QED BY <1>1, <1>2, <1>3, <1>9, <1>10 DEF ListInv, Assembly

\* Without EMPDAG.
LEMMA FillNoHopKeeps ==
  ASSUME ListInv, FillNoHop
  PROVE  ListInv'
<1>1. /\ WellFormed(m) /\ SortedList /\ Counted /\ FillInv /\ m.mps = <<>> /\ m' = m
      /\ pc = "fill" /\ MpIds(m) = {0}
  BY MpsIs DEF ListInv, FillNoHop
<1>2. WellFormed(m)' /\ Obj' = Obj /\ Vif' = Vif
  <2>1. Obj' = Obj /\ Vif' = Vif
    BY <1>1 DEF Obj, Vif, Kept
  <2>2. WellFormed(m)'
    BY <1>1
  <2> QED BY <2>1, <2>2
<1>3. n_vifuncs = 0 /\ Listed = {}
  <2>1. Mps = {}
    BY <1>1 DEF Mps
  <2>2. ViDone(i) = {}
    BY <2>1 DEF ViDone
  <2> QED BY <1>1, <2>1, <2>2, FS_EmptySet DEF FillInv
<1>4. CASE m.type[0] = "opt"
  <2>1. /\ objequs' = IF m.objequ[0] = NA THEN <<>> ELSE <<m.objequ[0]>>
        /\ pc' \in {"error", "layout"}
        /\ n_vifuncs' = n_vifuncs /\ n_vizerofuncs' = n_vizerofuncs
    BY <1>1, <1>4 DEF FillNoHop
  <2>2. Obj = {m.objequ[0]} \ {NA}
    <3>1. m.objequ[0] # NA => m.objequ[0] \in Obj
      BY <1>1 DEF WellFormed, Obj, Kept
    <3>2. \A e \in Obj : m.objequ[0] = e
      BY <1>1 DEF WellFormed, Obj, Kept
    <3>3. \A e \in Obj : e # NA
      BY <1>1, Roles DEF NA
    <3> QED BY <3>1, <3>2, <3>3
  <2>3. SortedList' /\ Listed' = Obj
    <3>1. CASE m.objequ[0] = NA
      <4>1. objequs' = <<>> /\ Obj = {}
        BY <2>1, <2>2, <3>1
      <4> QED BY <1>2, <4>1 DEF SortedList, Listed
    <3>2. CASE m.objequ[0] # NA
      <4>1. objequs' = <<m.objequ[0]>> /\ Obj = {m.objequ[0]}
        BY <2>1, <2>2, <3>2
      <4>2. objequs' \in Seq(Obj) /\ DOMAIN objequs' = {1} /\ objequs'[1] = m.objequ[0]
        BY <4>1
      <4> QED BY <1>2, <4>1, <4>2 DEF SortedList, Listed
    <3> QED BY <3>1, <3>2
  <2>4. Cardinality(Vif) = 0
    <3>1. ViVars(m) = {}
      BY <1>1, <1>4 DEF ViVars
    <3> QED BY <1>1, <3>1, VifCount, FS_EmptySet
  <2>5. Counted' /\ Full'
    BY <1>1, <1>2, <1>3, <2>1, <2>3, <2>4 DEF Counted, Full
  <2> QED BY <1>1, <1>2, <2>1, <2>3, <2>5 DEF ListInv, Assembly
<1>5. CASE m.type[0] # "opt"
  <2> DEFINE V == {v \in 0 .. n_primalvars - 1 : m.own[v] = 0}
  <2>1. /\ n_vizerofuncs' = Cardinality(V \cap m.zero)
        /\ n_vifuncs' = Cardinality(V \ m.zero)
        /\ pc' = "layout" /\ objequs' = objequs
    BY <1>1, <1>5 DEF FillNoHop
  <2>2. m.type[0] = "vi" /\ m.live = 0 .. m.nv - 1 /\ m.nv \in Nat
    BY <1>1, <1>5 DEF WellFormed
  <2>3. n_primalvars = m.nv
    BY <2>2, FS_Interval DEF n_primalvars
  <2>4. V = ViVars(m)
    BY <1>1, <2>2, <2>3 DEF ViVars
  <2>5. n_vifuncs' = Cardinality(Vif)
    BY <1>1, <2>1, <2>4, VifCount
  <2>6. n_vizerofuncs' \in Nat
    <3>1. IsFiniteSet(V \cap m.zero)
      BY <1>1, <2>4, VifCount, FS_Intersection
    <3> QED BY <2>1, <3>1, FS_CardinalityType
  <2>7. Obj = {}
    <3>1. m.objequ[0] = NA
      BY <1>1, <2>2 DEF WellFormed
    <3>2. \A e \in Obj : m.objequ[0] = e /\ e # NA
      BY <1>1, Roles DEF WellFormed, Obj, Kept, NA
    <3> QED BY <3>1, <3>2
  <2>8. SortedList' /\ Listed' = Listed
    BY <1>1, <1>2, <2>1 DEF SortedList, Listed
  <2>9. Counted' /\ Full'
    BY <1>1, <1>2, <1>3, <2>5, <2>6, <2>7, <2>8, RoleCounts DEF Counted, Full
  <2> QED BY <1>1, <1>2, <2>1, <2>8, <2>9 DEF ListInv, Assembly
<1> QED BY <1>4, <1>5

\* The end of the loop.
LEMMA LayoutFull ==
  ASSUME ListInv, Layout
  PROVE  Full
<1>1. CASE pc = "layout"
  BY <1>1 DEF ListInv, Assembly
<1>2. CASE pc = "fill" /\ m.mps # <<>> /\ i \notin Mps
  <2>1. WellFormed(m) /\ FillInv /\ i = Len(m.mps) + 1
    BY <1>2, MpsIs DEF ListInv, FillInv
  <2>2. \A k \in Mps : k < i
    BY <2>1, MpsIs
  <2>3. Listed = {m.objequ[Mp(k)] : k \in Mps} \ {NA}
    BY <2>1, <2>2 DEF FillInv
  <2>4. ASSUME NEW e \in Obj PROVE e \in Listed
    <3>1. m.eown[e] \in MpIds(m) /\ m.objequ[m.eown[e]] = e /\ e # NA
      BY <2>1, Roles DEF WellFormed, Obj, Kept, NA
    <3>2. PICK k \in Mps : m.eown[e] = Mp(k)
      BY <1>2, <2>1, <3>1, MpsIs
    <3> QED BY <2>3, <3>1, <3>2
  <2>5. Listed \subseteq Obj
    BY <2>1, ListLength DEF ListInv
  <2> QED BY <1>2, <2>1, <2>4, <2>5, ViDoneBound DEF FillInv, Full
<1> QED BY <1>1, <1>2 DEF Layout

\* What does not touch the list.
LEMMA ListFrame ==
  ASSUME ListInv, m' = m, UNCHANGED fillVars, pc' # "fill", pc' \in Assembly => Full
  PROVE  ListInv'
<1>1. /\ WellFormed(m)' /\ Obj' = Obj /\ Vif' = Vif /\ Mps' = Mps /\ (\A j : Mp(j)' = Mp(j))
  BY DEF ListInv, WellFormed, Obj, Vif, Kept, KeptIn, Mps, Mp
<1>2. SortedList' /\ (m.mps # <<>> => Maps)' /\ Counted' /\ (Full => Full')
  BY <1>1 DEF ListInv, SortedList, Maps, Counted, Full, Listed, fillVars
<1> QED BY <1>1, <1>2 DEF ListInv

-----------------------------------------------------------------------------
(***************************************************************************)
(* The blocks of the MCP, and the place of each equation.                  *)
(***************************************************************************)

\* The intervals between the objective equations have all the others.
LEMMA WalkedIs ==
  ASSUME WellFormed(m), SortedList
  PROVE  Walked = (0 .. m.ne - 1) \ Listed
<1> DEFINE n == Len(objequs)
           from(p) == IF p = 1 THEN 0 ELSE objequs[p - 1] + 1
           to(p) == IF p <= n THEN objequs[p] ELSE m.ne
<1>1. /\ n \in Nat /\ DOMAIN objequs = 1 .. n /\ m.ne \in Nat
      /\ \A p \in 1 .. n : objequs[p] \in 0 .. m.ne - 1
      /\ \A p, q \in 1 .. n : p < q => objequs[p] < objequs[q]
  <2>1. \A e \in Obj : e \in 0 .. m.ne - 1
    BY Roles
  <2>2. \A p \in DOMAIN objequs : objequs[p] \in Obj
    BY DEF SortedList
  <2> QED BY <2>1, <2>2, Roles DEF SortedList
<1>2. Walked = UNION {from(p) .. to(p) - 1 : p \in 1 .. n + 1}
  BY DEF Walked
<1>3. \A p \in 1 .. n + 1 : from(p) \in Nat /\ to(p) \in Nat /\ to(p) <= m.ne
  <2> SUFFICES ASSUME NEW p \in 1 .. n + 1 PROVE from(p) \in Nat /\ to(p) \in Nat /\ to(p) <= m.ne
    OBVIOUS
  <2>1. p # 1 => p - 1 \in 1 .. n
    BY <1>1
  <2>2. p <= n => p \in 1 .. n
    BY <1>1
  <2> QED BY <1>1, <2>1, <2>2
<1>4. ASSUME NEW p \in 1 .. n + 1, NEW x \in from(p) .. to(p) - 1
      PROVE  x \in 0 .. m.ne - 1 /\ x \notin Listed
  <2>1. x \in Nat /\ x < m.ne
    BY <1>1, <1>3, <1>4
  <2>2. ASSUME NEW q \in 1 .. n, objequs[q] = x PROVE FALSE
    <3>1. CASE q < p
      <4>1. p - 1 \in 1 .. n /\ q <= p - 1 /\ p # 1
        BY <1>1, <3>1
      <4>2. objequs[q] <= objequs[p - 1]
        BY <1>1, <4>1
      <4>3. x >= objequs[p - 1] + 1
        BY <1>3, <1>4, <4>1
      <4> QED BY <1>1, <2>2, <4>1, <4>2, <4>3
    <3>2. CASE ~(q < p)
      <4>1. p \in 1 .. n /\ p <= q
        BY <1>1, <3>2
      <4>2. objequs[p] <= objequs[q] /\ x <= objequs[p] - 1
        BY <1>1, <1>3, <1>4, <4>1
      <4> QED BY <1>1, <2>2, <4>1, <4>2
    <3> QED BY <3>1, <3>2
  <2> QED BY <1>1, <2>1, <2>2 DEF Listed
<1>5. ASSUME NEW x \in 0 .. m.ne - 1, x \notin Listed
      PROVE  \E p \in 1 .. n + 1 : x \in from(p) .. to(p) - 1
  <2> DEFINE T == {p \in 1 .. n + 1 : p = n + 1 \/ x < objequs[p]}
  <2>1. T \in SUBSET Nat /\ n + 1 \in T
    BY <1>1
  <2>2. PICK p \in T : \A q \in T : p <= q
    BY <2>1, AP!LeastNumber
  <2>3. x < to(p)
    BY <1>1
  <2>4. from(p) <= x
    <3>1. CASE p = 1
      BY <3>1
    <3>2. CASE p # 1
      <4>1. p - 1 \in 1 .. n /\ p - 1 \notin T
        BY <1>1, <2>2, <3>2
      <4>2. objequs[p - 1] <= x /\ objequs[p - 1] # x
        BY <1>1, <1>5, <4>1 DEF Listed
      <4> QED BY <1>1, <3>2, <4>1, <4>2
    <3> QED BY <3>1, <3>2
  <2> QED BY <1>3, <2>2, <2>3, <2>4
<1> QED BY <1>2, <1>4, <1>5

\* The linear constraints are counted right: with another test than they are sorted with.
LEMMA LinconsCounted ==
  ASSUME WellFormed(m), SortedList
  PROVE  n_lincons = Cardinality(LIN)
<1>1. \A e \in LIN : e \in 0 .. m.ne - 1 /\ e \notin Listed
  BY Roles, ListLength
<1>2. {e \in Walked \cap m.keep : e \notin m.nl /\ m.role[e] = "constraint"} = LIN
  <2>1. \A e \in LIN : e \in m.keep /\ e \notin m.nl /\ m.role[e] = "constraint"
    BY DEF LIN, Con, Kept, KeptIn
  <2>2. \A e \in m.keep : e \notin m.nl /\ m.role[e] = "constraint" => e \in LIN
    BY DEF LIN, Con, Kept, KeptIn
  <2> QED BY <1>1, <2>1, <2>2, WalkedIs
<1> QED BY <1>2 DEF n_lincons

\* The blocks: equations F, nonlinear constraints, linear constraints.
LEMMA Blocks ==
  ASSUME WellFormed(m), SortedList, Counted, Full
  PROVE  /\ cons_size = Cardinality(Con) /\ mcp_size = n_foocvars + Cardinality(Con)
         /\ ei_lincons_start = n_foocvars + Cardinality(NL)
         /\ ei_lincons_start + Cardinality(LIN) = mcp_size
         /\ cons_size \in Nat /\ mcp_size \in Nat /\ ei_lincons_start \in Nat
         /\ n_lincons = Cardinality(LIN) /\ n_lincons <= cons_size
<1>1. /\ cons_size = Cardinality(Con) /\ mcp_size = cons_size + n_foocvars
      /\ cons_size \in Nat /\ mcp_size \in Nat
  BY Sizes
<1>2. /\ Cardinality(Con) = Cardinality(NL) + Cardinality(LIN)
      /\ Cardinality(NL) \in Nat /\ Cardinality(LIN) \in Nat
  BY RoleCounts
<1>3. n_lincons = Cardinality(LIN) /\ n_foocvars \in Nat
  BY LinconsCounted, Fooc
<1> QED BY <1>1, <1>2, <1>3 DEF ei_lincons_start

\* Where each equation goes, with which variable, and what is copied there.
Rosetta(e) ==
  IF e \in NL THEN n_foocvars + Before(NL, e)
  ELSE IF e \in LIN THEN n_foocvars + Cardinality(NL) + Before(LIN, e)
  ELSE IF e \in Vif THEN ei_F(m.dual[e]) ELSE NA
DualOf(e) == IF e \in Con THEN n_primalvars + Before(Con, e) ELSE rosetta_vars(m.dual[e])
CopyOf(e) == [kind |-> IF e \in Con THEN "cons" ELSE "vifunc", src |-> e]

\* The place of a constraint is in the block of its kind, that of a VI function among the
\* equations F.
LEMMA RosettaPlace ==
  ASSUME WellFormed(m)
  PROVE  /\ \A e \in NL : Rosetta(e) \in n_foocvars .. n_foocvars + Cardinality(NL) - 1
         /\ \A e \in LIN : Rosetta(e) \in n_foocvars + Cardinality(NL) .. n_foocvars + Cardinality(Con) - 1
         /\ \A e \in Con : Rosetta(e) \in n_foocvars .. n_foocvars + Cardinality(Con) - 1
         /\ \A e \in Vif : Rosetta(e) \in 0 .. n_foocvars - 1 /\ Rosetta(e) = ei_F(m.dual[e])
         /\ \A e : e \notin Con \cup Vif => Rosetta(e) = NA
         /\ \A e \in Con : DualOf(e) \in n_primalvars .. n_primalvars + Cardinality(Con) - 1
         /\ \A e \in Vif : DualOf(e) \in 0 .. n_primalvars - 1 /\ DualOf(e) = rosetta_vars(m.dual[e])
<1>1. \A e \in NL : Before(NL, e) \in Nat /\ Before(NL, e) < Cardinality(NL)
  BY RoleCounts, BeforeType
<1>2. \A e \in LIN : Before(LIN, e) \in Nat /\ Before(LIN, e) < Cardinality(LIN)
  BY RoleCounts, BeforeType
<1>3. \A e \in Con : Before(Con, e) \in Nat /\ Before(Con, e) < Cardinality(Con)
  BY RoleCounts, BeforeType
<1>4. /\ \A e \in NL : Rosetta(e) = n_foocvars + Before(NL, e)
      /\ \A e \in LIN : Rosetta(e) = n_foocvars + Cardinality(NL) + Before(LIN, e)
      /\ \A e \in Vif : Rosetta(e) = ei_F(m.dual[e])
      /\ \A e : e \notin Con \cup Vif => Rosetta(e) = NA
      /\ \A e \in Con : DualOf(e) = n_primalvars + Before(Con, e)
      /\ \A e \in Vif : DualOf(e) = rosetta_vars(m.dual[e])
  BY Roles DEF Rosetta, DualOf
<1>5. /\ n_foocvars \in Nat /\ n_primalvars \in Nat /\ Cardinality(NL) \in Nat /\ Cardinality(LIN) \in Nat
      /\ Cardinality(Con) = Cardinality(NL) + Cardinality(LIN) /\ Con = NL \cup LIN
  BY Fooc, RoleCounts, Roles
<1>6. /\ \A e \in Vif : ei_F(m.dual[e]) \in 0 .. n_foocvars - 1
      /\ \A e \in Vif : rosetta_vars(m.dual[e]) \in 0 .. n_primalvars - 1
  BY Fooc, Renumbering
<1>7. \A e \in NL : Rosetta(e) \in n_foocvars .. n_foocvars + Cardinality(NL) - 1
  BY <1>1, <1>4, <1>5
<1>8. \A e \in LIN : Rosetta(e) \in n_foocvars + Cardinality(NL) .. n_foocvars + Cardinality(Con) - 1
  BY <1>2, <1>4, <1>5
<1>9. \A e \in Con : Rosetta(e) \in n_foocvars .. n_foocvars + Cardinality(Con) - 1
  BY <1>5, <1>7, <1>8
<1>10. \A e \in Con : DualOf(e) \in n_primalvars .. n_primalvars + Cardinality(Con) - 1
  <2>1. n_primalvars \in Nat /\ Cardinality(Con) \in Nat
    BY Fooc, RoleCounts
  <2>2. \A e \in Con : DualOf(e) = n_primalvars + Before(Con, e)
    BY <1>4
  <2> QED BY <1>3, <2>1, <2>2
<1> QED BY <1>4, <1>6, <1>7, <1>8, <1>9, <1>10

\* No two equations have the same place.
LEMMA RosettaInjective ==
  ASSUME WellFormed(m), NEW d \in Con \cup Vif, NEW e \in Con \cup Vif, Rosetta(d) = Rosetta(e)
  PROVE  d = e
<1>1. /\ n_foocvars \in Nat /\ Cardinality(NL) \in Nat /\ Cardinality(Con) \in Nat /\ Con = NL \cup LIN
      /\ Con \cap Vif = {} /\ NL \cap LIN = {}
  BY Fooc, RoleCounts, Roles
<1>2. CASE d \in NL
  <2>1. e \in NL
    BY <1>1, <1>2, RosettaPlace
  <2>2. n_foocvars + Before(NL, d) = n_foocvars + Before(NL, e)
    BY <1>2, <2>1 DEF Rosetta
  <2>3. Before(NL, d) \in Nat /\ Before(NL, e) \in Nat
    BY <1>2, <2>1, RoleCounts, BeforeType
  <2>4. Before(NL, d) = Before(NL, e)
    BY <1>1, <2>2, <2>3
  <2> QED BY <1>2, <2>1, <2>4, RoleCounts, BeforeInjective
<1>3. CASE d \in LIN
  <2>1. e \in LIN
    BY <1>1, <1>3, RosettaPlace
  <2>2. n_foocvars + Cardinality(NL) + Before(LIN, d) = n_foocvars + Cardinality(NL) + Before(LIN, e)
    BY <1>1, <1>3, <2>1 DEF Rosetta
  <2>3. Before(LIN, d) \in Nat /\ Before(LIN, e) \in Nat
    BY <1>3, <2>1, RoleCounts, BeforeType
  <2>4. Before(LIN, d) = Before(LIN, e)
    BY <1>1, <2>2, <2>3
  <2> QED BY <1>3, <2>1, <2>4, RoleCounts, BeforeInjective
<1>4. CASE d \in Vif
  <2>1. e \in Vif
    BY <1>1, <1>4, RosettaPlace
  <2>2. ei_F(m.dual[d]) = ei_F(m.dual[e])
    BY <1>4, <2>1, RosettaPlace
  <2>3. m.dual[d] = m.dual[e]
    BY <1>4, <2>1, <2>2, Fooc, Renumbering
  <2> QED BY <1>4, <2>1, <2>3 DEF WellFormed, Vif, Kept
<1> QED BY <1>1, <1>2, <1>3, <1>4

\* No place of the constraints is left.
LEMMA RosettaOnto ==
  ASSUME WellFormed(m), NEW n \in n_foocvars .. n_foocvars + Cardinality(Con) - 1
  PROVE  \E c \in Con : Rosetta(c) = n
<1>1. /\ n_foocvars \in Nat /\ Cardinality(NL) \in Nat /\ Cardinality(LIN) \in Nat
      /\ Cardinality(Con) = Cardinality(NL) + Cardinality(LIN) /\ Con = NL \cup LIN /\ NL \cap LIN = {}
  BY Fooc, RoleCounts, Roles
<1>2. CASE n < n_foocvars + Cardinality(NL)
  <2>1. n - n_foocvars \in 0 .. Cardinality(NL) - 1
    BY <1>1, <1>2
  <2>2. PICK c \in NL : Before(NL, c) = n - n_foocvars
    BY <2>1, RoleCounts, BeforeOnto
  <2>3. Rosetta(c) = n
    BY <1>1, <2>2 DEF Rosetta
  <2> QED BY <1>1, <2>3
<1>3. CASE ~(n < n_foocvars + Cardinality(NL))
  <2>1. n - (n_foocvars + Cardinality(NL)) \in 0 .. Cardinality(LIN) - 1
    BY <1>1, <1>3
  <2>2. PICK c \in LIN : Before(LIN, c) = n - (n_foocvars + Cardinality(NL))
    BY <2>1, RoleCounts, BeforeOnto
  <2>3. Rosetta(c) = n
    BY <1>1, <2>2 DEF Rosetta
  <2> QED BY <1>1, <2>3
<1> QED BY <1>2, <1>3

\* The multipliers are numbered without a gap.
LEMMA DualOfOnto ==
  ASSUME WellFormed(m)
  PROVE  {DualOf(c) : c \in Con} = n_primalvars .. n_primalvars + Cardinality(Con) - 1
<1>1. n_primalvars \in Nat /\ Cardinality(Con) \in Nat
  BY Fooc, RoleCounts
<1>2. \A c \in Con : DualOf(c) \in n_primalvars .. n_primalvars + Cardinality(Con) - 1
  BY RosettaPlace
<1>3. ASSUME NEW n \in n_primalvars .. n_primalvars + Cardinality(Con) - 1
      PROVE  \E c \in Con : DualOf(c) = n
  <2>1. n - n_primalvars \in 0 .. Cardinality(Con) - 1
    BY <1>1
  <2>2. PICK c \in Con : Before(Con, c) = n - n_primalvars
    BY <2>1, RoleCounts, BeforeOnto
  <2> QED BY <1>1, <2>2 DEF DualOf
<1> QED BY <1>2, <1>3

-----------------------------------------------------------------------------
(***************************************************************************)
(* The walk over the source equations.                                     *)
(***************************************************************************)
Places == 0 .. mcp_size - 1

\* The equations below x are where they belong, and the others are not in the MCP yet.
Copied(x) ==
  /\ DOMAIN equs = Places /\ DOMAIN dual = Places
  /\ \A e \in Con \cup Vif : e < x => equs[Rosetta(e)] = CopyOf(e) /\ dual[Rosetta(e)] = DualOf(e)
  /\ rosetta_equs = [e \in 0 .. m.ne |-> IF e < x THEN Rosetta(e) ELSE NA]

\* What the counters and the MCP are when ei_src is next.
Walk ==
  /\ ei_src \in Nat /\ i_objequs \in 1 .. Len(objequs) + 1 /\ ei_src <= ei_src_end
  /\ \A p \in DOMAIN objequs : p < i_objequs => objequs[p] < ei_src
  /\ ei_nl = n_foocvars + Before(NL, ei_src)
  /\ ei_lin = n_foocvars + Cardinality(NL) + Before(LIN, ei_src)
  /\ vi_mult = n_primalvars + Before(Con, ei_src)
  /\ n_mappings = Before(Vif, ei_src)
  /\ Copied(ei_src)
  /\ \A n \in Places : dual[n] # NA => \E e \in Con \cup Vif : e < ei_src /\ Rosetta(e) = n

\* What depends on the source model and the list alone stays the same with them.
LEMMA SameModel ==
  ASSUME m' = m, UNCHANGED fillVars
  PROVE  /\ Obj' = Obj /\ Vif' = Vif /\ Con' = Con /\ NL' = NL /\ LIN' = LIN /\ Mps' = Mps
         /\ FoocVars' = FoocVars /\ n_foocvars' = n_foocvars /\ n_primalvars' = n_primalvars
         /\ cons_size' = cons_size /\ mcp_size' = mcp_size /\ Places' = Places
         /\ n_lincons' = n_lincons /\ ei_lincons_start' = ei_lincons_start
         /\ (\A v : ei_F(v)' = ei_F(v)) /\ (\A v : rosetta_vars(v)' = rosetta_vars(v))
         /\ (\A n : vi_F(n)' = vi_F(n))
         /\ (\A e : Rosetta(e)' = Rosetta(e)) /\ (\A e : DualOf(e)' = DualOf(e))
         /\ (\A e : CopyOf(e)' = CopyOf(e))
         /\ (\A k : Mp(k)' = Mp(k)) /\ (\A k : MpVars(k)' = MpVars(k))
<1>1. Obj' = Obj /\ Vif' = Vif /\ Con' = Con
  BY DEF Obj, Vif, Con, Kept
<1>2. NL' = NL /\ LIN' = LIN
  BY <1>1 DEF NL, LIN
<1>3. Mps' = Mps /\ (\A k : Mp(k)' = Mp(k)) /\ (\A k : MpVars(k)' = MpVars(k))
  BY DEF Mps, Mp, MpVars
<1>4. FoocVars' = FoocVars
  BY <1>3 DEF FoocVars
<1>5. n_foocvars' = n_foocvars /\ n_primalvars' = n_primalvars
  BY <1>4 DEF n_foocvars, n_primalvars
<1>6. cons_size' = cons_size
  BY DEF cons_size, fillVars
<1>7. mcp_size' = mcp_size
  BY <1>5, <1>6 DEF mcp_size
<1>8. Walked' = Walked
  BY DEF Walked, fillVars
<1>9. n_lincons' = n_lincons
  BY <1>8 DEF n_lincons
<1>10. ei_lincons_start' = ei_lincons_start /\ Places' = Places
  BY <1>7, <1>9 DEF ei_lincons_start, Places
<1>11. (\A v : ei_F(v)' = ei_F(v)) /\ (\A v : rosetta_vars(v)' = rosetta_vars(v))
  BY <1>4 DEF ei_F, rosetta_vars
<1>12. \A n : vi_F(n)' = vi_F(n)
  BY <1>4, <1>11 DEF vi_F
<1>13. \A e : Rosetta(e)' = Rosetta(e)
  BY <1>1, <1>2, <1>5, <1>11 DEF Rosetta
<1>14. (\A e : DualOf(e)' = DualOf(e)) /\ (\A e : CopyOf(e)' = CopyOf(e))
  BY <1>1, <1>5, <1>11 DEF DualOf, CopyOf
<1> QED BY <1>1, <1>2, <1>3, <1>4, <1>5, <1>6, <1>7, <1>9, <1>10, <1>11, <1>12, <1>13, <1>14

\* Inside an interval there is no objective equation.
LEMMA NoObjectiveInside ==
  ASSUME ListInv, Full, Walk, ei_src < ei_src_end
  PROVE  ei_src \in 0 .. m.ne - 1 /\ ei_src \notin Obj
<1>1. /\ WellFormed(m) /\ SortedList /\ Len(objequs) \in Nat /\ DOMAIN objequs = 1 .. Len(objequs)
      /\ \A p \in DOMAIN objequs : objequs[p] \in 0 .. m.ne - 1
  <2>1. WellFormed(m) /\ SortedList
    BY DEF ListInv
  <2>2. \A e \in Obj : e \in 0 .. m.ne - 1
    BY <2>1, Roles
  <2> QED BY <2>1, <2>2 DEF SortedList
<1>2. m.ne \in Nat
  BY <1>1, Roles
<1>3. ei_src \in Nat /\ i_objequs \in 1 .. Len(objequs) + 1
  BY DEF Walk
<1>4. ei_src_end \in Nat /\ ei_src_end <= m.ne
  BY <1>1, <1>2, <1>3 DEF ei_src_end
<1>5. ASSUME NEW p \in DOMAIN objequs, objequs[p] = ei_src PROVE FALSE
  <2>1. p >= i_objequs
    BY <1>1, <1>3, <1>5 DEF Walk
  <2>2. i_objequs \in DOMAIN objequs /\ ei_src_end = objequs[i_objequs]
    BY <1>1, <1>3, <2>1 DEF ei_src_end
  <2>3. objequs[i_objequs] <= objequs[p]
    BY <1>1, <1>3, <2>1, <2>2 DEF SortedList
  <2> QED BY <1>1, <1>4, <1>5, <2>2, <2>3
<1> QED BY <1>2, <1>3, <1>4, <1>5 DEF Full, Listed

\* A copy goes to its place, which is free.
LEMMA CopyToStep ==
  ASSUME ListInv, Full, Walk, ei_src \in Con \cup Vif, m' = m, UNCHANGED fillVars,
         NEW kind, kind = CopyOf(ei_src).kind, ei_src' = ei_src + 1,
         CopyTo(ei_src, Rosetta(ei_src), DualOf(ei_src), kind)
  PROVE  /\ pc' = pc
         /\ Copied(ei_src)'
         /\ dual' = [dual EXCEPT ![Rosetta(ei_src)] = DualOf(ei_src)]
         /\ Rosetta(ei_src) \in Places
<1> DEFINE r == Rosetta(ei_src)  C == Con \cup Vif
<1>1. WellFormed(m) /\ SortedList /\ Counted
  BY DEF ListInv
<1>2. mcp_size = n_foocvars + Cardinality(Con) /\ n_foocvars \in Nat /\ Cardinality(Con) \in Nat
  BY <1>1, Blocks, Fooc, RoleCounts
<1>3. \A e \in C : Rosetta(e) \in Places
  <2>1. \A e \in C : Rosetta(e) \in 0 .. n_foocvars - 1 \/ Rosetta(e) \in n_foocvars .. n_foocvars + Cardinality(Con) - 1
    BY <1>1, RosettaPlace
  <2> QED BY <1>2, <2>1 DEF Places
<1>4. r \in DOMAIN equs /\ DOMAIN equs = Places /\ DOMAIN dual = Places /\ ei_src \in Int
  BY <1>3 DEF Walk, Copied
<1>5. \A e \in C : e < ei_src => Rosetta(e) # r
  <2> SUFFICES ASSUME NEW e \in C, e < ei_src, Rosetta(e) = r PROVE FALSE
    OBVIOUS
  <2>1. e = ei_src
    BY <1>1, RosettaInjective
  <2> QED BY <1>4, <2>1
<1>6. dual[r] = NA
  BY <1>4, <1>5 DEF Walk
<1>7. MayMatch(r)
  BY <1>4, <1>6 DEF MayMatch
<1>8. /\ equs' = [equs EXCEPT ![r] = [kind |-> kind, src |-> ei_src]]
      /\ rosetta_equs' = [rosetta_equs EXCEPT ![ei_src] = r]
      /\ dual' = [dual EXCEPT ![r] = DualOf(ei_src)] /\ pc' = pc
  BY <1>4, <1>7 DEF CopyTo
<1>9. [kind |-> kind, src |-> ei_src] = CopyOf(ei_src)
  BY DEF CopyOf
<1>10. \A e \in C : e < ei_src + 1 => e < ei_src \/ e = ei_src
  <2>1. \A e \in C : e \in Int
    BY <1>1, RoleCounts
  <2> QED BY <1>4, <2>1
<1>11. \A e \in C : e < ei_src + 1 => equs'[Rosetta(e)] = CopyOf(e) /\ dual'[Rosetta(e)] = DualOf(e)
  <2> SUFFICES ASSUME NEW e \in C, e < ei_src + 1
               PROVE  equs'[Rosetta(e)] = CopyOf(e) /\ dual'[Rosetta(e)] = DualOf(e)
    OBVIOUS
  <2>1. CASE e = ei_src
    BY <1>4, <1>8, <1>9, <2>1
  <2>2. CASE e < ei_src
    <3>1. equs[Rosetta(e)] = CopyOf(e) /\ dual[Rosetta(e)] = DualOf(e) /\ Rosetta(e) # r
      BY <1>5, <2>2 DEF Walk, Copied
    <3> QED BY <1>3, <1>4, <1>8, <3>1
  <2> QED BY <1>10, <2>1, <2>2
<1>12. rosetta_equs' = [e \in 0 .. m.ne |-> IF e < ei_src + 1 THEN Rosetta(e) ELSE NA]
  <2>1. rosetta_equs = [e \in 0 .. m.ne |-> IF e < ei_src THEN Rosetta(e) ELSE NA]
    BY DEF Walk, Copied
  <2>2. \A e \in 0 .. m.ne : e < ei_src + 1 <=> e < ei_src \/ e = ei_src
    BY <1>4
  <2> QED BY <1>4, <1>8, <2>1, <2>2
<1>13. Con' = Con /\ Vif' = Vif /\ Places' = Places /\ (\A e : Rosetta(e)' = Rosetta(e))
       /\ (\A e : DualOf(e)' = DualOf(e)) /\ (\A e : CopyOf(e)' = CopyOf(e))
  BY SameModel
<1>14. DOMAIN equs' = Places /\ DOMAIN dual' = Places
  BY <1>4, <1>8
<1>15. /\ DOMAIN equs' = Places' /\ DOMAIN dual' = Places'
       /\ \A e \in Con' \cup Vif' : e < ei_src' => equs'[Rosetta(e)'] = CopyOf(e)' /\ dual'[Rosetta(e)'] = DualOf(e)'
       /\ rosetta_equs' = [e \in 0 .. m'.ne |-> IF e < ei_src' THEN Rosetta(e)' ELSE NA]
  BY <1>11, <1>12, <1>13, <1>14
<1> QED BY <1>3, <1>8, <1>15 DEF Copied


\* A step inside an interval stays in front of its end.
LEMMA WalkPosition ==
  ASSUME ListInv, Walk, ei_src < ei_src_end, m' = m, UNCHANGED fillVars,
         i_objequs' = i_objequs, ei_src' = ei_src + 1
  PROVE  /\ (ei_src \in Nat /\ i_objequs \in 1 .. Len(objequs) + 1 /\ ei_src <= ei_src_end)'
         /\ (\A p \in DOMAIN objequs : p < i_objequs => objequs[p] < ei_src)'
<1>1. objequs' = objequs /\ ei_src_end' = ei_src_end
  BY DEF fillVars, ei_src_end
<1>2. ei_src \in Nat /\ i_objequs \in 1 .. Len(objequs) + 1 /\ Len(objequs) \in Nat
      /\ DOMAIN objequs = 1 .. Len(objequs)
      /\ \A p \in DOMAIN objequs : p < i_objequs => objequs[p] < ei_src
  BY DEF Walk, ListInv, SortedList
<1>3. \A p \in DOMAIN objequs : objequs[p] \in 0 .. m.ne - 1 /\ m.ne \in Nat
  <2>1. WellFormed(m) /\ SortedList
    BY DEF ListInv
  <2>2. (\A e \in Obj : e \in 0 .. m.ne - 1) /\ m.ne \in Nat
    BY <2>1, Roles
  <2> QED BY <2>1, <2>2 DEF SortedList
<1>4. ei_src_end \in Nat
  <2>1. m.ne \in Nat
    BY Roles DEF ListInv
  <2> QED BY <1>2, <1>3, <2>1 DEF ei_src_end
<1> QED BY <1>1, <1>2, <1>3, <1>4

\* The counters that the equation ei_src does not belong to stay, the others are one larger.
LEMMA CountersNext ==
  ASSUME ListInv, Walk
  PROVE  /\ Before(NL, ei_src + 1) = IF ei_src \in NL THEN Before(NL, ei_src) + 1 ELSE Before(NL, ei_src)
         /\ Before(LIN, ei_src + 1) = IF ei_src \in LIN THEN Before(LIN, ei_src) + 1 ELSE Before(LIN, ei_src)
         /\ Before(Con, ei_src + 1) = IF ei_src \in Con THEN Before(Con, ei_src) + 1 ELSE Before(Con, ei_src)
         /\ Before(Vif, ei_src + 1) = IF ei_src \in Vif THEN Before(Vif, ei_src) + 1 ELSE Before(Vif, ei_src)
         /\ Before(NL, ei_src) \in Nat /\ Before(LIN, ei_src) \in Nat
         /\ Before(Con, ei_src) \in Nat /\ Before(Vif, ei_src) \in Nat
         /\ n_foocvars \in Nat /\ n_primalvars \in Nat /\ Cardinality(NL) \in Nat
<1>1. WellFormed(m) /\ ei_src \in Int
  BY DEF ListInv, Walk
<1>2. n_foocvars \in Nat /\ n_primalvars \in Nat /\ Cardinality(NL) \in Nat
  BY <1>1, Fooc, RoleCounts
<1>3. Before(NL, ei_src) \in Nat /\ Before(LIN, ei_src) \in Nat
      /\ Before(Con, ei_src) \in Nat /\ Before(Vif, ei_src) \in Nat
  BY <1>1, RoleCounts, BeforeType
<1> QED BY <1>1, <1>2, <1>3, RoleCounts, BeforeNext

\* One more of the second summand.
LEMMA PlusOne ==
  ASSUME NEW a \in Nat, NEW b \in Nat
  PROVE  a + b + 1 = a + (b + 1)
OBVIOUS

\* What a step of the walk shows of the counters and of the copies, the walk keeps.
LEMMA WalkKept ==
  ASSUME ListInv, Walk, m' = m, UNCHANGED fillVars,
         (ei_src \in Nat /\ i_objequs \in 1 .. Len(objequs) + 1 /\ ei_src <= ei_src_end)',
         (\A p \in DOMAIN objequs : p < i_objequs => objequs[p] < ei_src)',
         ei_src' = ei_src + 1,
         ei_nl' = IF ei_src \in NL THEN ei_nl + 1 ELSE ei_nl,
         ei_lin' = IF ei_src \in LIN THEN ei_lin + 1 ELSE ei_lin,
         vi_mult' = IF ei_src \in Con THEN vi_mult + 1 ELSE vi_mult,
         n_mappings' = IF ei_src \in Vif THEN n_mappings + 1 ELSE n_mappings,
         Copied(ei_src)',
         \A n \in Places : dual'[n] # NA => dual[n] # NA \/ (ei_src \in Con \cup Vif /\ n = Rosetta(ei_src))
  PROVE  Walk'
<1>1. /\ NL' = NL /\ LIN' = LIN /\ Con' = Con /\ Vif' = Vif /\ n_foocvars' = n_foocvars
      /\ n_primalvars' = n_primalvars /\ Places' = Places /\ (\A e : Rosetta(e)' = Rosetta(e))
  BY SameModel
<1>2. /\ ei_nl' = n_foocvars + Before(NL, ei_src + 1)
      /\ ei_lin' = n_foocvars + Cardinality(NL) + Before(LIN, ei_src + 1)
      /\ vi_mult' = n_primalvars + Before(Con, ei_src + 1)
      /\ n_mappings' = Before(Vif, ei_src + 1)
  <2>1. /\ ei_nl = n_foocvars + Before(NL, ei_src)
        /\ ei_lin = n_foocvars + Cardinality(NL) + Before(LIN, ei_src)
        /\ vi_mult = n_primalvars + Before(Con, ei_src)
        /\ n_mappings = Before(Vif, ei_src)
    BY DEF Walk
  <2>2. /\ Before(NL, ei_src) \in Nat /\ Before(LIN, ei_src) \in Nat /\ Before(Con, ei_src) \in Nat
        /\ n_foocvars \in Nat /\ n_primalvars \in Nat /\ n_foocvars + Cardinality(NL) \in Nat
    <3>1. n_foocvars \in Nat /\ Cardinality(NL) \in Nat
      BY CountersNext
    <3>2. n_foocvars + Cardinality(NL) \in Nat
      BY <3>1
    <3> QED BY <3>1, <3>2, CountersNext
  <2>3. ei_nl' = n_foocvars + Before(NL, ei_src + 1)
    <3>1. CASE ei_src \in NL
      <4>1. ei_nl' = ei_nl + 1
        BY <3>1
      <4>2. Before(NL, ei_src + 1) = Before(NL, ei_src) + 1
        BY <3>1, CountersNext
      <4>3. n_foocvars + Before(NL, ei_src) + 1 = n_foocvars + (Before(NL, ei_src) + 1)
        BY <2>2, PlusOne
      <4> QED BY <2>1, <4>1, <4>2, <4>3
    <3>2. CASE ei_src \notin NL
      BY <2>1, <3>2, CountersNext
    <3> QED BY <3>1, <3>2
  <2>4. ei_lin' = n_foocvars + Cardinality(NL) + Before(LIN, ei_src + 1)
    <3>1. CASE ei_src \in LIN
      <4>1. ei_lin' = ei_lin + 1
        BY <3>1
      <4>2. Before(LIN, ei_src + 1) = Before(LIN, ei_src) + 1
        BY <3>1, CountersNext
      <4>3. n_foocvars + Cardinality(NL) + Before(LIN, ei_src) + 1 = n_foocvars + Cardinality(NL) + (Before(LIN, ei_src) + 1)
        BY <2>2, PlusOne
      <4> QED BY <2>1, <4>1, <4>2, <4>3
    <3>2. CASE ei_src \notin LIN
      BY <2>1, <3>2, CountersNext
    <3> QED BY <3>1, <3>2
  <2>5. vi_mult' = n_primalvars + Before(Con, ei_src + 1)
    <3>1. CASE ei_src \in Con
      <4>1. vi_mult' = vi_mult + 1
        BY <3>1
      <4>2. Before(Con, ei_src + 1) = Before(Con, ei_src) + 1
        BY <3>1, CountersNext
      <4>3. n_primalvars + Before(Con, ei_src) + 1 = n_primalvars + (Before(Con, ei_src) + 1)
        BY <2>2, PlusOne
      <4> QED BY <2>1, <4>1, <4>2, <4>3
    <3>2. CASE ei_src \notin Con
      BY <2>1, <3>2, CountersNext
    <3> QED BY <3>1, <3>2
  <2>6. n_mappings' = Before(Vif, ei_src + 1)
    BY <2>1, CountersNext
  <2> QED BY <2>3, <2>4, <2>5, <2>6
<1>3. /\ (ei_nl = n_foocvars + Before(NL, ei_src))'
      /\ (ei_lin = n_foocvars + Cardinality(NL) + Before(LIN, ei_src))'
      /\ (vi_mult = n_primalvars + Before(Con, ei_src))'
      /\ (n_mappings = Before(Vif, ei_src))'
  BY <1>1, <1>2
<1>4. (\A n \in Places : dual[n] # NA => \E e \in Con \cup Vif : e < ei_src /\ Rosetta(e) = n)'
  <2> SUFFICES ASSUME NEW n \in Places, dual'[n] # NA
               PROVE  \E e \in Con \cup Vif : e < ei_src + 1 /\ Rosetta(e) = n
    BY <1>1
  <2>1. ei_src \in Int
    BY DEF Walk
  <2>2. CASE dual[n] # NA
    <3>1. PICK e \in Con \cup Vif : e < ei_src /\ Rosetta(e) = n
      BY <2>2 DEF Walk
    <3>2. e \in Int
      BY RoleCounts DEF ListInv
    <3> QED BY <2>1, <3>1, <3>2
  <2>3. CASE ei_src \in Con \cup Vif /\ n = Rosetta(ei_src)
    BY <2>1, <2>3
  <2> QED BY <2>2, <2>3
<1> QED BY <1>3, <1>4 DEF Walk

\* An equation that has no place in the MCP is passed.
LEMMA CopiedSkip ==
  ASSUME ListInv, Walk, ei_src \notin Con \cup Vif, m' = m, UNCHANGED fillVars,
         UNCHANGED <<equs, dual>>, rosetta_equs' = [rosetta_equs EXCEPT ![ei_src] = NA],
         ei_src' = ei_src + 1
  PROVE  Copied(ei_src)'
<1>1. ei_src \in Int /\ WellFormed(m)
  BY DEF Walk, ListInv
<1>2. \A e \in Con \cup Vif : e < ei_src + 1 => e < ei_src
  <2>1. \A e \in Con \cup Vif : e \in Int /\ e # ei_src
    BY <1>1, RoleCounts
  <2> QED BY <1>1, <2>1
<1>3. rosetta_equs' = [e \in 0 .. m.ne |-> IF e < ei_src + 1 THEN Rosetta(e) ELSE NA]
  <2>1. rosetta_equs = [e \in 0 .. m.ne |-> IF e < ei_src THEN Rosetta(e) ELSE NA]
    BY DEF Walk, Copied
  <2>2. \A e \in 0 .. m.ne : e < ei_src + 1 <=> e < ei_src \/ e = ei_src
    BY <1>1
  <2>3. Rosetta(ei_src) = NA
    BY <1>1, RosettaPlace
  <2> QED BY <1>1, <2>1, <2>2, <2>3
<1>4. Con' = Con /\ Vif' = Vif /\ Places' = Places /\ (\A e : Rosetta(e)' = Rosetta(e))
      /\ (\A e : DualOf(e)' = DualOf(e)) /\ (\A e : CopyOf(e)' = CopyOf(e))
  BY SameModel
<1>5. /\ DOMAIN equs' = Places /\ DOMAIN dual' = Places
      /\ \A e \in Con \cup Vif : e < ei_src => equs[Rosetta(e)] = CopyOf(e) /\ dual[Rosetta(e)] = DualOf(e)
  BY DEF Walk, Copied
<1>6. /\ DOMAIN equs' = Places' /\ DOMAIN dual' = Places'
      /\ \A e \in Con' \cup Vif' : e < ei_src' => equs'[Rosetta(e)'] = CopyOf(e)' /\ dual'[Rosetta(e)'] = DualOf(e)'
      /\ rosetta_equs' = [e \in 0 .. m'.ne |-> IF e < ei_src' THEN Rosetta(e)' ELSE NA]
  BY <1>2, <1>3, <1>4, <1>5
<1> QED BY <1>6 DEF Copied

\* When the walk is over, all equations are where they belong; an equation F has the variable
\* that it is the derivative for, or none yet.
Built ==
  /\ Copied(m.ne + 1)
  /\ ei_nl = n_foocvars + Cardinality(NL) /\ ei_lin = mcp_size
  /\ \A n \in 0 .. n_foocvars - 1 : dual[n] \in {NA, vi_F(n)}

\* The steps of the walk. An equation that the filter drops:
LEMMA SkipEquKeeps ==
  ASSUME ListInv, Full, Walk, SkipEqu
  PROVE  Walk'
<1>1. /\ ei_src < ei_src_end /\ ei_src \notin m.keep /\ m' = m /\ fillVars' = fillVars
      /\ rosetta_equs' = [rosetta_equs EXCEPT ![ei_src] = NA] /\ ei_src' = ei_src + 1
      /\ i_objequs' = i_objequs /\ ei_nl' = ei_nl /\ ei_lin' = ei_lin /\ vi_mult' = vi_mult
      /\ n_mappings' = n_mappings /\ equs' = equs /\ dual' = dual
  BY DEF SkipEqu, InInterval, mcpVars
<1>2. ei_src \notin Con \cup Vif /\ ei_src \notin NL /\ ei_src \notin LIN
  BY <1>1, Roles DEF ListInv, NL, LIN
<1>3. Copied(ei_src)'
  BY <1>1, <1>2, CopiedSkip
<1> QED BY <1>1, <1>2, <1>3, WalkPosition, WalkKept

\* A VI function:
LEMMA InjectVifuncKeeps ==
  ASSUME ListInv, Full, Walk, InjectVifunc
  PROVE  Walk' /\ pc' = pc
<1>1. /\ ei_src < ei_src_end /\ ei_src \in m.keep /\ m.object[ei_src] = "Mapping" /\ m' = m
      /\ fillVars' = fillVars /\ i_objequs' = i_objequs /\ ei_nl' = ei_nl /\ ei_lin' = ei_lin
      /\ vi_mult' = vi_mult /\ WellFormed(m)
  BY DEF InjectVifunc, InInterval, ListInv
<1>2. ei_src \in Vif /\ ei_src \notin Con /\ ei_src \notin NL /\ ei_src \notin LIN
  BY <1>1, Roles, NoObjectiveInside
<1>3. ~(n_mappings >= n_vifuncs)
  <2>1. Before(Vif, ei_src) \in Nat /\ Before(Vif, ei_src) < Cardinality(Vif) /\ Cardinality(Vif) \in Nat
    BY <1>1, <1>2, RoleCounts, BeforeType
  <2> QED BY <2>1 DEF Walk, Full
<1>4. /\ CopyTo(ei_src, ei_F(m.dual[ei_src]), rosetta_vars(m.dual[ei_src]), "vifunc")
      /\ n_mappings' = n_mappings + 1 /\ ei_src' = ei_src + 1
  BY <1>3 DEF InjectVifunc
<1>5. Rosetta(ei_src) = ei_F(m.dual[ei_src]) /\ DualOf(ei_src) = rosetta_vars(m.dual[ei_src])
  BY <1>1, <1>2, RosettaPlace
<1>6. CopyTo(ei_src, Rosetta(ei_src), DualOf(ei_src), "vifunc") /\ "vifunc" = CopyOf(ei_src).kind
  BY <1>2, <1>4, <1>5 DEF CopyOf
<1>7. pc' = pc /\ Copied(ei_src)' /\ dual' = [dual EXCEPT ![Rosetta(ei_src)] = DualOf(ei_src)]
  BY <1>1, <1>2, <1>4, <1>6, CopyToStep
<1>8. \A n \in Places : dual'[n] # NA => dual[n] # NA \/ (ei_src \in Con \cup Vif /\ n = Rosetta(ei_src))
  BY <1>2, <1>7 DEF Walk, Copied
<1> QED BY <1>1, <1>2, <1>4, <1>7, <1>8, WalkPosition, WalkKept

\* A constraint:
LEMMA InjectConsKeeps ==
  ASSUME ListInv, Full, Walk, InjectCons
  PROVE  Walk' /\ pc' = pc
<1>1. /\ ei_src < ei_src_end /\ ei_src \in m.keep /\ m.object[ei_src] = "ConeInclusion" /\ m' = m
      /\ fillVars' = fillVars /\ i_objequs' = i_objequs /\ n_mappings' = n_mappings
      /\ vi_mult' = vi_mult + 1 /\ ei_src' = ei_src + 1 /\ WellFormed(m)
  BY DEF InjectCons, InInterval, ListInv
<1>2. ei_src \in Con /\ ei_src \notin Vif
  BY <1>1, Roles
<1>3. "cons" = CopyOf(ei_src).kind /\ DualOf(ei_src) = vi_mult
  BY <1>2 DEF CopyOf, DualOf, Walk
<1>4. /\ CopyTo(ei_src, Rosetta(ei_src), DualOf(ei_src), "cons")
      /\ ei_nl' = IF ei_src \in NL THEN ei_nl + 1 ELSE ei_nl
      /\ ei_lin' = IF ei_src \in LIN THEN ei_lin + 1 ELSE ei_lin
  <2>1. CASE ei_src \in m.nl
    <3>1. ei_src \in NL /\ ei_src \notin LIN
      BY <1>2, <2>1 DEF NL, LIN
    <3>2. Rosetta(ei_src) = ei_nl
      BY <3>1 DEF Rosetta, Walk
    <3> QED BY <1>3, <2>1, <3>1, <3>2 DEF InjectCons, InjectMult
  <2>2. CASE ei_src \notin m.nl
    <3>1. ei_src \notin NL /\ ei_src \in LIN
      BY <1>2, <2>2 DEF NL, LIN
    <3>2. Rosetta(ei_src) = ei_lin
      BY <3>1 DEF Rosetta, Walk
    <3> QED BY <1>3, <2>2, <3>1, <3>2 DEF InjectCons, InjectMult
  <2> QED BY <2>1, <2>2
<1>5. pc' = pc /\ Copied(ei_src)' /\ dual' = [dual EXCEPT ![Rosetta(ei_src)] = DualOf(ei_src)]
  BY <1>1, <1>2, <1>3, <1>4, CopyToStep
<1>6. \A n \in Places : dual'[n] # NA => dual[n] # NA \/ (ei_src \in Con \cup Vif /\ n = Rosetta(ei_src))
  BY <1>2, <1>5 DEF Walk, Copied
<1> QED BY <1>1, <1>2, <1>4, <1>5, <1>6, WalkPosition, WalkKept

\* The end of an interval: an objective equation, or the end of the model.
LEMMA EndIntervalKeeps ==
  ASSUME ListInv, Full, Walk, EndInterval
  PROVE  /\ pc' = "inject" => Walk'
         /\ pc' = "zero" => Built'
         /\ pc' \in {"inject", "zero", "error"}
         /\ ei_src' = ei_src + 1 /\ i_objequs' = i_objequs + 1 /\ n_mappings' = n_mappings
         /\ rosetta_equs' = [rosetta_equs EXCEPT ![ei_src] = NA]
<1>1. /\ pc = "inject" /\ ei_src = ei_src_end /\ ei_src \in Nat /\ i_objequs \in 1 .. Len(objequs) + 1
      /\ rosetta_equs' = [rosetta_equs EXCEPT ![ei_src] = NA]
      /\ ei_src' = ei_src + 1 /\ i_objequs' = i_objequs + 1
      /\ pc' = IF i_objequs + 1 <= Len(objequs) + 1 THEN pc
               ELSE IF n_mappings = n_vifuncs THEN "zero" ELSE "error"
      /\ m' = m /\ UNCHANGED fillVars /\ ei_nl' = ei_nl /\ ei_lin' = ei_lin
      /\ vi_mult' = vi_mult /\ n_mappings' = n_mappings /\ equs' = equs /\ dual' = dual
      /\ WellFormed(m) /\ SortedList /\ Counted /\ objequs' = objequs
  <2>1. ei_src \in Nat /\ ei_src <= ei_src_end /\ ei_src >= ei_src_end /\ i_objequs \in 1 .. Len(objequs) + 1
    BY DEF Walk, EndInterval
  <2>2. WellFormed(m) /\ SortedList /\ Counted
    BY DEF ListInv
  <2>3. ei_src_end \in Int
    <3>1. \A p \in DOMAIN objequs : objequs[p] \in Int
      BY <2>2, RoleCounts DEF SortedList
    <3>2. m.ne \in Int
      BY <2>2, Roles
    <3>3. Len(objequs) \in Nat /\ DOMAIN objequs = 1 .. Len(objequs)
      BY <2>2 DEF SortedList
    <3> QED BY <2>1, <3>1, <3>2, <3>3 DEF ei_src_end
  <2>4. ei_src = ei_src_end
    BY <2>1, <2>3
  <2> QED BY <2>1, <2>2, <2>4 DEF EndInterval, NextObjequ, mcpVars, fillVars
<1>2. /\ Len(objequs) \in Nat /\ DOMAIN objequs = 1 .. Len(objequs) /\ m.ne \in Nat
      /\ \A p \in DOMAIN objequs : objequs[p] \in Obj /\ objequs[p] \in 0 .. m.ne - 1
      /\ \A p, q \in DOMAIN objequs : p < q => objequs[p] < objequs[q]
      /\ \A p \in DOMAIN objequs : p < i_objequs => objequs[p] < ei_src
  <2>1. (\A e \in Obj : e \in 0 .. m.ne - 1) /\ m.ne \in Nat
    BY <1>1, Roles
  <2> QED BY <1>1, <2>1 DEF SortedList, Walk
<1>3. ei_src \notin Con \cup Vif /\ ei_src \notin NL /\ ei_src \notin LIN
  <2>1. CASE i_objequs <= Len(objequs)
    <3>1. ei_src \in Obj
      BY <1>1, <1>2, <2>1 DEF ei_src_end
    <3> QED BY <1>1, <3>1, Roles
  <2>2. CASE ~(i_objequs <= Len(objequs))
    <3>1. ei_src = m.ne
      BY <1>1, <2>2 DEF ei_src_end
    <3> QED BY <1>1, <1>2, <3>1, Roles
  <2> QED BY <2>1, <2>2
<1>4. Copied(ei_src)'
  BY <1>1, <1>3, CopiedSkip
<1>5. CASE i_objequs <= Len(objequs)
  <2>1. pc' = "inject"
    BY <1>1, <1>2, <1>5
  <2>2. ei_src = objequs[i_objequs] /\ i_objequs \in DOMAIN objequs
    BY <1>1, <1>2, <1>5 DEF ei_src_end
  <2>3. (ei_src \in Nat /\ i_objequs \in 1 .. Len(objequs) + 1 /\ ei_src <= ei_src_end)'
    <3>1. ei_src + 1 \in Nat /\ i_objequs + 1 \in 1 .. Len(objequs) + 1
      BY <1>1, <1>2, <1>5
    <3>2. ei_src_end' = IF i_objequs + 1 <= Len(objequs) THEN objequs[i_objequs + 1] ELSE m.ne
      BY <1>1 DEF ei_src_end
    <3>3. ei_src + 1 <= ei_src_end'
      <4>1. CASE i_objequs + 1 <= Len(objequs)
        <5>1. i_objequs + 1 \in DOMAIN objequs /\ i_objequs < i_objequs + 1
          BY <1>1, <1>2, <4>1
        <5>2. objequs[i_objequs] < objequs[i_objequs + 1] /\ objequs[i_objequs + 1] \in Int
          BY <1>2, <2>2, <5>1
        <5> QED BY <1>1, <2>2, <3>2, <4>1, <5>2
      <4>2. CASE ~(i_objequs + 1 <= Len(objequs))
        BY <1>2, <2>2, <3>2, <4>2
      <4> QED BY <4>1, <4>2
    <3> QED BY <1>1, <3>1, <3>3
  <2>4. (\A p \in DOMAIN objequs : p < i_objequs => objequs[p] < ei_src)'
    <3> SUFFICES ASSUME NEW p \in DOMAIN objequs, p < i_objequs + 1 PROVE objequs[p] < ei_src + 1
      BY <1>1
    <3>1. p < i_objequs \/ p = i_objequs
      BY <1>1, <1>2
    <3>2. objequs[p] \in Int
      BY <1>2
    <3> QED BY <1>1, <1>2, <2>2, <3>1, <3>2
  <2>5. \A n \in Places : dual'[n] # NA => dual[n] # NA \/ (ei_src \in Con \cup Vif /\ n = Rosetta(ei_src))
    BY <1>1
  <2>6. Walk'
    BY <1>1, <1>3, <1>4, <2>3, <2>4, <2>5, WalkKept
  <2> QED BY <1>1, <2>1, <2>6
<1>6. CASE ~(i_objequs <= Len(objequs))
  <2>1. pc' \in {"zero", "error"} /\ ei_src = m.ne
    BY <1>1, <1>2, <1>6 DEF ei_src_end
  <2>2. /\ Before(NL, m.ne) = Cardinality(NL) /\ Before(LIN, m.ne) = Cardinality(LIN)
    BY <1>1, <1>2, Roles, BeforeEnds
  <2>3. ei_nl = n_foocvars + Cardinality(NL) /\ ei_lin = mcp_size
    BY <1>1, <2>1, <2>2, Blocks DEF Walk
  <2>4. ASSUME NEW n \in 0 .. n_foocvars - 1 PROVE dual[n] \in {NA, vi_F(n)}
    <3>1. n \in Places
      <4>1. mcp_size = n_foocvars + Cardinality(Con) /\ n_foocvars \in Nat /\ Cardinality(Con) \in Nat
        BY <1>1, Blocks, Fooc, RoleCounts
      <4> QED BY <4>1 DEF Places
    <3>2. CASE dual[n] # NA
      <4>1. PICK e \in Con \cup Vif : e < ei_src /\ Rosetta(e) = n
        BY <3>1, <3>2 DEF Walk
      <4>2. dual[n] = DualOf(e)
        BY <4>1 DEF Walk, Copied
      <4>3. e \in Vif
        <5>1. \A c \in Con : Rosetta(c) \in n_foocvars .. n_foocvars + Cardinality(Con) - 1
          BY <1>1, RosettaPlace
        <5>2. n_foocvars \in Nat /\ Cardinality(Con) \in Nat
          BY <1>1, Fooc, RoleCounts
        <5> QED BY <4>1, <5>1, <5>2
      <4>4. DualOf(e) = rosetta_vars(m.dual[e]) /\ n = ei_F(m.dual[e])
        BY <1>1, <4>1, <4>3, RosettaPlace
      <4>5. vi_F(n) = rosetta_vars(m.dual[e])
        BY <1>1, <4>3, <4>4, Fooc, Renumbering
      <4> QED BY <4>2, <4>4, <4>5
    <3> QED BY <3>2
  <2>5. /\ NL' = NL /\ n_foocvars' = n_foocvars /\ mcp_size' = mcp_size /\ \A n : vi_F(n)' = vi_F(n)
    BY <1>1, SameModel
  <2>6. Copied(m.ne + 1)'
    <3>1. ei_src' = m'.ne + 1
      BY <1>1, <2>1
    <3> QED BY <1>4, <3>1 DEF Copied
  <2>7. Built'
    BY <1>1, <2>3, <2>4, <2>5, <2>6 DEF Built
  <2> QED BY <1>1, <2>1, <2>7
<1> QED BY <1>1, <1>2, <1>5, <1>6

-----------------------------------------------------------------------------
(***************************************************************************)
(* The matching of the equations F.                                        *)
(***************************************************************************)

\* The variables and the places are in the MCP.
Ranges ==
  /\ \A n \in DOMAIN dual : dual[n] \in -1 .. n_primalvars + cons_size - 1
  /\ \A e \in 0 .. m.ne : rosetta_equs[e] \in -1 .. mcp_size - 1

\* The equations F have the variable that they are the derivative for.
Matched == \A n \in 0 .. n_foocvars - 1 : dual[n] = vi_F(n)

\* The places of the equations F are below those of the constraints.
LEMMA PlacesAre ==
  ASSUME ListInv, Full
  PROVE  /\ n_foocvars \in Nat /\ n_primalvars \in Nat /\ cons_size \in Nat
         /\ cons_size = Cardinality(Con) /\ mcp_size = n_foocvars + cons_size
         /\ Places = 0 .. n_foocvars + cons_size - 1
         /\ \A e \in Con \cup Vif : Rosetta(e) \in Places
         /\ \A e \in Con : Rosetta(e) >= n_foocvars
         /\ \A e \in Con \cup Vif : DualOf(e) \in 0 .. n_primalvars + cons_size - 1
         /\ \A n \in Places : n < n_foocvars \/ \E c \in Con : Rosetta(c) = n
         /\ \A n \in 0 .. n_foocvars - 1 : n \in Places /\ vi_F(n) \in 0 .. n_primalvars - 1
         /\ \A e \in Vif : Rosetta(e) < n_foocvars /\ DualOf(e) = vi_F(Rosetta(e))
<1>1. WellFormed(m) /\ SortedList /\ Counted
  BY DEF ListInv
<1>2. /\ n_foocvars \in Nat /\ n_primalvars \in Nat /\ cons_size \in Nat
      /\ cons_size = Cardinality(Con) /\ mcp_size = n_foocvars + cons_size
  BY <1>1, Blocks, Fooc
<1>3. Places = 0 .. n_foocvars + cons_size - 1
  BY <1>2 DEF Places
<1>4. /\ \A e \in Con : Rosetta(e) \in n_foocvars .. n_foocvars + cons_size - 1
      /\ \A e \in Con : DualOf(e) \in n_primalvars .. n_primalvars + cons_size - 1
      /\ \A e \in Vif : Rosetta(e) \in 0 .. n_foocvars - 1 /\ Rosetta(e) = ei_F(m.dual[e])
      /\ \A e \in Vif : DualOf(e) \in 0 .. n_primalvars - 1 /\ DualOf(e) = rosetta_vars(m.dual[e])
  BY <1>1, <1>2, RosettaPlace
<1>5. \A n \in n_foocvars .. n_foocvars + cons_size - 1 : \E c \in Con : Rosetta(c) = n
  BY <1>1, <1>2, RosettaOnto
<1>6. ASSUME NEW n \in 0 .. n_foocvars - 1 PROVE vi_F(n) \in 0 .. n_primalvars - 1
  <2>1. PICK v \in FoocVars : ei_F(v) = n
    BY <1>1, Renumbering
  <2> QED BY <1>1, <2>1, Renumbering, Fooc
<1>7. \A e \in Vif : DualOf(e) = vi_F(Rosetta(e))
  BY <1>1, <1>4, Fooc, Renumbering
<1>8. \A e \in Con \cup Vif : Rosetta(e) \in Places
  BY <1>2, <1>3, <1>4
<1>9. \A e \in Con \cup Vif : DualOf(e) \in 0 .. n_primalvars + cons_size - 1
  BY <1>2, <1>4
<1>10. \A n \in Places : n < n_foocvars \/ \E c \in Con : Rosetta(c) = n
  BY <1>2, <1>3, <1>5
<1>11. \A n \in 0 .. n_foocvars - 1 : n \in Places
  BY <1>2, <1>3
<1>12. (\A e \in Con : Rosetta(e) >= n_foocvars) /\ \A e \in Vif : Rosetta(e) < n_foocvars
  BY <1>2, <1>4
<1> QED BY <1>2, <1>3, <1>6, <1>7, <1>8, <1>9, <1>10, <1>11, <1>12

\* The copies are within the ranges.
LEMMA CopiedRanges ==
  ASSUME ListInv, Full, NEW x, Copied(x)
  PROVE  \A e \in 0 .. m.ne : rosetta_equs[e] \in -1 .. mcp_size - 1
<1>1. WellFormed(m)
  BY DEF ListInv
<1>2. \A e : Rosetta(e) \in -1 .. mcp_size - 1
  <2> SUFFICES ASSUME NEW e PROVE Rosetta(e) \in -1 .. mcp_size - 1
    OBVIOUS
  <2>1. CASE e \in Con \cup Vif
    BY <2>1, PlacesAre
  <2>2. CASE e \notin Con \cup Vif
    <3>1. Rosetta(e) = NA
      BY <1>1, <2>2, RosettaPlace
    <3> QED BY <3>1, PlacesAre DEF NA
  <2> QED BY <2>1, <2>2
<1>3. mcp_size \in Nat
  BY PlacesAre
<1> QED BY <1>2, <1>3 DEF Copied, NA

\* In the walk,
LEMMA WalkRanges ==
  ASSUME ListInv, Full, Walk
  PROVE  Ranges
<1>1. ASSUME NEW n \in DOMAIN dual PROVE dual[n] \in -1 .. n_primalvars + cons_size - 1
  <2>1. n \in Places
    BY DEF Walk, Copied
  <2>2. CASE dual[n] = NA
    BY <2>2, PlacesAre DEF NA
  <2>3. CASE dual[n] # NA
    <3>1. PICK e \in Con \cup Vif : e < ei_src /\ Rosetta(e) = n
      BY <2>1, <2>3 DEF Walk
    <3>2. dual[n] = DualOf(e)
      BY <3>1 DEF Walk, Copied
    <3> QED BY <3>2, PlacesAre
  <2> QED BY <2>2, <2>3
<1>2. \A e \in 0 .. m.ne : rosetta_equs[e] \in -1 .. mcp_size - 1
  BY CopiedRanges DEF Walk
<1> QED BY <1>1, <1>2 DEF Ranges

\* and behind it.
LEMMA BuiltRanges ==
  ASSUME ListInv, Full, Built
  PROVE  Ranges
<1>1. ASSUME NEW n \in DOMAIN dual PROVE dual[n] \in -1 .. n_primalvars + cons_size - 1
  <2>1. n \in Places
    BY DEF Built, Copied
  <2>2. CASE n < n_foocvars
    <3>1. n \in 0 .. n_foocvars - 1
      BY <2>1, <2>2, PlacesAre
    <3>2. dual[n] \in {NA, vi_F(n)} /\ vi_F(n) \in 0 .. n_primalvars - 1
      BY <3>1, PlacesAre DEF Built
    <3> QED BY <3>2, PlacesAre DEF NA
  <2>3. CASE ~(n < n_foocvars)
    <3>1. PICK c \in Con : Rosetta(c) = n
      BY <2>1, <2>3, PlacesAre
    <3>2. c < m.ne + 1
      <4>1. c \in 0 .. m.ne - 1 /\ m.ne \in Nat
        BY Roles DEF ListInv
      <4> QED BY <4>1
    <3>3. dual[n] = DualOf(c)
      BY <3>1, <3>2 DEF Built, Copied
    <3> QED BY <3>3, PlacesAre
  <2> QED BY <2>2, <2>3
<1>2. \A e \in 0 .. m.ne : rosetta_equs[e] \in -1 .. mcp_size - 1
  BY CopiedRanges DEF Built
<1> QED BY <1>1, <1>2 DEF Ranges

\* A step that only gives equations F the variable that they are the derivative for, and
\* replaces no copy.
MatchStep ==
  /\ m' = m /\ UNCHANGED fillVars /\ rosetta_equs' = rosetta_equs
  /\ ei_nl' = ei_nl /\ ei_lin' = ei_lin
  /\ DOMAIN dual' = Places /\ DOMAIN equs' = Places
  /\ \A n \in Places : dual'[n] = dual[n] \/ (n < n_foocvars /\ dual'[n] = vi_F(n))
  /\ \A e \in Con \cup Vif : equs'[Rosetta(e)] = equs[Rosetta(e)]

\* It leaves the MCP built.
LEMMA MatchStepKeeps ==
  ASSUME ListInv, Full, Built, MatchStep
  PROVE  Built' /\ Ranges'
<1>1. /\ Con' = Con /\ Vif' = Vif /\ Places' = Places /\ (\A e : Rosetta(e)' = Rosetta(e))
      /\ (\A e : DualOf(e)' = DualOf(e)) /\ (\A e : CopyOf(e)' = CopyOf(e)) /\ m' = m
      /\ NL' = NL /\ n_foocvars' = n_foocvars /\ n_primalvars' = n_primalvars
      /\ mcp_size' = mcp_size /\ cons_size' = cons_size /\ (\A n : vi_F(n)' = vi_F(n))
  BY SameModel DEF MatchStep
<1>2. ASSUME NEW e \in Con \cup Vif, e < m.ne + 1
      PROVE  equs'[Rosetta(e)] = CopyOf(e) /\ dual'[Rosetta(e)] = DualOf(e)
  <2>1. equs[Rosetta(e)] = CopyOf(e) /\ dual[Rosetta(e)] = DualOf(e) /\ Rosetta(e) \in Places
    BY <1>2, PlacesAre DEF Built, Copied
  <2>2. equs'[Rosetta(e)] = equs[Rosetta(e)]
    BY DEF MatchStep
  <2>3. CASE dual'[Rosetta(e)] = dual[Rosetta(e)]
    BY <2>1, <2>2, <2>3
  <2>4. CASE Rosetta(e) < n_foocvars /\ dual'[Rosetta(e)] = vi_F(Rosetta(e))
    <3>1. e \in Vif
      BY <2>1, <2>4, PlacesAre
    <3> QED BY <2>1, <2>2, <2>4, <3>1, PlacesAre
  <2> QED BY <2>1, <2>3, <2>4 DEF MatchStep
<1>3. Copied(m.ne + 1)'
  <2>1. rosetta_equs' = [e \in 0 .. m.ne |-> IF e < m.ne + 1 THEN Rosetta(e) ELSE NA]
    BY DEF MatchStep, Built, Copied
  <2>2. DOMAIN equs' = Places /\ DOMAIN dual' = Places
    BY DEF MatchStep
  <2>3. /\ DOMAIN equs' = Places' /\ DOMAIN dual' = Places'
        /\ \A e \in Con' \cup Vif' : e < m'.ne + 1 =>
              equs'[Rosetta(e)'] = CopyOf(e)' /\ dual'[Rosetta(e)'] = DualOf(e)'
        /\ rosetta_equs' = [e \in 0 .. m'.ne |-> IF e < m'.ne + 1 THEN Rosetta(e)' ELSE NA]
    BY <1>1, <1>2, <2>1, <2>2
  <2> QED BY <2>3 DEF Copied
<1>4. (\A n \in 0 .. n_foocvars - 1 : dual[n] \in {NA, vi_F(n)})'
  <2> SUFFICES ASSUME NEW n \in 0 .. n_foocvars - 1 PROVE dual'[n] \in {NA, vi_F(n)}
    BY <1>1
  <2>1. n \in Places /\ dual[n] \in {NA, vi_F(n)}
    BY PlacesAre DEF Built
  <2> QED BY <2>1 DEF MatchStep
<1>5. Built'
  BY <1>1, <1>3, <1>4 DEF Built, MatchStep
<1>6. Ranges
  BY BuiltRanges
<1>7. \A n \in Places : dual'[n] \in -1 .. n_primalvars + cons_size - 1
  <2> SUFFICES ASSUME NEW n \in Places PROVE dual'[n] \in -1 .. n_primalvars + cons_size - 1
    OBVIOUS
  <2>1. dual[n] \in -1 .. n_primalvars + cons_size - 1
    BY <1>6 DEF Ranges, Built, Copied
  <2>2. n < n_foocvars => vi_F(n) \in 0 .. n_primalvars - 1
    BY PlacesAre
  <2>3. CASE dual'[n] = dual[n]
    BY <2>1, <2>3
  <2>4. CASE n < n_foocvars /\ dual'[n] = vi_F(n)
    BY <2>2, <2>4, PlacesAre
  <2> QED BY <2>3, <2>4 DEF MatchStep
<1>8. Ranges'
  BY <1>1, <1>6, <1>7 DEF Ranges, MatchStep
<1> QED BY <1>5, <1>8

\* Some variables are matched with their equations.
LEMMA MatchedVars ==
  ASSUME ListInv, Full, Built, NEW G, G \subseteq FoocVars,
         dual' = [e \in DOMAIN dual |-> IF \E v \in G : ei_F(v) = e
                     THEN rosetta_vars(CHOOSE v \in G : ei_F(v) = e) ELSE dual[e]]
  PROVE  /\ DOMAIN dual' = Places
         /\ \A n \in Places : dual'[n] = dual[n] \/ (n < n_foocvars /\ dual'[n] = vi_F(n))
<1>1. WellFormed(m) /\ DOMAIN dual = Places
  BY DEF ListInv, Built, Copied
<1>2. ASSUME NEW n \in Places, \E v \in G : ei_F(v) = n
      PROVE  n < n_foocvars /\ dual'[n] = vi_F(n)
  <2> DEFINE v == CHOOSE v \in G : ei_F(v) = n
  <2>1. v \in FoocVars /\ ei_F(v) = n
    BY <1>2
  <2>2. dual'[n] = rosetta_vars(v)
    BY <1>1, <1>2
  <2> HIDE DEF v
  <2>3. n \in 0 .. n_foocvars - 1 /\ vi_F(n) = rosetta_vars(v)
    BY <1>1, <2>1, Renumbering
  <2>4. n_foocvars \in Nat
    BY PlacesAre
  <2> QED BY <2>2, <2>3, <2>4
<1> QED BY <1>1, <1>2

\* The zero functions: their places have no VI function.
LEMMA ZerosMatch ==
  ASSUME ListInv, Full, Built, InjectZerofuncs
  PROVE  MatchStep /\ pc' \in {"lists", "error"}
<1>1. WellFormed(m) /\ DOMAIN dual = Places /\ DOMAIN equs = Places
  BY DEF ListInv, Built, Copied
<1>2. ZeroVars \subseteq FoocVars /\ ZeroVars \subseteq m.zero
  <2>1. ZeroVars \subseteq m.zero \cap m.live
    BY DEF ZeroVars
  <2> QED BY <1>1, <2>1, Fooc
<1>3. \A v \in ZeroVars : ei_F(v) # NA
  BY <1>1, <1>2, Renumbering DEF NA
<1>4. pc' \in {"lists", "error"}
  BY <1>3 DEF InjectZerofuncs
<1>5. /\ DOMAIN dual' = Places
      /\ \A n \in Places : dual'[n] = dual[n] \/ (n < n_foocvars /\ dual'[n] = vi_F(n))
  BY <1>2, MatchedVars DEF InjectZerofuncs
<1>6. ASSUME NEW e \in Con \cup Vif PROVE ~\E v \in ZeroVars : ei_F(v) = Rosetta(e)
  <2> SUFFICES ASSUME NEW v \in ZeroVars, ei_F(v) = Rosetta(e) PROVE FALSE
    OBVIOUS
  <2>1. ei_F(v) \in 0 .. n_foocvars - 1 /\ v \in FoocVars /\ v \in m.zero
    BY <1>1, <1>2, Renumbering
  <2>2. e \in Vif
    BY <2>1, PlacesAre
  <2>3. m.dual[e] \in FoocVars /\ Rosetta(e) = ei_F(m.dual[e])
    BY <1>1, <2>2, Fooc, RosettaPlace
  <2>4. v = m.dual[e]
    BY <1>1, <2>1, <2>3, Renumbering
  <2>5. m.dual[e] \notin m.zero
    BY <1>1, <2>2 DEF WellFormed, Vif, Kept
  <2> QED BY <2>1, <2>4, <2>5
<1>7. DOMAIN equs' = Places /\ \A e \in Con \cup Vif : equs'[Rosetta(e)] = equs[Rosetta(e)]
  BY <1>1, <1>6, PlacesAre DEF InjectZerofuncs
<1>8. m' = m /\ UNCHANGED fillVars /\ rosetta_equs' = rosetta_equs /\ ei_nl' = ei_nl /\ ei_lin' = ei_lin
  BY DEF InjectZerofuncs, walkVars
<1> QED BY <1>4, <1>5, <1>7, <1>8 DEF MatchStep

\* The equations of an optimisation problem: those of its own variables.
LEMMA PrimalOptMatch ==
  ASSUME ListInv, Full, Built, PrimalOpt
  PROVE  MatchStep /\ pc' \in {"primal", "error"}
<1>1. /\ WellFormed(m) /\ DOMAIN dual = Places /\ DOMAIN equs = Places /\ pc = "primal" /\ i \in Mps
      /\ m' = m /\ UNCHANGED fillVars /\ rosetta_equs' = rosetta_equs /\ ei_nl' = ei_nl
      /\ ei_lin' = ei_lin /\ equs' = equs
  BY DEF ListInv, Built, Copied, PrimalOpt, walkVars
<1>2. CASE ObjequOf(i) = NA
  <2> DEFINE v == m.objvar[Mp(i)]
  <2>1. Constant(v, var_in_mp(i), cons[i])
    BY <1>2 DEF PrimalOpt
  <2>2. dual' = [dual EXCEPT ![ei_F(v)] = rosetta_vars(v)] /\ pc' \in {"primal", "error"}
    BY <1>1, <2>1 DEF Constant
  <2>3. DOMAIN dual' = Places
    BY <1>1, <2>2
  <2>4. ASSUME NEW n \in Places PROVE dual'[n] = dual[n] \/ (n < n_foocvars /\ dual'[n] = vi_F(n))
    <3>1. CASE v \in FoocVars /\ n = ei_F(v)
      <4>1. n \in 0 .. n_foocvars - 1 /\ vi_F(n) = rosetta_vars(v) /\ n_foocvars \in Nat
        BY <1>1, <3>1, Renumbering, Fooc
      <4>2. dual'[n] = rosetta_vars(v)
        BY <1>1, <2>2, <3>1
      <4> QED BY <4>1, <4>2
    <3>2. CASE ~(v \in FoocVars /\ n = ei_F(v))
      <4>1. v \notin FoocVars => ei_F(v) = NA
        BY <1>1, Renumbering
      <4>2. n # NA
        BY PlacesAre DEF NA
      <4> QED BY <1>1, <2>2, <3>2, <4>1, <4>2
    <3> QED BY <3>1, <3>2
  <2> QED BY <1>1, <2>2, <2>3, <2>4 DEF MatchStep
<1>3. CASE ObjequOf(i) # NA
  <2> DEFINE o == ObjequOf(i)  G == m.vars[o] \cap var_in_mp(i)
  <2>1. Gradient(o, var_in_mp(i), cons[i])
    BY <1>3 DEF PrimalOpt
  <2>2. G \subseteq FoocVars
    BY <1>1, Fooc DEF var_in_mp
  <2>3. pc' \in {"primal", "error"}
    BY <1>1, <2>1 DEF Gradient
  <2>4. dual' = [e \in DOMAIN dual |-> IF \E v \in G : ei_F(v) = e
                     THEN rosetta_vars(CHOOSE v \in G : ei_F(v) = e) ELSE dual[e]]
    BY <2>1 DEF Gradient
  <2> HIDE DEF G
  <2>5. /\ DOMAIN dual' = Places
        /\ \A n \in Places : dual'[n] = dual[n] \/ (n < n_foocvars /\ dual'[n] = vi_F(n))
    BY <2>2, <2>4, MatchedVars
  <2> QED BY <1>1, <2>3, <2>5 DEF MatchStep
<1> QED BY <1>2, <1>3

\* Without EMPDAG: those of all variables.
LEMMA PrimalNoHopMatch ==
  ASSUME ListInv, Full, Built, PrimalNoHop
  PROVE  MatchStep /\ pc' \in {"primal", "error"}
<1>1. /\ WellFormed(m) /\ DOMAIN dual = Places /\ DOMAIN equs = Places /\ pc = "primal" /\ m.mps = <<>>
      /\ m' = m /\ UNCHANGED fillVars /\ rosetta_equs' = rosetta_equs /\ ei_nl' = ei_nl
      /\ ei_lin' = ei_lin /\ equs' = equs
  BY DEF ListInv, Built, Copied, PrimalNoHop, walkVars
<1>2. CASE objequs # <<>>
  <2> DEFINE o == objequs[1]  G == m.vars[o] \cap m.live
  <2>1. PICK C : Gradient(o, m.live, C)
    BY <1>2 DEF PrimalNoHop
  <2>2. G \subseteq FoocVars
    BY <1>1, Fooc
  <2>3. pc' \in {"primal", "error"}
    BY <1>1, <2>1 DEF Gradient
  <2>4. dual' = [e \in DOMAIN dual |-> IF \E v \in G : ei_F(v) = e
                     THEN rosetta_vars(CHOOSE v \in G : ei_F(v) = e) ELSE dual[e]]
    BY <2>1 DEF Gradient
  <2> HIDE DEF G
  <2>5. /\ DOMAIN dual' = Places
        /\ \A n \in Places : dual'[n] = dual[n] \/ (n < n_foocvars /\ dual'[n] = vi_F(n))
    BY <2>2, <2>4, MatchedVars
  <2> QED BY <1>1, <2>3, <2>5 DEF MatchStep
<1>3. CASE objequs = <<>>
  <2>1. dual' = dual /\ pc' \in {"primal", "error"}
    BY <1>1, <1>3 DEF PrimalNoHop
  <2> QED BY <1>1, <2>1 DEF MatchStep
<1> QED BY <1>2, <1>3

\* The rest, in the end: then all are matched.
LEMMA MatchingMatches ==
  ASSUME ListInv, Full, Built, Matching
  PROVE  MatchStep /\ Matched' /\ pc' \in {"done", "error"}
<1>1. /\ DOMAIN dual = Places /\ DOMAIN equs = Places
      /\ m' = m /\ UNCHANGED fillVars /\ rosetta_equs' = rosetta_equs /\ ei_nl' = ei_nl
      /\ ei_lin' = ei_lin /\ equs' = equs
      /\ dual' = [ei \in DOMAIN dual |-> IF ei \in Unmatched THEN vi_F(ei) ELSE dual[ei]]
  BY DEF Built, Copied, Matching, walkVars
<1>2. pc' \in {"done", "error"}
  BY DEF Matching
<1>3. \A n \in Unmatched : n < n_foocvars
  BY PlacesAre DEF Unmatched
<1>4. MatchStep
  BY <1>1, <1>3 DEF MatchStep
<1>5. \A n \in 0 .. n_foocvars - 1 : dual'[n] = vi_F(n)
  <2> SUFFICES ASSUME NEW n \in 0 .. n_foocvars - 1 PROVE dual'[n] = vi_F(n)
    OBVIOUS
  <2>1. n \in Places /\ dual[n] \in {NA, vi_F(n)}
    BY PlacesAre DEF Built
  <2> QED BY <1>1, <2>1 DEF Unmatched
<1>6. n_foocvars' = n_foocvars /\ \A n : vi_F(n)' = vi_F(n)
  BY <1>1, SameModel
<1> QED BY <1>2, <1>4, <1>5, <1>6 DEF Matched

-----------------------------------------------------------------------------
(***************************************************************************)
(* The invariant of the assembly.                                          *)
(***************************************************************************)

\* Nothing is in the MCP yet.
Early == equs = <<>> /\ dual = <<>> /\ rosetta_equs = [e \in 0 .. m.ne |-> NA]

Phases == {"fill", "layout", "inject", "zero", "lists", "primal", "done", "error"}

SysInv ==
  /\ ListInv
  /\ pc \in Phases /\ i \in Nat /\ ei_src \in Nat /\ i_objequs \in Nat /\ n_mappings \in Nat
  /\ pc \in {"fill", "layout"} => Early
  /\ pc = "inject" => Walk
  /\ pc \in {"zero", "lists", "primal", "done"} => Built
  /\ pc = "done" => Matched
  /\ pc = "error" => Early \/ Ranges

\* The list is empty in the beginning.
LEMMA InitInv ==
  ASSUME Init PROVE SysInv
<1>1. WellFormed(m)
  BY FamiliesAssumption DEF Init
<1>2. SortedList /\ Listed = {}
  BY DEF Init, SortedList, Listed
<1>3. m.mps # <<>> => Maps
  BY DEF Init, Maps, Mps
<1>4. Counted
  BY <1>1, RoleCounts DEF Init, Counted
<1>5. FillInv
  <2>1. \A k \in Mps : k >= 1
    BY <1>1, MpsIs
  <2>2. Listed = {m.objequ[Mp(k)] : k \in {j \in Mps : j < i}} \ {NA}
    BY <1>1, <1>2, <2>1, MpsIs DEF Init
  <2>3. n_vifuncs = Cardinality(ViDone(i))
    BY <1>1, ViDoneBound, FS_EmptySet DEF Init
  <2>4. i \in 1 .. Len(m.mps) + 1 /\ \A k \in Mps : mp2objequ[k] = NA
    BY <1>1, MpsIs DEF Init, Mps
  <2> QED BY <2>2, <2>3, <2>4 DEF FillInv
<1>6. ListInv
  BY <1>1, <1>2, <1>3, <1>4, <1>5 DEF ListInv, Init, Assembly
<1> QED BY <1>6 DEF SysInv, Init, Early, Phases

\* The loop over the MPs does not touch the MCP.
LEMMA FillKeeps ==
  ASSUME SysInv, FillOpt \/ FillVi \/ FillOther \/ FillNoHop
  PROVE  SysInv'
<1>1. /\ pc = "fill" /\ ListInv /\ Early /\ m' = m /\ UNCHANGED walkVars /\ UNCHANGED mcpVars
      /\ pc' \in {"fill", "layout", "error"} /\ i' \in Nat
  BY DEF SysInv, FillOpt, FillVi, FillOther, FillNoHop, Stop
<1>2. Early'
  BY <1>1 DEF Early, walkVars, mcpVars
<1>3. ASSUME FillOther PROVE ListInv'
  BY <1>1, <1>3, ListFrame DEF FillOther, Stop, Assembly
<1>4. ListInv'
  BY <1>1, <1>3, FillOptKeeps, FillViKeeps, FillNoHopKeeps
<1>5. ei_src' \in Nat /\ i_objequs' \in Nat /\ n_mappings' \in Nat
  BY <1>1 DEF SysInv, walkVars
<1> QED BY <1>1, <1>2, <1>4, <1>5 DEF SysInv, Phases

\* The walk starts before the first equation.
LEMMA LayoutKeeps ==
  ASSUME SysInv, Layout
  PROVE  SysInv'
<1>1. /\ ListInv /\ Early /\ Full /\ m' = m /\ UNCHANGED fillVars /\ i' \in Nat
      /\ WellFormed(m) /\ SortedList /\ Counted
  BY LayoutFull DEF SysInv, Layout, ListInv
<1>2. ~(cons_size < n_lincons)
  <2>1. n_lincons <= cons_size /\ n_lincons \in Nat /\ cons_size \in Nat
    BY <1>1, Blocks, RoleCounts
  <2> QED BY <2>1
<1>3. /\ pc' = "inject" /\ ei_src' = 0 /\ i_objequs' = 1 /\ n_mappings' = 0
      /\ ei_nl' = n_foocvars /\ ei_lin' = mcp_size - n_lincons /\ vi_mult' = n_primalvars
      /\ equs' = [e \in 0 .. mcp_size - 1 |-> Empty] /\ dual' = [e \in 0 .. mcp_size - 1 |-> NA]
      /\ rosetta_equs' = rosetta_equs
  BY <1>2 DEF Layout
<1>4. ListInv'
  BY <1>1, <1>3, ListFrame
<1>5. /\ Obj' = Obj /\ Vif' = Vif /\ Con' = Con /\ NL' = NL /\ LIN' = LIN
      /\ n_foocvars' = n_foocvars /\ n_primalvars' = n_primalvars /\ Places' = Places
      /\ (\A e : Rosetta(e)' = Rosetta(e))
  BY <1>1, SameModel
<1>6. /\ Before(NL, 0) = 0 /\ Before(LIN, 0) = 0 /\ Before(Con, 0) = 0 /\ Before(Vif, 0) = 0
      /\ m.ne \in Nat /\ n_foocvars \in Nat /\ n_primalvars \in Nat /\ Cardinality(NL) \in Nat
      /\ Cardinality(LIN) \in Nat /\ mcp_size - n_lincons = n_foocvars + Cardinality(NL)
  <2>1. /\ m.ne \in Nat /\ NL \subseteq 0 .. m.ne - 1 /\ LIN \subseteq 0 .. m.ne - 1
        /\ Vif \subseteq 0 .. m.ne - 1 /\ Con \subseteq 0 .. m.ne - 1
    BY <1>1, Roles
  <2>2. Before(NL, 0) = 0 /\ Before(LIN, 0) = 0 /\ Before(Con, 0) = 0 /\ Before(Vif, 0) = 0
    BY <2>1, BeforeEnds
  <2>3. /\ n_foocvars \in Nat /\ n_primalvars \in Nat /\ Cardinality(NL) \in Nat
        /\ Cardinality(LIN) \in Nat
    BY <1>1, Fooc, RoleCounts
  <2>4. mcp_size - n_lincons = n_foocvars + Cardinality(NL)
    <3>1. ei_lincons_start = n_foocvars + Cardinality(NL)
      BY <1>1, Blocks
    <3> QED BY <3>1 DEF ei_lincons_start
  <2> QED BY <2>1, <2>2, <2>3, <2>4
<1>7. /\ (ei_nl = n_foocvars + Before(NL, ei_src))'
      /\ (ei_lin = n_foocvars + Cardinality(NL) + Before(LIN, ei_src))'
      /\ (vi_mult = n_primalvars + Before(Con, ei_src))'
      /\ (n_mappings = Before(Vif, ei_src))'
  <2>1. ei_nl' = n_foocvars + Before(NL, 0) /\ vi_mult' = n_primalvars + Before(Con, 0)
        /\ n_mappings' = Before(Vif, 0)
    BY <1>3, <1>6
  <2>2. ei_lin' = n_foocvars + Cardinality(NL) + Before(LIN, 0)
    BY <1>3, <1>6
  <2> QED BY <1>3, <1>5, <2>1, <2>2
<1>8. /\ (ei_src \in Nat /\ i_objequs \in 1 .. Len(objequs) + 1 /\ ei_src <= ei_src_end)'
      /\ (\A p \in DOMAIN objequs : p < i_objequs => objequs[p] < ei_src)'
  <2>1. Len(objequs) \in Nat /\ DOMAIN objequs = 1 .. Len(objequs) /\ objequs' = objequs
    BY <1>1 DEF SortedList, fillVars
  <2>2. \A p \in DOMAIN objequs : objequs[p] >= 0
    <3>1. \A e \in Obj : e \in 0 .. m.ne - 1
      BY <1>1, Roles
    <3> QED BY <1>1, <1>6, <3>1 DEF SortedList
  <2>3. ei_src_end' = IF 1 <= Len(objequs) THEN objequs[1] ELSE m.ne
    BY <1>1, <1>3, <2>1 DEF ei_src_end
  <2>4. ei_src_end' >= 0
    BY <1>6, <2>1, <2>2, <2>3
  <2>5. \A p \in DOMAIN objequs : ~(p < 1)
    BY <2>1
  <2> QED BY <1>3, <2>1, <2>4, <2>5
<1>9. Copied(ei_src)'
  <2>1. DOMAIN equs' = Places /\ DOMAIN dual' = Places
    BY <1>3 DEF Places
  <2>2. \A e \in 0 .. m.ne : ~(e < 0)
    BY <1>6
  <2>3. rosetta_equs' = [e \in 0 .. m.ne |-> IF e < 0 THEN Rosetta(e) ELSE NA]
    BY <1>1, <1>3, <2>2 DEF Early
  <2>4. \A e \in Con \cup Vif : ~(e < 0)
    <3>1. \A e \in Con \cup Vif : e \in 0 .. m.ne - 1
      BY <1>1, Roles
    <3> QED BY <1>6, <3>1
  <2>5. /\ DOMAIN equs' = Places' /\ DOMAIN dual' = Places'
        /\ \A e \in Con' \cup Vif' : ~(e < ei_src')
        /\ rosetta_equs' = [e \in 0 .. m'.ne |-> IF e < ei_src' THEN Rosetta(e)' ELSE NA]
    BY <1>1, <1>3, <1>5, <2>1, <2>3, <2>4
  <2> QED BY <2>5 DEF Copied
<1>10. (\A n \in Places : dual[n] # NA => \E e \in Con \cup Vif : e < ei_src /\ Rosetta(e) = n)'
  BY <1>3, <1>5 DEF Places
<1>11. Walk'
  BY <1>7, <1>8, <1>9, <1>10 DEF Walk
<1> QED BY <1>1, <1>3, <1>4, <1>11 DEF SysInv, Phases

\* The walk goes on, or is over.
LEMMA InjectKeeps ==
  ASSUME SysInv, SkipEqu \/ InjectVifunc \/ InjectCons \/ InjectOther \/ EndInterval
  PROVE  SysInv'
<1>1. /\ pc = "inject" /\ ListInv /\ Full /\ Walk /\ m' = m /\ UNCHANGED fillVars /\ i' \in Nat
      /\ ei_src \in Nat /\ i_objequs \in Nat /\ n_mappings \in Nat
  BY DEF SysInv, ListInv, Assembly, SkipEqu, InjectVifunc, InjectCons, InjectOther, EndInterval,
         InInterval, Stop
<1>2. ASSUME pc' \in {"inject", "zero", "error"} PROVE ListInv'
  BY <1>1, <1>2, ListFrame
<1>3. CASE SkipEqu \/ InjectVifunc \/ InjectCons
  <2>1. Walk' /\ pc' = "inject"
    <3>1. SkipEqu => Walk' /\ pc' = pc
      BY <1>1, SkipEquKeeps DEF SkipEqu
    <3> QED BY <1>1, <1>3, <3>1, InjectVifuncKeeps, InjectConsKeeps
  <2>2. ei_src' \in Nat /\ i_objequs' \in Nat /\ n_mappings' \in Nat
    <3>1. ei_src' \in {ei_src, ei_src + 1} /\ n_mappings' \in {n_mappings, n_mappings + 1}
          /\ i_objequs' = i_objequs
      BY <1>3 DEF SkipEqu, InjectVifunc, InjectCons
    <3> QED BY <1>1, <3>1
  <2> QED BY <1>1, <1>2, <2>1, <2>2 DEF SysInv, Phases
<1>4. CASE InjectOther
  <2>1. pc' = "error" /\ rosetta_equs' = rosetta_equs /\ dual' = dual
        /\ ei_src' = ei_src /\ i_objequs' = i_objequs /\ n_mappings' = n_mappings
    BY <1>4 DEF InjectOther, Stop, walkVars, mcpVars
  <2>2. Ranges'
    <3>1. n_primalvars' = n_primalvars /\ cons_size' = cons_size /\ mcp_size' = mcp_size
      BY <1>1, SameModel
    <3> QED BY <1>1, <2>1, <3>1, WalkRanges DEF Ranges
  <2> QED BY <1>1, <1>2, <2>1, <2>2 DEF SysInv, Phases
<1>5. CASE EndInterval
  <2>1. /\ pc' = "inject" => Walk'
        /\ pc' = "zero" => Built'
        /\ pc' \in {"inject", "zero", "error"}
        /\ ei_src' = ei_src + 1 /\ i_objequs' = i_objequs + 1 /\ n_mappings' = n_mappings
        /\ rosetta_equs' = [rosetta_equs EXCEPT ![ei_src] = NA]
    BY <1>1, <1>5, EndIntervalKeeps
  <2>2. pc' = "error" => Ranges'
    <3>1. /\ n_primalvars' = n_primalvars /\ cons_size' = cons_size /\ mcp_size' = mcp_size
          /\ dual' = dual
      BY <1>1, <1>5, SameModel DEF EndInterval, mcpVars
    <3>2. Ranges /\ mcp_size \in Nat
      BY <1>1, WalkRanges, PlacesAre
    <3>3. rosetta_equs = [e \in 0 .. m.ne |-> IF e < ei_src THEN Rosetta(e) ELSE NA]
      BY <1>1 DEF Walk, Copied
    <3>4. pc' = "error" => \A e \in 0 .. m.ne : rosetta_equs'[e] \in -1 .. mcp_size - 1
      <4>1. \A e \in 0 .. m.ne : rosetta_equs'[e] = rosetta_equs[e] \/ rosetta_equs'[e] = -1
        BY <2>1, <3>3 DEF NA
      <4>2. -1 \in -1 .. mcp_size - 1
        BY <3>2
      <4> QED BY <3>2, <4>1, <4>2 DEF Ranges
    <3> QED BY <1>1, <3>1, <3>2, <3>4 DEF Ranges
  <2>3. ei_src' \in Nat /\ i_objequs' \in Nat /\ n_mappings' \in Nat
    BY <1>1, <2>1
  <2> QED BY <1>1, <1>2, <2>1, <2>2, <2>3 DEF SysInv, Phases
<1> QED BY <1>3, <1>4, <1>5

\* The rest of the computation gives the equations F their variables.
LEMMA MatchKeeps ==
  ASSUME SysInv,
         InjectZerofuncs \/ ListMp \/ ListsEnd \/ PrimalOpt \/ PrimalVi \/ PrimalNoHop \/ Matching
  PROVE  SysInv'
<1>1. /\ pc \in {"zero", "lists", "primal"} /\ ListInv /\ Full /\ Built /\ m' = m /\ UNCHANGED fillVars
      /\ UNCHANGED walkVars /\ i' \in Nat
  BY DEF SysInv, ListInv, Assembly, InjectZerofuncs, ListMp, ListsEnd, PrimalOpt, PrimalVi,
         PrimalNoHop, Matching, fillVars, walkVars
<1>2. /\ MatchStep /\ pc' \in {"lists", "primal", "done", "error"}
      /\ pc' = "done" => Matched'
  <2>1. CASE InjectZerofuncs
    BY <1>1, <2>1, ZerosMatch
  <2>2. CASE ListMp \/ ListsEnd \/ PrimalVi
    <3>1. equs' = equs /\ dual' = dual /\ pc' \in {"lists", "primal"}
      BY <2>2 DEF ListMp, ListsEnd, PrimalVi, mcpVars
    <3> QED BY <1>1, <3>1 DEF MatchStep, Built, Copied, walkVars
  <2>3. CASE PrimalOpt
    BY <1>1, <2>3, PrimalOptMatch
  <2>4. CASE PrimalNoHop
    BY <1>1, <2>4, PrimalNoHopMatch
  <2>5. CASE Matching
    BY <1>1, <2>5, MatchingMatches
  <2> QED BY <2>1, <2>2, <2>3, <2>4, <2>5
<1>3. Built' /\ Ranges'
  BY <1>1, <1>2, MatchStepKeeps
<1>4. ListInv'
  BY <1>1, <1>2, ListFrame
<1>5. ei_src' \in Nat /\ i_objequs' \in Nat /\ n_mappings' \in Nat
  BY <1>1 DEF SysInv, walkVars
<1> QED BY <1>1, <1>2, <1>3, <1>4, <1>5 DEF SysInv, Phases

\* A step that changes nothing.
LEMMA StutterKeeps ==
  ASSUME SysInv, UNCHANGED vars
  PROVE  SysInv'
<1>1. /\ m' = m /\ UNCHANGED fillVars /\ pc' = pc /\ i' = i /\ ei_src' = ei_src /\ i_objequs' = i_objequs
      /\ n_mappings' = n_mappings /\ equs' = equs /\ dual' = dual /\ rosetta_equs' = rosetta_equs
      /\ ei_nl' = ei_nl /\ ei_lin' = ei_lin /\ vi_mult' = vi_mult
  BY DEF vars, fillVars
<1>2. /\ Obj' = Obj /\ Vif' = Vif /\ Con' = Con /\ NL' = NL /\ LIN' = LIN /\ Mps' = Mps
      /\ n_foocvars' = n_foocvars /\ n_primalvars' = n_primalvars
      /\ cons_size' = cons_size /\ mcp_size' = mcp_size /\ Places' = Places
      /\ (\A n : vi_F(n)' = vi_F(n)) /\ (\A e : Rosetta(e)' = Rosetta(e))
      /\ (\A e : DualOf(e)' = DualOf(e)) /\ (\A e : CopyOf(e)' = CopyOf(e)) /\ (\A k : Mp(k)' = Mp(k))
  BY <1>1, SameModel
<1>3. /\ WellFormed(m)' = WellFormed(m) /\ SortedList' = SortedList /\ Maps' = Maps
      /\ Counted' = Counted /\ Listed' = Listed
      /\ \A j : ViDone(j)' = ViDone(j)
  BY <1>1, <1>2 DEF SortedList, Maps, Counted, Listed, ViDone, fillVars
<1>4. FillInv' = FillInv /\ Full' = Full
  BY <1>1, <1>2, <1>3 DEF FillInv, Full, fillVars
<1>5. ListInv'
  BY <1>1, <1>3, <1>4 DEF SysInv, ListInv
<1>6. \A x : Copied(x)' = Copied(x)
  BY <1>1, <1>2 DEF Copied
<1>7. Walk' = Walk
  <2>1. Copied(ei_src)' = Copied(ei_src)
    BY <1>1, <1>2 DEF Copied
  <2>2. ei_src_end' = ei_src_end /\ objequs' = objequs
    BY <1>1 DEF ei_src_end, fillVars
  <2> QED BY <1>1, <1>2, <2>1, <2>2 DEF Walk
<1>8. Built' = Built
  <2>1. Copied(m.ne + 1)' = Copied(m.ne + 1)
    BY <1>1, <1>2 DEF Copied
  <2> QED BY <1>1, <1>2, <2>1 DEF Built
<1>9. Matched' = Matched /\ Ranges' = Ranges /\ Early' = Early
  BY <1>1, <1>2 DEF Matched, Ranges, Early
<1> QED BY <1>1, <1>5, <1>7, <1>8, <1>9 DEF SysInv

\* The computation never leaves the invariant.
THEOREM SysInvCorrect == Spec => []SysInv
<1>1. Init => SysInv
  BY InitInv
<1>2. SysInv /\ [Next]_vars => SysInv'
  BY FillKeeps, LayoutKeeps, InjectKeeps, MatchKeeps, StutterKeeps DEF Next
<1> QED BY <1>1, <1>2, PTL DEF Spec

\* The blocks and the types of the state, from the invariant.
LEMMA TypesAndBlocks ==
  ASSUME SysInv
  PROVE  TypeOK /\ BlocksFit
<1>1. ListInv /\ WellFormed(m) /\ SortedList /\ Counted /\ (pc \in Assembly => Full)
  BY DEF SysInv, ListInv
<1>2. Ranges
  <2>1. CASE Early
    <3>1. mcp_size \in Nat
      BY <1>1, Sizes
    <3> QED BY <2>1, <3>1 DEF Early, Ranges, NA
  <2>2. CASE pc = "inject"
    BY <1>1, <2>2, WalkRanges DEF SysInv, Assembly
  <2>3. CASE pc \in {"zero", "lists", "primal", "done"}
    BY <1>1, <2>3, BuiltRanges DEF SysInv, Assembly
  <2> QED BY <2>1, <2>2, <2>3 DEF SysInv, Phases
<1>3. objequs \in Seq(0 .. m.ne - 1)
  <2>1. Obj \subseteq 0 .. m.ne - 1
    BY <1>1, Roles
  <2>2. Len(objequs) \in Nat /\ objequs \in [1 .. Len(objequs) -> Obj]
    BY <1>1 DEF SortedList
  <2> DEFINE D == 0 .. m.ne - 1
  <2>3. objequs \in [1 .. Len(objequs) -> D]
    BY <2>1, <2>2
  <2> HIDE DEF D
  <2>4. objequs \in Seq(D)
    BY <2>2, <2>3
  <2> QED BY <2>4 DEF D
<1>4. n_vifuncs \in Nat /\ n_vizerofuncs \in Nat
  BY <1>1, RoleCounts DEF Counted
<1>5. pc \in {"fill", "layout", "inject", "zero", "lists", "primal"} \cup Ended /\ pc # "outside"
  BY DEF SysInv, Phases, Ended
<1>6. TypeOK
  BY <1>2, <1>3, <1>4, <1>5 DEF TypeOK, SysInv, Ranges
<1>7. ASSUME pc \in {"inject", "zero", "lists", "primal", "done"}
      PROVE  ei_nl <= ei_lincons_start /\ ei_lin <= mcp_size
  <2>1. /\ n_foocvars \in Nat /\ Cardinality(NL) \in Nat /\ Cardinality(LIN) \in Nat
        /\ ei_lincons_start = n_foocvars + Cardinality(NL)
        /\ mcp_size = n_foocvars + Cardinality(NL) + Cardinality(LIN)
    BY <1>1, <1>7, Fooc, RoleCounts, Blocks DEF Assembly
  <2>2. CASE pc = "inject"
    <3>1. /\ ei_nl = n_foocvars + Before(NL, ei_src)
          /\ ei_lin = n_foocvars + Cardinality(NL) + Before(LIN, ei_src) /\ ei_src \in Int
      BY <2>2 DEF SysInv, Walk
    <3>2. /\ Before(NL, ei_src) \in Nat /\ Before(NL, ei_src) <= Cardinality(NL)
          /\ Before(LIN, ei_src) \in Nat /\ Before(LIN, ei_src) <= Cardinality(LIN)
      BY <1>1, <3>1, RoleCounts, BeforeType
    <3> QED BY <2>1, <3>1, <3>2
  <2>3. CASE pc # "inject"
    BY <1>7, <2>1, <2>3 DEF SysInv, Built
  <2> QED BY <2>2, <2>3
<1>8. BlocksFit
  BY <1>5, <1>7 DEF BlocksFit
<1> QED BY <1>6, <1>8

\* Every equation is where it belongs.
LEMMA PlacesExact ==
  ASSUME SysInv
  PROVE  EquationsPlaced
<1> SUFFICES ASSUME pc \in {"lists", "primal", "done"} PROVE EquationsPlaced
  BY DEF EquationsPlaced
<1>1. ListInv /\ WellFormed(m) /\ SortedList /\ Counted /\ Full /\ Built
  BY DEF SysInv, ListInv, Assembly
<1>2. /\ m.ne \in Nat
      /\ \A e \in Con \cup Vif : e \in 0 .. m.ne /\ e < m.ne + 1
      /\ \A e \in 0 .. m.ne : e < m.ne + 1
  <2>1. (\A e \in Con \cup Vif : e \in 0 .. m.ne - 1) /\ m.ne \in Nat
    BY <1>1, Roles
  <2> QED BY <2>1
<1>3. /\ \A e \in 0 .. m.ne : rosetta_equs[e] = Rosetta(e)
      /\ \A e \in Con \cup Vif : /\ equs[Rosetta(e)] = CopyOf(e) /\ dual[Rosetta(e)] = DualOf(e)
                                 /\ rosetta_equs[e] = Rosetta(e)
  BY <1>1, <1>2 DEF Built, Copied
<1>4. /\ ei_lincons_start = n_foocvars + Cardinality(NL)
      /\ mcp_size = n_foocvars + Cardinality(Con)
      /\ n_foocvars \in Nat /\ Cardinality(Con) \in Nat /\ Cardinality(NL) \in Nat
  BY <1>1, Blocks, Fooc, RoleCounts
<1>5. ASSUME NEW e \in Con
      PROVE  /\ rosetta_equs[e] \in (IF e \in m.nl THEN n_foocvars .. ei_lincons_start - 1
                                                   ELSE ei_lincons_start .. mcp_size - 1)
             /\ equs[rosetta_equs[e]] = [kind |-> "cons", src |-> e]
  <2>1. (IF e \in m.nl THEN e \in NL ELSE e \in LIN) /\ CopyOf(e) = [kind |-> "cons", src |-> e]
    BY DEF NL, LIN, CopyOf
  <2>2. /\ e \in NL => Rosetta(e) \in n_foocvars .. ei_lincons_start - 1
        /\ e \in LIN => Rosetta(e) \in ei_lincons_start .. mcp_size - 1
    BY <1>1, <1>4, RosettaPlace
  <2>3. rosetta_equs[e] = Rosetta(e) /\ equs[Rosetta(e)] = CopyOf(e)
    BY <1>3
  <2> QED BY <2>1, <2>2, <2>3
<1>6. ASSUME NEW n \in n_foocvars .. mcp_size - 1 PROVE equs[n].kind = "cons"
  <2>1. PICK c \in Con : Rosetta(c) = n
    <3>1. n \in n_foocvars .. n_foocvars + Cardinality(Con) - 1
      BY <1>4
    <3> QED BY <1>1, <3>1, RosettaOnto
  <2>2. equs[n] = CopyOf(c)
    BY <1>3, <2>1
  <2> QED BY <2>2 DEF CopyOf
<1>7. ASSUME NEW e \in Vif
      PROVE  /\ rosetta_equs[e] \in 0 .. n_foocvars - 1
             /\ equs[rosetta_equs[e]] = [kind |-> "vifunc", src |-> e]
             /\ dual[rosetta_equs[e]] = rosetta_vars(m.dual[e])
  <2>1. e \notin Con
    BY <1>1, Roles
  <2> QED BY <1>1, <1>3, <2>1, RosettaPlace DEF CopyOf
<1>8. ASSUME NEW e \in 0 .. m.ne, e \notin Con \cup Vif PROVE rosetta_equs[e] = NA
  BY <1>1, <1>3, <1>8, RosettaPlace
<1> QED BY <1>5, <1>6, <1>7, <1>8 DEF EquationsPlaced, Con, Vif

\* The system is square.
LEMMA SquareExact ==
  ASSUME SysInv
  PROVE  Square
<1> SUFFICES ASSUME pc = "done" PROVE Square
  BY DEF Square
<1>1. ListInv /\ WellFormed(m) /\ SortedList /\ Counted /\ Full /\ Built /\ Matched
  BY DEF SysInv, ListInv, Assembly
<1>2. {dual[n] : n \in 0 .. n_foocvars - 1} = {rosetta_vars(v) : v \in FoocVars}
  <2>1. \A n \in 0 .. n_foocvars - 1 : \E v \in FoocVars : dual[n] = rosetta_vars(v)
    BY <1>1, Renumbering DEF Matched
  <2>2. \A v \in FoocVars : \E n \in 0 .. n_foocvars - 1 : dual[n] = rosetta_vars(v)
    BY <1>1, Renumbering DEF Matched
  <2> QED BY <2>1, <2>2
<1>3. mcp_size = n_foocvars + Cardinality(Con) /\ cons_size = Cardinality(Con)
      /\ n_foocvars \in Nat /\ Cardinality(Con) \in Nat
  BY <1>1, Blocks, Fooc, RoleCounts
<1>4. \A c \in Con : dual[Rosetta(c)] = DualOf(c)
  <2>1. \A c \in Con : c \in 0 .. m.ne - 1 /\ m.ne \in Nat
    BY <1>1, Roles
  <2> QED BY <1>1, <2>1 DEF Built, Copied
<1>5. {dual[n] : n \in n_foocvars .. mcp_size - 1} = {DualOf(c) : c \in Con}
  <2>1. \A n \in n_foocvars .. mcp_size - 1 : \E c \in Con : dual[n] = DualOf(c)
    <3> SUFFICES ASSUME NEW n \in n_foocvars .. mcp_size - 1 PROVE \E c \in Con : dual[n] = DualOf(c)
      OBVIOUS
    <3>1. n \in n_foocvars .. n_foocvars + Cardinality(Con) - 1
      BY <1>3
    <3>2. PICK c \in Con : Rosetta(c) = n
      BY <1>1, <3>1, RosettaOnto
    <3> QED BY <1>4, <3>2
  <2>2. \A c \in Con : Rosetta(c) \in n_foocvars .. mcp_size - 1
    BY <1>1, <1>3, RosettaPlace
  <2> QED BY <1>4, <2>1, <2>2
<1> QED BY <1>1, <1>2, <1>3, <1>5, DualOfOnto DEF Square

\* At every step of the assembly of the MCP of a model of any size, its maps are exact, its blocks
\* fit, its equations are at their places, and in the end it is square.
THEOREM LayoutExactCorrect == Spec => []LayoutExact
<1>1. SysInv => LayoutExact
  <2>1. SysInv => ObjequsExact
    BY DEF SysInv, ListInv, SortedList, Maps, ObjequsExact
  <2> QED BY <2>1, TypesAndBlocks, PlacesExact, SquareExact DEF LayoutExact
<1> QED BY <1>1, SysInvCorrect, PTL

-----------------------------------------------------------------------------
(***************************************************************************)
(* The terms of the equations F.                                           *)
(***************************************************************************)

\* The union of disjoint sets, as bags.
LEMMA DisjointBags ==
  ASSUME NEW S, NEW T, S \cap T = {}
  PROVE  SetToBag(S) (+) SetToBag(T) = SetToBag(S \cup T)
BY DEF SetToBag, (+)

\* The bag of no term.
LEMMA NoTerms == SetToBag({}) = EmptyBag
BY DEF EmptyBag

\* The variables of MP x that have an equation F, and its constraints.
OwnVars(x) == {v \in FoocVars : OwnerOf(v) = x}
ConsOf(x) == {c \in Con : m.eown[c] = x}

\* The terms of the equation of variable v: the gradient of the objective equation of its MP,
\* or the derivative of the objective variable, and the multipliers of the constraints.
GradTerms(v) == {<<ei_F(v), "grad", o>> : o \in {p \in Obj : m.eown[p] = OwnerOf(v) /\ v \in m.vars[p]}}
CstTerms(v) ==
  {t \in {<<ei_F(v), "cst", NA>>} : \E x \in MpIds(m) :
       m.type[x] = "opt" /\ m.objequ[x] = NA /\ m.objvar[x] = v}
MultTerms(v) == {<<ei_F(v), "mult", DualOf(c)>> : c \in {d \in MpConstraints(v) : v \in m.vars[d]}}
TermsAt(v) == GradTerms(v) \cup CstTerms(v) \cup MultTerms(v)

\* The terms of the variables V.
AllTerms(V) == UNION {TermsAt(v) : v \in V}
Mults(V) == UNION {MultTerms(v) : v \in V}

\* The three kinds of terms of a variable.
LEMMA TermsKinds ==
  ASSUME NEW v
  PROVE  /\ \A t \in GradTerms(v) : t[1] = ei_F(v) /\ t[2] = "grad"
         /\ \A t \in CstTerms(v) : t[1] = ei_F(v) /\ t[2] = "cst"
         /\ \A t \in MultTerms(v) : t[1] = ei_F(v) /\ t[2] = "mult"
         /\ \A t \in TermsAt(v) : t[1] = ei_F(v)
<1>1. \A t \in GradTerms(v) : t[1] = ei_F(v) /\ t[2] = "grad"
  BY DEF GradTerms
<1>2. \A t \in CstTerms(v) : t[1] = ei_F(v) /\ t[2] = "cst"
  BY DEF CstTerms
<1>3. \A t \in MultTerms(v) : t[1] = ei_F(v) /\ t[2] = "mult"
  BY DEF MultTerms
<1> QED BY <1>1, <1>2, <1>3 DEF TermsAt

\* Different variables have different terms.
LEMMA TermsDisjoint ==
  ASSUME WellFormed(m), NEW V, NEW W, V \subseteq FoocVars, W \subseteq FoocVars, V \cap W = {}
  PROVE  /\ AllTerms(V) \cap AllTerms(W) = {}
         /\ AllTerms(V \cup W) = AllTerms(V) \cup AllTerms(W)
<1>1. ASSUME NEW t, t \in AllTerms(V), t \in AllTerms(W) PROVE FALSE
  <2>1. PICK v \in V : t \in TermsAt(v)
    BY <1>1 DEF AllTerms
  <2>2. PICK w \in W : t \in TermsAt(w)
    BY <1>1 DEF AllTerms
  <2>3. ei_F(v) = ei_F(w)
    BY <2>1, <2>2, TermsKinds
  <2>4. v = w
    BY <2>3, Renumbering
  <2> QED BY <2>4
<1> QED BY <1>1 DEF AllTerms

\* The terms of one MP: those of its objective, and the multipliers.
LEMMA TermsOfMp ==
  ASSUME NEW G, NEW V, NEW S,
         G \cap Mults(V) = {}, G \cup Mults(V) = AllTerms(V), S \cap AllTerms(V) = {}
  PROVE  SetToBag(S) (+) SetToBag(G) (+) SetToBag(Mults(V)) = SetToBag(S \cup AllTerms(V))
<1>1. SetToBag(S) (+) SetToBag(G) = SetToBag(S \cup G)
  BY DisjointBags
<1>2. (S \cup G) \cap Mults(V) = {} /\ (S \cup G) \cup Mults(V) = S \cup AllTerms(V)
  OBVIOUS
<1>3. SetToBag(S \cup G) (+) SetToBag(Mults(V)) = SetToBag((S \cup G) \cup Mults(V))
  BY <1>2, DisjointBags
<1> QED BY <1>1, <1>2, <1>3

\* Multipliers are no gradients, and no constants.
LEMMA MultsApart ==
  ASSUME NEW V, NEW t \in Mults(V)
  PROVE  t[2] = "mult"
BY TermsKinds DEF Mults

\* The owner of a variable that the loop over the MPs differentiates for.
LEMMA OwnVarsAre ==
  ASSUME WellFormed(m), NEW k \in Mps
  PROVE  var_in_mp(k) = OwnVars(Mp(k)) /\ OwnVars(Mp(k)) \subseteq FoocVars
<1>1. m.mps # <<>>
  BY MpsIs
<1>2. MpVars(k) \cap m.live \subseteq FoocVars /\ FoocVars \subseteq m.live /\ m.live \subseteq 0 .. m.nv - 1
  BY Fooc
<1> QED BY <1>1, <1>2 DEF var_in_mp, OwnVars, OwnerOf, MpVars

\* The multipliers that the normal cone of an MP adds.
LEMMA NormalConeIs ==
  ASSUME ListInv, Full, Built, NEW x, NEW C,
         C.nl \cup C.lin = {Rosetta(c) : c \in ConsOf(x)}
  PROVE  NormalCone(C, OwnVars(x)) = SetToBag(Mults(OwnVars(x)))
<1> DEFINE V == OwnVars(x)
           L == UNION {{<<ei_F(v), "mult", dual[n]>> : v \in m.vars[equs[n].src] \cap V} : n \in C.nl \cup C.lin}
<1>1. \A c \in ConsOf(x) : equs[Rosetta(c)].src = c /\ dual[Rosetta(c)] = DualOf(c)
  <2>1. WellFormed(m)
    BY DEF ListInv
  <2>2. \A c \in Con : c < m.ne + 1
    BY <2>1, Roles
  <2>3. \A c \in Con : equs[Rosetta(c)] = CopyOf(c) /\ dual[Rosetta(c)] = DualOf(c)
    BY <2>2 DEF Built, Copied
  <2>4. \A c : CopyOf(c).src = c
    BY DEF CopyOf
  <2> QED BY <2>3, <2>4 DEF ConsOf
<1>2. L = UNION {{<<ei_F(v), "mult", DualOf(c)>> : v \in m.vars[c] \cap V} : c \in ConsOf(x)}
  <2>1. L = UNION {{<<ei_F(v), "mult", dual[Rosetta(c)]>> : v \in m.vars[equs[Rosetta(c)].src] \cap V} : c \in ConsOf(x)}
    OBVIOUS
  <2> QED BY <1>1, <2>1
<1>3. \A v \in V : MpConstraints(v) = ConsOf(x)
  BY DEF OwnVars, MpConstraints, ConsOf, Con
<1>4. L = Mults(V)
  <2>1. ASSUME NEW t \in L PROVE t \in Mults(V)
    <3>1. PICK c \in ConsOf(x) : t \in {<<ei_F(v), "mult", DualOf(c)>> : v \in m.vars[c] \cap V}
      BY <1>2, <2>1
    <3>3. PICK v \in m.vars[c] \cap V : t = <<ei_F(v), "mult", DualOf(c)>>
      BY <3>1
    <3>2. t \in MultTerms(v)
      BY <1>3, <3>3 DEF MultTerms
    <3> QED BY <3>2 DEF Mults
  <2>2. ASSUME NEW t \in Mults(V) PROVE t \in L
    <3>1. PICK v \in V : t \in MultTerms(v)
      BY <2>2 DEF Mults
    <3>2. PICK c \in ConsOf(x) : v \in m.vars[c] /\ t = <<ei_F(v), "mult", DualOf(c)>>
      BY <1>3, <3>1 DEF MultTerms
    <3> QED BY <1>2, <3>1, <3>2
  <2> QED BY <2>1, <2>2
<1> QED BY <1>4 DEF NormalCone

\* The objective equation of an MP, and the objective variable of an MP without one.
LEMMA ObjectiveOf ==
  ASSUME WellFormed(m), NEW x \in MpIds(m)
  PROVE  /\ m.objequ[x] # NA => m.objequ[x] \in Obj /\ m.eown[m.objequ[x]] = x /\ m.type[x] # "vi"
         /\ \A o \in Obj : m.eown[o] = x <=> m.objequ[x] = o
         /\ m.objequ[x] = NA => \A o \in Obj : m.eown[o] # x
         /\ \A v \in OwnVars(x), y \in MpIds(m) : m.objvar[y] = v => y = x
         /\ m.objvar[x] \in FoocVars => m.objvar[x] \in OwnVars(x)
<1>1. \A o \in Obj : o # NA /\ m.eown[o] \in MpIds(m) /\ m.objequ[m.eown[o]] = o
  <2>1. \A o \in Obj : o # NA
    BY Roles DEF NA
  <2> QED BY <2>1 DEF WellFormed, Obj, Kept
<1>2. m.objequ[x] # NA => m.objequ[x] \in Obj /\ m.eown[m.objequ[x]] = x /\ m.type[x] # "vi"
  BY DEF WellFormed, Obj, Kept
<1>3. \A v \in FoocVars : v # NA
  BY Fooc DEF NA
<1>4. \A y \in MpIds(m) : m.objvar[y] # NA => OwnerOf(m.objvar[y]) = y
  <2>1. CASE m.mps = <<>>
    BY <2>1 DEF MpIds, OwnerOf
  <2>2. CASE m.mps # <<>>
    BY <2>2 DEF WellFormed, OwnerOf
  <2> QED BY <2>1, <2>2
<1>5. \A v \in OwnVars(x), y \in MpIds(m) : m.objvar[y] = v => y = x
  BY <1>3, <1>4 DEF OwnVars
<1>6. m.objvar[x] \in FoocVars => m.objvar[x] \in OwnVars(x)
  BY <1>3, <1>4 DEF OwnVars
<1> QED BY <1>1, <1>2, <1>5, <1>6

\* The terms of an MP that has an objective equation,
LEMMA TermsWithEquation ==
  ASSUME WellFormed(m), NEW x \in MpIds(m), NEW o, o # NA, o = m.objequ[x]
  PROVE  LET G == {<<ei_F(v), "grad", o>> : v \in m.vars[o] \cap OwnVars(x)} IN
         G \cap Mults(OwnVars(x)) = {} /\ G \cup Mults(OwnVars(x)) = AllTerms(OwnVars(x))
<1> DEFINE V == OwnVars(x)  G == {<<ei_F(v), "grad", o>> : v \in m.vars[o] \cap V}
<1>1. \A v \in V : GradTerms(v) = {t \in {<<ei_F(v), "grad", o>>} : v \in m.vars[o]}
  <2>1. \A v \in V : OwnerOf(v) = x
    BY DEF OwnVars
  <2>2. o \in Obj /\ \A p \in Obj : m.eown[p] = x <=> p = o
    BY ObjectiveOf
  <2>3. \A v \in V : {p \in Obj : m.eown[p] = OwnerOf(v) /\ v \in m.vars[p]} = {p \in {o} : v \in m.vars[o]}
    BY <2>1, <2>2
  <2> QED BY <2>3 DEF GradTerms
<1>2. \A v \in V : CstTerms(v) = {}
  BY ObjectiveOf DEF CstTerms
<1>3. \A v \in V : TermsAt(v) = GradTerms(v) \cup MultTerms(v)
  BY <1>2 DEF TermsAt
<1>4. AllTerms(V) = (UNION {GradTerms(v) : v \in V}) \cup Mults(V)
  BY <1>3 DEF AllTerms, Mults
<1>5. UNION {GradTerms(v) : v \in V} = G
  <2>1. ASSUME NEW t \in G PROVE t \in UNION {GradTerms(v) : v \in V}
    <3>1. PICK v \in m.vars[o] \cap V : t = <<ei_F(v), "grad", o>>
      OBVIOUS
    <3>2. t \in GradTerms(v)
      BY <1>1, <3>1
    <3> QED BY <3>2
  <2>2. ASSUME NEW t \in UNION {GradTerms(v) : v \in V} PROVE t \in G
    <3>1. PICK v \in V : t \in GradTerms(v)
      OBVIOUS
    <3>2. v \in m.vars[o] /\ t = <<ei_F(v), "grad", o>>
      BY <1>1, <3>1
    <3> QED BY <3>2
  <2> QED BY <2>1, <2>2
<1>6. \A t \in G : t[2] = "grad"
  OBVIOUS
<1>7. G \cap Mults(V) = {}
  BY <1>6, MultsApart
<1> QED BY <1>4, <1>5, <1>7

\* of a VI, and of an MP whose objective is a variable.
LEMMA TermsWithout ==
  ASSUME WellFormed(m), NEW x \in MpIds(m), m.objequ[x] = NA
  PROVE  /\ m.type[x] = "vi" => AllTerms(OwnVars(x)) = Mults(OwnVars(x))
         /\ m.type[x] = "opt" /\ m.objvar[x] \in FoocVars =>
              LET G == {<<ei_F(m.objvar[x]), "cst", NA>>} IN
              G \cap Mults(OwnVars(x)) = {} /\ G \cup Mults(OwnVars(x)) = AllTerms(OwnVars(x))
<1> DEFINE V == OwnVars(x)
<1>1. \A v \in V : GradTerms(v) = {}
  <2>1. \A v \in V : OwnerOf(v) = x
    BY DEF OwnVars
  <2> QED BY <2>1, ObjectiveOf DEF GradTerms
<1>2. \A v \in V : CstTerms(v) = {t \in {<<ei_F(v), "cst", NA>>} : m.type[x] = "opt" /\ m.objvar[x] = v}
  BY ObjectiveOf DEF CstTerms
<1>3. \A v \in V : TermsAt(v) = CstTerms(v) \cup MultTerms(v)
  BY <1>1 DEF TermsAt
<1>4. AllTerms(V) = (UNION {CstTerms(v) : v \in V}) \cup Mults(V)
  BY <1>3 DEF AllTerms, Mults
<1>5. m.type[x] = "vi" => UNION {CstTerms(v) : v \in V} = {}
  BY <1>2
<1>6. ASSUME m.type[x] = "opt", m.objvar[x] \in FoocVars
      PROVE  UNION {CstTerms(v) : v \in V} = {<<ei_F(m.objvar[x]), "cst", NA>>}
  <2> DEFINE u == m.objvar[x]
  <2>1. u \in V
    BY <1>6, ObjectiveOf
  <2>2. CstTerms(u) = {<<ei_F(u), "cst", NA>>}
    BY <1>2, <1>6, <2>1
  <2>3. \A v \in V : v # u => CstTerms(v) = {}
    BY <1>2
  <2> QED BY <2>1, <2>2, <2>3
<1>7. {<<ei_F(m.objvar[x]), "cst", NA>>} \cap Mults(V) = {}
  BY MultsApart
<1> QED BY <1>4, <1>5, <1>6, <1>7

\* The list of the constraints of an MP.
ConsExact(k) == cons[k].nl \cup cons[k].lin = {Rosetta(c) : c \in ConsOf(Mp(k))}

\* It is made from the places of the equations.
LEMMA ConsOfMpIs ==
  ASSUME ListInv, Full, Built, NEW k \in Mps
  PROVE  ConsOfMp(k).nl \cup ConsOfMp(k).lin = {Rosetta(c) : c \in ConsOf(Mp(k))}
<1> DEFINE D == {e \in MpEqus(k) : rosetta_equs[e] >= n_foocvars}  C == {rosetta_equs[e] : e \in D}
<1>1. WellFormed(m) /\ m.ne \in Nat /\ n_foocvars \in Nat
  BY Roles, Fooc DEF ListInv
<1>2. \A e \in 0 .. m.ne - 1 : rosetta_equs[e] = Rosetta(e)
  BY <1>1 DEF Built, Copied
<1>3. \A e \in 0 .. m.ne - 1 : Rosetta(e) >= n_foocvars <=> e \in Con
  <2> SUFFICES ASSUME NEW e \in 0 .. m.ne - 1 PROVE Rosetta(e) >= n_foocvars <=> e \in Con
    OBVIOUS
  <2>1. CASE e \in Con
    BY <2>1, PlacesAre
  <2>2. CASE e \in Vif
    <3>1. Rosetta(e) \in 0 .. n_foocvars - 1 /\ e \notin Con
      BY <1>1, <2>2, Roles, RosettaPlace
    <3> QED BY <1>1, <3>1
  <2>3. CASE e \notin Con \cup Vif
    <3>1. Rosetta(e) = NA
      BY <1>1, <2>3, RosettaPlace
    <3> QED BY <1>1, <2>3, <3>1 DEF NA
  <2> QED BY <2>1, <2>2, <2>3
<1>4. D = ConsOf(Mp(k))
  <2>1. D = {e \in 0 .. m.ne - 1 : m.eown[e] = Mp(k) /\ e \in Con}
    BY <1>2, <1>3 DEF MpEqus
  <2>2. Con \subseteq 0 .. m.ne - 1
    BY <1>1, Roles
  <2> QED BY <2>1, <2>2 DEF ConsOf
<1>5. C = {Rosetta(c) : c \in ConsOf(Mp(k))}
  <2>1. \A e \in D : rosetta_equs[e] = Rosetta(e)
    BY <1>2 DEF MpEqus
  <2> QED BY <1>4, <2>1
<1>6. \A n \in C : n \in Int
  <2>1. \A c \in Con : Rosetta(c) \in 0 .. n_foocvars + cons_size - 1
    BY PlacesAre
  <2>2. \A c \in ConsOf(Mp(k)) : Rosetta(c) \in Int
    BY <2>1 DEF ConsOf
  <2> QED BY <1>5, <2>2
<1>7. ei_lincons_start \in Int
  BY Blocks DEF ListInv
<1>8. ConsOfMp(k).nl = {c \in C : c < ei_lincons_start} /\ ConsOfMp(k).lin = {c \in C : c >= ei_lincons_start}
  BY DEF ConsOfMp
<1> HIDE DEF C
<1>9. {c \in C : c < ei_lincons_start} \cup {c \in C : c >= ei_lincons_start} = C
  BY <1>6, <1>7
<1> QED BY <1>5, <1>8, <1>9

\* Without EMPDAG: the constraints of the MCP are all those of the model.
LEMMA AllConsAre ==
  ASSUME ListInv, Full, Built, m.mps = <<>>
  PROVE  /\ (n_foocvars .. ei_lincons_start - 1) \cup (ei_lincons_start .. mcp_size - 1) = {Rosetta(c) : c \in ConsOf(0)}
         /\ OwnVars(0) = FoocVars /\ FoocVars = m.live
<1>1. WellFormed(m)
  BY DEF ListInv
<1>2. ConsOf(0) = Con
  BY <1>1 DEF ConsOf, WellFormed, Con, Kept
<1>3. OwnVars(0) = FoocVars /\ FoocVars = m.live
  BY <1>1, Fooc DEF OwnVars, OwnerOf
<1>4. /\ ei_lincons_start \in Nat /\ mcp_size \in Nat /\ n_foocvars \in Nat
      /\ ei_lincons_start = n_foocvars + Cardinality(NL) /\ ei_lincons_start + Cardinality(LIN) = mcp_size
      /\ mcp_size = n_foocvars + Cardinality(Con)
      /\ Cardinality(NL) \in Nat /\ Cardinality(LIN) \in Nat
  BY <1>1, Blocks, Fooc, RoleCounts DEF ListInv
<1>5. (n_foocvars .. ei_lincons_start - 1) \cup (ei_lincons_start .. mcp_size - 1) = n_foocvars .. mcp_size - 1
  BY <1>4
<1>6. n_foocvars .. mcp_size - 1 = n_foocvars .. n_foocvars + Cardinality(Con) - 1
  <2>1. mcp_size = n_foocvars + Cardinality(Con)
    BY <1>1, Blocks DEF ListInv
  <2>2. Cardinality(Con) \in Nat
    BY <1>1, RoleCounts
  <2>3. mcp_size - 1 = n_foocvars + Cardinality(Con) - 1
    BY <1>4, <2>1, <2>2
  <2> QED BY <2>3
<1>7. \A n \in n_foocvars .. n_foocvars + Cardinality(Con) - 1 : \E c \in Con : Rosetta(c) = n
  BY <1>1, RosettaOnto
<1>8. \A c \in Con : Rosetta(c) \in n_foocvars .. n_foocvars + Cardinality(Con) - 1
  BY <1>1, RosettaPlace
<1>9. n_foocvars .. n_foocvars + Cardinality(Con) - 1 = {Rosetta(c) : c \in Con}
  BY <1>7, <1>8
<1> QED BY <1>2, <1>3, <1>5, <1>6, <1>9

-----------------------------------------------------------------------------
(***************************************************************************)
(* The invariant of the terms.                                             *)
(***************************************************************************)

\* The variables of the MPs before the j-th turn.
VarsDone(j) == {v \in FoocVars : IF m.mps = <<>> THEN j # 1 ELSE \E k \in Mps : k < j /\ OwnerOf(v) = Mp(k)}

Turns == IF m.mps = <<>> THEN {1, 2} ELSE 1 .. Len(m.mps) + 1

TermsInv ==
  /\ DOMAIN cons = Mps
  /\ pc \in {"fill", "layout", "inject", "zero", "lists"} => terms = EmptyBag
  /\ pc = "lists" => i \in 1 .. Len(m.mps) + 1 /\ \A k \in Mps : k < i => ConsExact(k)
  /\ pc = "primal" => /\ i \in Turns /\ \A k \in Mps : ConsExact(k)
                      /\ terms = SetToBag(AllTerms(VarsDone(i)))
  /\ pc = "done" => terms = SetToBag(AllTerms(FoocVars))

\* Nothing is done at first, then the variables of one MP after the other.
LEMMA VarsDoneNext ==
  ASSUME WellFormed(m)
  PROVE  /\ VarsDone(1) = {}
         /\ \A k \in Mps : /\ VarsDone(k + 1) = VarsDone(k) \cup OwnVars(Mp(k))
                           /\ VarsDone(k) \cap OwnVars(Mp(k)) = {}
         /\ m.mps = <<>> => VarsDone(2) = FoocVars
         /\ \A j : VarsDone(j) \subseteq FoocVars
<1>1. VarsDone(1) = {}
  BY MpsIs DEF VarsDone
<1>2. ASSUME NEW k \in Mps
      PROVE  /\ VarsDone(k + 1) = VarsDone(k) \cup OwnVars(Mp(k))
             /\ VarsDone(k) \cap OwnVars(Mp(k)) = {}
  <2>1. m.mps # <<>> /\ k \in Int
    BY MpsIs
  <2>2. {j \in Mps : j < k + 1} = {j \in Mps : j < k} \cup {k}
    BY BelowNext
  <2>3. \A j \in Mps : j < k => Mp(j) # Mp(k)
    BY MpsIs
  <2>4. \A j : VarsDone(j) = {v \in FoocVars : \E l \in {n \in Mps : n < j} : OwnerOf(v) = Mp(l)}
    BY <2>1 DEF VarsDone
  <2>5. VarsDone(k + 1) = VarsDone(k) \cup OwnVars(Mp(k))
    BY <2>2, <2>4 DEF OwnVars
  <2>6. VarsDone(k) \cap OwnVars(Mp(k)) = {}
    BY <2>3, <2>4 DEF OwnVars
  <2> QED BY <2>5, <2>6
<1>3. m.mps = <<>> => VarsDone(2) = FoocVars
  BY DEF VarsDone
<1> QED BY <1>1, <1>2, <1>3 DEF VarsDone

\* In the end, a variable that is not done belongs to no MP, and has no terms.
LEMMA AllDone ==
  ASSUME WellFormed(m), NEW j, IF m.mps = <<>> THEN j = 2 ELSE j = Len(m.mps) + 1
  PROVE  AllTerms(VarsDone(j)) = AllTerms(FoocVars)
<1>1. CASE m.mps = <<>>
  BY <1>1, VarsDoneNext
<1>2. CASE m.mps # <<>>
  <2>1. ASSUME NEW v \in FoocVars, v \notin VarsDone(j) PROVE TermsAt(v) = {}
    <3>1. OwnerOf(v) = m.own[v]
      BY <1>2 DEF OwnerOf
    <3>2. m.own[v] \notin MpIds(m)
      <4>1. \A k \in Mps : k < j
        BY <1>2, MpsIs
      <4>2. \A k \in Mps : OwnerOf(v) # Mp(k)
        BY <1>2, <2>1, <4>1 DEF VarsDone
      <4> QED BY <1>2, <3>1, <4>2, MpsIs
    <3>3. m.own[v] = NA
      <4>1. v \in m.live
        BY <2>1, Fooc
      <4>2. ~m.sub
        <5>1. m.sub => \E k \in Mps : m.own[v] = Mp(k)
          BY <2>1 DEF FoocVars
        <5> QED BY <3>2, <5>1, MpsIs
      <4> QED BY <1>2, <3>2, <4>1, <4>2 DEF WellFormed
    <3>4. NA \notin MpIds(m)
      <4>1. \A k \in Mps : m.mps[k] \in Nat
        BY MpsIs DEF WellFormed
      <4>2. \A x \in MpIds(m) : x \in Nat
        BY <1>2, <4>1, MpsIs DEF Mp
      <4> QED BY <4>2 DEF NA
    <3>5. GradTerms(v) = {}
      <4>1. \A p \in Obj : m.eown[p] \in MpIds(m)
        BY DEF WellFormed, Obj, Kept
      <4> QED BY <3>1, <3>3, <3>4, <4>1 DEF GradTerms
    <3>6. MultTerms(v) = {}
      <4>1. \A c \in Kept("constraint") : m.eown[c] # NA
        BY <1>2 DEF WellFormed, Kept
      <4> QED BY <3>1, <3>3, <4>1 DEF MultTerms, MpConstraints
    <3>7. CstTerms(v) = {}
      <4>1. v # NA
        BY <2>1, Fooc DEF NA
      <4>2. \A x \in MpIds(m) : m.objvar[x] # NA => m.own[m.objvar[x]] = x
        BY DEF WellFormed
      <4> QED BY <3>3, <3>4, <4>1, <4>2 DEF CstTerms
    <3> QED BY <3>5, <3>6, <3>7 DEF TermsAt
  <2> QED BY <2>1, VarsDoneNext DEF AllTerms
<1> QED BY <1>1, <1>2

\* One MP more.
LEMMA TermsGrow ==
  ASSUME WellFormed(m), NEW k \in Mps, NEW G,
         G \cap Mults(OwnVars(Mp(k))) = {}, G \cup Mults(OwnVars(Mp(k))) = AllTerms(OwnVars(Mp(k)))
  PROVE  SetToBag(AllTerms(VarsDone(k))) (+) SetToBag(G) (+) SetToBag(Mults(OwnVars(Mp(k))))
           = SetToBag(AllTerms(VarsDone(k + 1)))
<1> DEFINE V == OwnVars(Mp(k))  S == AllTerms(VarsDone(k))
<1>1. VarsDone(k + 1) = VarsDone(k) \cup V /\ VarsDone(k) \cap V = {} /\ VarsDone(k) \subseteq FoocVars
  BY VarsDoneNext
<1>2. V \subseteq FoocVars
  BY DEF OwnVars
<1>3. S \cap AllTerms(V) = {} /\ AllTerms(VarsDone(k + 1)) = S \cup AllTerms(V)
  BY <1>1, <1>2, TermsDisjoint
<1>4. SetToBag(S) (+) SetToBag(G) (+) SetToBag(Mults(V)) = SetToBag(S \cup AllTerms(V))
  BY <1>3, TermsOfMp
<1> QED BY <1>3, <1>4

\* The terms depend on the source model alone.
LEMMA SameTerms ==
  ASSUME m' = m, UNCHANGED fillVars
  PROVE  /\ Turns' = Turns /\ Mps' = Mps
         /\ AllTerms(FoocVars)' = AllTerms(FoocVars)
         /\ AllTerms(VarsDone(i))' = AllTerms(VarsDone(i'))
         /\ \A k : {Rosetta(c) : c \in ConsOf(Mp(k))}' = {Rosetta(c) : c \in ConsOf(Mp(k))}
<1>1. /\ Obj' = Obj /\ Con' = Con /\ Mps' = Mps /\ FoocVars' = FoocVars
      /\ (\A v : ei_F(v)' = ei_F(v)) /\ (\A e : DualOf(e)' = DualOf(e)) /\ (\A e : Rosetta(e)' = Rosetta(e))
      /\ (\A k : Mp(k)' = Mp(k))
  BY SameModel
<1>2. \A v : OwnerOf(v)' = OwnerOf(v)
  BY DEF OwnerOf
<1>3. \A v : MpConstraints(v)' = MpConstraints(v)
  BY <1>1, <1>2 DEF MpConstraints, Con
<1>4. \A v : GradTerms(v)' = GradTerms(v)
  BY <1>1, <1>2 DEF GradTerms
<1>5. \A v : CstTerms(v)' = CstTerms(v)
  BY <1>1 DEF CstTerms
<1>6. \A v : MultTerms(v)' = MultTerms(v)
  BY <1>1, <1>3 DEF MultTerms
<1>7. \A v : TermsAt(v)' = TermsAt(v)
  BY <1>4, <1>5, <1>6 DEF TermsAt
<1>8. AllTerms(FoocVars)' = AllTerms(FoocVars)
  BY <1>1, <1>7 DEF AllTerms
<1>9. VarsDone(i)' = VarsDone(i')
  BY <1>1, <1>2 DEF VarsDone
<1>10. AllTerms(VarsDone(i))' = AllTerms(VarsDone(i'))
  BY <1>7, <1>9 DEF AllTerms
<1>11. \A k : {Rosetta(c) : c \in ConsOf(Mp(k))}' = {Rosetta(c) : c \in ConsOf(Mp(k))}
  BY <1>1 DEF ConsOf
<1> QED BY <1>1, <1>8, <1>10, <1>11 DEF Turns

\* No terms yet.
LEMMA TermsInit ==
  ASSUME Init PROVE TermsInv
BY DEF Init, TermsInv, Mps

\* Before the equations F are computed, nothing is added to them.
LEMMA EarlyTerms ==
  ASSUME WellFormed(m), TermsInv, m' = m, terms' = terms, cons' = cons,
         pc \in {"fill", "layout", "inject", "zero"}, pc' \notin {"primal", "done"}, pc' = "lists" => i' = 1
  PROVE  TermsInv'
<1>1. DOMAIN cons' = Mps' /\ terms' = EmptyBag
  BY DEF TermsInv, Mps
<1>2. ASSUME pc' = "lists" PROVE (i \in 1 .. Len(m.mps) + 1)' /\ \A k \in Mps' : ~(k < i')
  <2>1. Len(m.mps) \in Nat /\ Mps' = 1 .. Len(m.mps)
    <3>1. Len(m.mps) \in Nat /\ Mps = 1 .. Len(m.mps)
      BY MpsIs
    <3> QED BY <3>1 DEF Mps
  <2> QED BY <1>2, <2>1
<1> QED BY <1>1, <1>2 DEF TermsInv

\* The lists of the constraints: one MP more,
LEMMA ListMpTerms ==
  ASSUME ListInv, Full, Built, TermsInv, ListMp
  PROVE  TermsInv'
<1>1. /\ pc = "lists" /\ i \in Mps /\ cons' = [cons EXCEPT ![i] = ConsOfMp(i)] /\ i' = i + 1
      /\ m' = m /\ pc' = pc /\ UNCHANGED fillVars /\ terms' = terms
  BY DEF ListMp
<1>2. WellFormed(m) /\ DOMAIN cons = Mps /\ terms = EmptyBag
  BY <1>1 DEF ListInv, TermsInv
<1>3. /\ Mps' = Mps /\ \A k : {Rosetta(c) : c \in ConsOf(Mp(k))}' = {Rosetta(c) : c \in ConsOf(Mp(k))}
  BY <1>1, SameTerms
<1>4. i' \in 1 .. Len(m.mps) + 1 /\ i \in Int /\ Mps \in SUBSET Int
  BY <1>1, <1>2, MpsIs, BelowNext
<1>5. ASSUME NEW k \in Mps, k < i' PROVE ConsExact(k)'
  <2>1. CASE k = i
    <3>1. cons'[k] = ConsOfMp(k)
      BY <1>1, <1>2, <2>1
    <3>2. ConsOfMp(k).nl \cup ConsOfMp(k).lin = {Rosetta(c) : c \in ConsOf(Mp(k))}
      BY ConsOfMpIs
    <3> QED BY <1>3, <3>1, <3>2 DEF ConsExact
  <2>2. CASE k # i
    <3>1. k < i /\ cons'[k] = cons[k]
      BY <1>1, <1>2, <1>4, <1>5, <2>2
    <3>2. ConsExact(k)
      BY <1>1, <3>1 DEF TermsInv
    <3> QED BY <1>3, <3>1, <3>2 DEF ConsExact
  <2> QED BY <2>1, <2>2
<1> QED BY <1>1, <1>2, <1>3, <1>4, <1>5 DEF TermsInv

\* and all of them.
LEMMA ListsEndTerms ==
  ASSUME ListInv, Full, TermsInv, ListsEnd
  PROVE  TermsInv'
<1>1. /\ pc = "lists" /\ i \notin Mps /\ pc' = "primal" /\ i' = 1
      /\ m' = m /\ UNCHANGED fillVars /\ terms' = terms /\ cons' = cons
  BY DEF ListsEnd, mcpVars
<1>2. /\ WellFormed(m) /\ DOMAIN cons = Mps /\ terms = EmptyBag
      /\ i \in 1 .. Len(m.mps) + 1 /\ \A k \in Mps : k < i => ConsExact(k)
  BY <1>1 DEF ListInv, TermsInv
<1>3. /\ Mps' = Mps /\ Turns' = Turns /\ AllTerms(VarsDone(i))' = AllTerms(VarsDone(1))
      /\ \A k : {Rosetta(c) : c \in ConsOf(Mp(k))}' = {Rosetta(c) : c \in ConsOf(Mp(k))}
  BY <1>1, SameTerms
<1>4. \A k \in Mps : ConsExact(k)'
  <2>1. Mps = 1 .. Len(m.mps) /\ Len(m.mps) \in Nat
    BY <1>2, MpsIs
  <2>2. \A k \in Mps : k < i
    BY <1>1, <1>2, <2>1
  <2> QED BY <1>1, <1>2, <1>3, <2>2 DEF ConsExact
<1>5. terms' = SetToBag(AllTerms(VarsDone(1)))
  <2>1. AllTerms(VarsDone(1)) = {}
    BY <1>2, VarsDoneNext DEF AllTerms
  <2> QED BY <1>1, <1>2, <2>1, NoTerms
<1>6. 1 \in Turns
  BY <1>2, MpsIs DEF Turns
<1> QED BY <1>1, <1>2, <1>3, <1>4, <1>5, <1>6 DEF TermsInv

\* The place of the objective equation of an MP is found through the list.
LEMMA ObjequOfIs ==
  ASSUME ListInv, Full, NEW k \in Mps
  PROVE  ObjequOf(k) = m.objequ[Mp(k)]
<1>1. WellFormed(m) /\ m.mps # <<>> /\ Maps /\ SortedList /\ Listed = Obj
  BY MpsIs DEF ListInv, Full
<1>2. Mp(k) \in MpIds(m)
  BY <1>1, MpsIs
<1>3. CASE mp2objequ[k] # NA
  BY <1>1, <1>3 DEF ObjequOf, Maps
<1>4. CASE mp2objequ[k] = NA
  <2>1. SUFFICES ASSUME m.objequ[Mp(k)] # NA PROVE FALSE
    BY <1>4 DEF ObjequOf
  <2>2. m.objequ[Mp(k)] \in Obj /\ m.eown[m.objequ[Mp(k)]] = Mp(k)
    BY <1>1, <1>2, <2>1, ObjectiveOf
  <2>3. PICK p \in DOMAIN objequs : objequs[p] = m.objequ[Mp(k)]
    BY <1>1, <2>2 DEF Listed
  <2> DEFINE j == objequs2mps[p]
  <2>4. j \in Mps /\ mp2objequ[j] = p /\ p # NA
    <3>1. DOMAIN objequs = 1 .. Len(objequs) /\ DOMAIN objequs2mps = 1 .. Len(objequs) /\ Len(objequs) \in Nat
      BY <1>1 DEF Maps, SortedList
    <3>2. j \in Mps
      BY <1>1, <2>3, <3>1 DEF Maps
    <3>3. p # NA
      BY <2>3, <3>1 DEF NA
    <3> QED BY <1>1, <2>3, <3>2, <3>3 DEF Maps
  <2>5. objequs[p] = m.objequ[Mp(j)]
    BY <1>1, <2>4 DEF Maps
  <2>6. m.eown[m.objequ[Mp(j)]] = Mp(j)
    <3>1. m.objequ[Mp(j)] # NA /\ Mp(j) \in MpIds(m)
      BY <1>1, <2>1, <2>3, <2>4, <2>5, MpsIs
    <3> QED BY <1>1, <3>1, ObjectiveOf
  <2>7. j = k
    BY <1>1, <2>2, <2>3, <2>4, <2>5, <2>6, MpsIs
  <2> QED BY <1>4, <2>4, <2>7
<1> QED BY <1>3, <1>4

\* An MP: its terms are added.
LEMMA PrimalStep ==
  ASSUME ListInv, TermsInv, pc = "primal", i \in Mps, m' = m, UNCHANGED fillVars, cons' = cons, i' = i + 1,
         pc' \in {"primal", "error"},
         NEW G, pc' = "primal" => /\ G \cap Mults(OwnVars(Mp(i))) = {}
                                  /\ G \cup Mults(OwnVars(Mp(i))) = AllTerms(OwnVars(Mp(i))),
         terms' = terms (+) SetToBag(G) (+) SetToBag(Mults(OwnVars(Mp(i))))
  PROVE  TermsInv'
<1>1. WellFormed(m) /\ DOMAIN cons = Mps /\ m.mps # <<>>
  BY MpsIs DEF ListInv, TermsInv
<1>2. /\ Mps' = Mps /\ Turns' = Turns /\ AllTerms(VarsDone(i))' = AllTerms(VarsDone(i'))
      /\ \A k : {Rosetta(c) : c \in ConsOf(Mp(k))}' = {Rosetta(c) : c \in ConsOf(Mp(k))}
  BY SameTerms
<1>3. \A k \in Mps : ConsExact(k)'
  BY <1>2 DEF TermsInv, ConsExact
<1>4. i + 1 \in Turns
  BY <1>1, BelowNext DEF Turns
<1>5. pc' = "primal" => terms' = SetToBag(AllTerms(VarsDone(i + 1)))
  <2>1. terms = SetToBag(AllTerms(VarsDone(i)))
    BY DEF TermsInv
  <2> QED BY <1>1, <2>1, TermsGrow
<1> QED BY <1>1, <1>2, <1>3, <1>4, <1>5 DEF TermsInv

\* The normal cone of an MP is made from its list of constraints.
LEMMA ConeOfMp ==
  ASSUME ListInv, Full, Built, TermsInv, pc = "primal", i \in Mps
  PROVE  NormalCone(cons[i], var_in_mp(i)) = SetToBag(Mults(OwnVars(Mp(i))))
<1>1. WellFormed(m)
  BY DEF ListInv
<1>2. cons[i].nl \cup cons[i].lin = {Rosetta(c) : c \in ConsOf(Mp(i))}
  BY DEF TermsInv, ConsExact
<1>3. var_in_mp(i) = OwnVars(Mp(i))
  BY <1>1, OwnVarsAre
<1> QED BY <1>2, <1>3, NormalConeIs

\* An optimisation problem:
LEMMA PrimalOptTerms ==
  ASSUME ListInv, Full, Built, TermsInv, PrimalOpt
  PROVE  TermsInv'
<1> DEFINE x == Mp(i)  o == m.objequ[x]  V == OwnVars(x)
<1>1. /\ pc = "primal" /\ i \in Mps /\ m' = m /\ UNCHANGED fillVars /\ cons' = cons /\ i' = i + 1
      /\ m.type[x] = "opt"
  BY DEF PrimalOpt
<1>2. WellFormed(m) /\ x \in MpIds(m) /\ DOMAIN dual = Places
  BY <1>1, MpsIs DEF ListInv, Built, Copied
<1>3. /\ ObjequOf(i) = o /\ var_in_mp(i) = V
      /\ NormalCone(cons[i], V) = SetToBag(Mults(V))
  BY <1>1, <1>2, ObjequOfIs, OwnVarsAre, ConeOfMp
<1>4. CASE o = NA
  <2> DEFINE u == m.objvar[x]  G == {<<ei_F(u), "cst", NA>>}
  <2>1. Constant(u, V, cons[i])
    BY <1>3, <1>4 DEF PrimalOpt
  <2>2. /\ terms' = terms (+) SetToBag(G) (+) SetToBag(Mults(V))
        /\ pc' = IF MayMatch(ei_F(u)) THEN pc ELSE "error"
    BY <1>3, <2>1 DEF Constant
  <2>3. ASSUME pc' = "primal" PROVE u \in FoocVars
    <3>1. ei_F(u) \in Places
      BY <1>1, <1>2, <2>2, <2>3 DEF MayMatch
    <3>2. ei_F(u) # NA
      BY <3>1 DEF Places, NA
    <3> QED BY <1>2, <3>2, Renumbering
  <2>4. pc' = "primal" => G \cap Mults(V) = {} /\ G \cup Mults(V) = AllTerms(V)
    BY <1>1, <1>2, <1>4, <2>3, TermsWithout
  <2>5. pc' \in {"primal", "error"}
    BY <1>1, <2>2
  <2> HIDE DEF G
  <2> QED BY <1>1, <2>2, <2>4, <2>5, PrimalStep
<1>5. CASE o # NA
  <2> DEFINE G == {<<ei_F(v), "grad", o>> : v \in m.vars[o] \cap V}
  <2>1. Gradient(o, V, cons[i])
    BY <1>3, <1>5 DEF PrimalOpt
  <2>2. terms' = terms (+) SetToBag(G) (+) SetToBag(Mults(V))
    BY <1>3, <2>1 DEF Gradient
  <2>3. pc' \in {"primal", "error"}
    BY <1>1, <2>1 DEF Gradient
  <2>4. G \cap Mults(V) = {} /\ G \cup Mults(V) = AllTerms(V)
    BY <1>2, <1>5, TermsWithEquation
  <2> HIDE DEF G
  <2> QED BY <1>1, <2>2, <2>3, <2>4, PrimalStep
<1> QED BY <1>4, <1>5

\* a VI has multipliers only.
LEMMA PrimalViTerms ==
  ASSUME ListInv, Full, Built, TermsInv, PrimalVi
  PROVE  TermsInv'
<1> DEFINE x == Mp(i)  V == OwnVars(x)
<1>1. /\ pc = "primal" /\ i \in Mps /\ m' = m /\ UNCHANGED fillVars /\ cons' = cons /\ i' = i + 1
      /\ m.type[x] = "vi" /\ pc' = pc /\ terms' = terms (+) NormalCone(cons[i], var_in_mp(i))
  BY DEF PrimalVi
<1>2. WellFormed(m) /\ x \in MpIds(m)
  BY <1>1, MpsIs DEF ListInv
<1>3. terms' = terms (+) SetToBag({}) (+) SetToBag(Mults(V))
  <2>1. terms' = terms (+) SetToBag(Mults(V))
    BY <1>1, ConeOfMp
  <2>2. terms = SetToBag(AllTerms(VarsDone(i)))
    BY <1>1 DEF TermsInv
  <2>3. terms (+) SetToBag({}) = terms
    BY <2>2, DisjointBags
  <2> QED BY <2>1, <2>3
<1>4. m.objequ[x] = NA
  BY <1>1, <1>2, ObjectiveOf
<1>5. {} \cap Mults(V) = {} /\ {} \cup Mults(V) = AllTerms(V)
  BY <1>1, <1>2, <1>4, TermsWithout
<1> QED BY <1>1, <1>3, <1>5, PrimalStep

\* Without EMPDAG: the terms of all variables at once.
LEMMA PrimalNoHopTerms ==
  ASSUME ListInv, Full, Built, TermsInv, PrimalNoHop
  PROVE  TermsInv'
<1> DEFINE C == [nl |-> n_foocvars .. ei_lincons_start - 1, lin |-> ei_lincons_start .. mcp_size - 1]
           V == OwnVars(0)
<1>1. /\ pc = "primal" /\ m.mps = <<>> /\ i = 1 /\ m' = m /\ UNCHANGED fillVars /\ cons' = cons /\ i' = 2
  BY DEF PrimalNoHop
<1>2. /\ WellFormed(m) /\ 0 \in MpIds(m) /\ SortedList /\ Listed = Obj
      /\ V = FoocVars /\ FoocVars = m.live
  BY <1>1, AllConsAre, MpsIs DEF ListInv, Full
<1>3. NormalCone(C, V) = SetToBag(Mults(V))
  <2>1. C.nl \cup C.lin = {Rosetta(c) : c \in ConsOf(0)}
    BY <1>1, AllConsAre
  <2> HIDE DEF C
  <2> QED BY <2>1, NormalConeIs
<1>4. Mps = {} /\ DOMAIN cons = Mps
  <2>1. Mps = 1 .. 0
    BY <1>1, <1>2, MpsIs
  <2> QED BY <2>1 DEF TermsInv
<1>5. terms = SetToBag({})
  <2>1. terms = SetToBag(AllTerms(VarsDone(1)))
    BY <1>1 DEF TermsInv
  <2>2. AllTerms(VarsDone(1)) = {}
    BY <1>2, VarsDoneNext DEF AllTerms
  <2> QED BY <2>1, <2>2
<1>6. ASSUME pc' = "primal" PROVE terms' = SetToBag(AllTerms(FoocVars))
  <2>1. CASE objequs # <<>>
    <3> DEFINE o == objequs[1]  G == {<<ei_F(v), "grad", o>> : v \in m.vars[o] \cap V}
    <3>1. Gradient(o, V, C)
      BY <1>2, <2>1 DEF PrimalNoHop
    <3>2. terms' = terms (+) SetToBag(G) (+) SetToBag(Mults(V))
      BY <1>3, <3>1 DEF Gradient
    <3>3. o \in Obj
      BY <1>2, <2>1 DEF SortedList
    <3>4. o # NA /\ o = m.objequ[0]
      <4>1. m.eown[o] \in MpIds(m) /\ m.objequ[m.eown[o]] = o
        BY <1>2, <3>3 DEF WellFormed, Obj, Kept
      <4>2. MpIds(m) = {0}
        BY <1>1, <1>2, MpsIs
      <4>3. o # NA
        BY <1>2, <3>3, Roles DEF NA
      <4> QED BY <4>1, <4>2, <4>3
    <3>5. G \cap Mults(V) = {} /\ G \cup Mults(V) = AllTerms(V)
      BY <1>2, <3>4, TermsWithEquation
    <3> HIDE DEF G
    <3>6. SetToBag({}) (+) SetToBag(G) (+) SetToBag(Mults(V)) = SetToBag({} \cup AllTerms(V))
      BY <3>5, TermsOfMp
    <3> QED BY <1>2, <1>5, <3>2, <3>6
  <2>2. CASE objequs = <<>>
    <3>1. m.type[0] = "vi" /\ terms' = terms (+) SetToBag(Mults(V))
      BY <1>2, <1>3, <1>6, <2>2 DEF PrimalNoHop
    <3>2. m.objequ[0] = NA
      BY <1>2, <3>1, ObjectiveOf
    <3>3. Mults(V) = AllTerms(V)
      BY <1>2, <3>1, <3>2, TermsWithout
    <3>4. SetToBag({}) (+) SetToBag(Mults(V)) = SetToBag(Mults(V))
      BY DisjointBags
    <3> QED BY <1>2, <1>5, <3>1, <3>3, <3>4
  <2> QED BY <2>1, <2>2
<1>7. pc' \in {"primal", "error"}
  BY <1>1 DEF PrimalNoHop, Gradient
<1>8. /\ Mps' = Mps /\ Turns' = Turns /\ AllTerms(VarsDone(i))' = AllTerms(VarsDone(2))
  BY <1>1, SameTerms
<1>9. AllTerms(VarsDone(2)) = AllTerms(FoocVars) /\ 2 \in Turns
  BY <1>1, <1>2, VarsDoneNext DEF Turns
<1> QED BY <1>1, <1>4, <1>6, <1>7, <1>8, <1>9 DEF TermsInv

\* The matching adds nothing, and all MPs are done.
LEMMA MatchingTerms ==
  ASSUME ListInv, TermsInv, Matching
  PROVE  TermsInv'
<1>1. /\ pc = "primal" /\ i \notin Mps /\ (m.mps = <<>> => i = 2) /\ m' = m /\ UNCHANGED fillVars
      /\ cons' = cons /\ terms' = terms /\ pc' \in {"done", "error"}
  BY DEF Matching
<1>2. WellFormed(m) /\ DOMAIN cons = Mps /\ i \in Turns /\ terms = SetToBag(AllTerms(VarsDone(i)))
  BY <1>1 DEF ListInv, TermsInv
<1>3. IF m.mps = <<>> THEN i = 2 ELSE i = Len(m.mps) + 1
  <2>1. Mps = 1 .. Len(m.mps) /\ Len(m.mps) \in Nat
    BY <1>2, MpsIs
  <2> QED BY <1>1, <1>2, <2>1 DEF Turns
<1>4. AllTerms(VarsDone(i)) = AllTerms(FoocVars)
  BY <1>2, <1>3, AllDone
<1>5. Mps' = Mps /\ AllTerms(FoocVars)' = AllTerms(FoocVars)
  BY <1>1, SameTerms
<1> QED BY <1>1, <1>2, <1>4, <1>5 DEF TermsInv

\* Every step keeps the terms exact.
LEMMA TermsKept ==
  ASSUME SysInv, TermsInv, [Next]_vars
  PROVE  TermsInv'
<1>1. ListInv /\ WellFormed(m)
  BY DEF SysInv, ListInv
<1>2. pc \in {"lists", "primal"} => Full /\ Built
  BY DEF SysInv, ListInv, Assembly
<1>3. CASE FillOpt \/ FillVi \/ FillOther \/ FillNoHop \/ Layout
  <2>1. /\ m' = m /\ terms' = terms /\ cons' = cons /\ pc \in {"fill", "layout"}
        /\ pc' \notin {"lists", "primal", "done"}
    BY <1>3 DEF FillOpt, FillVi, FillOther, FillNoHop, Layout, Stop, mcpVars
  <2> QED BY <1>1, <2>1, EarlyTerms
<1>4. CASE SkipEqu \/ InjectVifunc \/ InjectCons \/ InjectOther \/ EndInterval
  <2>1. m' = m /\ terms' = terms /\ cons' = cons /\ pc = "inject"
    BY <1>4 DEF SkipEqu, InjectVifunc, InjectCons, InjectOther, EndInterval, InInterval, Stop, mcpVars
  <2>2. pc' \notin {"lists", "primal", "done"}
    <3>1. CASE SkipEqu \/ InjectOther
      BY <2>1, <3>1 DEF SkipEqu, InjectOther, Stop
    <3>2. CASE InjectVifunc \/ InjectCons
      BY <2>1, <3>2 DEF InjectVifunc, InjectCons, CopyTo
    <3>3. CASE EndInterval
      BY <2>1, <3>3 DEF EndInterval
    <3> QED BY <1>4, <3>1, <3>2, <3>3
  <2> QED BY <1>1, <2>1, <2>2, EarlyTerms
<1>5. CASE InjectZerofuncs
  <2>1. /\ m' = m /\ terms' = terms /\ cons' = cons /\ pc = "zero" /\ i' = 1
        /\ pc' \notin {"primal", "done"}
    BY <1>5 DEF InjectZerofuncs
  <2> QED BY <1>1, <2>1, EarlyTerms
<1>6. CASE ListMp
  BY <1>1, <1>2, <1>6, ListMpTerms DEF ListMp
<1>7. CASE ListsEnd
  BY <1>1, <1>2, <1>7, ListsEndTerms DEF ListsEnd
<1>8. CASE PrimalOpt
  BY <1>1, <1>2, <1>8, PrimalOptTerms DEF PrimalOpt
<1>9. CASE PrimalVi
  BY <1>1, <1>2, <1>9, PrimalViTerms DEF PrimalVi
<1>10. CASE PrimalNoHop
  BY <1>1, <1>2, <1>10, PrimalNoHopTerms DEF PrimalNoHop
<1>11. CASE Matching
  BY <1>1, <1>11, MatchingTerms
<1>12. CASE UNCHANGED vars
  <2>1. /\ m' = m /\ UNCHANGED fillVars /\ pc' = pc /\ i' = i /\ terms' = terms /\ cons' = cons
    BY <1>12 DEF vars, fillVars
  <2>2. /\ Turns' = Turns /\ Mps' = Mps
        /\ AllTerms(FoocVars)' = AllTerms(FoocVars)
        /\ AllTerms(VarsDone(i))' = AllTerms(VarsDone(i'))
        /\ \A k : {Rosetta(c) : c \in ConsOf(Mp(k))}' = {Rosetta(c) : c \in ConsOf(Mp(k))}
    BY <2>1, SameTerms
  <2>3. \A k : ConsExact(k)' = ConsExact(k)
    BY <2>1, <2>2 DEF ConsExact
  <2> QED BY <2>1, <2>2, <2>3 DEF TermsInv
<1> QED BY <1>3, <1>4, <1>5, <1>6, <1>7, <1>8, <1>9, <1>10, <1>11, <1>12 DEF Next

\* In the end, the terms of the equation that a variable is matched with are those of its own
\* Lagrangian.
LEMMA LagrangianIs ==
  ASSUME SysInv, TermsInv
  PROVE  LagrangianExact
<1> SUFFICES ASSUME pc = "done" PROVE LagrangianExact
  BY DEF LagrangianExact
<1>1. ListInv /\ Full /\ Built /\ Matched /\ WellFormed(m) /\ terms = SetToBag(AllTerms(FoocVars))
  BY DEF SysInv, ListInv, Assembly, TermsInv
<1>2. DOMAIN terms = AllTerms(FoocVars) /\ \A t \in DOMAIN terms : terms[t] = 1
  BY <1>1 DEF SetToBag
<1>3. ASSUME NEW v \in FoocVars
      PROVE  {t \in DOMAIN terms : dual[t[1]] = rosetta_vars(v)} = TermsAt(v)
  <2>1. \A u \in FoocVars : dual[ei_F(u)] = rosetta_vars(u)
    BY <1>1, Renumbering DEF Matched
  <2>2. \A u \in FoocVars : rosetta_vars(u) = rosetta_vars(v) => u = v
    BY <1>1, Renumbering, Fooc
  <2>3. ASSUME NEW t \in AllTerms(FoocVars), dual[t[1]] = rosetta_vars(v) PROVE t \in TermsAt(v)
    <3>1. PICK u \in FoocVars : t \in TermsAt(u)
      BY DEF AllTerms
    <3>2. t[1] = ei_F(u)
      BY <3>1, TermsKinds
    <3>3. u = v
      BY <2>1, <2>2, <2>3, <3>2
    <3> QED BY <3>1, <3>3
  <2>4. ASSUME NEW t \in TermsAt(v) PROVE t \in AllTerms(FoocVars) /\ dual[t[1]] = rosetta_vars(v)
    <3>1. t[1] = ei_F(v)
      BY TermsKinds
    <3> QED BY <2>1, <3>1 DEF AllTerms
  <2> QED BY <1>2, <2>3, <2>4
<1>4. ASSUME NEW v \in FoocVars
      PROVE  {t[3] : t \in {u \in TermsAt(v) : u[2] = "grad"}} =
                 {o \in Kept("objective") : m.eown[o] = OwnerOf(v) /\ v \in m.vars[o]}
  <2>1. {u \in TermsAt(v) : u[2] = "grad"} = GradTerms(v)
    <3>1. \A u \in CstTerms(v) \cup MultTerms(v) : u[2] # "grad"
      BY TermsKinds
    <3>2. \A u \in GradTerms(v) : u[2] = "grad"
      BY TermsKinds
    <3> QED BY <3>1, <3>2 DEF TermsAt
  <2>2. {t[3] : t \in GradTerms(v)} = {p \in Obj : m.eown[p] = OwnerOf(v) /\ v \in m.vars[p]}
    <3> DEFINE N == {p \in Obj : m.eown[p] = OwnerOf(v) /\ v \in m.vars[p]}
    <3>1. GradTerms(v) = {<<ei_F(v), "grad", n>> : n \in N}
      BY DEF GradTerms
    <3> HIDE DEF N
    <3>2. \A t \in GradTerms(v) : t[3] \in N
      BY <3>1
    <3>3. \A n \in N : <<ei_F(v), "grad", n>> \in GradTerms(v) /\ <<ei_F(v), "grad", n>>[3] = n
      BY <3>1
    <3>4. {t[3] : t \in GradTerms(v)} = N
      BY <3>2, <3>3
    <3> QED BY <3>4 DEF N
  <2> QED BY <2>1, <2>2 DEF Obj
<1>5. ASSUME NEW v \in FoocVars
      PROVE  {t[3] : t \in {u \in TermsAt(v) : u[2] = "mult"}} =
                 {dual[rosetta_equs[c]] : c \in {d \in MpConstraints(v) : v \in m.vars[d]}}
  <2>1. {u \in TermsAt(v) : u[2] = "mult"} = MultTerms(v)
    <3>1. \A u \in CstTerms(v) \cup GradTerms(v) : u[2] # "mult"
      BY TermsKinds
    <3>2. \A u \in MultTerms(v) : u[2] = "mult"
      BY TermsKinds
    <3> QED BY <3>1, <3>2 DEF TermsAt
  <2>2. {t[3] : t \in MultTerms(v)} = {DualOf(c) : c \in {d \in MpConstraints(v) : v \in m.vars[d]}}
    <3> DEFINE N == {DualOf(c) : c \in {d \in MpConstraints(v) : v \in m.vars[d]}}
    <3>1. MultTerms(v) = {<<ei_F(v), "mult", n>> : n \in N}
      BY DEF MultTerms
    <3> HIDE DEF N
    <3>2. \A t \in MultTerms(v) : t[3] \in N
      BY <3>1
    <3>3. \A n \in N : <<ei_F(v), "mult", n>> \in MultTerms(v) /\ <<ei_F(v), "mult", n>>[3] = n
      BY <3>1
    <3>4. {t[3] : t \in MultTerms(v)} = N
      BY <3>2, <3>3
    <3> QED BY <3>4 DEF N
  <2>3. \A c \in Con : rosetta_equs[c] = Rosetta(c) /\ dual[Rosetta(c)] = DualOf(c)
    <3>1. \A c \in Con : c \in 0 .. m.ne /\ c < m.ne + 1
      BY <1>1, Roles
    <3> QED BY <1>1, <3>1 DEF Built, Copied
  <2>4. \A c \in MpConstraints(v) : dual[rosetta_equs[c]] = DualOf(c)
    BY <2>3 DEF MpConstraints, Con
  <2> QED BY <2>1, <2>2, <2>4
<1> QED BY <1>2, <1>3, <1>4, <1>5 DEF LagrangianExact

\* At every step of the computation the equations F have the terms of the MPs that were differentiated
\* so far, each once.
THEOREM TermsInvCorrect == Spec => []TermsInv
<1>1. Init => TermsInv
  BY TermsInit
<1>2. SysInv /\ TermsInv /\ [Next]_vars => TermsInv'
  BY TermsKept
<1> QED BY <1>1, <1>2, SysInvCorrect, PTL DEF Spec

\* For a model of any size, the equation of each variable is the derivative of the Lagrangian of its
\* own MP: the gradient of the objective and the multipliers of the constraints that have it.
THEOREM LagrangianExactCorrect == Spec => []LagrangianExact
<1>1. SysInv /\ TermsInv => LagrangianExact
  BY LagrangianIs
<1> QED BY <1>1, SysInvCorrect, TermsInvCorrect, PTL
=============================================================================
