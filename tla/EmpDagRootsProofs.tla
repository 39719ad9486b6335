-------------------------- MODULE EmpDagRootsProofs --------------------------
(***************************************************************************)
(* Proofs about EmpDagArcs and EmpDagRoots, for any number of MPs, Nash    *)
(* nodes and arcs.  First the agreement of forward and reverse arcs and    *)
(* the two action properties that rest on it; then what the flag finalized *)
(* vouches for, whatever is added, chosen and finalized in between.        *)
(***************************************************************************)
EXTENDS EmpDagRoots, WellFoundedInduction, FiniteSetTheorems, TLAPS

AP == INSTANCE UIntArrayProofs

-----------------------------------------------------------------------------
(***************************************************************************)
(* The arcs.                                                               *)
(***************************************************************************)

\* The encoding of empdag_uid.h tells apart the ids, the two kinds of nodes and
\* the two kinds of reverse arcs.
LEMMA UidsDistinct ==
  ASSUME NEW p \in Int, NEW q \in Int
  PROVE  /\ mpid2uid(p) = mpid2uid(q) => p = q
         /\ nashid2uid(p) = nashid2uid(q) => p = q
         /\ rarcVFuid(mpid2uid(p)) = rarcVFuid(mpid2uid(q)) => p = q
         /\ mpid2uid(p) # nashid2uid(q)
         /\ rarcVFuid(mpid2uid(p)) # mpid2uid(q)
         /\ rarcVFuid(mpid2uid(p)) # nashid2uid(q)
         /\ rarcCTRLuid(mpid2uid(p)) = mpid2uid(p)
  BY DEF mpid2uid, nashid2uid, rarcVFuid, rarcCTRLuid

\* The ids in use are ids, and creating nodes keeps the old ones.
LEMMA IdsInUse ==
  ASSUME TypeOK
  PROVE  /\ MPs \subseteq MpIds /\ Nashs \subseteq NashIds
         /\ MpIds \subseteq Int /\ NashIds \subseteq Int
         /\ mps_len < MaxMps => mps_len \in MpIds /\ mps_len \notin MPs
  BY BoundsAssumption DEF TypeOK, MPs, Nashs, MpIds, NashIds

\* A replaced element comes from the old sequence or is the new value.
LEMMA SwapFirstType ==
  ASSUME NEW S, NEW s \in Seq(S), NEW x, NEW y \in S
  PROVE  /\ SwapFirst(s, x, y) \in Seq(S)
         /\ Len(SwapFirst(s, x, y)) = Len(s)
         /\ \A i \in 1..Len(s) : SwapFirst(s, x, y)[i] =
               IF s[i] = x /\ \A j \in 1..(i - 1) : s[j] # x THEN y ELSE s[i]
  BY DEF SwapFirst

------------------------------------------------------------------------------
\* Creating nodes enlarges the sets the arcs range over.
LEMMA TypesGrow ==
  ASSUME TypeOK, NEW k \in {0, 1}, NEW j \in {0, 1},
         mps_len' = mps_len + k, nashs_len' = nashs_len + j
  PROVE  /\ MPs \subseteq MPs' /\ Nashs \subseteq Nashs'
         /\ MpUids \subseteq MpUids' /\ NodeUids \subseteq NodeUids'
         /\ RarcUids \subseteq RarcUids'
         /\ Seq(MPs) \subseteq Seq(MPs')
         /\ k = 1 => mps_len \in MPs'
  <1>4. mps_len \in Nat /\ nashs_len \in Nat
    BY BoundsAssumption DEF TypeOK
  <1>5. MPs \subseteq MPs' /\ (k = 1 => mps_len \in MPs')
    BY <1>4 DEF MPs
  <1>6. Nashs \subseteq Nashs'
    BY <1>4 DEF Nashs
  <1>1. /\ MPs \subseteq MPs' /\ Nashs \subseteq Nashs'
        /\ k = 1 => mps_len \in MPs'
    BY <1>5, <1>6
  <1>2. /\ MpUids \subseteq MpUids' /\ NodeUids \subseteq NodeUids'
        /\ RarcUids \subseteq RarcUids'
    BY <1>1 DEF RarcUids, NodeUids, MpUids
  <1>3. Seq(MPs) \subseteq Seq(MPs')
    BY <1>1
  <1> QED BY <1>1, <1>2, <1>3

\* The arcs a substitution leaves stay among the nodes in use.
LEMMA SubstitutionType ==
  ASSUME TypeOK, NEW old \in MPs, NEW new \in MPs', new \in MpIds,
         MPs \subseteq MPs', MpUids \subseteq MpUids', NodeUids \subseteq NodeUids',
         RarcUids \subseteq RarcUids',
         Seq(MPs) \subseteq Seq(MPs'), MPs' \subseteq MpIds,
         empdag_substitute_mp_arcs(old, new)
  PROVE  /\ Carcs' \in [MpIds -> SUBSET NodeUids']
         /\ Varcs' \in [MpIds -> Seq(MPs')]
         /\ rarcs' \in [MpIds -> SUBSET RarcUids']
         /\ nash_arcs' \in [NashIds -> SUBSET MpUids']
         /\ nash_rarcs' \in [NashIds -> SUBSET MpUids']
         /\ finalized' \in BOOLEAN
         /\ rc' \in {OK, Error_DuplicateValue, Error_NotFound, Error_RuntimeError}
         /\ superseded' \subseteq MPs'
  <1>0. old \in MpIds /\ new \in MpIds
    BY IdsInUse
  <1>12. mpid2uid(new) \in MpUids' /\ mpid2uid(new) \in NodeUids'
    BY DEF MpUids, NodeUids
  <1>1. CarcsParents(old, new) \in [MpIds -> SUBSET NodeUids']
    BY <1>12 DEF CarcsParents, Swap, TypeOK
  <1>2. Carcs[old] \in SUBSET NodeUids'
    BY <1>0 DEF TypeOK
  <1>3. Carcs' \in [MpIds -> SUBSET NodeUids']
    BY <1>0, <1>1, <1>2 DEF empdag_substitute_mp_arcs
  <1>4. VarcsParents(old, new) \in [MpIds -> Seq(MPs')]
    <2>1. ASSUME NEW p \in MpIds
          PROVE  SwapFirst(Varcs[p], old, new) \in Seq(MPs') /\ Varcs[p] \in Seq(MPs')
      <3>1. Varcs[p] \in Seq(MPs')
        BY DEF TypeOK
      <3> QED BY <3>1, SwapFirstType
    <2> QED BY <2>1 DEF VarcsParents
  <1>5. Varcs' \in [MpIds -> Seq(MPs')]
    <2>1. Varcs[old] \in Seq(MPs')
      BY <1>0 DEF TypeOK
    <2> QED BY <1>0, <1>4, <2>1 DEF empdag_substitute_mp_arcs
  <1>6. RarcsParents(old, new) \in [MpIds -> SUBSET RarcUids']
    BY <1>0 DEF RarcsParents, TypeOK
  <1>7. rarcVFuid(mpid2uid(new)) \in RarcUids' /\ rarcCTRLuid(mpid2uid(new)) \in RarcUids'
    BY <1>12, UidsDistinct, IdsInUse DEF RarcUids
  <1>8. rarcs' \in [MpIds -> SUBSET RarcUids']
    BY <1>6, <1>7 DEF empdag_substitute_mp_arcs, RarcsChildren, Swap
  <1>9. nash_arcs' \in [NashIds -> SUBSET MpUids']
    BY <1>12 DEF empdag_substitute_mp_arcs, NashParents, Swap, TypeOK
  <1>10. nash_rarcs' \in [NashIds -> SUBSET MpUids']
    BY <1>12, <1>0, UidsDistinct, IdsInUse DEF empdag_substitute_mp_arcs, NashRarcsChildren, Swap, TypeOK
  <1>11. /\ finalized' \in BOOLEAN
         /\ rc' \in {OK, Error_DuplicateValue, Error_NotFound, Error_RuntimeError}
         /\ superseded' \subseteq MPs'
    BY DEF empdag_substitute_mp_arcs, TypeOK
  <1> QED BY <1>3, <1>5, <1>8, <1>9, <1>10, <1>11

\* Types are preserved by every operation on nodes and arcs.
LEMMA TypeStep ==
  ASSUME TypeOK, [Next]_avars
  PROVE  TypeOK'
  <1> USE IdsInUse
  <1>1. ASSUME NEW type \in MpTypes, empdag_addmp(type)
        PROVE  TypeOK'
    <2>1. /\ mps_len' = mps_len + 1 /\ nashs_len' = nashs_len + 0
          /\ mps_len' \in 0..MaxMps
      BY <1>1, BoundsAssumption DEF empdag_addmp, TypeOK
    <2>2. mptype' \in [MpIds -> MpTypes \cup {"none"}]
      BY <1>1 DEF empdag_addmp, TypeOK
    <2> QED BY <1>1, <2>1, <2>2, TypesGrow DEF empdag_addmp, TypeOK, arcs
  <1>2. CASE empdag_addnash
    <2>1. /\ mps_len' = mps_len + 0 /\ nashs_len' = nashs_len + 1
          /\ nashs_len' \in 0..MaxNashs
      BY <1>2, BoundsAssumption DEF empdag_addnash, TypeOK
    <2> QED BY <1>2, <2>1, TypesGrow DEF empdag_addnash, TypeOK, arcs
  <1>3. ASSUME NEW n \in Nashs, NEW m \in MPs, empdag_nashaddmpbyid(n, m)
        PROVE  TypeOK'
    <2>1. mpid2uid(m) \in MpUids /\ nashid2uid(n) \in RarcUids
      BY DEF MpUids, NodeUids, RarcUids
    <2>2. mps2instantiate' \in Seq(MPs)
      BY <1>3 DEF empdag_nashaddmpbyid, TypeOK
    <2>3. MPs' = MPs /\ Nashs' = Nashs /\ MpUids' = MpUids /\ NodeUids' = NodeUids
          /\ RarcUids' = RarcUids
      BY <1>3 DEF empdag_nashaddmpbyid, MPs, Nashs, MpUids, NodeUids, RarcUids
    <2>4. nash_arcs' \in [NashIds -> SUBSET MpUids] /\ rarcs' \in [MpIds -> SUBSET RarcUids]
      BY <1>3, <2>1 DEF empdag_nashaddmpbyid, TypeOK
    <2> QED BY <1>3, <2>2, <2>3, <2>4 DEF empdag_nashaddmpbyid, TypeOK
  <1>4. ASSUME NEW p \in MPs, NEW c \in MPs, empdag_mpVFmpbyid(p, c)
        PROVE  TypeOK'
    <2>1. rarcVFuid(mpid2uid(p)) \in RarcUids
      BY DEF RarcUids
    <2>2. Varcs' \in [MpIds -> Seq(MPs)]
      BY <1>4 DEF empdag_mpVFmpbyid, TypeOK
    <2>3. MPs' = MPs /\ Nashs' = Nashs /\ MpUids' = MpUids /\ NodeUids' = NodeUids
          /\ RarcUids' = RarcUids
      BY <1>4 DEF empdag_mpVFmpbyid, MPs, Nashs, MpUids, NodeUids, RarcUids
    <2>4. rarcs' \in [MpIds -> SUBSET RarcUids]
      BY <1>4, <2>1 DEF empdag_mpVFmpbyid, TypeOK
    <2> QED BY <1>4, <2>2, <2>3, <2>4 DEF empdag_mpVFmpbyid, TypeOK
  <1>5. ASSUME NEW p \in MPs, NEW c \in MPs, empdag_mpCTRLmpbyid(p, c)
        PROVE  TypeOK'
    <2>1. mpid2uid(c) \in NodeUids /\ rarcCTRLuid(mpid2uid(p)) \in RarcUids
      BY UidsDistinct DEF MpUids, NodeUids, RarcUids
    <2>3. MPs' = MPs /\ Nashs' = Nashs /\ MpUids' = MpUids /\ NodeUids' = NodeUids
          /\ RarcUids' = RarcUids
      BY <1>5 DEF empdag_mpCTRLmpbyid, MPs, Nashs, MpUids, NodeUids, RarcUids
    <2>4. Carcs' \in [MpIds -> SUBSET NodeUids] /\ rarcs' \in [MpIds -> SUBSET RarcUids]
      BY <1>5, <2>1 DEF empdag_mpCTRLmpbyid, TypeOK
    <2> QED BY <1>5, <2>3, <2>4 DEF empdag_mpCTRLmpbyid, TypeOK
  <1>6. ASSUME NEW p \in MPs, NEW n \in Nashs, empdag_mpCTRLnashbyid(p, n)
        PROVE  TypeOK'
    <2>1. nashid2uid(n) \in NodeUids /\ rarcCTRLuid(mpid2uid(p)) \in MpUids
      BY UidsDistinct DEF MpUids, NodeUids
    <2>3. MPs' = MPs /\ Nashs' = Nashs /\ MpUids' = MpUids /\ NodeUids' = NodeUids
          /\ RarcUids' = RarcUids
      BY <1>6 DEF empdag_mpCTRLnashbyid, MPs, Nashs, MpUids, NodeUids, RarcUids
    <2>4. Carcs' \in [MpIds -> SUBSET NodeUids] /\ nash_rarcs' \in [NashIds -> SUBSET MpUids]
      BY <1>6, <2>1 DEF empdag_mpCTRLnashbyid, TypeOK
    <2> QED BY <1>6, <2>3, <2>4 DEF empdag_mpCTRLnashbyid, TypeOK
  <1>7. ASSUME NEW old \in MPs, dualize(old)
        PROVE  TypeOK'
    <2>1. /\ mps_len' = mps_len + 1 /\ nashs_len' = nashs_len + 0
          /\ mps_len' \in 0..MaxMps /\ mps_len \in MpIds
      BY <1>7, BoundsAssumption DEF dualize, Dualizable, TypeOK
    <2>2. mptype' \in [MpIds -> MpTypes \cup {"none"}]
      BY <1>7, MpTypesAssumption DEF dualize, TypeOK
    <2>3. MPs' \subseteq MpIds
      BY <2>1, BoundsAssumption DEF MPs, MpIds
    <2>4. empdag_substitute_mp_arcs(old, mps_len)
      BY <1>7 DEF dualize
    <2> QED BY <1>7, <2>1, <2>2, <2>3, <2>4, TypesGrow, SubstitutionType DEF dualize, TypeOK
  <1>8. ASSUME NEW old \in MPs, NEW new \in MPs, substitute_instance(old, new)
        PROVE  TypeOK'
    <2>1. /\ MPs' = MPs /\ Nashs' = Nashs /\ MpUids' = MpUids /\ NodeUids' = NodeUids
          /\ RarcUids' = RarcUids
      BY <1>8 DEF substitute_instance, MPs, Nashs, MpUids, NodeUids, RarcUids
    <2>2. empdag_substitute_mp_arcs(old, new)
      BY <1>8 DEF substitute_instance
    <2> QED BY <1>8, <2>1, <2>2, SubstitutionType DEF substitute_instance, TypeOK
  <1>9. CASE UNCHANGED avars
    BY <1>9 DEF avars, TypeOK, MPs, Nashs, MpUids, NodeUids, RarcUids
  <1>10. CASE substitution_aborts
    BY <1>10 DEF substitution_aborts, arcs, TypeOK, MPs, Nashs, MpUids, NodeUids, RarcUids
  <1> QED BY <1>1, <1>2, <1>3, <1>4, <1>5, <1>6, <1>7, <1>8, <1>9, <1>10 DEF Next

\* Types hold initially.
LEMMA TypeInit == Init => TypeOK
  <1> SUFFICES ASSUME Init PROVE TypeOK
    OBVIOUS
  <1>1. mps_len \in 0..MaxMps /\ nashs_len \in 0..MaxNashs
    BY BoundsAssumption DEF Init
  <1>2. /\ Varcs \in [MpIds -> Seq(MPs)]
        /\ mps2instantiate \in Seq(MPs)
    BY DEF Init
  <1>3. /\ mptype \in [MpIds -> MpTypes \cup {"none"}]
        /\ Carcs \in [MpIds -> SUBSET NodeUids]
        /\ rarcs \in [MpIds -> SUBSET RarcUids]
        /\ nash_arcs \in [NashIds -> SUBSET MpUids]
        /\ nash_rarcs \in [NashIds -> SUBSET MpUids]
    BY DEF Init
  <1>4. /\ finalized \in BOOLEAN /\ multiVF \in BOOLEAN
        /\ rc \in {OK, Error_DuplicateValue, Error_NotFound, Error_RuntimeError}
        /\ hidden \subseteq MPs /\ superseded \subseteq MPs
    BY DEF Init
  <1> QED BY <1>1, <1>2, <1>3, <1>4 DEF TypeOK

\* In every behaviour the variables keep their types, and arcs only mention nodes
\* in use (empdag_init and the operations on nodes and arcs).
THEOREM TypeCorrect == Spec => []TypeOK
  <1>1. TypeOK /\ [rc # Aborted /\ Next]_avars => TypeOK'
    BY TypeStep
  <1> QED BY <1>1, TypeInit, PTL DEF Spec

------------------------------------------------------------------------------
\* A nonempty set of naturals has a least element.
LEMMA LeastElement ==
  ASSUME NEW T, T \subseteq Nat, T # {}
  PROVE  \E x \in T : \A y \in T : x <= y
  <1>1. \E x \in T : \A y \in T : ~(<<y, x>> \in OpToRel(<, Nat))
    BY WFMin, NatLessThanWellFounded
  <1>2. PICK x \in T : \A y \in T : ~(<<y, x>> \in OpToRel(<, Nat))
    BY <1>1
  <1>3. ASSUME NEW y \in T PROVE x <= y
    <2>1. x \in Nat /\ y \in Nat
      OBVIOUS
    <2>2. ~(y < x)
      BY <1>2, <2>1 DEF OpToRel
    <2> QED BY <2>1, <2>2
  <1> QED BY <1>3

\* Appending adds one element.
LEMMA EltsAppend ==
  ASSUME NEW S, NEW s \in Seq(S), NEW c \in S
  PROVE  Elts(Append(s, c)) = Elts(s) \cup {c}
  BY DEF Elts

\* SwapFirst replaces x by y once, wherever x occurs, and touches nothing else.
LEMMA EltsSwapFirst ==
  ASSUME NEW S, NEW s \in Seq(S), NEW x, NEW y \in S, x # y
  PROVE  /\ \A z : z # x /\ z # y => (z \in Elts(SwapFirst(s, x, y)) <=> z \in Elts(s))
         /\ x \in Elts(SwapFirst(s, x, y)) => x \in Elts(s)
         /\ x \in Elts(s) => y \in Elts(SwapFirst(s, x, y))
         /\ y \in Elts(SwapFirst(s, x, y)) => x \in Elts(s) \/ y \in Elts(s)
  <1> DEFINE t == SwapFirst(s, x, y)
  <1>1. /\ t \in Seq(S) /\ Len(t) = Len(s)
        /\ \A i \in 1..Len(s) : t[i] =
              IF s[i] = x /\ \A j \in 1..(i - 1) : s[j] # x THEN y ELSE s[i]
    BY SwapFirstType
  <1>2. ASSUME x \in Elts(s) PROVE y \in Elts(t)
    <2> DEFINE T == {i \in 1..Len(s) : s[i] = x}
    <2>1. T \subseteq Nat /\ T # {}
      BY <1>2 DEF Elts
    <2>2. PICK k \in T : \A i \in T : k <= i
      BY <2>1, LeastElement
    <2>3. k \in 1..Len(s) /\ s[k] = x /\ \A j \in 1..(k - 1) : s[j] # x
      BY <2>2
    <2>4. t[k] = y
      BY <1>1, <2>3
    <2> QED BY <1>1, <2>3, <2>4 DEF Elts
  <1>3. \A z : z # x /\ z # y => (z \in Elts(t) <=> z \in Elts(s))
    <2> HIDE DEF t
    <2> QED BY <1>1 DEF Elts
  <1>4. x \in Elts(t) => x \in Elts(s)
    <2> HIDE DEF t
    <2> QED BY <1>1 DEF Elts
  <1>5. y \in Elts(t) => x \in Elts(s) \/ y \in Elts(s)
    <2> HIDE DEF t
    <2> QED BY <1>1 DEF Elts
  <1> QED BY <1>2, <1>3, <1>4, <1>5

\* In a sequence without repetition, SwapFirst leaves no x, and no repetition.
LEMMA SwapFirstDistinct ==
  ASSUME NEW S, NEW s \in Seq(S), NEW x, NEW y \in S, x # y, y \notin Elts(s),
         \A i, j \in 1..Len(s) : s[i] = s[j] => i = j
  PROVE  /\ x \notin Elts(SwapFirst(s, x, y))
         /\ \A i, j \in 1..Len(SwapFirst(s, x, y)) :
              SwapFirst(s, x, y)[i] = SwapFirst(s, x, y)[j] => i = j
  <1> DEFINE t == SwapFirst(s, x, y)
  <1>1. /\ t \in Seq(S) /\ Len(t) = Len(s)
        /\ \A i \in 1..Len(s) : t[i] =
              IF s[i] = x /\ \A j \in 1..(i - 1) : s[j] # x THEN y ELSE s[i]
    BY SwapFirstType
  <1>2. \A i \in 1..Len(s) : s[i] # y
    BY DEF Elts
  <1>3. Len(s) \in Nat
    OBVIOUS
  <1>4. \A i \in 1..Len(s) : t[i] = IF s[i] = x THEN y ELSE s[i]
    <2> SUFFICES ASSUME NEW i \in 1..Len(s), s[i] = x
                 PROVE  \A j \in 1..(i - 1) : s[j] # x
      BY <1>1
    <2> QED BY <1>3
  <1> HIDE DEF t
  <1>5. x \notin Elts(t)
    BY <1>1, <1>4 DEF Elts
  <1>6. \A i, j \in 1..Len(t) : t[i] = t[j] => i = j
    BY <1>1, <1>2, <1>4
  <1> QED BY <1>5, <1>6 DEF t

------------------------------------------------------------------------------
(***************************************************************************)
(* The inductive invariant.  RarcsHaveArcs makes the insertion of a        *)
(* reverse arc succeed whenever the forward one did; ArcsHaveRarcs makes   *)
(* the removals of a substitution succeed; VarcsDistinct is what its loop  *)
(* over the VF arcs needs.                                                 *)
(***************************************************************************)
ArcInv == TypeOK /\ NoStrayArcs /\ RarcsHaveArcs /\ ArcsHaveRarcs /\ VarcsDistinct

\* The context of a substitution: old is in place, nothing is linked to new.
CanReplace(old, new) ==
  /\ old \in MPs /\ old \notin superseded
  /\ new \in MpIds /\ new # old /\ Unlinked(new)

\* The VF loop runs to its end when no VF arc was added twice, and it only moves
\* reverse arcs that are there.
LEMMA VFLoop ==
  ASSUME ArcInv, NEW old, NEW new, CanReplace(old, new)
  PROVE  /\ ~multiVF => /\ VarcsStuck(old, new) = {}
                        /\ VarcsMoved(old, new) = Elts(Varcs[old])
         /\ \A c \in VarcsMoved(old, new) :
              /\ c \in Elts(Varcs[old]) /\ c \in MpIds /\ c # old /\ c # new
              /\ rarcVFuid(mpid2uid(old)) \in rarcs[c]
  <1> USE IdsInUse DEF ArcInv, CanReplace
  <1>1. Varcs[old] \in Seq(MPs) /\ Len(Varcs[old]) \in Nat /\ old \in MpIds
    BY DEF TypeOK
  <1>2. \A k \in 1..Len(Varcs[old]) :
          /\ Varcs[old][k] \in MpIds /\ Varcs[old][k] # old /\ Varcs[old][k] # new
          /\ Varcs[old][k] \in Elts(Varcs[old])
    BY <1>1 DEF NoStrayArcs, Unlinked, Elts
  <1>3. \A c \in MpIds : c # old /\ c # new => RarcsParents(old, new)[c] = rarcs[c]
    BY <1>1 DEF RarcsParents, TypeOK
  <1>4. ASSUME ~multiVF
        PROVE  VarcsStuck(old, new) = {}
    <2> SUFFICES ASSUME NEW k \in 1..Len(Varcs[old])
                 PROVE  /\ rarcVFuid(mpid2uid(old)) \in RarcsParents(old, new)[Varcs[old][k]]
                        /\ \A j \in 1..(k - 1) : Varcs[old][j] # Varcs[old][k]
      BY DEF VarcsStuck
    <2>1. rarcVFuid(mpid2uid(old)) \in rarcs[Varcs[old][k]]
      BY <1>1, <1>2, <1>4 DEF ArcsHaveRarcs
    <2>2. \A j \in 1..(k - 1) : Varcs[old][j] # Varcs[old][k]
      <3>1. \A j \in 1..(k - 1) : j \in 1..Len(Varcs[old]) /\ j # k
        BY <1>1
      <3>2. \A j \in 1..Len(Varcs[old]) : Varcs[old][j] = Varcs[old][k] => j = k
        BY <1>1, <1>4 DEF VarcsDistinct
      <3> QED BY <3>1, <3>2
    <2>3. RarcsParents(old, new)[Varcs[old][k]] = rarcs[Varcs[old][k]]
      BY <1>2, <1>3
    <2> QED BY <2>1, <2>2, <2>3
  <1>5. ASSUME ~multiVF
        PROVE  VarcsMoved(old, new) = Elts(Varcs[old])
    BY <1>4, <1>5 DEF VarcsMoved, Elts
  <1>6. ASSUME NEW c \in VarcsMoved(old, new)
        PROVE  /\ c \in Elts(Varcs[old]) /\ c \in MpIds /\ c # old /\ c # new
               /\ rarcVFuid(mpid2uid(old)) \in rarcs[c]
    <2>1. PICK k \in 1..Len(Varcs[old]) :
             c = Varcs[old][k] /\ \A j \in 1..k : j \notin VarcsStuck(old, new)
      BY DEF VarcsMoved
    <2>2. k \notin VarcsStuck(old, new)
      BY <1>1, <2>1
    <2>3. rarcVFuid(mpid2uid(old)) \in RarcsParents(old, new)[Varcs[old][k]]
      BY <2>2 DEF VarcsStuck
    <2> QED BY <1>2, <1>3, <2>1, <2>3
  <1> QED BY <1>4, <1>5, <1>6

\* What a substitution makes of the reverse arcs of MP c.
LEMMA SubstRarcs ==
  ASSUME ArcInv, NEW old, NEW new, CanReplace(old, new), NEW c \in MpIds,
         empdag_substitute_mp_arcs(old, new)
  PROVE  /\ c = old => rarcs'[c] = {}
         /\ c = new => rarcs'[c] = rarcs[old]
         /\ c # old /\ c # new =>
              /\ \A u : u \notin {rarcVFuid(mpid2uid(new)), rarcVFuid(mpid2uid(old)),
                                  mpid2uid(new), mpid2uid(old)}
                        => (u \in rarcs'[c] <=> u \in rarcs[c])
              /\ rarcVFuid(mpid2uid(new)) \in rarcs'[c] <=> c \in VarcsMoved(old, new)
              /\ rarcVFuid(mpid2uid(old)) \in rarcs'[c] =>
                   rarcVFuid(mpid2uid(old)) \in rarcs[c]
              /\ mpid2uid(new) \in rarcs'[c] <=>
                   VarcsStuck(old, new) = {} /\ mpid2uid(c) \in Carcs[old]
              /\ mpid2uid(old) \in rarcs'[c] => mpid2uid(old) \in rarcs[c]
  <1> USE IdsInUse, UidsDistinct DEF ArcInv, CanReplace
  <1>0. old \in MpIds /\ old \in Int /\ new \in Int /\ c \in Int
    OBVIOUS
  <1>1. /\ RarcsParents(old, new)[old] = {} /\ RarcsParents(old, new)[new] = rarcs[old]
        /\ c # old /\ c # new => RarcsParents(old, new)[c] = rarcs[c]
    BY <1>0 DEF RarcsParents, TypeOK
  <1>2. c \in VarcsMoved(old, new) =>
          c # old /\ c # new /\ rarcVFuid(mpid2uid(old)) \in rarcs[c]
    BY VFLoop
  <1>3. mpid2uid(c) \in Carcs[old] => c # old /\ c # new /\ mpid2uid(old) \in rarcs[c]
    BY <1>0 DEF NoStrayArcs, Unlinked, ArcsHaveRarcs
  <1>4. rarcVFuid(mpid2uid(new)) \notin rarcs[c] /\ mpid2uid(new) \notin rarcs[c]
    BY <1>0 DEF RarcsHaveArcs, Unlinked, Elts
  <1>5. rarcs'[c] =
          LET v == IF c \in VarcsMoved(old, new)
                   THEN Swap(RarcsParents(old, new)[c], rarcVFuid(mpid2uid(old)),
                             rarcVFuid(mpid2uid(new)))
                   ELSE RarcsParents(old, new)[c]
          IN  IF VarcsStuck(old, new) = {} /\ mpid2uid(c) \in Carcs[old]
              THEN Swap(v, mpid2uid(old), mpid2uid(new)) ELSE v
    BY <1>0 DEF empdag_substitute_mp_arcs, RarcsChildren
  <1>6. CASE c = old
    BY <1>1, <1>2, <1>3, <1>5, <1>6
  <1>7. CASE c = new
    BY <1>1, <1>2, <1>3, <1>5, <1>7
  <1>8. CASE c # old /\ c # new
    BY <1>0, <1>1, <1>2, <1>3, <1>4, <1>5, <1>8 DEF Swap
  <1> QED BY <1>6, <1>7, <1>8

\* What a substitution makes of the CTRL arcs of MP p.
LEMMA SubstCarcs ==
  ASSUME ArcInv, NEW old, NEW new, CanReplace(old, new), NEW p \in MpIds,
         empdag_substitute_mp_arcs(old, new)
  PROVE  /\ p = new => Carcs'[p] = IF VarcsStuck(old, new) = {} THEN Carcs[old] ELSE {}
         /\ p # new =>
              /\ \A u : u # mpid2uid(old) /\ u # mpid2uid(new)
                        => (u \in Carcs'[p] <=> u \in Carcs[p])
              /\ mpid2uid(new) \in Carcs'[p] <=> mpid2uid(p) \in rarcs[old]
              /\ mpid2uid(old) \in Carcs'[p] =>
                   mpid2uid(old) \in Carcs[p] /\ mpid2uid(p) \notin rarcs[old]
  <1> USE IdsInUse, UidsDistinct DEF ArcInv, CanReplace
  <1>0. old \in MpIds /\ old \in Int /\ new \in Int /\ p \in Int
    OBVIOUS
  <1>1. /\ mpid2uid(p) \in rarcs[old] => mpid2uid(old) \in Carcs[p] /\ p # new
        /\ mpid2uid(new) \notin Carcs[p] /\ Carcs[new] = {}
    BY <1>0 DEF RarcsHaveArcs, Unlinked
  <1>2. CarcsParents(old, new)[p] =
          IF mpid2uid(p) \in rarcs[old]
          THEN Swap(Carcs[p], mpid2uid(old), mpid2uid(new)) ELSE Carcs[p]
    BY <1>0 DEF CarcsParents
  <1>3. CASE p = new
    <2>1. CarcsParents(old, new)[p] = {}
      BY <1>1, <1>2, <1>3
    <2>2. DOMAIN CarcsParents(old, new) = MpIds
      BY DEF CarcsParents
    <2> QED BY <1>3, <2>1, <2>2 DEF empdag_substitute_mp_arcs
  <1>4. CASE p # new
    <2>1. Carcs'[p] = CarcsParents(old, new)[p]
      <3>1. DOMAIN CarcsParents(old, new) = MpIds
        BY DEF CarcsParents
      <3> QED BY <1>4, <3>1 DEF empdag_substitute_mp_arcs
    <2> QED BY <1>0, <1>1, <1>2, <1>4, <2>1 DEF Swap
  <1> QED BY <1>3, <1>4

\* What a substitution makes of the VF arcs of MP p.
LEMMA SubstVarcs ==
  ASSUME ArcInv, NEW old, NEW new, CanReplace(old, new), NEW p \in MpIds,
         empdag_substitute_mp_arcs(old, new)
  PROVE  /\ p = new => Varcs'[p] = Varcs[old]
         /\ p # new =>
              /\ \A c : c # old /\ c # new => (c \in Elts(Varcs'[p]) <=> c \in Elts(Varcs[p]))
              /\ new \in Elts(Varcs'[p]) <=> rarcVFuid(mpid2uid(p)) \in rarcs[old]
              /\ old \in Elts(Varcs'[p]) => old \in Elts(Varcs[p])
              /\ ~multiVF /\ old \in Elts(Varcs'[p]) => rarcVFuid(mpid2uid(p)) \notin rarcs[old]
              /\ ~multiVF => \A k, j \in 1..Len(Varcs'[p]) :
                               Varcs'[p][k] = Varcs'[p][j] => k = j
  <1> USE IdsInUse DEF ArcInv, CanReplace
  <1>0. old \in MpIds /\ DOMAIN VarcsParents(old, new) = MpIds
    BY DEF VarcsParents
  <1>1. CASE p = new
    BY <1>0, <1>1 DEF empdag_substitute_mp_arcs
  <1>2. CASE p # new
    <2> DEFINE S == MpIds
    <2>1. Varcs[p] \in Seq(S) /\ new \in S /\ old # new
      BY DEF TypeOK
    <2>2. new \notin Elts(Varcs[p])
      BY DEF Unlinked
    <2>3. Varcs'[p] = IF rarcVFuid(mpid2uid(p)) \in rarcs[old]
                      THEN SwapFirst(Varcs[p], old, new) ELSE Varcs[p]
      BY <1>0, <1>2 DEF empdag_substitute_mp_arcs, VarcsParents
    <2>4. rarcVFuid(mpid2uid(p)) \in rarcs[old] => old \in Elts(Varcs[p])
      BY <1>0 DEF RarcsHaveArcs
    <2>5. ~multiVF => \A k, j \in 1..Len(Varcs[p]) : Varcs[p][k] = Varcs[p][j] => k = j
      BY DEF VarcsDistinct
    <2> HIDE DEF S
    <2>6. CASE rarcVFuid(mpid2uid(p)) \in rarcs[old]
      <3>1. Varcs'[p] = SwapFirst(Varcs[p], old, new)
        BY <2>3, <2>6
      <3>2. /\ \A c : c # old /\ c # new => (c \in Elts(Varcs'[p]) <=> c \in Elts(Varcs[p]))
            /\ new \in Elts(Varcs'[p])
            /\ old \in Elts(Varcs'[p]) => old \in Elts(Varcs[p])
        BY <2>1, <2>4, <2>6, <3>1, EltsSwapFirst
      <3>3. ~multiVF => /\ old \notin Elts(Varcs'[p])
                        /\ \A k, j \in 1..Len(Varcs'[p]) :
                             Varcs'[p][k] = Varcs'[p][j] => k = j
        BY <2>1, <2>2, <2>5, <3>1, SwapFirstDistinct
      <3> QED BY <1>2, <2>6, <3>2, <3>3
    <2>7. CASE rarcVFuid(mpid2uid(p)) \notin rarcs[old]
      BY <1>2, <2>2, <2>3, <2>5, <2>7
    <2> QED BY <2>6, <2>7
  <1> QED BY <1>1, <1>2

\* What a substitution makes of the two arrays of Nash node n.
LEMMA SubstNash ==
  ASSUME ArcInv, NEW old, NEW new, CanReplace(old, new), NEW n \in NashIds,
         empdag_substitute_mp_arcs(old, new)
  PROVE  /\ \A u : u # mpid2uid(old) /\ u # mpid2uid(new)
                   => (u \in nash_arcs'[n] <=> u \in nash_arcs[n])
         /\ mpid2uid(new) \in nash_arcs'[n] <=> nashid2uid(n) \in rarcs[old]
         /\ mpid2uid(old) \notin nash_arcs'[n]
         /\ \A u : u # mpid2uid(old) /\ u # mpid2uid(new)
                   => (u \in nash_rarcs'[n] <=> u \in nash_rarcs[n])
         /\ mpid2uid(new) \in nash_rarcs'[n] <=>
              VarcsStuck(old, new) = {} /\ nashid2uid(n) \in Carcs[old]
         /\ mpid2uid(old) \in nash_rarcs'[n] => mpid2uid(old) \in nash_rarcs[n]
  <1> USE IdsInUse, UidsDistinct DEF ArcInv, CanReplace
  <1>0. old \in MpIds /\ old \in Int /\ new \in Int /\ n \in Int
    OBVIOUS
  <1>1. /\ mpid2uid(new) \notin nash_arcs[n] /\ mpid2uid(new) \notin nash_rarcs[n]
        /\ nashid2uid(n) \in rarcs[old] <=> mpid2uid(old) \in nash_arcs[n]
        /\ nashid2uid(n) \in Carcs[old] => mpid2uid(old) \in nash_rarcs[n]
    BY <1>0 DEF RarcsHaveArcs, ArcsHaveRarcs, Unlinked
  <1>2. nash_arcs'[n] = IF nashid2uid(n) \in rarcs[old]
                        THEN Swap(nash_arcs[n], mpid2uid(old), mpid2uid(new))
                        ELSE nash_arcs[n]
    BY DEF empdag_substitute_mp_arcs, NashParents
  <1>3. nash_rarcs'[n] = IF VarcsStuck(old, new) = {} /\ nashid2uid(n) \in Carcs[old]
                         THEN Swap(nash_rarcs[n], mpid2uid(old), mpid2uid(new))
                         ELSE nash_rarcs[n]
    BY <1>0 DEF empdag_substitute_mp_arcs, NashRarcsChildren
  <1>4. mpid2uid(old) # mpid2uid(new)
    BY <1>0
  <1> QED BY <1>1, <1>2, <1>3, <1>4 DEF Swap

\* A substitution preserves the agreement of the arcs.
LEMMA SubstitutionStep ==
  ASSUME ArcInv, NEW old, NEW new, CanReplace(old, new),
         empdag_substitute_mp_arcs(old, new), multiVF' = multiVF
  PROVE  /\ RarcsHaveArcs' /\ ArcsHaveRarcs' /\ VarcsDistinct'
         /\ \A m \in MpIds : mpid2uid(m) \notin Carcs'[m] /\ m \notin Elts(Varcs'[m])
         /\ \A m \in MpIds : m # new /\ m \notin MPs =>
              Carcs'[m] = {} /\ Varcs'[m] = <<>> /\ rarcs'[m] = {}
         /\ \A n \in NashIds : n \notin Nashs => nash_arcs'[n] = {} /\ nash_rarcs'[n] = {}
  <1> USE IdsInUse, UidsDistinct
  <1>0. /\ old \in MpIds /\ old \in Int /\ new \in MpIds /\ new \in Int /\ new # old
        /\ superseded' = superseded \cup {old} /\ old \notin superseded
    BY DEF ArcInv, CanReplace, empdag_substitute_mp_arcs
  <1>14. /\ MpIds \subseteq Int /\ NashIds \subseteq Int
         /\ \A m \in MpIds : rarcCTRLuid(mpid2uid(m)) = mpid2uid(m)
    BY DEF ArcInv
  <1>1. ASSUME NEW p \in MpIds, NEW c \in MpIds, mpid2uid(p) \in rarcs'[c]
        PROVE  mpid2uid(c) \in Carcs'[p]
    <2>1. c # old /\ c # new => mpid2uid(p) \in rarcs[c] \/ p = new
      <3> SUFFICES ASSUME c # old, c # new, p # new PROVE mpid2uid(p) \in rarcs[c]
        OBVIOUS
      <3>1. CASE p = old
        BY <1>0, <1>1, <3>1, SubstRarcs
      <3>2. CASE p # old
        <4>1. mpid2uid(p) \notin {rarcVFuid(mpid2uid(new)), rarcVFuid(mpid2uid(old)),
                                  mpid2uid(new), mpid2uid(old)}
          BY <1>0, <1>14, <3>2
        <4> QED BY <1>0, <1>1, <4>1, SubstRarcs
      <3> QED BY <3>1, <3>2
    <2>2. mpid2uid(p) \in rarcs[c] => mpid2uid(c) \in Carcs[p]
      BY DEF ArcInv, RarcsHaveArcs
    <2>3. mpid2uid(p) \in rarcs[old] => p # new
      BY <1>0 DEF ArcInv, RarcsHaveArcs, CanReplace, Unlinked
    <2> QED BY <1>0, <1>1, <2>1, <2>2, <2>3, SubstRarcs, SubstCarcs DEF ArcInv
  <1>2. ASSUME NEW p \in MpIds, NEW c \in MpIds, rarcVFuid(mpid2uid(p)) \in rarcs'[c]
        PROVE  c \in Elts(Varcs'[p])
    <2>1. c # old /\ c # new /\ p # new => rarcVFuid(mpid2uid(p)) \in rarcs[c]
      BY <1>2, <1>0, SubstRarcs DEF ArcInv
    <2>2. rarcVFuid(mpid2uid(p)) \in rarcs[c] => c \in Elts(Varcs[p])
      BY DEF ArcInv, RarcsHaveArcs
    <2>3. rarcVFuid(mpid2uid(p)) \in rarcs[old] => p # new
      BY <1>0 DEF ArcInv, RarcsHaveArcs, CanReplace, Unlinked, Elts
    <2>4. CASE c = new
      BY <1>2, <2>3, <2>4, SubstRarcs, SubstVarcs
    <2>5. CASE c # new /\ p = new
      <3>1. c \in VarcsMoved(old, new)
        BY <1>0, <1>2, <2>5, SubstRarcs
      <3> QED BY <2>5, <3>1, VFLoop, SubstVarcs
    <2>6. CASE c # new /\ p # new
      BY <1>0, <1>2, <2>1, <2>2, <2>6, SubstRarcs, SubstVarcs
    <2> QED BY <2>4, <2>5, <2>6
  <1>3. ASSUME NEW n \in NashIds, NEW c \in MpIds
        PROVE  nashid2uid(n) \in rarcs'[c] <=> mpid2uid(c) \in nash_arcs'[n]
    <2>1. nashid2uid(n) \in rarcs[c] <=> mpid2uid(c) \in nash_arcs[n]
      BY DEF ArcInv, RarcsHaveArcs, ArcsHaveRarcs
    <2> QED BY <1>0, <2>1, SubstRarcs, SubstNash DEF ArcInv
  <1>4. ASSUME NEW p \in MpIds, NEW n \in NashIds, mpid2uid(p) \in nash_rarcs'[n]
        PROVE  nashid2uid(n) \in Carcs'[p]
    <2>1. mpid2uid(p) \in nash_rarcs[n] => nashid2uid(n) \in Carcs[p]
      BY DEF ArcInv, RarcsHaveArcs
    <2> QED BY <1>0, <1>4, <2>1, SubstNash, SubstCarcs DEF ArcInv
  <1>5. RarcsHaveArcs'
    BY <1>1, <1>2, <1>3, <1>4 DEF RarcsHaveArcs, ArcInv
  <1>6. ASSUME NEW p \in MpIds, NEW c \in MpIds, p # old, p \notin superseded,
               mpid2uid(c) \in Carcs'[p]
        PROVE  mpid2uid(p) \in rarcs'[c]
    <2>1. /\ mpid2uid(c) \in Carcs[p] => mpid2uid(p) \in rarcs[c]
          /\ mpid2uid(c) \in Carcs[old] => c # old /\ c # new
      <3>1. mpid2uid(c) \in Carcs[p] => mpid2uid(p) \in rarcs[c]
        BY <1>6, <1>14 DEF ArcInv, ArcsHaveRarcs
      <3>2. mpid2uid(c) \in Carcs[old] => c # old /\ c # new
        BY <1>0, <1>6 DEF ArcInv, NoStrayArcs, CanReplace, Unlinked
      <3> QED BY <3>1, <3>2
    <2> QED BY <1>0, <1>6, <2>1, SubstRarcs, SubstCarcs DEF ArcInv
  <1>7. ASSUME NEW p \in MpIds, NEW c \in MpIds, p # old, p \notin superseded, ~multiVF,
               c \in Elts(Varcs'[p])
        PROVE  rarcVFuid(mpid2uid(p)) \in rarcs'[c]
    <2>1. c \in Elts(Varcs[p]) => rarcVFuid(mpid2uid(p)) \in rarcs[c]
      BY <1>7 DEF ArcInv, ArcsHaveRarcs
    <2>2. CASE p = new
      <3>1. c \in VarcsMoved(old, new)
        BY <1>7, <2>2, VFLoop, SubstVarcs
      <3> QED BY <2>2, <3>1, VFLoop, SubstRarcs
    <2>3. CASE p # new
      BY <1>0, <1>7, <2>1, <2>3, SubstRarcs, SubstVarcs DEF ArcInv
    <2> QED BY <2>2, <2>3
  <1>8. ASSUME NEW p \in MpIds, NEW n \in NashIds, p # old, p \notin superseded,
               nashid2uid(n) \in Carcs'[p]
        PROVE  mpid2uid(p) \in nash_rarcs'[n]
    <2>1. nashid2uid(n) \in Carcs[p] => mpid2uid(p) \in nash_rarcs[n]
      BY <1>8 DEF ArcInv, ArcsHaveRarcs
    <2> QED BY <1>0, <1>8, <2>1, SubstNash, SubstCarcs DEF ArcInv
  <1>9. ArcsHaveRarcs'
    BY <1>0, <1>3, <1>6, <1>7, <1>8 DEF ArcsHaveRarcs, ArcInv
  <1>10. VarcsDistinct'
    <2>1. ~multiVF => \A k, j \in 1..Len(Varcs[old]) : Varcs[old][k] = Varcs[old][j] => k = j
      BY <1>0 DEF ArcInv, VarcsDistinct
    <2> QED BY <2>1, SubstVarcs DEF VarcsDistinct
  <1>11. \A m \in MpIds : mpid2uid(m) \notin Carcs'[m] /\ m \notin Elts(Varcs'[m])
    <2> SUFFICES ASSUME NEW m \in MpIds
                 PROVE  mpid2uid(m) \notin Carcs'[m] /\ m \notin Elts(Varcs'[m])
      OBVIOUS
    <2>1. /\ mpid2uid(m) \notin Carcs[m] /\ m \notin Elts(Varcs[m])
          /\ mpid2uid(new) \notin Carcs[old] /\ new \notin Elts(Varcs[old])
      BY <1>0 DEF ArcInv, NoStrayArcs, CanReplace, Unlinked
    <2> QED BY <1>0, <2>1, SubstCarcs, SubstVarcs DEF ArcInv
  <1>12. ASSUME NEW m \in MpIds, m # new, m \notin MPs
         PROVE  Carcs'[m] = {} /\ Varcs'[m] = <<>> /\ rarcs'[m] = {}
    <2>1. /\ Carcs[m] = {} /\ Varcs[m] = <<>> /\ rarcs[m] = {} /\ m # old
          /\ mpid2uid(m) \notin rarcs[old] /\ rarcVFuid(mpid2uid(m)) \notin rarcs[old]
      <3>1. /\ Carcs[m] = {} /\ Varcs[m] = <<>> /\ rarcs[m] = {} /\ m # old
        BY <1>0, <1>12 DEF ArcInv, NoStrayArcs, CanReplace
      <3>2. mpid2uid(m) \notin rarcs[old]
        BY <1>0, <1>14, <3>1 DEF ArcInv, RarcsHaveArcs
      <3>3. rarcVFuid(mpid2uid(m)) \notin rarcs[old]
        BY <1>0, <3>1 DEF ArcInv, RarcsHaveArcs, Elts
      <3> QED BY <3>1, <3>2, <3>3
    <2>2. mpid2uid(m) \notin Carcs[old] /\ m \notin VarcsMoved(old, new)
      BY <1>0, <2>1, VFLoop DEF ArcInv, ArcsHaveRarcs, TypeOK, NodeUids, MpUids
    <2>3. Carcs'[m] = {}
      BY <1>0, <1>12, <2>1 DEF empdag_substitute_mp_arcs, CarcsParents, ArcInv
    <2>4. Varcs'[m] = <<>>
      BY <1>0, <1>12, <2>1 DEF empdag_substitute_mp_arcs, VarcsParents, ArcInv
    <2>5. rarcs'[m] = {}
      BY <1>0, <1>12, <2>1, <2>2 DEF empdag_substitute_mp_arcs, RarcsChildren, RarcsParents, ArcInv, TypeOK
    <2> QED BY <2>3, <2>4, <2>5
  <1>13. ASSUME NEW n \in NashIds, n \notin Nashs
         PROVE  nash_arcs'[n] = {} /\ nash_rarcs'[n] = {}
    <2>1. nash_arcs[n] = {} /\ nash_rarcs[n] = {}
      BY <1>13 DEF ArcInv, NoStrayArcs
    <2> QED BY <2>1 DEF empdag_substitute_mp_arcs, NashParents, NashRarcsChildren, Swap
  <1> QED BY <1>5, <1>9, <1>10, <1>11, <1>12, <1>13

------------------------------------------------------------------------------
\* The invariant holds initially.
LEMMA ArcInvInit == Init => ArcInv
  BY TypeInit DEF Init, ArcInv, NoStrayArcs, RarcsHaveArcs, ArcsHaveRarcs, VarcsDistinct, Elts

\* Creating a node leaves every arc in place.
LEMMA NodeStep ==
  ASSUME ArcInv, TypeOK', UNCHANGED <<arcs, superseded, multiVF>>,
         MPs \subseteq MPs', Nashs \subseteq Nashs'
  PROVE  ArcInv'
  BY DEF ArcInv, NoStrayArcs, RarcsHaveArcs, ArcsHaveRarcs, VarcsDistinct, Elts, arcs

\* A new MP id is linked to nothing.
LEMMA FreshUnlinked ==
  ASSUME ArcInv, mps_len < MaxMps
  PROVE  Unlinked(mps_len) /\ mps_len \in MpIds /\ mps_len \notin MPs
  <1>1. mps_len \in MpIds /\ mps_len \notin MPs /\ mps_len \in Int
    BY IdsInUse DEF ArcInv
  <1>2. Carcs[mps_len] = {} /\ Varcs[mps_len] = <<>> /\ rarcs[mps_len] = {}
    BY <1>1 DEF ArcInv, NoStrayArcs
  <1>3. \A m \in MPs : mpid2uid(m) # mpid2uid(mps_len)
    BY <1>1, IdsInUse, UidsDistinct DEF ArcInv
  <1>4. mpid2uid(mps_len) \notin MpUids
    BY <1>3 DEF MpUids
  <1>5. mpid2uid(mps_len) \notin NodeUids
    BY <1>1, <1>4, IdsInUse, UidsDistinct DEF NodeUids, ArcInv
  <1>6. \A p \in MpIds : mpid2uid(mps_len) \notin Carcs[p]
    BY <1>5 DEF ArcInv, TypeOK
  <1>7. \A p \in MpIds : mps_len \notin Elts(Varcs[p])
    <2> SUFFICES ASSUME NEW p \in MpIds, NEW k \in 1..Len(Varcs[p]),
                        mps_len = Varcs[p][k]
                 PROVE  FALSE
      BY DEF Elts
    <2>1. Varcs[p] \in Seq(MPs)
      BY DEF ArcInv, TypeOK
    <2> QED BY <1>1, <2>1
  <1>8. \A n \in NashIds : mpid2uid(mps_len) \notin nash_arcs[n]
    BY <1>4 DEF ArcInv, TypeOK
  <1> QED BY <1>1, <1>2, <1>6, <1>7, <1>8 DEF Unlinked

\* The agreement of the arcs is preserved by every operation.
LEMMA ArcInvStep ==
  ASSUME ArcInv, [Next]_avars
  PROVE  ArcInv'
  <1> USE IdsInUse, UidsDistinct
  <1>0. TypeOK /\ TypeOK'
    BY TypeStep DEF ArcInv
  <1>1. ASSUME NEW type \in MpTypes, empdag_addmp(type)
        PROVE  ArcInv'
    <2>1. mps_len' = mps_len + 1 /\ nashs_len' = nashs_len + 0
      BY <1>0, <1>1, BoundsAssumption DEF empdag_addmp, TypeOK
    <2> QED BY <1>0, <1>1, <2>1, TypesGrow, NodeStep DEF empdag_addmp
  <1>2. CASE empdag_addnash
    <2>1. mps_len' = mps_len + 0 /\ nashs_len' = nashs_len + 1
      BY <1>0, <1>2, BoundsAssumption DEF empdag_addnash, TypeOK
    <2> QED BY <1>0, <1>2, <2>1, TypesGrow, NodeStep DEF empdag_addnash
  <1>3. ASSUME NEW n \in Nashs, NEW m \in MPs, empdag_nashaddmpbyid(n, m)
        PROVE  ArcInv'
    <2>0. /\ MPs' = MPs /\ Nashs' = Nashs
          /\ UNCHANGED <<Carcs, Varcs, nash_rarcs, superseded, multiVF>>
      BY <1>3 DEF empdag_nashaddmpbyid, MPs, Nashs
    <2>1. mpid2uid(m) \notin nash_arcs[n] <=> nashid2uid(n) \notin rarcs[m]
      BY <1>0 DEF ArcInv, RarcsHaveArcs, ArcsHaveRarcs
    <2>2. CASE UNCHANGED <<nash_arcs, rarcs>>
      BY <1>0, <2>0, <2>2, NodeStep DEF arcs
    <2>3. CASE /\ nash_arcs' = [nash_arcs EXCEPT ![n] = @ \cup {mpid2uid(m)}]
               /\ rarcs' = [rarcs EXCEPT ![m] = @ \cup {nashid2uid(n)}]
      <3>0. /\ MpIds \subseteq Int /\ NashIds \subseteq Int
            /\ n \in NashIds /\ m \in MpIds
        BY <1>0
      <3>4. /\ \A q \in NashIds : \A u : u \in nash_arcs'[q] <=>
                  u \in nash_arcs[q] \/ (q = n /\ u = mpid2uid(m))
            /\ \A q \in MpIds : \A u : u \in rarcs'[q] <=>
                  u \in rarcs[q] \/ (q = m /\ u = nashid2uid(n))
        BY <1>0, <2>3, <3>0 DEF TypeOK
      <3>1. NoStrayArcs'
        BY <2>0, <3>0, <3>4 DEF ArcInv, NoStrayArcs
      <3>2. RarcsHaveArcs'
        BY <2>0, <3>0, <3>4 DEF ArcInv, RarcsHaveArcs
      <3>3. ArcsHaveRarcs'
        BY <2>0, <3>0, <3>4 DEF ArcInv, ArcsHaveRarcs
      <3> QED BY <1>0, <2>0, <3>1, <3>2, <3>3 DEF ArcInv, VarcsDistinct
    <2> QED BY <1>3, <2>1, <2>2, <2>3 DEF empdag_nashaddmpbyid
  <1>4. ASSUME NEW p \in MPs, NEW c \in MPs, empdag_mpVFmpbyid(p, c)
        PROVE  ArcInv'
    <2>0. /\ MPs' = MPs /\ Nashs' = Nashs /\ p # c
          /\ UNCHANGED <<Carcs, nash_arcs, nash_rarcs, superseded>>
          /\ multiVF' = (multiVF \/ c \in Elts(Varcs[p]))
          /\ rarcs' = [rarcs EXCEPT ![c] = @ \cup {rarcVFuid(mpid2uid(p))}]
      BY <1>4 DEF empdag_mpVFmpbyid, MPs, Nashs
    <2>1. p \in MpIds /\ c \in MpIds /\ Varcs[p] \in Seq(MPs)
      BY <1>0 DEF TypeOK
    <2>2. /\ Varcs'[p] = Append(Varcs[p], c)
          /\ \A q \in MpIds : q # p => Varcs'[q] = Varcs[q]
      BY <1>0, <1>4, <2>1 DEF empdag_mpVFmpbyid, TypeOK
    <2>3. \A q \in MpIds : \A d : d \in Elts(Varcs'[q]) <=>
                                d \in Elts(Varcs[q]) \/ (q = p /\ d = c)
      <3>1. Elts(Varcs'[p]) = Elts(Varcs[p]) \cup {c}
        <4>1. Elts(Append(Varcs[p], c)) = Elts(Varcs[p]) \cup {c}
          BY <2>1, EltsAppend
        <4> QED BY <2>2, <4>1
      <3> QED BY <2>2, <3>1
    <2>8. \A d \in MpIds : \A u : u \in rarcs'[d] <=>
                                u \in rarcs[d] \/ (d = c /\ u = rarcVFuid(mpid2uid(p)))
      BY <1>0, <2>0, <2>1 DEF TypeOK
    <2>9. p \in MPs /\ c \in MPs /\ MpIds \subseteq Int /\ NashIds \subseteq Int
      BY <1>0
    <2>10. /\ \A m \in MpIds : m \notin MPs => Varcs'[m] = Varcs[m] /\ rarcs'[m] = rarcs[m]
           /\ \A m \in MpIds : m \in Elts(Varcs'[m]) => m \in Elts(Varcs[m])
      <3>1. \A m \in MpIds : m # p => Varcs'[m] = Varcs[m]
        BY <2>2
      <3>2. \A m \in MpIds : m # c => rarcs'[m] = rarcs[m]
        BY <1>0, <2>0, <2>1 DEF TypeOK
      <3>3. \A m \in MpIds : m \in Elts(Varcs'[m]) => m \in Elts(Varcs[m])
        BY <2>0, <2>3
      <3> QED BY <3>1, <3>2, <3>3
    <2>4. NoStrayArcs'
      BY <2>0, <2>10 DEF ArcInv, NoStrayArcs
    <2>11. \A q, d \in MpIds :
             /\ mpid2uid(q) \in rarcs'[d] => mpid2uid(q) \in rarcs[d]
             /\ rarcVFuid(mpid2uid(q)) \in rarcs'[d] =>
                  rarcVFuid(mpid2uid(q)) \in rarcs[d] \/ (q = p /\ d = c)
      BY <2>1, <2>8, <2>9
    <2>12. \A k \in NashIds, d \in MpIds :
             nashid2uid(k) \in rarcs'[d] => nashid2uid(k) \in rarcs[d]
      BY <2>1, <2>8, <2>9
    <2>13. \A q \in MpIds : rarcCTRLuid(mpid2uid(q)) = mpid2uid(q)
      BY <2>9
    <2>5. RarcsHaveArcs'
      BY <2>0, <2>3, <2>11, <2>12, <2>13 DEF ArcInv, RarcsHaveArcs
    <2>6. ArcsHaveRarcs'
      BY <2>0, <2>1, <2>3, <2>8, <2>9 DEF ArcInv, ArcsHaveRarcs
    <2>7. VarcsDistinct'
      <3> SUFFICES ASSUME ~multiVF, c \notin Elts(Varcs[p]), NEW q \in MpIds,
                          NEW i \in 1..Len(Varcs'[q]), NEW j \in 1..Len(Varcs'[q]),
                          Varcs'[q][i] = Varcs'[q][j]
                   PROVE  i = j
        BY <2>0 DEF VarcsDistinct
      <3>1. \A k, l \in 1..Len(Varcs[q]) : Varcs[q][k] = Varcs[q][l] => k = l
        BY DEF ArcInv, VarcsDistinct
      <3>2. CASE q # p
        BY <2>2, <3>1, <3>2
      <3>3. CASE q = p
        <4>1. /\ Len(Varcs'[p]) = Len(Varcs[p]) + 1 /\ Len(Varcs[p]) \in Nat
              /\ Varcs'[p][Len(Varcs[p]) + 1] = c
              /\ \A k \in 1..Len(Varcs[p]) : Varcs'[p][k] = Varcs[p][k] /\ Varcs[p][k] # c
          BY <2>1, <2>2 DEF Elts
        <4>2. CASE i = Len(Varcs[p]) + 1 /\ j # Len(Varcs[p]) + 1
          BY <3>3, <4>1, <4>2
        <4>3. CASE j = Len(Varcs[p]) + 1 /\ i # Len(Varcs[p]) + 1
          BY <3>3, <4>1, <4>3
        <4>4. CASE i # Len(Varcs[p]) + 1 /\ j # Len(Varcs[p]) + 1
          <5>1. i \in 1..Len(Varcs[p]) /\ j \in 1..Len(Varcs[p])
            BY <3>3, <4>1, <4>4
          <5> QED BY <3>1, <3>3, <4>1, <5>1
        <4> QED BY <4>2, <4>3, <4>4
      <3> QED BY <3>2, <3>3
    <2> QED BY <1>0, <2>4, <2>5, <2>6, <2>7 DEF ArcInv
  <1>5. ASSUME NEW p \in MPs, NEW c \in MPs, empdag_mpCTRLmpbyid(p, c)
        PROVE  ArcInv'
    <2>0. /\ MPs' = MPs /\ Nashs' = Nashs /\ p # c
          /\ UNCHANGED <<Varcs, nash_arcs, nash_rarcs, superseded, multiVF>>
      BY <1>5 DEF empdag_mpCTRLmpbyid, MPs, Nashs
    <2>1. mpid2uid(c) \notin Carcs[p] => rarcCTRLuid(mpid2uid(p)) \notin rarcs[c]
      BY <1>0 DEF ArcInv, RarcsHaveArcs
    <2>2. CASE UNCHANGED <<Carcs, rarcs>>
      BY <1>0, <2>0, <2>2, NodeStep DEF arcs
    <2>3. CASE /\ Carcs' = [Carcs EXCEPT ![p] = @ \cup {mpid2uid(c)}]
               /\ rarcs' = [rarcs EXCEPT ![c] = @ \cup {rarcCTRLuid(mpid2uid(p))}]
      <3>0. /\ MpIds \subseteq Int /\ NashIds \subseteq Int
            /\ p \in MpIds /\ c \in MpIds
        BY <1>0
      <3>4. /\ \A q \in MpIds : \A u : u \in Carcs'[q] <=>
                  u \in Carcs[q] \/ (q = p /\ u = mpid2uid(c))
            /\ \A q \in MpIds : \A u : u \in rarcs'[q] <=>
                  u \in rarcs[q] \/ (q = c /\ u = rarcCTRLuid(mpid2uid(p)))
        BY <1>0, <2>3, <3>0 DEF TypeOK
      <3>5. \A q, d \in MpIds :
              /\ rarcCTRLuid(mpid2uid(q)) \in rarcs'[d] =>
                   rarcCTRLuid(mpid2uid(q)) \in rarcs[d] \/ (q = p /\ d = c)
              /\ rarcVFuid(mpid2uid(q)) \in rarcs'[d] => rarcVFuid(mpid2uid(q)) \in rarcs[d]
        BY <3>0, <3>4
      <3>6. \A k \in NashIds, d \in MpIds :
              nashid2uid(k) \in rarcs'[d] => nashid2uid(k) \in rarcs[d]
        BY <3>0, <3>4
      <3>1. NoStrayArcs'
        BY <2>0, <3>0, <3>4 DEF ArcInv, NoStrayArcs
      <3>2. RarcsHaveArcs'
        BY <2>0, <3>4, <3>5, <3>6 DEF ArcInv, RarcsHaveArcs
      <3>3. ArcsHaveRarcs'
        BY <2>0, <3>0, <3>4 DEF ArcInv, ArcsHaveRarcs
      <3> QED BY <1>0, <2>0, <3>1, <3>2, <3>3 DEF ArcInv, VarcsDistinct
    <2> QED BY <1>5, <2>1, <2>2, <2>3 DEF empdag_mpCTRLmpbyid
  <1>6. ASSUME NEW p \in MPs, NEW n \in Nashs, empdag_mpCTRLnashbyid(p, n)
        PROVE  ArcInv'
    <2>0. /\ MPs' = MPs /\ Nashs' = Nashs
          /\ UNCHANGED <<Varcs, rarcs, nash_arcs, superseded, multiVF>>
      BY <1>6 DEF empdag_mpCTRLnashbyid, MPs, Nashs
    <2>1. nashid2uid(n) \notin Carcs[p] => rarcCTRLuid(mpid2uid(p)) \notin nash_rarcs[n]
      BY <1>0 DEF ArcInv, RarcsHaveArcs
    <2>2. CASE UNCHANGED <<Carcs, nash_rarcs>>
      BY <1>0, <2>0, <2>2, NodeStep DEF arcs
    <2>3. CASE /\ Carcs' = [Carcs EXCEPT ![p] = @ \cup {nashid2uid(n)}]
               /\ nash_rarcs' = [nash_rarcs EXCEPT ![n] = @ \cup {rarcCTRLuid(mpid2uid(p))}]
      <3>0. /\ MpIds \subseteq Int /\ NashIds \subseteq Int
            /\ p \in MpIds /\ n \in NashIds
        BY <1>0
      <3>4. /\ \A q \in MpIds : \A u : u \in Carcs'[q] <=>
                  u \in Carcs[q] \/ (q = p /\ u = nashid2uid(n))
            /\ \A q \in NashIds : \A u : u \in nash_rarcs'[q] <=>
                  u \in nash_rarcs[q] \/ (q = n /\ u = rarcCTRLuid(mpid2uid(p)))
        BY <1>0, <2>3, <3>0 DEF TypeOK
      <3>5. /\ \A q \in MpIds : mpid2uid(q) # nashid2uid(n)
            /\ p \in MPs /\ n \in Nashs
        BY <3>0
      <3>6. /\ \A m \in MpIds : m \notin MPs => Carcs'[m] = Carcs[m]
            /\ \A k \in NashIds : k \notin Nashs => nash_rarcs'[k] = nash_rarcs[k]
        BY <1>0, <2>3, <3>5 DEF TypeOK
      <3>7. \A m \in MpIds : mpid2uid(m) \notin Carcs'[m]
        BY <3>4, <3>5 DEF ArcInv, NoStrayArcs
      <3>1. NoStrayArcs'
        BY <2>0, <3>6, <3>7 DEF ArcInv, NoStrayArcs
      <3>2. RarcsHaveArcs'
        BY <2>0, <3>0, <3>4 DEF ArcInv, RarcsHaveArcs
      <3>3. ArcsHaveRarcs'
        BY <2>0, <3>0, <3>4 DEF ArcInv, ArcsHaveRarcs
      <3> QED BY <1>0, <2>0, <3>1, <3>2, <3>3 DEF ArcInv, VarcsDistinct
    <2> QED BY <1>6, <2>1, <2>2, <2>3 DEF empdag_mpCTRLnashbyid
  <1>7. ASSUME NEW old \in MPs, dualize(old)
        PROVE  ArcInv'
    <2>1. /\ CanReplace(old, mps_len) /\ empdag_substitute_mp_arcs(old, mps_len)
          /\ multiVF' = multiVF
      BY <1>7, FreshUnlinked DEF dualize, Dualizable, CanReplace
    <2>2. /\ mps_len' = mps_len + 1 /\ nashs_len' = nashs_len + 0
      BY <1>0, <1>7, BoundsAssumption DEF dualize, Dualizable, TypeOK
    <2>3. MPs \subseteq MPs' /\ mps_len \in MPs' /\ Nashs \subseteq Nashs'
      BY <1>0, <2>2, TypesGrow
    <2>4. NoStrayArcs'
      BY <1>0, <2>1, <2>3, SubstitutionStep DEF NoStrayArcs
    <2> QED BY <1>0, <2>1, <2>4, SubstitutionStep DEF ArcInv
  <1>8. ASSUME NEW old \in MPs, NEW new \in MPs, substitute_instance(old, new)
        PROVE  ArcInv'
    <2>1. /\ CanReplace(old, new) /\ empdag_substitute_mp_arcs(old, new)
          /\ multiVF' = multiVF
      BY <1>0, <1>8 DEF substitute_instance, Instantiable, CanReplace
    <2>2. MPs' = MPs /\ Nashs' = Nashs
      BY <1>8 DEF substitute_instance, MPs, Nashs
    <2>3. NoStrayArcs'
      BY <1>0, <2>1, <2>2, SubstitutionStep DEF NoStrayArcs
    <2> QED BY <1>0, <2>1, <2>3, SubstitutionStep DEF ArcInv
  <1>9. CASE UNCHANGED avars
    BY <1>0, <1>9, NodeStep DEF avars, arcs, MPs, Nashs
  <1>10. CASE substitution_aborts
    BY <1>0, <1>10, NodeStep DEF substitution_aborts, MPs, Nashs
  <1> QED BY <1>1, <1>2, <1>3, <1>4, <1>5, <1>6, <1>7, <1>8, <1>9, <1>10 DEF Next

\* The inductive invariant holds in every behaviour.
THEOREM ArcInvCorrect == Spec => []ArcInv
  <1>1. ArcInv /\ [rc # Aborted /\ Next]_avars => ArcInv'
    BY ArcInvStep
  <1> QED BY <1>1, ArcInvInit, PTL DEF Spec

\* Every reverse arc is backed by a forward arc, after any sequence of additions
\* and substitutions.
THEOREM RarcsHaveArcsCorrect == Spec => []RarcsHaveArcs
  <1>1. ArcInv => RarcsHaveArcs
    BY DEF ArcInv
  <1> QED BY <1>1, ArcInvCorrect, PTL

\* Every forward arc of an MP that is in place, and of a Nash node, has its reverse
\* arc: the counts that empdag_analysis compares are equal.
THEOREM ArcsHaveRarcsCorrect == Spec => []ArcsHaveRarcs
  <1>1. ArcInv => ArcsHaveRarcs
    BY DEF ArcInv
  <1> QED BY <1>1, ArcInvCorrect, PTL

\* The error codes are distinct strings.
LEMMA CodesDistinct ==
  /\ OK \notin {Error_DuplicateValue, Error_RuntimeError, Error_NotFound}
  /\ Error_NotFound \notin {Error_DuplicateValue, Error_RuntimeError}
  /\ Aborted \notin {OK, Error_DuplicateValue, Error_RuntimeError, Error_NotFound}
  BY DEF OK, Error_DuplicateValue, Error_RuntimeError, Error_NotFound, Aborted

\* An arc operation that fails has changed no arc: when the forward array takes
\* the value, the reverse array does too.
THEOREM FailedAddChangesNoArcCorrect == Spec => FailedAddChangesNoArc
  <1> DEFINE Act == rc' \in {Error_DuplicateValue, Error_RuntimeError} => UNCHANGED arcs
  <1>1. ASSUME ArcInv, Next
        PROVE  Act
    <2> SUFFICES ASSUME rc' \in {Error_DuplicateValue, Error_RuntimeError}
                 PROVE  UNCHANGED arcs
      OBVIOUS
    <2>0. MPs \subseteq MpIds /\ Nashs \subseteq NashIds
      BY <1>1, IdsInUse DEF ArcInv
    <2>1. ASSUME NEW n \in Nashs, NEW m \in MPs, empdag_nashaddmpbyid(n, m)
          PROVE  UNCHANGED arcs
      <3>1. mpid2uid(m) \notin nash_arcs[n] => nashid2uid(n) \notin rarcs[m]
        BY <1>1, <2>0 DEF ArcInv, RarcsHaveArcs
      <3> QED BY <2>1, <3>1, CodesDistinct DEF empdag_nashaddmpbyid, arcs
    <2>2. ASSUME NEW p \in MPs, NEW c \in MPs, empdag_mpCTRLmpbyid(p, c)
          PROVE  UNCHANGED arcs
      <3>1. mpid2uid(c) \notin Carcs[p] => rarcCTRLuid(mpid2uid(p)) \notin rarcs[c]
        BY <1>1, <2>0 DEF ArcInv, RarcsHaveArcs
      <3> QED BY <2>2, <3>1, CodesDistinct DEF empdag_mpCTRLmpbyid, arcs
    <2>3. ASSUME NEW p \in MPs, NEW n \in Nashs, empdag_mpCTRLnashbyid(p, n)
          PROVE  UNCHANGED arcs
      <3>1. nashid2uid(n) \notin Carcs[p] => rarcCTRLuid(mpid2uid(p)) \notin nash_rarcs[n]
        BY <1>1, <2>0 DEF ArcInv, RarcsHaveArcs
      <3> QED BY <2>3, <3>1, CodesDistinct DEF empdag_mpCTRLnashbyid, arcs
    <2> QED BY <1>1, <2>1, <2>2, <2>3, CodesDistinct
        DEF Next, empdag_addmp, empdag_addnash, empdag_mpVFmpbyid, dualize,
            substitute_instance, empdag_substitute_mp_arcs, substitution_aborts
  <1>2. ArcInv /\ [rc # Aborted /\ Next]_avars => [Act]_avars
    BY <1>1
  <1> QED BY <1>2, ArcInvCorrect, PTL DEF Spec, FailedAddChangesNoArc

\* The removals of a substitution find their value, so it runs to its end, unless
\* some VF arc was added twice or, in a build with assertions, a CCFLIB MP has children
\* over CTRL arcs.
THEOREM SubstitutionCompletesCorrect == Spec => SubstitutionCompletes
  <1> DEFINE Act == /\ rc' = Error_NotFound => multiVF
                    /\ rc' = Aborted =>
                         /\ "debug" \in Builds
                         /\ \E old \in MPs : mptype[old] = "ccflib" /\ Carcs[old] # {}
  <1>1. ASSUME ArcInv, Next
        PROVE  Act
    <2>1. ASSUME NEW old \in MPs, dualize(old)
          PROVE  Act
      <3>1. CanReplace(old, mps_len)
        BY <1>1, <2>1, FreshUnlinked DEF dualize, Dualizable, CanReplace
      <3>2. rc' = IF VarcsStuck(old, mps_len) = {} THEN OK ELSE Error_NotFound
        BY <2>1 DEF dualize, empdag_substitute_mp_arcs
      <3> QED BY <1>1, <3>1, <3>2, VFLoop, CodesDistinct
    <2>2. ASSUME NEW old \in MPs, NEW new \in MPs, substitute_instance(old, new)
          PROVE  Act
      <3>1. CanReplace(old, new)
        BY <1>1, <2>2, IdsInUse DEF substitute_instance, Instantiable, CanReplace, ArcInv
      <3>2. rc' = IF VarcsStuck(old, new) = {} THEN OK ELSE Error_NotFound
        BY <2>2 DEF substitute_instance, empdag_substitute_mp_arcs
      <3> QED BY <1>1, <3>1, <3>2, VFLoop, CodesDistinct
    <2>3. CASE substitution_aborts
      <3>1. /\ rc' = Aborted /\ "debug" \in Builds
            /\ \E old \in MPs : mptype[old] = "ccflib" /\ Carcs[old] # {}
        BY <2>3 DEF substitution_aborts, Dualizable, Instantiable, ChildAssertFails
      <3> QED BY <3>1, CodesDistinct
    <2>4. ASSUME rc' \in {OK, Error_DuplicateValue, Error_RuntimeError}
          PROVE  Act
      BY <2>4, CodesDistinct
    <2> QED BY <1>1, <2>1, <2>2, <2>3, <2>4
        DEF Next, empdag_addmp, empdag_addnash, empdag_mpVFmpbyid,
            empdag_nashaddmpbyid, empdag_mpCTRLmpbyid, empdag_mpCTRLnashbyid
  <1>2. ArcInv /\ [rc # Aborted /\ Next]_avars => [Act]_avars
    BY <1>1
  <1> QED BY <1>2, ArcInvCorrect, PTL DEF Spec, SubstitutionCompletes

-----------------------------------------------------------------------------
(***************************************************************************)
(* The roots.                                                              *)
(***************************************************************************)

\* A set that grows by a function of itself stops growing after as many steps as
\* there are values.
LEMMA Saturation ==
  ASSUME NEW D, IsFiniteSet(D), NEW N \in Nat, Cardinality(D) <= N,
         NEW G \in [SUBSET D -> SUBSET D], NEW step \in [Nat -> SUBSET D],
         \A k \in Nat : step[k + 1] = step[k] \cup G[step[k]]
  PROVE  G[step[N]] \subseteq step[N]
<1> DEFINE T == {n \in Nat : Cardinality(step[n]) >= n \/ G[step[n]] \subseteq step[n]}
<1>1. \A n \in Nat : /\ step[n] \subseteq D /\ IsFiniteSet(step[n])
                     /\ Cardinality(step[n]) \in Nat
  <2> TAKE n \in Nat
  <2>1. step[n] \in SUBSET D
    OBVIOUS
  <2>2. IsFiniteSet(step[n])
    BY <2>1, FS_Subset
  <2> QED BY <2>1, <2>2, FS_CardinalityType
<1>2. 0 \in T
  BY <1>1
<1>3. ASSUME NEW n \in Nat, n \in T PROVE n + 1 \in T
  <2>0. step[n + 1] = step[n] \cup G[step[n]] /\ n + 1 \in Nat
    OBVIOUS
  <2>1. CASE G[step[n]] \subseteq step[n]
    <3>1. step[n + 1] = step[n]
      BY <2>0, <2>1
    <3> QED BY <3>1, <2>1, <2>0
  <2>2. CASE ~ G[step[n]] \subseteq step[n]
    <3>1. Cardinality(step[n]) >= n
      BY <1>3, <2>2
    <3>2. step[n] \in SUBSET step[n + 1] /\ step[n] # step[n + 1]
      BY <2>0, <2>2
    <3>3. Cardinality(step[n]) <= Cardinality(step[n + 1])
          /\ Cardinality(step[n]) # Cardinality(step[n + 1])
      BY <3>2, <1>1, <2>0, FS_Subset
    <3> DEFINE a == Cardinality(step[n])
               b == Cardinality(step[n + 1])
    <3>4. a \in Nat /\ b \in Nat /\ a >= n /\ a <= b /\ a # b
      BY <3>1, <3>3, <1>1, <2>0
    <3> HIDE DEF a, b
    <3>5. b >= n + 1
      BY <3>4
    <3> QED BY <3>5, <2>0 DEF b
  <2> QED BY <2>1, <2>2
<1>4. N \in T
  <2> HIDE DEF T
  <2> QED BY <1>2, <1>3, AP!NatSetInduction
<1>5. CASE Cardinality(step[N]) >= N
  <2>1. step[N] \in SUBSET D /\ Cardinality(step[N]) <= Cardinality(D) /\ Cardinality(D) \in Nat
    BY <1>1, FS_Subset, FS_CardinalityType
  <2>2. Cardinality(step[N]) = Cardinality(D)
    BY <2>1, <1>5, <1>1
  <2>3. step[N] = D
    BY <2>1, <2>2, FS_Subset
  <2> QED BY <2>3
<1> QED BY <1>4, <1>5

\* The uids of M MPs and K Nash nodes.
NodesOf(M, K) == {mpid2uid(m) : m \in 0..(M - 1)} \cup {nashid2uid(n) : n \in 0..(K - 1)}

\* There are M + K of them at most.
LEMMA NodesAreFinite ==
  ASSUME NEW M \in Nat, NEW K \in Nat
  PROVE  IsFiniteSet(NodesOf(M, K)) /\ Cardinality(NodesOf(M, K)) <= M + K
<1> DEFINE I == 0..(M + K - 1)
           D == NodesOf(M, K)
           f == [i \in I |-> IF i < M THEN mpid2uid(i) ELSE nashid2uid(i - M)]
<1>1. f \in [I -> D]
  BY DEF NodesOf
<1>2. ASSUME NEW u \in D PROVE \E i \in I : f[i] = u
  <2>1. CASE \E m \in 0..(M - 1) : u = mpid2uid(m)
    <3>1. PICK m \in 0..(M - 1) : u = mpid2uid(m)
      BY <2>1
    <3>2. m \in I /\ f[m] = u
      BY <3>1
    <3> QED BY <3>2
  <2>2. CASE \E n \in 0..(K - 1) : u = nashid2uid(n)
    <3>1. PICK n \in 0..(K - 1) : u = nashid2uid(n)
      BY <2>2
    <3>2. M + n \in I /\ ~ M + n < M /\ (M + n) - M = n
      OBVIOUS
    <3>3. f[M + n] = u
      BY <3>1, <3>2
    <3> QED BY <3>2, <3>3
  <2> QED BY <2>1, <2>2 DEF NodesOf
<1> HIDE DEF f, I, D
<1>3. f \in Surjection(I, D)
  BY <1>1, <1>2 DEF Surjection
<1>4. IsFiniteSet(I) /\ Cardinality(I) = M + K
  <2>1. 0 \in Int /\ M + K - 1 \in Int
    OBVIOUS
  <2> QED BY <2>1, FS_Interval DEF I
<1> QED BY <1>3, <1>4, FS_Surjection DEF D

\* Below, with the state that it reads as parameters.
Desc(M, K, C, V, NA, X, S) ==
  LET Children(T) ==
        ((UNION {C[p] \cup {mpid2uid(c) : c \in Elts(V[p])} :
                  p \in {m \in 0..(M - 1) : mpid2uid(m) \in T}})
         \cup (UNION {NA[n] : n \in {k \in 0..(K - 1) : nashid2uid(k) \in T}})) \ X
      step[k \in Nat] == IF k = 0 THEN S ELSE step[k - 1] \cup Children(step[k - 1])
  IN  step[M + K]

\* A set of nodes with the children of its nodes that are not in X
Closed(M, K, C, V, NA, X, T) ==
  /\ \A p \in 0..(M - 1) : mpid2uid(p) \in T =>
       C[p] \ X \subseteq T /\ \A c \in Elts(V[p]) : mpid2uid(c) \in T \cup X
  /\ \A n \in 0..(K - 1) : nashid2uid(n) \in T => NA[n] \ X \subseteq T

\* The nodes below S are the smallest set with S that has the children of its nodes.
LEMMA DescLeast ==
  ASSUME NEW M \in Nat, NEW K \in Nat, NEW C, NEW V, NEW NA, NEW X,
         Closed(M, K, C, V, NA, X, NodesOf(M, K)),
         NEW S \in SUBSET NodesOf(M, K)
  PROVE  /\ S \subseteq Desc(M, K, C, V, NA, X, S)
         /\ Desc(M, K, C, V, NA, X, S) \subseteq NodesOf(M, K)
         /\ Closed(M, K, C, V, NA, X, Desc(M, K, C, V, NA, X, S))
         /\ \A T : S \subseteq T /\ Closed(M, K, C, V, NA, X, T) => Desc(M, K, C, V, NA, X, S) \subseteq T
<1> DEFINE D == NodesOf(M, K)
           Children(T) ==
             ((UNION {C[p] \cup {mpid2uid(c) : c \in Elts(V[p])} :
                       p \in {m \in 0..(M - 1) : mpid2uid(m) \in T}})
              \cup (UNION {NA[n] : n \in {k \in 0..(K - 1) : nashid2uid(k) \in T}})) \ X
           Fix(f) == f = [k \in Nat |-> IF k = 0 THEN S ELSE f[k - 1] \cup Children(f[k - 1])]
           step == CHOOSE f : Fix(f)
<1>2. ASSUME NEW T, Closed(M, K, C, V, NA, X, T), NEW U \in SUBSET T
      PROVE  Children(U) \subseteq T
  <2>1. ASSUME NEW p \in 0..(M - 1), mpid2uid(p) \in U
        PROVE  (C[p] \cup {mpid2uid(c) : c \in Elts(V[p])}) \ X \subseteq T
    BY <1>2, <2>1 DEF Closed
  <2>2. ASSUME NEW n \in 0..(K - 1), nashid2uid(n) \in U
        PROVE  NA[n] \ X \subseteq T
    BY <1>2, <2>2 DEF Closed
  <2> QED BY <2>1, <2>2
<1>1. \A T \in SUBSET D : Children(T) \in SUBSET D
  <2> HIDE DEF Children, D
  <2> QED BY <1>2 DEF D
<1>3. ASSUME NEW T, Children(T) \subseteq T
      PROVE  Closed(M, K, C, V, NA, X, T)
  <2>1. ASSUME NEW p \in 0..(M - 1), mpid2uid(p) \in T
        PROVE  C[p] \ X \subseteq T /\ \A c \in Elts(V[p]) : mpid2uid(c) \in T \cup X
    <3>1. (C[p] \cup {mpid2uid(c) : c \in Elts(V[p])}) \ X \subseteq Children(T)
      BY <2>1
    <3> HIDE DEF Children
    <3> QED BY <3>1, <1>3
  <2>2. ASSUME NEW n \in 0..(K - 1), nashid2uid(n) \in T
        PROVE  NA[n] \ X \subseteq T
    <3>1. NA[n] \ X \subseteq Children(T)
      BY <2>2
    <3> HIDE DEF Children
    <3> QED BY <3>1, <1>3
  <2> HIDE DEF Children
  <2> QED BY <2>1, <2>2 DEF Closed
<1>4. Desc(M, K, C, V, NA, X, S) = step[M + K]
  BY DEF Desc
<1> HIDE DEF Children
<1>5. \E f : Fix(f)
  <2> DEFINE G == [n \in Nat |-> [T \in SUBSET D |-> T \cup Children(T)]]
  <2>1. G \in [Nat -> [SUBSET D -> SUBSET D]] /\ S \in SUBSET D
    BY <1>1
  <2>2. \A n \in Nat, T \in SUBSET D : G[n][T] = T \cup Children(T)
    OBVIOUS
  <2> HIDE DEF G, D
  <2>3. PICK f : AP!Iterates(f, SUBSET D, S, G)
    BY <2>1, AP!RecursiveFunction
  <2>5. f \in [Nat -> SUBSET D] /\ f[0] = S /\ \A n \in Nat : f[n + 1] = G[n][f[n]]
    BY <2>3 DEF AP!Iterates
  <2>4. ASSUME NEW k \in Nat, k # 0 PROVE f[k] = f[k - 1] \cup Children(f[k - 1])
    <3>1. k - 1 \in Nat /\ (k - 1) + 1 = k
      BY <2>4
    <3> QED BY <3>1, <2>2, <2>5
  <2>6. f = [k \in Nat |-> IF k = 0 THEN S ELSE f[k - 1] \cup Children(f[k - 1])]
    BY <2>4, <2>5
  <2> QED BY <2>6
<1>6. Fix(step)
  BY <1>5
<1> HIDE DEF step
<1>7. step[0] = S /\ \A k \in Nat : step[k + 1] = step[k] \cup Children(step[k])
  <2>1. step[0] = S
    BY <1>6
  <2>2. ASSUME NEW k \in Nat PROVE step[k + 1] = step[k] \cup Children(step[k])
    <3>1. k + 1 \in Nat /\ k + 1 # 0 /\ (k + 1) - 1 = k
      OBVIOUS
    <3>2. step[k + 1] = IF k + 1 = 0 THEN S ELSE step[(k + 1) - 1] \cup Children(step[(k + 1) - 1])
      BY <1>6, <3>1
    <3> QED BY <3>1, <3>2
  <2> QED BY <2>1, <2>2
<1>8. ASSUME NEW T, S \subseteq T, Closed(M, K, C, V, NA, X, T)
      PROVE  \A k \in Nat : step[k] \subseteq T
  <2> DEFINE I == {k \in Nat : step[k] \subseteq T}
  <2>1. 0 \in I
    BY <1>7, <1>8
  <2>2. \A k \in Nat : k \in I => k + 1 \in I
    BY <1>2, <1>7, <1>8
  <2> HIDE DEF I
  <2>3. Nat \subseteq I
    BY <2>1, <2>2, AP!NatSetInduction
  <2> QED BY <2>3 DEF I
<1>9. \A k \in Nat : step[k] \in SUBSET D
  BY <1>8
<1>10. \A k \in Nat : S \subseteq step[k]
  <2> DEFINE I == {k \in Nat : S \subseteq step[k]}
  <2>1. 0 \in I /\ \A k \in Nat : k \in I => k + 1 \in I
    BY <1>7
  <2> HIDE DEF I
  <2>2. Nat \subseteq I
    BY <2>1, AP!NatSetInduction
  <2> QED BY <2>2 DEF I
<1>11. Children(step[M + K]) \subseteq step[M + K]
  <2> DEFINE G == [T \in SUBSET D |-> Children(T)]
  <2>1. G \in [SUBSET D -> SUBSET D]
    BY <1>1
  <2>2. \A k \in Nat : step[k + 1] = step[k] \cup G[step[k]]
    BY <1>7, <1>9
  <2>3. step \in [Nat -> SUBSET D]
    <3>1. step = [k \in Nat |-> step[k]]
      BY <1>6
    <3> HIDE DEF D
    <3> QED BY <3>1, <1>9
  <2>4. IsFiniteSet(D) /\ Cardinality(D) <= M + K /\ M + K \in Nat
    BY NodesAreFinite
  <2>5. G[step[M + K]] = Children(step[M + K])
    BY <2>4, <1>9
  <2> HIDE DEF G, D
  <2> QED BY <2>1, <2>2, <2>3, <2>4, <2>5, Saturation
<1>12. M + K \in Nat
  OBVIOUS
<1> QED BY <1>3, <1>4, <1>8, <1>9, <1>10, <1>11, <1>12

------------------------------------------------------------------------------
\* The two kinds of nodes, and the ids, are read off the uid.
LEMMA UidKinds ==
  ASSUME NEW p \in Nat
  PROVE  /\ uidisMP(mpid2uid(p)) /\ ~ uidisMP(nashid2uid(p))
         /\ uid2id(mpid2uid(p)) = p /\ uid2id(nashid2uid(p)) = p
         /\ valid_uid(mpid2uid(p)) /\ valid_uid(nashid2uid(p))
<1>1. (4 * p) % 4 = 0 /\ (4 * p + 2) % 4 = 2
  OBVIOUS
<1>2. (4 * p) \div 4 = p /\ (4 * p + 2) \div 4 = p
  OBVIOUS
<1> QED BY <1>1, <1>2 DEF uidisMP, uid2id, mpid2uid, nashid2uid, valid_uid, EMPDAG_UID_NONE

\* Increasing lists the ids of S below n, each once and in order.
LEMMA IncreasingProperties ==
  ASSUME NEW n \in Nat, NEW S
  PROVE  /\ Increasing(S, n) \in Seq(Nat)
         /\ A!StrictlySorted(Increasing(S, n))
         /\ Elts(Increasing(S, n)) = S \cap (0..(n - 1))
<1> DEFINE Fix(h) == h = [k \in 0..n |-> IF k = 0 THEN <<>>
                                         ELSE IF k - 1 \in S THEN Append(h[k - 1], k - 1)
                                         ELSE h[k - 1]]
           upto == CHOOSE h : Fix(h)
<1>1. Increasing(S, n) = upto[n]
  BY DEF Increasing
<1>2. \E h : Fix(h)
  <2> DEFINE G == [k \in Nat |-> [x \in Seq(Nat) |-> IF k \in S THEN Append(x, k) ELSE x]]
  <2>1. G \in [Nat -> [Seq(Nat) -> Seq(Nat)]] /\ <<>> \in Seq(Nat)
    OBVIOUS
  <2>2. \A k \in Nat, x \in Seq(Nat) : G[k][x] = IF k \in S THEN Append(x, k) ELSE x
    OBVIOUS
  <2> HIDE DEF G
  <2>3. PICK f : AP!Iterates(f, Seq(Nat), <<>>, G)
    BY <2>1, AP!RecursiveFunction
  <2>4. /\ f \in [Nat -> Seq(Nat)] /\ f[0] = <<>>
        /\ \A k \in Nat : f[k + 1] = G[k][f[k]]
    BY <2>3 DEF AP!Iterates
  <2> DEFINE h == [k \in 0..n |-> f[k]]
  <2>5. ASSUME NEW k \in 0..n, k # 0
        PROVE  h[k] = IF k - 1 \in S THEN Append(h[k - 1], k - 1) ELSE h[k - 1]
    <3>1. k - 1 \in Nat /\ (k - 1) + 1 = k /\ k - 1 \in 0..n
      BY <2>5
    <3>2. f[k] = G[k - 1][f[k - 1]] /\ f[k - 1] \in Seq(Nat)
      BY <3>1, <2>4
    <3>3. f[k] = IF k - 1 \in S THEN Append(f[k - 1], k - 1) ELSE f[k - 1]
      BY <3>1, <3>2, <2>2
    <3> QED BY <3>1, <3>3
  <2>6. h[0] = <<>>
    BY <2>4
  <2>7. Fix(h)
    BY <2>5, <2>6
  <2> QED BY <2>7
<1>3. Fix(upto)
  BY <1>2
<1> HIDE DEF upto
<1>4. /\ upto[0] = <<>>
      /\ \A k \in 0..(n - 1) :
           upto[k + 1] = IF k \in S THEN Append(upto[k], k) ELSE upto[k]
  <2>1. upto[0] = <<>>
    BY <1>3
  <2>2. ASSUME NEW k \in 0..(n - 1)
        PROVE  upto[k + 1] = IF k \in S THEN Append(upto[k], k) ELSE upto[k]
    <3>1. k + 1 \in 0..n /\ k + 1 # 0 /\ (k + 1) - 1 = k
      OBVIOUS
    <3>2. upto[k + 1] = IF k + 1 = 0 THEN <<>>
                        ELSE IF (k + 1) - 1 \in S THEN Append(upto[(k + 1) - 1], (k + 1) - 1)
                        ELSE upto[(k + 1) - 1]
      BY <1>3, <3>1
    <3> QED BY <3>1, <3>2
  <2> QED BY <2>1, <2>2
<1> HIDE DEF Fix
<1> DEFINE P(k, s) == /\ s \in Seq(Nat) /\ A!StrictlySorted(s)
                      /\ Elts(s) = S \cap (0..(k - 1))
           I == {k \in Nat : k <= n => P(k, upto[k])}
<1>5. 0 \in I
  <2>1. Len(<<>>) = 0 /\ 1..0 = {} /\ 0..(0 - 1) = {}
    OBVIOUS
  <2>2. A!StrictlySorted(<<>>) /\ Elts(<<>>) = {}
    BY <2>1 DEF A!StrictlySorted, Elts
  <2>3. P(0, <<>>)
    BY <2>1, <2>2
  <2> HIDE DEF P
  <2> QED BY <2>3, <1>4
<1>6. ASSUME NEW k \in Nat, k \in I PROVE k + 1 \in I
  <2> SUFFICES ASSUME k + 1 <= n PROVE P(k + 1, upto[k + 1])
    OBVIOUS
  <2>1. k \in 0..(n - 1) /\ P(k, upto[k])
    BY <1>6
  <2>2. 0..((k + 1) - 1) = (0..(k - 1)) \cup {k}
    OBVIOUS
  <2>3. CASE k \in S
    <3> DEFINE s == upto[k]
               t == Append(s, k)
    <3>1. upto[k + 1] = t
      BY <1>4, <2>1, <2>3
    <3>2. s \in Seq(Nat) /\ A!StrictlySorted(s) /\ Elts(s) = S \cap (0..(k - 1))
      BY <2>1
    <3> HIDE DEF s
    <3>3. t \in Seq(Nat) /\ Elts(t) = Elts(s) \cup {k}
      BY <3>2, EltsAppend
    <3>4. A!StrictlySorted(t)
      <4>1. Len(s) \in Nat /\ Len(t) = Len(s) + 1 /\ t[Len(s) + 1] = k
            /\ \A i \in 1..Len(s) : t[i] = s[i]
        BY <3>2
      <4>2. ASSUME NEW i \in 1..Len(s) PROVE s[i] < k
        <5>1. s[i] \in Elts(s)
          BY DEF Elts
        <5>2. s[i] \in 0..(k - 1)
          BY <5>1, <3>2
        <5> QED BY <5>2
      <4>3. \A i, j \in 1..Len(s) : i < j => s[i] < s[j]
        BY <3>2 DEF A!StrictlySorted
      <4> HIDE DEF t
      <4>4. ASSUME NEW i \in 1..(Len(s) + 1), NEW j \in 1..(Len(s) + 1), i < j
            PROVE  t[i] < t[j]
        <5>1. i \in 1..Len(s)
          BY <4>1, <4>4
        <5>2. CASE j = Len(s) + 1
          BY <5>1, <5>2, <4>1, <4>2
        <5>3. CASE j # Len(s) + 1
          BY <5>1, <5>3, <4>1, <4>3, <4>4
        <5> QED BY <5>2, <5>3
      <4> QED BY <4>1, <4>4 DEF A!StrictlySorted
    <3> HIDE DEF t
    <3> QED BY <3>1, <3>2, <3>3, <3>4, <2>2, <2>3
  <2>4. CASE k \notin S
    <3>1. upto[k + 1] = upto[k]
      BY <1>4, <2>1, <2>4
    <3> QED BY <3>1, <2>1, <2>2, <2>4
  <2> QED BY <2>3, <2>4
<1> HIDE DEF I
<1>7. n \in I
  BY <1>5, <1>6, AP!NatSetInduction
<1> QED BY <1>1, <1>7 DEF I

\* The uids of a list of ids, in the order of the list.
LEMMA MpUidSeq ==
  ASSUME NEW ids \in Seq(Nat), A!StrictlySorted(ids)
  PROVE  /\ UidSeq(ids, mpid2uid) \in Seq(Int)
         /\ A!StrictlySorted(UidSeq(ids, mpid2uid))
         /\ Elts(UidSeq(ids, mpid2uid)) = {mpid2uid(m) : m \in Elts(ids)}
<1> DEFINE s == [k \in 1..Len(ids) |-> mpid2uid(ids[k])]
<1>1. Len(ids) \in Nat /\ \A k \in 1..Len(ids) : ids[k] \in Nat
  OBVIOUS
<1>2. s \in [1..Len(ids) -> Int]
  BY <1>1 DEF mpid2uid
<1>3. s \in Seq(Int) /\ Len(s) = Len(ids)
  <2> HIDE DEF s
  <2> QED BY <1>1, <1>2
<1>4. Elts(s) = {mpid2uid(m) : m \in Elts(ids)}
  BY <1>3 DEF Elts
<1>5. A!StrictlySorted(s)
  BY <1>1, <1>3 DEF A!StrictlySorted, mpid2uid
<1> QED BY <1>3, <1>4, <1>5 DEF UidSeq

\* The same for Nash nodes.
LEMMA NashUidSeq ==
  ASSUME NEW ids \in Seq(Nat), A!StrictlySorted(ids)
  PROVE  /\ UidSeq(ids, nashid2uid) \in Seq(Int)
         /\ A!StrictlySorted(UidSeq(ids, nashid2uid))
         /\ Elts(UidSeq(ids, nashid2uid)) = {nashid2uid(n) : n \in Elts(ids)}
<1> DEFINE s == [k \in 1..Len(ids) |-> nashid2uid(ids[k])]
<1>1. Len(ids) \in Nat /\ \A k \in 1..Len(ids) : ids[k] \in Nat
  OBVIOUS
<1>2. s \in [1..Len(ids) -> Int]
  BY <1>1 DEF nashid2uid
<1>3. s \in Seq(Int) /\ Len(s) = Len(ids)
  <2> HIDE DEF s
  <2> QED BY <1>1, <1>2
<1>4. Elts(s) = {nashid2uid(m) : m \in Elts(ids)}
  BY <1>3 DEF Elts
<1>5. A!StrictlySorted(s)
  BY <1>1, <1>3 DEF A!StrictlySorted, nashid2uid
<1> QED BY <1>3, <1>4, <1>5 DEF UidSeq

\* All elements are MPs, or all are Nash nodes.
OneKind(arr) == \A u, v \in Elts(arr) : uidisMP(u) = uidisMP(v)

\* Two arrays end to end have the elements of both.
LEMMA EltsConcat ==
  ASSUME NEW s \in Seq(Int), NEW t \in Seq(Int)
  PROVE  /\ s \o t \in Seq(Int)
         /\ Elts(s \o t) = Elts(s) \cup Elts(t)
         /\ Elts(s) = {} => s \o t = t
         /\ Elts(t) = {} => s \o t = s
<1> DEFINE r == s \o t
<1>1. /\ Len(s) \in Nat /\ Len(t) \in Nat /\ Len(r) = Len(s) + Len(t)
      /\ r \in Seq(Int)
      /\ \A k \in 1..(Len(s) + Len(t)) : r[k] = IF k <= Len(s) THEN s[k] ELSE t[k - Len(s)]
  OBVIOUS
<1>2. Elts(s) = {} => s = <<>>
  <2>1. s # <<>> => 1 \in 1..Len(s)
    OBVIOUS
  <2> QED BY <2>1 DEF Elts
<1>3. Elts(t) = {} => t = <<>>
  <2>1. t # <<>> => 1 \in 1..Len(t)
    OBVIOUS
  <2> QED BY <2>1 DEF Elts
<1>4. (s = <<>> => r = t) /\ (t = <<>> => r = s)
  <2>1. s = <<>> => r = t
    OBVIOUS
  <2>2. t = <<>> => r = s
    OBVIOUS
  <2> QED BY <2>1, <2>2
<1> HIDE DEF r
<1>5. Elts(r) \subseteq Elts(s) \cup Elts(t)
  <2> SUFFICES ASSUME NEW k \in 1..(Len(s) + Len(t))
               PROVE  r[k] \in Elts(s) \cup Elts(t)
    BY <1>1 DEF Elts
  <2>1. CASE k <= Len(s)
    <3>1. k \in 1..Len(s) /\ r[k] = s[k]
      BY <2>1, <1>1
    <3> QED BY <3>1 DEF Elts
  <2>2. CASE ~ k <= Len(s)
    <3>1. k - Len(s) \in 1..Len(t) /\ r[k] = t[k - Len(s)]
      BY <2>2, <1>1
    <3> QED BY <3>1 DEF Elts
  <2> QED BY <2>1, <2>2
<1>6. Elts(s) \subseteq Elts(r)
  <2> SUFFICES ASSUME NEW k \in 1..Len(s) PROVE s[k] \in Elts(r)
    BY DEF Elts
  <2>1. k \in 1..(Len(s) + Len(t)) /\ r[k] = s[k]
    BY <1>1
  <2> QED BY <2>1, <1>1 DEF Elts
<1>7. Elts(t) \subseteq Elts(r)
  <2> SUFFICES ASSUME NEW k \in 1..Len(t) PROVE t[k] \in Elts(r)
    BY DEF Elts
  <2>1. k + Len(s) \in 1..(Len(s) + Len(t)) /\ ~ k + Len(s) <= Len(s)
        /\ (k + Len(s)) - Len(s) = k
    BY <1>1
  <2>2. r[k + Len(s)] = t[k]
    BY <1>1, <2>1
  <2> QED BY <2>1, <2>2, <1>1 DEF Elts
<1> QED BY <1>1, <1>2, <1>3, <1>4, <1>5, <1>6, <1>7 DEF r

\* empdag_infer_roots lists exactly the nodes that are roots, sorted when they are
\* of one kind.
LEMMA InferredRootsProperties ==
  ASSUME TypeOK
  PROVE  /\ InferredRoots \in Seq(NodeUids)
         /\ Elts(InferredRoots) = {mpid2uid(m) : m \in Orphans \ hidable}
                                  \cup {nashid2uid(n) : n \in {k \in Nashs : nash_rarcs[k] = {}}}
         /\ OneKind(InferredRoots) => A!StrictlySorted(InferredRoots)
<1> DEFINE O == Orphans \ hidable
           H == {n \in Nashs : nash_rarcs[n] = {}}
           mps == UidSeq(Increasing(O, mps_len), mpid2uid)
           nashs == UidSeq(Increasing(H, nashs_len), nashid2uid)
<1>1. mps_len \in Nat /\ nashs_len \in Nat
  BY BoundsAssumption DEF TypeOK
<1>2. O \cap (0..(mps_len - 1)) = O /\ H \cap (0..(nashs_len - 1)) = H
  BY DEF Orphans, MPs, Nashs
<1>3. InferredRoots = mps \o nashs
  BY DEF InferredRoots
<1>4. O \subseteq MPs /\ H \subseteq Nashs /\ MPs \subseteq Nat /\ Nashs \subseteq Nat
  BY <1>1 DEF Orphans, MPs, Nashs
<1> HIDE DEF O, H
<1>5. /\ mps \in Seq(Int) /\ A!StrictlySorted(mps)
      /\ Elts(mps) = {mpid2uid(m) : m \in O}
  BY <1>1, <1>2, IncreasingProperties, MpUidSeq
<1>6. /\ nashs \in Seq(Int) /\ A!StrictlySorted(nashs)
      /\ Elts(nashs) = {nashid2uid(n) : n \in H}
  BY <1>1, <1>2, IncreasingProperties, NashUidSeq
<1> HIDE DEF mps, nashs
<1>7. InferredRoots \in Seq(Int) /\ Elts(InferredRoots) = Elts(mps) \cup Elts(nashs)
  BY <1>3, <1>5, <1>6, EltsConcat
<1>8. Elts(InferredRoots) \subseteq NodeUids
  BY <1>4, <1>5, <1>6, <1>7 DEF NodeUids, MpUids
<1>9. InferredRoots \in Seq(NodeUids)
  <2>1. /\ Len(InferredRoots) \in Nat
        /\ InferredRoots \in [1..Len(InferredRoots) -> Int]
    BY <1>7
  <2>2. \A k \in 1..Len(InferredRoots) : InferredRoots[k] \in NodeUids
    BY <1>8 DEF Elts
  <2>3. InferredRoots \in [1..Len(InferredRoots) -> NodeUids]
    BY <2>1, <2>2
  <2> QED BY <2>1, <2>3
<1>10. ASSUME OneKind(InferredRoots) PROVE A!StrictlySorted(InferredRoots)
  <2>1. Elts(mps) = {} \/ Elts(nashs) = {}
    <3> SUFFICES ASSUME NEW m \in O, NEW n \in H PROVE FALSE
      BY <1>5, <1>6
    <3>1. mpid2uid(m) \in Elts(InferredRoots) /\ nashid2uid(n) \in Elts(InferredRoots)
      BY <1>5, <1>6, <1>7
    <3>2. uidisMP(mpid2uid(m)) /\ ~ uidisMP(nashid2uid(n))
      BY <1>4, UidKinds
    <3> QED BY <3>1, <3>2, <1>10 DEF OneKind
  <2>2. InferredRoots = mps \/ InferredRoots = nashs
    BY <2>1, <1>3, <1>5, <1>6, EltsConcat
  <2> QED BY <2>2, <1>5, <1>6
<1> QED BY <1>5, <1>6, <1>7, <1>9, <1>10 DEF O, H

------------------------------------------------------------------------------
\* Bookkeeping: what an operation that touches neither nodes nor arcs leaves.
LEMMA ArcInvKept ==
  ASSUME ArcInv, finalized' \in BOOLEAN, hidden' \subseteq MPs,
         rc' \in {OK, Error_DuplicateValue, Error_NotFound, Error_RuntimeError,
                  Error_EMPIncorrectInput, Error_EMPRuntimeError},
         UNCHANGED <<mps_len, nashs_len, mptype, arcs, mps2instantiate, superseded, multiVF>>
  PROVE  ArcInv'
<1>1. /\ MPs' = MPs /\ Nashs' = Nashs /\ MpUids' = MpUids /\ NodeUids' = NodeUids
      /\ RarcUids' = RarcUids
  BY DEF MPs, Nashs, MpUids, NodeUids, RarcUids
<1>2. TypeOK'
  BY <1>1 DEF ArcInv, TypeOK, arcs
<1> QED BY <1>1, <1>2, NodeStep

\* empdag_single_MP_to_Nash makes both arcs at once, the reverse one with the MP.
LEMMA SingleMPArcs ==
  ASSUME ArcInv, empdag_single_MP_to_Nash,
         rc' \in {OK, Error_DuplicateValue, Error_RuntimeError}
  PROVE  ArcInv'
<1> DEFINE n == nashs_len
<1>0. /\ mps_len = 1 /\ n \in Nat /\ n < MaxNashs /\ MPs = {0} /\ 0 \in MPs /\ 0 \in MpIds
      /\ n \in NashIds /\ n \notin Nashs /\ TypeOK
      /\ MPs \subseteq MpIds /\ Nashs \subseteq NashIds
      /\ MpIds \subseteq Int /\ NashIds \subseteq Int
  BY IdsInUse, BoundsAssumption
     DEF empdag_single_MP_to_Nash, ArcInv, TypeOK, MPs, MpIds, NashIds, Nashs
<1>1. mps_len' = mps_len + 0 /\ nashs_len' = nashs_len + 1 /\ nashs_len' \in 0..MaxNashs
  BY <1>0, BoundsAssumption DEF empdag_single_MP_to_Nash
<1>2. /\ MPs \subseteq MPs' /\ Nashs \subseteq Nashs' /\ MpUids \subseteq MpUids'
      /\ NodeUids \subseteq NodeUids' /\ RarcUids \subseteq RarcUids'
      /\ Seq(MPs) \subseteq Seq(MPs')
  BY <1>0, <1>1, TypesGrow
<1>3. n \in Nashs' /\ MPs' = MPs
  BY <1>0, <1>1 DEF Nashs, MPs
<1>4. mpid2uid(0) \in MpUids' /\ nashid2uid(n) \in RarcUids'
  BY <1>0, <1>3 DEF MpUids, NodeUids, RarcUids
<1>5. TypeOK'
  <2>1. mps2instantiate' \in Seq(MPs')
    BY <1>0, <1>3 DEF empdag_single_MP_to_Nash, TypeOK
  <2>2. nash_arcs' \in [NashIds -> SUBSET MpUids']
    BY <1>0, <1>2, <1>4 DEF empdag_single_MP_to_Nash, TypeOK
  <2>3. rarcs' \in [MpIds -> SUBSET RarcUids']
    BY <1>0, <1>2, <1>4 DEF empdag_single_MP_to_Nash, TypeOK
  <2>4. /\ Carcs' \in [MpIds -> SUBSET NodeUids'] /\ Varcs' \in [MpIds -> Seq(MPs')]
        /\ nash_rarcs' \in [NashIds -> SUBSET MpUids']
        /\ hidden' \subseteq MPs' /\ superseded' \subseteq MPs'
    BY <1>0, <1>2 DEF empdag_single_MP_to_Nash, TypeOK
  <2> QED BY <1>0, <1>1, <2>1, <2>2, <2>3, <2>4 DEF empdag_single_MP_to_Nash, TypeOK
<1>6. CASE mptype[0] = "undef"
  <2>1. UNCHANGED <<arcs, superseded, multiVF>>
    BY <1>6 DEF empdag_single_MP_to_Nash, arcs
  <2> QED BY <1>2, <1>5, <2>1, NodeStep
<1>7. CASE mptype[0] # "undef"
  <2>0. /\ UNCHANGED <<Carcs, Varcs, nash_rarcs, superseded, multiVF>>
        /\ nash_arcs' = [nash_arcs EXCEPT ![n] = {mpid2uid(0)}]
        /\ rarcs' = [rarcs EXCEPT ![0] = @ \cup {nashid2uid(n)}]
    BY <1>7 DEF empdag_single_MP_to_Nash
  <2>1. nash_arcs[n] = {} /\ nash_rarcs[n] = {}
    BY <1>0 DEF ArcInv, NoStrayArcs
  <2>2. /\ \A q \in NashIds : \A u : u \in nash_arcs'[q] <=>
             u \in nash_arcs[q] \/ (q = n /\ u = mpid2uid(0))
        /\ \A q \in MpIds : \A u : u \in rarcs'[q] <=>
             u \in rarcs[q] \/ (q = 0 /\ u = nashid2uid(n))
    BY <1>0, <2>0, <2>1 DEF TypeOK
  <2>3. NoStrayArcs'
    <3>1. /\ \A m \in MpIds : m \notin MPs' => rarcs'[m] = {} /\ Carcs'[m] = {} /\ Varcs'[m] = <<>>
          /\ \A q \in NashIds : q \notin Nashs' => nash_arcs'[q] = {} /\ nash_rarcs'[q] = {}
      BY <1>0, <1>2, <1>3, <2>0, <2>2 DEF ArcInv, NoStrayArcs
    <3> QED BY <2>0, <3>1 DEF ArcInv, NoStrayArcs
  <2>4. RarcsHaveArcs'
    BY <1>0, <2>0, <2>2, UidsDistinct DEF ArcInv, RarcsHaveArcs
  <2>5. ArcsHaveRarcs'
    BY <1>0, <2>0, <2>2, UidsDistinct DEF ArcInv, ArcsHaveRarcs
  <2> QED BY <1>5, <2>0, <2>3, <2>4, <2>5 DEF ArcInv, VarcsDistinct
<1> QED BY <1>6, <1>7

------------------------------------------------------------------------------
\* ChildrenOf and FinalizedIsDag, with the state that they read as parameters; X holds
\* the hidden MPs.
KidsOf(C, V, NA, u) ==
  IF uidisMP(u) THEN C[uid2id(u)] \cup {mpid2uid(c) : c \in Elts(V[uid2id(u)])}
  ELSE NA[uid2id(u)]

IsDag(M, K, C, V, NA, X, R, L) ==
  /\ \A u \in NodesOf(M, K) : u \notin Desc(M, K, C, V, NA, X, KidsOf(C, V, NA, u) \ X)
  /\ \A u \in NodesOf(M, K) : \/ u \in Desc(M, K, C, V, NA, {}, R)
                              \/ uidisMP(u) /\ uid2id(u) \in L

\* The arcs of a state stay among its nodes.
LEMMA NodesClosed ==
  ASSUME TypeOK
  PROVE  /\ NodeUids = NodesOf(mps_len, nashs_len)
         /\ \A X : Closed(mps_len, nashs_len, Carcs, Varcs, nash_arcs, X,
                         NodesOf(mps_len, nashs_len))
<1>1. NodeUids = NodesOf(mps_len, nashs_len)
  BY DEF NodeUids, MpUids, NodesOf, MPs, Nashs
<1>2. ASSUME NEW p \in MPs
      PROVE  Carcs[p] \subseteq NodeUids /\ \A c \in Elts(Varcs[p]) : mpid2uid(c) \in NodeUids
  <2>1. p \in MpIds /\ Carcs[p] \subseteq NodeUids /\ Varcs[p] \in Seq(MPs)
    BY IdsInUse DEF TypeOK
  <2>2. \A i \in 1..Len(Varcs[p]) : Varcs[p][i] \in MPs
    BY <2>1
  <2>3. Elts(Varcs[p]) \subseteq MPs
    BY <2>2 DEF Elts
  <2> QED BY <2>1, <2>3 DEF NodeUids, MpUids
<1>3. ASSUME NEW n \in Nashs
      PROVE  nash_arcs[n] \subseteq NodeUids
  BY IdsInUse DEF TypeOK, NodeUids
<1> QED BY <1>1, <1>2, <1>3 DEF Closed, MPs, Nashs

\* The children of a node are nodes.
LEMMA KidsAreNodes ==
  ASSUME NEW M \in Nat, NEW K \in Nat, NEW C, NEW V, NEW NA, NEW X,
         Closed(M, K, C, V, NA, X, NodesOf(M, K)), NEW u \in NodesOf(M, K)
  PROVE  KidsOf(C, V, NA, u) \ X \in SUBSET NodesOf(M, K)
<1>1. CASE \E m \in 0..(M - 1) : u = mpid2uid(m)
  <2>1. PICK m \in 0..(M - 1) : u = mpid2uid(m)
    BY <1>1
  <2>2. m \in Nat /\ uidisMP(u) /\ uid2id(u) = m
    BY <2>1, UidKinds
  <2> QED BY <2>1, <2>2 DEF KidsOf, Closed
<1>2. CASE \E n \in 0..(K - 1) : u = nashid2uid(n)
  <2>1. PICK n \in 0..(K - 1) : u = nashid2uid(n)
    BY <1>2
  <2>2. n \in Nat /\ ~ uidisMP(u) /\ uid2id(u) = n
    BY <2>1, UidKinds
  <2> QED BY <2>1, <2>2 DEF KidsOf, Closed
<1> QED BY <1>1, <1>2 DEF NodesOf

\* A new MP without arcs changes nothing below the other nodes.
LEMMA NewMPKeepsDag ==
  ASSUME NEW M \in Nat, NEW K \in Nat, NEW C, NEW V, NEW NA, NEW X,
         \A Y : Closed(M, K, C, V, NA, Y, NodesOf(M, K)), C[M] = {}, V[M] = <<>>,
         NEW R \in SUBSET NodesOf(M, K), NEW L, IsDag(M, K, C, V, NA, X, R, L)
  PROVE  IsDag(M + 1, K, C, V, NA, X, R, L \cup {M})
<1> DEFINE D == NodesOf(M, K)
           new == mpid2uid(M)
<1>1. NodesOf(M + 1, K) = D \cup {new} /\ M + 1 \in Nat /\ new \notin D
  <2>1. 0..((M + 1) - 1) = (0..(M - 1)) \cup {M}
    OBVIOUS
  <2>2. new \notin D
    <3>1. \A m \in 0..(M - 1) : m \in Int /\ M \in Int /\ m # M
      OBVIOUS
    <3> QED BY <3>1, UidsDistinct DEF NodesOf
  <2> QED BY <2>1, <2>2 DEF NodesOf
<1>2. Elts(V[M]) = {}
  BY DEF Elts
<1>3. \A Y, T : Closed(M, K, C, V, NA, Y, T) <=> Closed(M + 1, K, C, V, NA, Y, T)
  <2>1. 0..((M + 1) - 1) = (0..(M - 1)) \cup {M}
    OBVIOUS
  <2> QED BY <2>1, <1>2 DEF Closed
<1>4. ASSUME NEW Y
      PROVE  Closed(M + 1, K, C, V, NA, Y, NodesOf(M + 1, K))
  <2>1. Closed(M, K, C, V, NA, Y, D \cup {new})
    <3>1. /\ \A p \in 0..(M - 1) : mpid2uid(p) \in D
          /\ \A n \in 0..(K - 1) : nashid2uid(n) \in D
      BY DEF NodesOf
    <3>2. Closed(M, K, C, V, NA, Y, D)
      OBVIOUS
    <3> HIDE DEF D
    <3> QED BY <3>1, <3>2 DEF Closed
  <2> QED BY <2>1, <1>1, <1>3
<1>5. ASSUME NEW Y, NEW S \in SUBSET D
      PROVE  Desc(M + 1, K, C, V, NA, Y, S) = Desc(M, K, C, V, NA, Y, S)
  <2>1. S \in SUBSET NodesOf(M + 1, K)
    BY <1>1
  <2>2. /\ S \subseteq Desc(M, K, C, V, NA, Y, S)
        /\ Closed(M, K, C, V, NA, Y, Desc(M, K, C, V, NA, Y, S))
        /\ \A T : S \subseteq T /\ Closed(M, K, C, V, NA, Y, T)
                    => Desc(M, K, C, V, NA, Y, S) \subseteq T
    BY DescLeast
  <2>3. /\ S \subseteq Desc(M + 1, K, C, V, NA, Y, S)
        /\ Closed(M + 1, K, C, V, NA, Y, Desc(M + 1, K, C, V, NA, Y, S))
        /\ \A T : S \subseteq T /\ Closed(M + 1, K, C, V, NA, Y, T)
                    => Desc(M + 1, K, C, V, NA, Y, S) \subseteq T
    BY <2>1, <1>1, <1>4, DescLeast
  <2> QED BY <2>2, <2>3, <1>3
<1>6. ASSUME NEW u \in D
      PROVE  /\ u \notin Desc(M + 1, K, C, V, NA, X, KidsOf(C, V, NA, u) \ X)
             /\ \/ u \in Desc(M + 1, K, C, V, NA, {}, R)
                \/ uidisMP(u) /\ uid2id(u) \in L
  <2>1. KidsOf(C, V, NA, u) \ X \in SUBSET D
    BY KidsAreNodes
  <2>2. /\ u \notin Desc(M, K, C, V, NA, X, KidsOf(C, V, NA, u) \ X)
        /\ \/ u \in Desc(M, K, C, V, NA, {}, R)
           \/ uidisMP(u) /\ uid2id(u) \in L
    BY DEF IsDag
  <2> HIDE DEF D
  <2> QED BY <2>1, <2>2, <1>5 DEF D
<1>7. /\ new \notin Desc(M + 1, K, C, V, NA, X, KidsOf(C, V, NA, new) \ X)
      /\ uidisMP(new) /\ uid2id(new) \in L \cup {M}
  <2>1. uidisMP(new) /\ uid2id(new) = M
    BY UidKinds
  <2>2. KidsOf(C, V, NA, new) \ X = {}
    BY <2>1, <1>2 DEF KidsOf
  <2>3. Desc(M + 1, K, C, V, NA, X, {}) \subseteq {}
    <3>1. {} \in SUBSET D /\ Closed(M, K, C, V, NA, X, {})
      BY DEF Closed
    <3>2. Desc(M, K, C, V, NA, X, {}) \subseteq {}
      BY <3>1, DescLeast
    <3> QED BY <3>1, <3>2, <1>5
  <2> QED BY <2>1, <2>2, <2>3
<1> HIDE DEF D, new
<1> QED BY <1>1, <1>6, <1>7 DEF IsDag

\* Below and FinalizedIsDag are these operators of the state, now and after a step.
LEMMA BelowOfState ==
  /\ \A X, S : Below(S, X) = Desc(mps_len, nashs_len, Carcs, Varcs, nash_arcs, X, S)
  /\ \A u : ChildrenOf(u) = KidsOf(Carcs, Varcs, nash_arcs, u)
  /\ NodeUids = NodesOf(mps_len, nashs_len)
<1>1. \A X, S : Below(S, X) = Desc(mps_len, nashs_len, Carcs, Varcs, nash_arcs, X, S)
  BY DEF Below, Desc, MPs, Nashs
<1>2. \A u : ChildrenOf(u) = KidsOf(Carcs, Varcs, nash_arcs, u)
  BY DEF ChildrenOf, KidsOf
<1>3. NodeUids = NodesOf(mps_len, nashs_len)
  BY DEF NodeUids, MpUids, NodesOf, MPs, Nashs
<1> QED BY <1>1, <1>2, <1>3

\* the hidden MPs, as nodes
HiddenUids(H) == {mpid2uid(m) : m \in H}

DagHolds ==
  finalized /\ MPs \ late # {} =>
    IsDag(mps_len, nashs_len, Carcs, Varcs, nash_arcs, HiddenUids(hidden), Elts(roots),
          hidden \cup late)

\* FinalizedIsDag, with the state as parameters of IsDag.
LEMMA DagOfState == FinalizedIsDag <=> DagHolds
  BY BelowOfState DEF FinalizedIsDag, NoCycleOutside, HiddenUids, DagHolds, IsDag

\* The same after a step.
LEMMA DagOfNextState == FinalizedIsDag' <=> DagHolds'
  BY DagOfState, PTL

------------------------------------------------------------------------------
\* EmpDagRoots and UIntArrayProofs instantiate the same operators.
LEMMA SameArrays ==
  ASSUME NEW arr, NEW v
  PROVE  /\ AP!Elts(arr) = Elts(arr)
         /\ AP!StrictlySorted(arr) <=> A!StrictlySorted(arr)
         /\ AP!rhp_uint_addsorted(arr, v) = A!rhp_uint_addsorted(arr, v)
         /\ AP!rhp_uint_findsorted(arr, v) = A!rhp_uint_findsorted(arr, v)
         /\ AP!NotFound = A!NotFound
<1>1. AP!Elts(arr) = Elts(arr)
  BY DEF AP!Elts, Elts
<1>2. AP!StrictlySorted(arr) <=> A!StrictlySorted(arr)
  BY DEF AP!StrictlySorted, A!StrictlySorted
<1>3. AP!rhp_uint_addsorted(arr, v) = A!rhp_uint_addsorted(arr, v)
  BY DEF AP!rhp_uint_addsorted, A!rhp_uint_addsorted, AP!LargestOf, A!LargestOf,
         AP!InsertedAt, A!InsertedAt, AP!OK, A!OK,
         AP!Error_DuplicateValue, A!Error_DuplicateValue
<1>4. AP!NotFound = A!NotFound
  BY DEF AP!NotFound, A!NotFound
<1>5. AP!rhp_uint_findsorted(arr, v) = A!rhp_uint_findsorted(arr, v)
  BY DEF AP!rhp_uint_findsorted, A!rhp_uint_findsorted, AP!bin_search_uint,
         A!bin_search_uint, AP!NotFound, A!NotFound
<1> QED BY <1>1, <1>2, <1>3, <1>4, <1>5

\* A root that is added leaves the roots sorted, as long as they are of one kind.
LEMMA AddRoot ==
  ASSUME NEW W \in SUBSET Int, NEW arr \in Seq(W), NEW v \in W,
         OneKind(arr) => A!StrictlySorted(arr)
  PROVE  /\ A!rhp_uint_addsorted(arr, v).arr \in Seq(W)
         /\ OneKind(A!rhp_uint_addsorted(arr, v).arr)
              => A!StrictlySorted(A!rhp_uint_addsorted(arr, v).arr)
         /\ A!rhp_uint_addsorted(arr, v).rc \in {OK, Error_DuplicateValue}
<1> DEFINE res == A!rhp_uint_addsorted(arr, v)
<1>1. \/ res = [rc |-> Error_DuplicateValue, arr |-> arr] /\ v \in Elts(arr)
      \/ /\ res.rc = OK /\ res.arr \in Seq(W)
         /\ Elts(res.arr) = Elts(arr) \cup {v}
  BY AP!AddSortedType, SameArrays DEF AP!OK, AP!Error_DuplicateValue, OK, Error_DuplicateValue
<1>2. A!StrictlySorted(arr) /\ v \notin Elts(arr) => A!StrictlySorted(res.arr)
  BY AP!AddSortedProperties, SameArrays
<1>3. OneKind(res.arr) => OneKind(arr)
  <2> HIDE DEF res
  <2> QED BY <1>1 DEF OneKind
<1>4. v \in Elts(arr) => res = [rc |-> Error_DuplicateValue, arr |-> arr]
                        \/ (res.rc = OK /\ Elts(res.arr) = Elts(arr) \cup {v})
  BY <1>1
<1>5. A!StrictlySorted(arr) => A!StrictlySorted(res.arr)
  <2>1. A!StrictlySorted(arr) /\ v \in Elts(arr) => res.arr = arr
    BY AP!AddSortedProperties, SameArrays
  <2> QED BY <2>1, <1>2
<1> HIDE DEF res
<1> QED BY <1>1, <1>3, <1>5 DEF res

------------------------------------------------------------------------------
(***************************************************************************)
(* The inductive invariant: the one of the arcs, that roots of one kind    *)
(* are sorted, and what finalized vouches for.                             *)
(***************************************************************************)
RootsSorted == OneKind(roots) => A!StrictlySorted(roots)

RInv == RTypeOK /\ ArcInv /\ RootsSorted /\ FinalizedRootsExact /\ DagHolds

\* The invariant holds before anything is added.
LEMMA RInvInit == RInit => RInv
<1> SUFFICES ASSUME RInit PROVE RInv
  OBVIOUS
<1>1. ArcInv /\ TypeOK
  BY ArcInvInit DEF RInit, ArcInv
<1>2. RTypeOK
  BY <1>1 DEF RTypeOK, RInit
<1>3. RootsSorted
  <2>1. Len(<<>>) = 0 /\ 1..0 = {}
    OBVIOUS
  <2> QED BY <2>1 DEF RootsSorted, RInit, A!StrictlySorted
<1>4. finalized = FALSE
  BY DEF RInit, Init
<1> QED BY <1>1, <1>2, <1>3, <1>4 DEF RInv, FinalizedRootsExact, DagHolds

\* What finalized vouches for reads only these variables.
LEMMA FinalizedKept ==
  ASSUME RInv, finalized' \in BOOLEAN, finalized' => finalized,
         finalized' => UNCHANGED <<mps_len, nashs_len, arcs, roots, hidden, late>>
  PROVE  FinalizedRootsExact' /\ DagHolds'
<1>1. CASE finalized' = FALSE
  BY <1>1 DEF FinalizedRootsExact, DagHolds
<1>2. CASE finalized' = TRUE
  <2>1. /\ finalized
        /\ mps_len' = mps_len /\ nashs_len' = nashs_len /\ Carcs' = Carcs /\ Varcs' = Varcs
        /\ rarcs' = rarcs /\ nash_arcs' = nash_arcs /\ nash_rarcs' = nash_rarcs
        /\ roots' = roots /\ hidden' = hidden /\ late' = late
    BY <1>2 DEF arcs
  <2>2. FinalizedRootsExact'
    BY <2>1 DEF RInv, FinalizedRootsExact, MPs, Nashs, Elts
  <2>3. Elts(roots') = Elts(roots) /\ MPs' = MPs
    BY <2>1 DEF Elts, MPs
  <2>4. DagHolds'
    BY <2>1, <2>3 DEF RInv, DagHolds, HiddenUids
  <2> QED BY <2>2, <2>4
<1> QED BY <1>1, <1>2

\* New nodes do not disturb the variables of this module.
LEMMA RTypeGrows ==
  ASSUME RTypeOK, NodeUids \subseteq NodeUids', MPs \subseteq MPs'
  PROVE  /\ roots \in Seq(NodeUids') /\ uid_root \in NodeUids' \cup {EMPDAG_UID_NONE}
         /\ hidable \subseteq MPs' /\ late \subseteq MPs'
<1>1. roots \in Seq(NodeUids')
  <2>1. Len(roots) \in Nat /\ roots \in [1..Len(roots) -> NodeUids]
    BY DEF RTypeOK
  <2>2. roots \in [1..Len(roots) -> NodeUids']
    BY <2>1
  <2> QED BY <2>1, <2>2
<1> QED BY <1>1 DEF RTypeOK

\* A new MP is late when the flag is set, and changes nothing below the other nodes.
LEMMA AddMpStep ==
  ASSUME RInv, NEW type \in MpTypes, empdag_addmp(type),
         late' = IF finalized THEN late \cup {mps_len} ELSE late,
         UNCHANGED <<roots, uid_root, hidable>>
  PROVE  RInv'
<1>0. ArcInv /\ TypeOK /\ RTypeOK /\ ArcInv' /\ TypeOK'
  <2>1. Next
    BY DEF Next
  <2> QED BY <2>1, ArcInvStep DEF RInv, ArcInv
<1>1. mps_len \in Nat /\ nashs_len \in Nat /\ mps_len' = mps_len + 1 /\ nashs_len' = nashs_len
  BY <1>0, BoundsAssumption DEF TypeOK, empdag_addmp
<1>2. MPs' = MPs \cup {mps_len} /\ mps_len \notin MPs /\ Nashs' = Nashs
  BY <1>1 DEF MPs, Nashs
<1>3. NodeUids \subseteq NodeUids' /\ MPs \subseteq MPs'
  BY <1>2 DEF NodeUids, MpUids
<1>4. RTypeOK'
  BY <1>0, <1>2, <1>3, RTypeGrows DEF RTypeOK
<1>5. UNCHANGED <<finalized, hidden, Carcs, Varcs, rarcs, nash_arcs, nash_rarcs>>
  BY DEF empdag_addmp, arcs
<1>6. RootsSorted'
  BY DEF RInv, RootsSorted, OneKind, Elts, A!StrictlySorted
<1>7. FinalizedRootsExact'
  <2> SUFFICES ASSUME finalized PROVE FinalizedRootsExact'
    BY <1>5 DEF FinalizedRootsExact
  <2>1. MPs' \ late' = MPs \ late
    BY <1>0, <1>2 DEF RTypeOK
  <2> QED BY <2>1, <1>2, <1>5 DEF RInv, FinalizedRootsExact, Elts
<1>8. DagHolds'
  <2> SUFFICES ASSUME finalized, MPs' \ late' # {} PROVE DagHolds'
    BY <1>5 DEF DagHolds
  <2>1. MPs' \ late' = MPs \ late /\ late' = late \cup {mps_len}
    BY <1>0, <1>2 DEF RTypeOK
  <2>2. IsDag(mps_len, nashs_len, Carcs, Varcs, nash_arcs, HiddenUids(hidden), Elts(roots),
              hidden \cup late)
    BY <2>1 DEF RInv, DagHolds
  <2>3. Carcs[mps_len] = {} /\ Varcs[mps_len] = <<>>
    BY <1>0, FreshUnlinked DEF Unlinked, empdag_addmp
  <2>4. (\A Y : Closed(mps_len, nashs_len, Carcs, Varcs, nash_arcs, Y,
                        NodesOf(mps_len, nashs_len)))
        /\ Elts(roots) \in SUBSET NodesOf(mps_len, nashs_len)
    <3>1. \A i \in 1..Len(roots) : roots[i] \in NodeUids
      BY <1>0 DEF RTypeOK
    <3> QED BY <3>1, <1>0, NodesClosed DEF Elts
  <2>5. IsDag(mps_len + 1, nashs_len, Carcs, Varcs, nash_arcs, HiddenUids(hidden), Elts(roots),
              (hidden \cup late) \cup {mps_len})
    BY <1>1, <2>2, <2>3, <2>4, NewMPKeepsDag
  <2>6. hidden' \cup late' = (hidden \cup late) \cup {mps_len} /\ Elts(roots') = Elts(roots)
    BY <2>1, <1>5 DEF Elts
  <2>7. IsDag(mps_len', nashs_len', Carcs', Varcs', nash_arcs', HiddenUids(hidden'),
              Elts(roots'), hidden' \cup late')
    BY <2>5, <2>6, <1>1, <1>5
  <2> QED BY <2>7 DEF DagHolds, HiddenUids
<1> QED BY <1>0, <1>4, <1>6, <1>7, <1>8 DEF RInv

\* A new Nash node takes the flag back.
LEMMA AddNashStep ==
  ASSUME RInv, empdag_addnash, UNCHANGED rootvars
  PROVE  RInv'
<1>0. ArcInv /\ TypeOK /\ RTypeOK /\ ArcInv' /\ TypeOK'
  <2>1. Next
    BY DEF Next
  <2> QED BY <2>1, ArcInvStep DEF RInv, ArcInv
<1>1. mps_len' = mps_len + 0 /\ nashs_len' = nashs_len + 1
  BY <1>0, BoundsAssumption DEF empdag_addnash, TypeOK
<1>2. NodeUids \subseteq NodeUids' /\ MPs \subseteq MPs'
  BY <1>0, <1>1, TypesGrow
<1>3. RTypeOK'
  BY <1>0, <1>2, RTypeGrows DEF RTypeOK, rootvars
<1>4. RootsSorted'
  BY DEF RInv, RootsSorted, OneKind, Elts, A!StrictlySorted, rootvars
<1>5. finalized' = FALSE
  BY DEF empdag_addnash
<1> QED BY <1>0, <1>3, <1>4, <1>5, FinalizedKept DEF RInv

\* An arc operation that keeps finalized has changed no arc.
LEMMA AddArcStep ==
  ASSUME RInv, AddArc
  PROVE  RInv'
<1>0. ArcInv /\ TypeOK /\ RTypeOK /\ ArcInv' /\ TypeOK' /\ UNCHANGED rootvars
  <2>1. Next
    BY DEF AddArc, Next
  <2> QED BY <2>1, ArcInvStep DEF RInv, ArcInv, AddArc
<1>1. /\ finalized' \in BOOLEAN /\ (finalized' => finalized)
      /\ finalized' => UNCHANGED arcs
      /\ UNCHANGED <<mps_len, nashs_len, hidden>>
  <2>0. MPs \subseteq MpIds /\ Nashs \subseteq NashIds
    BY <1>0, IdsInUse
  <2>1. ASSUME NEW n \in Nashs, NEW m \in MPs, empdag_nashaddmpbyid(n, m)
        PROVE  <1>1!:
    <3>1. mpid2uid(m) \notin nash_arcs[n] => nashid2uid(n) \notin rarcs[m]
      BY <1>0, <2>0 DEF ArcInv, RarcsHaveArcs
    <3> QED BY <1>0, <2>1, <3>1 DEF empdag_nashaddmpbyid, arcs, TypeOK
  <2>2. ASSUME NEW p \in MPs, NEW c \in MPs, empdag_mpVFmpbyid(p, c)
        PROVE  <1>1!:
    BY <1>0, <2>2 DEF empdag_mpVFmpbyid, TypeOK
  <2>3. ASSUME NEW p \in MPs, NEW c \in MPs, empdag_mpCTRLmpbyid(p, c)
        PROVE  <1>1!:
    <3>1. mpid2uid(c) \notin Carcs[p] => rarcCTRLuid(mpid2uid(p)) \notin rarcs[c]
      BY <1>0, <2>0 DEF ArcInv, RarcsHaveArcs
    <3> QED BY <1>0, <2>3, <3>1 DEF empdag_mpCTRLmpbyid, arcs, TypeOK
  <2>4. ASSUME NEW p \in MPs, NEW n \in Nashs, empdag_mpCTRLnashbyid(p, n)
        PROVE  <1>1!:
    <3>1. nashid2uid(n) \notin Carcs[p] => rarcCTRLuid(mpid2uid(p)) \notin nash_rarcs[n]
      BY <1>0, <2>0 DEF ArcInv, RarcsHaveArcs
    <3> QED BY <1>0, <2>4, <3>1 DEF empdag_mpCTRLnashbyid, arcs, TypeOK
  <2> QED BY <2>1, <2>2, <2>3, <2>4 DEF AddArc
<1>2. NodeUids \subseteq NodeUids' /\ MPs \subseteq MPs'
  BY <1>1 DEF NodeUids, MpUids, MPs, Nashs
<1>3. RTypeOK'
  BY <1>0, <1>2, RTypeGrows DEF RTypeOK, rootvars
<1>4. RootsSorted'
  BY <1>0 DEF RInv, RootsSorted, OneKind, Elts, A!StrictlySorted, rootvars
<1>5. FinalizedRootsExact' /\ DagHolds'
  BY <1>0, <1>1, FinalizedKept DEF rootvars
<1> QED BY <1>0, <1>3, <1>4, <1>5 DEF RInv

\* The bits of mp_hidable_asdual and mp_hidable_askkt are read by the next inference only.
LEMMA HidableStep ==
  ASSUME RInv, NEW m \in MPs, mp_hidable(m)
  PROVE  RInv'
<1>0. /\ UNCHANGED <<mps_len, nashs_len, mptype, arcs, mps2instantiate, finalized, hidden,
                     superseded, multiVF, roots, uid_root, late>>
      /\ hidable' = hidable \cup {m} /\ rc' = OK
  BY DEF mp_hidable
<1>1. ArcInv'
  BY <1>0, ArcInvKept DEF RInv, ArcInv, TypeOK
<1>2. MPs' = MPs /\ NodeUids' = NodeUids
  BY <1>0 DEF NodeUids, MpUids, MPs, Nashs
<1>3. RTypeOK'
  BY <1>0, <1>1, <1>2 DEF RInv, RTypeOK, ArcInv
<1>4. RootsSorted'
  BY <1>0 DEF RInv, RootsSorted, OneKind, Elts, A!StrictlySorted
<1>5. FinalizedRootsExact' /\ DagHolds'
  BY <1>0, FinalizedKept DEF RInv, RTypeOK, TypeOK
<1> QED BY <1>1, <1>3, <1>4, <1>5 DEF RInv

\* Uids are numbers: arrays of them are sorted.
LEMMA NodeUidsAreInts == ASSUME TypeOK PROVE NodeUids \in SUBSET Int
<1>1. MPs \subseteq Int /\ Nashs \subseteq Int
  BY DEF MPs, Nashs
<1> QED BY <1>1 DEF NodeUids, MpUids, mpid2uid, nashid2uid

\* A root that is chosen takes the flag back and keeps roots of one kind sorted.
LEMMA SetRootStep ==
  ASSUME RInv, NEW u \in NodeUids, empdag_setroot(u)
  PROVE  RInv'
<1> DEFINE res == A!rhp_uint_addsorted(roots, u)
<1>0. /\ UNCHANGED <<mps_len, nashs_len, mptype, arcs, mps2instantiate, hidden,
                     superseded, multiVF, hidable, late>>
      /\ roots' = res.arr /\ rc' = res.rc /\ finalized' = FALSE
      /\ uid_root' = IF res.rc = OK THEN u ELSE uid_root
  BY DEF empdag_setroot
<1>1. /\ res.arr \in Seq(NodeUids) /\ (OneKind(res.arr) => A!StrictlySorted(res.arr))
      /\ res.rc \in {OK, Error_DuplicateValue}
  BY NodeUidsAreInts, AddRoot DEF RInv, RTypeOK, RootsSorted
<1> HIDE DEF res
<1>2. ArcInv'
  BY <1>0, <1>1, ArcInvKept DEF RInv, ArcInv, TypeOK
<1>3. MPs' = MPs /\ NodeUids' = NodeUids
  BY <1>0 DEF NodeUids, MpUids, MPs, Nashs
<1>4. RTypeOK'
  BY <1>0, <1>1, <1>2, <1>3 DEF RInv, RTypeOK, ArcInv
<1>5. RootsSorted'
  BY <1>0, <1>1 DEF RootsSorted, OneKind, Elts, A!StrictlySorted
<1>6. FinalizedRootsExact' /\ DagHolds'
  BY <1>0, FinalizedKept
<1> QED BY <1>2, <1>4, <1>5, <1>6 DEF RInv

\* So does the Nash node made of a single MP, with both of its arcs.
LEMMA SingleMPStep ==
  ASSUME RInv, empdag_single_MP_to_Nash
  PROVE  RInv'
<1> DEFINE u == nashid2uid(nashs_len)
           adds == mptype[0] # "undef"
           res == A!rhp_uint_addsorted(roots, u)
<1>0. /\ UNCHANGED <<mps_len, hidden, hidable, late>>
      /\ nashs_len' = nashs_len + 1 /\ finalized' = FALSE
      /\ roots' = IF adds THEN res.arr ELSE roots
      /\ uid_root' = IF adds /\ res.rc = OK THEN u ELSE uid_root
      /\ rc' = IF adds THEN res.rc ELSE Error_RuntimeError
  BY DEF empdag_single_MP_to_Nash
<1> HIDE DEF adds
<1>1. nashs_len \in Nat /\ RTypeOK /\ TypeOK /\ mps_len' = mps_len + 0
  BY <1>0, BoundsAssumption DEF RInv, RTypeOK, TypeOK
<1>2. NodeUids \subseteq NodeUids' /\ MPs \subseteq MPs' /\ u \in NodeUids'
  <2>1. nashs_len \in Nashs'
    BY <1>0, <1>1 DEF Nashs
  <2> QED BY <1>0, <1>1, <2>1, TypesGrow DEF NodeUids
<1>3. NodeUids' \in SUBSET Int
  <2>1. MPs' \subseteq Int /\ Nashs' \subseteq Int
    BY DEF MPs, Nashs
  <2> QED BY <2>1 DEF NodeUids, MpUids, mpid2uid, nashid2uid
<1>4. /\ roots \in Seq(NodeUids') /\ uid_root \in NodeUids' \cup {EMPDAG_UID_NONE}
      /\ hidable \subseteq MPs' /\ late \subseteq MPs'
  BY <1>1, <1>2, RTypeGrows
<1> HIDE DEF u
<1>5. /\ res.arr \in Seq(NodeUids') /\ (OneKind(res.arr) => A!StrictlySorted(res.arr))
      /\ res.rc \in {OK, Error_DuplicateValue}
  BY <1>2, <1>3, <1>4, AddRoot DEF RInv, RootsSorted
<1> HIDE DEF res
<1>6. ArcInv'
  BY <1>0, <1>5, SingleMPArcs DEF RInv
<1>7. RTypeOK'
  BY <1>0, <1>2, <1>4, <1>5, <1>6 DEF RTypeOK, ArcInv
<1>8. RootsSorted'
  BY <1>0, <1>5 DEF RInv, RootsSorted, OneKind, Elts, A!StrictlySorted
<1>9. FinalizedRootsExact' /\ DagHolds'
  BY <1>0, FinalizedKept
<1> QED BY <1>6, <1>7, <1>8, <1>9 DEF RInv

\* empdag_fini: the roots are inferred exactly, and the flag is set only when the
\* analysis has seen a DAG that is rooted.
LEMMA FiniStep ==
  ASSUME RInv, NEW complete \in BOOLEAN, NEW accepted \in BOOLEAN,
         empdag_fini(complete, accepted)
  PROVE  RInv'
<1>0. /\ UNCHANGED <<mps_len, nashs_len, mptype, arcs, mps2instantiate, superseded, multiVF,
                     hidable>>
      /\ rc' \in {OK, Error_EMPIncorrectInput, Error_EMPRuntimeError}
  BY DEF empdag_fini
<1>1. RTypeOK /\ TypeOK /\ ArcInv /\ mps_len \in Nat
  BY BoundsAssumption DEF RInv, RTypeOK, TypeOK
<1>2. MPs' = MPs /\ Nashs' = Nashs /\ NodeUids' = NodeUids
  BY <1>0 DEF NodeUids, MpUids, MPs, Nashs
<1>3. CASE UNCHANGED <<roots, hidden, uid_root, finalized, late>>
  <2>1. ArcInv'
    BY <1>0, <1>1, <1>3, ArcInvKept DEF TypeOK
  <2>2. RTypeOK'
    BY <1>0, <1>1, <1>2, <1>3, <2>1 DEF RTypeOK, ArcInv
  <2>3. RootsSorted'
    BY <1>3 DEF RInv, RootsSorted, OneKind, Elts, A!StrictlySorted
  <2>4. FinalizedRootsExact' /\ DagHolds'
    BY <1>0, <1>1, <1>3, FinalizedKept DEF TypeOK
  <2> QED BY <2>1, <2>2, <2>3, <2>4 DEF RInv
<1>4. CASE ~ UNCHANGED <<roots, hidden, uid_root, finalized, late>>
  <2> DEFINE rooted == mps_len = 0 \/ InferredRoots # <<>>
             passed == RootsAfter = <<>> \/ (LostNodes = {} /\ accepted)
  <2>0. /\ roots' = RootsAfter /\ hidden' = HiddenAfter /\ uid_root' = UidRootAfter
        /\ finalized' = (rooted /\ passed) /\ late' = {}
        /\ accepted => Acceptable
    BY <1>4 DEF empdag_fini
  <2>1. /\ RootsAfter \in Seq(NodeUids) /\ (OneKind(RootsAfter) => A!StrictlySorted(RootsAfter))
        /\ HiddenAfter \subseteq MPs /\ UidRootAfter \in NodeUids \cup {EMPDAG_UID_NONE}
    <3>1. /\ InferredRoots \in Seq(NodeUids)
          /\ OneKind(InferredRoots) => A!StrictlySorted(InferredRoots)
      BY <1>1, InferredRootsProperties
    <3>2. Len(InferredRoots) = 1 => InferredRoots[1] \in NodeUids
      BY <3>1
    <3>3. InferredHidden \subseteq MPs
      BY <1>1 DEF InferredHidden, Orphans, TypeOK
    <3> QED BY <1>1, <3>1, <3>2, <3>3
        DEF RInv, RootsSorted, RTypeOK, TypeOK, RootsAfter, HiddenAfter, UidRootAfter
  <2>2. ArcInv'
    <3>1. finalized' \in BOOLEAN
      BY <2>0
    <3> QED BY <3>1, <1>0, <1>1, <2>0, <2>1, ArcInvKept
  <2>3. RTypeOK'
    BY <1>0, <1>1, <1>2, <2>0, <2>1, <2>2 DEF RTypeOK, ArcInv
  <2>4. RootsSorted'
    BY <2>0, <2>1 DEF RootsSorted, OneKind, Elts, A!StrictlySorted
  <2>5. CASE mps_len = 0
    <3>1. MPs' = {}
      BY <2>5, <1>2 DEF MPs
    <3>2. FinalizedRootsExact' /\ DagHolds'
      BY <3>1 DEF FinalizedRootsExact, DagHolds
    <3> QED BY <2>2, <2>3, <2>4, <3>2 DEF RInv
  <2>6. CASE mps_len # 0
    <3>0. RootsAfter = InferredRoots /\ HiddenAfter = InferredHidden
      BY <2>6, <1>1 DEF RootsAfter, HiddenAfter
    <3> SUFFICES ASSUME finalized' PROVE FinalizedRootsExact' /\ DagHolds'
      <4>1. ~ finalized' => FinalizedRootsExact' /\ DagHolds'
        BY DEF FinalizedRootsExact, DagHolds
      <4> QED BY <4>1, <2>2, <2>3, <2>4 DEF RInv
    <3>1. InferredRoots # <<>> /\ accepted /\ Acceptable
      BY <2>0, <2>6, <3>0
    <3>2. MPs' \ late' = MPs /\ Nashs' = Nashs /\ MPs \subseteq Nat /\ Nashs \subseteq Nat
      BY <1>2, <2>0 DEF MPs, Nashs
    <3>3. Elts(roots') = {mpid2uid(m) : m \in Orphans \ hidable}
                         \cup {nashid2uid(n) : n \in {k \in Nashs : nash_rarcs[k] = {}}}
      BY <1>1, <2>0, <3>0, InferredRootsProperties DEF Elts
    <3>4. rarcs' = rarcs /\ nash_rarcs' = nash_rarcs
          /\ Carcs' = Carcs /\ Varcs' = Varcs /\ nash_arcs' = nash_arcs
          /\ mps_len' = mps_len /\ nashs_len' = nashs_len
      BY <1>0 DEF arcs
    <3>5. ASSUME NEW m \in MPs
          PROVE  mpid2uid(m) \in Elts(roots') <=> rarcs'[m] = {} /\ m \notin hidden'
      <4>1. mpid2uid(m) \in Elts(roots') <=> m \in Orphans \ hidable
        <5>1. \A k \in MPs : mpid2uid(k) = mpid2uid(m) => k = m
          BY <3>2, UidsDistinct
        <5>2. \A n \in Nashs : nashid2uid(n) # mpid2uid(m)
          BY <3>2, UidsDistinct
        <5> QED BY <5>1, <5>2, <3>3 DEF Orphans
      <4>2. m \in Orphans \ hidable <=> rarcs[m] = {} /\ m \notin InferredHidden
        BY DEF Orphans, InferredHidden
      <4> QED BY <4>1, <4>2, <3>4, <2>0, <3>0
    <3>6. ASSUME NEW n \in Nashs
          PROVE  nashid2uid(n) \in Elts(roots') <=> nash_rarcs'[n] = {}
      <4>1. \A k \in Nashs : nashid2uid(k) = nashid2uid(n) => k = n
        BY <3>2, UidsDistinct
      <4>2. \A k \in MPs : nashid2uid(n) # mpid2uid(k)
        BY <3>2, UidsDistinct
      <4> QED BY <4>1, <4>2, <3>3, <3>4 DEF Orphans
    <3>7. FinalizedRootsExact'
      BY <3>2, <3>5, <3>6 DEF FinalizedRootsExact
    <3>8. IsDag(mps_len, nashs_len, Carcs, Varcs, nash_arcs, HiddenUids(HiddenAfter),
                Elts(RootsAfter), HiddenAfter)
      BY <3>1, BelowOfState DEF Acceptable, NoCycleOutside, HiddenUids, IsDag
    <3>9. Elts(roots') = Elts(RootsAfter) /\ hidden' \cup late' = HiddenAfter
      BY <2>0 DEF Elts
    <3>10. IsDag(mps_len', nashs_len', Carcs', Varcs', nash_arcs', HiddenUids(hidden'),
                 Elts(roots'), hidden' \cup late')
      BY <2>0, <3>4, <3>8, <3>9
    <3>11. DagHolds'
      BY <3>10 DEF DagHolds, HiddenUids
    <3> QED BY <3>7, <3>11
  <2> QED BY <2>5, <2>6
<1> QED BY <1>3, <1>4

\* Every operation keeps the invariant.
LEMMA RInvStep ==
  ASSUME RInv, [RNext]_vars
  PROVE  RInv'
<1>1. CASE AddNode
  BY <1>1, AddMpStep, AddNashStep DEF AddNode
<1>2. CASE AddArc
  BY <1>2, AddArcStep
<1>3. ASSUME NEW m \in MPs, mp_hidable(m) PROVE RInv'
  BY <1>3, HidableStep
<1>4. ASSUME NEW u \in NodeUids, empdag_setroot(u) PROVE RInv'
  BY <1>4, SetRootStep
<1>5. CASE empdag_single_MP_to_Nash
  BY <1>5, SingleMPStep
<1>6. ASSUME NEW complete \in BOOLEAN, NEW accepted \in BOOLEAN,
             empdag_fini(complete, accepted)
      PROVE  RInv'
  BY <1>6, FiniStep
<1>7. CASE UNCHANGED vars
  <2>1. ArcInv'
    <3>1. [Next]_avars
      BY <1>7 DEF vars
    <3> QED BY <3>1, ArcInvStep DEF RInv
  <2>2. MPs' = MPs /\ NodeUids' = NodeUids
    BY <1>7 DEF vars, avars, NodeUids, MpUids, MPs, Nashs
  <2>3. RTypeOK'
    BY <1>7, <2>1, <2>2 DEF RInv, RTypeOK, ArcInv, vars, rootvars
  <2>4. RootsSorted'
    BY <1>7 DEF RInv, RootsSorted, OneKind, Elts, A!StrictlySorted, vars, rootvars
  <2>5. FinalizedRootsExact' /\ DagHolds'
    BY <1>7, FinalizedKept DEF RInv, RTypeOK, TypeOK, vars, avars, rootvars, arcs
  <2> QED BY <2>1, <2>3, <2>4, <2>5 DEF RInv
<1> QED BY <1>1, <1>2, <1>3, <1>4, <1>5, <1>6, <1>7 DEF RNext

\* The inductive invariant holds in every behaviour, the agreement of the arcs included.
THEOREM RInvCorrect == RSpec => []RInv
  BY RInvInit, RInvStep, PTL DEF RSpec

\* In every behaviour the roots are nodes in use, as is the chosen root (empdag_setroot,
\* empdag_infer_roots).
THEOREM RTypeCorrect == RSpec => []RTypeOK
<1>1. RInv => RTypeOK
  BY DEF RInv
<1> QED BY <1>1, RInvCorrect, PTL

\* The flag finalized vouches for exact roots and for a rooted DAG: every operation
\* that disturbs one of the two takes the flag back, or, for a new MP, leaves it apart.
THEOREM FinalizedExactCorrect == RSpec => []FinalizedExact
<1>1. RInv => FinalizedExact
  BY DagOfState DEF RInv, FinalizedExact
<1> QED BY <1>1, RInvCorrect, PTL

\* As long as all roots are MPs, or all are Nash nodes, the binary search of empdag_check
\* finds each of them.
THEOREM RootsOfOneKindFoundCorrect == RSpec => []RootsOfOneKindFound
<1>1. ASSUME RInv PROVE RootsOfOneKindFound
  <2> SUFFICES ASSUME OneKind(roots), NEW u \in Elts(roots)
               PROVE  A!rhp_uint_findsorted(roots, u) # A!NotFound
    BY DEF RootsOfOneKindFound, OneKind
  <2>1. /\ NodeUids \in SUBSET Int /\ roots \in Seq(NodeUids) /\ AP!StrictlySorted(roots)
    BY <1>1, NodeUidsAreInts, SameArrays DEF RInv, RTypeOK, RootsSorted
  <2>2. \A i \in 1..Len(roots) : roots[i] \in Int
    <3>1. \A i \in 1..Len(roots) : roots[i] \in NodeUids
      BY <2>1
    <3> QED BY <3>1, <2>1
  <2>3. u \in Int /\ u \in AP!Elts(roots)
    BY <2>2, SameArrays DEF Elts
  <2>4. AP!rhp_uint_findsorted(roots, u) # AP!NotFound
    BY <2>1, <2>3, AP!FindSortedFinds
  <2> QED BY <2>4, SameArrays
<1> QED BY <1>1, RInvCorrect, PTL
==============================================================================
