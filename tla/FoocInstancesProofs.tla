------------------------- MODULE FoocInstancesProofs -------------------------
(***************************************************************************)
(* Proofs about sorted arrays in the hands of their callers. Any sequence  *)
(* of calls on one array (SortedArray) implements a set. That the arrays   *)
(* of the EMPDAG are sets is what the replacement of the CCFLIB MPs of a   *)
(* Nash node (FoocInstances) rests on: for any number of MPs and any queue *)
(* of instances, the array of children stays right while the loop over it  *)
(* changes it, and with one CCFLIB child the analysis leaves none.         *)
(***************************************************************************)
EXTENDS FoocInstances, SortedArray, UIntArrayProofs, FiniteSetTheorems

-----------------------------------------------------------------------------
(***************************************************************************)
(* An array implements a set, for any values and any sequence of calls:    *)
(* SortedAlways is inductive as it stands, and every call maps to an       *)
(* operation of UIntSet. That rhp_uint_rm does so needs its caller to have *)
(* the value in the array (RmPresent).                                     *)
(***************************************************************************)

\* Each call keeps the array sorted, and is the operation of the set that it was made for.
LEMMA EveryCallIsASetOperation ==
  ASSUME SortedAlways, NEW v \in Vals
  PROVE  /\ AddSorted(v) => SortedAlways' /\ Set!Add(v)
         /\ AddUniqSorted(v) => SortedAlways' /\ Set!Add(v)
         /\ AddUniqNoFail(v) => SortedAlways' /\ Set!AddNoFail(v)
         /\ RmSorted(v) => SortedAlways' /\ Set!Remove(v)
         /\ Rm(v) => SortedAlways' /\ (RmPresent => Set!Remove(v))
         /\ FindSorted(v) => SortedAlways' /\ Set!Find(v)
<1> DEFINE found == rhp_uint_findsorted(arr, v)
           added == rhp_uint_addsorted(arr, v)
           Here == v \in Elts(arr)
<1> USE DEF SortedAlways, STypeOK
<1>1. /\ Vals \in SUBSET Int /\ arr \in Seq(Vals) /\ v \in Int
      /\ StrictlySorted(arr)
  BY ValsAssumption
<1>2. IF Here THEN found # NotFound /\ found \in 0..(Len(arr) - 1) /\ arr[found + 1] = v
      ELSE found = NotFound
  BY <1>1, FindSortedFinds
<1>3. IF Here THEN added = [rc |-> Error_DuplicateValue, arr |-> arr]
      ELSE /\ added.rc = OK /\ added.arr \in Seq(Vals) /\ StrictlySorted(added.arr)
           /\ Elts(added.arr) = Elts(arr) \cup {v}
  BY <1>1, AddSortedProperties
<1>4. Here => Len(arr) > 0
  BY <1>1 DEF Elts
<1> HIDE DEF found, added
<1>5. ASSUME Apply(added)
      PROVE  /\ SortedAlways' /\ Elts(arr)' = Elts(arr) \cup {v}
             /\ rc' = IF Here THEN Error_DuplicateValue ELSE OK
  <2>1. CASE Here
    <3>1. arr' = arr /\ rc' = Error_DuplicateValue
      BY <1>3, <1>5, <2>1 DEF Apply
    <3> QED BY <2>1, <3>1, <1>1
  <2>2. CASE ~ Here
    <3>1. arr' = added.arr /\ rc' = OK
      BY <1>3, <1>5, <2>2 DEF Apply
    <3> QED BY <1>3, <2>2, <3>1
  <2> QED BY <2>1, <2>2
<1>6. ASSUME AddSorted(v) PROVE SortedAlways' /\ Set!Add(v)
  BY <1>5, <1>6 DEF AddSorted, added, Set!Add, OK, Error_DuplicateValue
<1>7. ASSUME AddUniqSorted(v) PROVE SortedAlways' /\ Set!Add(v)
  <2>1. CASE Here
    <3>1. arr' = arr /\ rc' = Error_DuplicateValue /\ call' = <<"add", v>>
      BY <1>2, <1>4, <1>7, <2>1 DEF AddUniqSorted, Apply, rhp_uint_adduniqsorted, found
    <3> QED BY <2>1, <3>1, <1>1 DEF Set!Add, Error_DuplicateValue
  <2>2. CASE ~ Here
    <3>1. Apply(added) /\ call' = <<"add", v>>
      BY <1>2, <1>7, <2>2 DEF AddUniqSorted, rhp_uint_adduniqsorted, found, added
    <3> QED BY <1>5, <2>2, <3>1 DEF Set!Add, OK
  <2> QED BY <2>1, <2>2
<1>8. ASSUME AddUniqNoFail(v) PROVE SortedAlways' /\ Set!AddNoFail(v)
  <2>1. CASE Here
    <3>1. arr' = arr /\ rc' = OK /\ call' = <<"add_nofail", v>>
      BY <1>2, <1>4, <1>8, <2>1 DEF AddUniqNoFail, Apply, rhp_uint_adduniqnofail, found
    <3> QED BY <2>1, <3>1, <1>1 DEF Set!AddNoFail, OK
  <2>2. CASE ~ Here
    <3>1. Apply(added) /\ call' = <<"add_nofail", v>>
      BY <1>2, <1>8, <2>2 DEF AddUniqNoFail, rhp_uint_adduniqnofail, found, added
    <3> QED BY <1>5, <2>2, <3>1 DEF Set!AddNoFail, OK
  <2> QED BY <2>1, <2>2
<1>9. ASSUME RmSorted(v) PROVE SortedAlways' /\ Set!Remove(v)
  <2>1. CASE Here
    <3>1. arr' = RemoveAt0(arr, found) /\ rc' = OK /\ call' = <<"remove", v>>
      BY <1>2, <1>9, <2>1 DEF RmSorted, Apply, rhp_uint_rmsorted, found
    <3>2. arr' \in Seq(Vals) /\ StrictlySorted(arr') /\ Elts(arr)' = Elts(arr) \ {v}
      BY <1>1, <1>2, <2>1, <3>1, RemoveAt0Properties
    <3> QED BY <2>1, <3>1, <3>2 DEF Set!Remove, OK
  <2>2. CASE ~ Here
    <3>1. arr' = arr /\ rc' = Error_NotFound /\ call' = <<"remove", v>>
      BY <1>2, <1>9, <2>2 DEF RmSorted, Apply, rhp_uint_rmsorted, found
    <3> QED BY <2>2, <3>1, <1>1 DEF Set!Remove, Error_NotFound
  <2> QED BY <2>1, <2>2
<1>10. ASSUME Rm(v) PROVE SortedAlways' /\ (RmPresent => Set!Remove(v))
  <2>1. /\ arr # <<>> /\ arr' = rhp_uint_rm(arr, v).arr /\ rc' = rhp_uint_rm(arr, v).rc
        /\ call' = <<"remove", v>> /\ (RmPresent => Here)
    BY <1>10 DEF Rm, Apply
  <2>2. SortedAlways'
    BY <1>1, <2>1, RmKeepsSorted
  <2>3. ASSUME Here PROVE Set!Remove(v)
    <3>1. rc' = OK /\ Elts(arr)' = Elts(arr) \ {v}
      BY <1>1, <2>1, <2>3, RmPresentRemoves
    <3> QED BY <2>1, <2>3, <3>1 DEF Set!Remove, OK
  <2> QED BY <2>1, <2>2, <2>3
<1>11. ASSUME FindSorted(v) PROVE SortedAlways' /\ Set!Find(v)
  <2>1. arr' = arr /\ rc' = (IF Here THEN OK ELSE Error_NotFound) /\ call' = <<"find", v>>
    BY <1>2, <1>11 DEF FindSorted, found
  <2> QED BY <2>1, <1>1 DEF Set!Find, OK, Error_NotFound
<1> QED BY <1>6, <1>7, <1>8, <1>9, <1>10, <1>11

\* The step refinement.
LEMMA StepIsASetStep ==
  ASSUME SortedAlways, [SNext]_svars
  PROVE  SortedAlways' /\ (RmPresent => [Set!Next]_<<Elts(arr), call, rc>>)
<1>1. CASE SNext
  <2>1. PICK v \in Vals : \/ AddSorted(v) \/ AddUniqSorted(v) \/ AddUniqNoFail(v)
                          \/ RmSorted(v) \/ Rm(v) \/ FindSorted(v)
    BY <1>1 DEF SNext
  <2>2. /\ SortedAlways'
        /\ RmPresent => Set!Add(v) \/ Set!AddNoFail(v) \/ Set!Remove(v) \/ Set!Find(v)
    BY <2>1, EveryCallIsASetOperation
  <2> QED BY <2>2 DEF Set!Next
<1>2. CASE UNCHANGED svars
  BY <1>2 DEF svars, SortedAlways, STypeOK
<1> QED BY <1>1, <1>2

\* The initial states are sorted and are initial states of the set.
LEMMA EmptyArray == SInit => SortedAlways /\ Set!Init
BY DEF SInit, SortedAlways, STypeOK, StrictlySorted, Elts, Set!Init, OK

\* Whatever is called, also rhp_uint_rm for a value that is not there, the array stays
\* sorted without duplicates: the assert(chk_sorted_uintarray()) of every operation,
\* on which the binary searches depend, holds.
THEOREM SortedAlwaysCorrect == SSpec => []SortedAlways
<1>1. SInit => SortedAlways
  BY EmptyArray
<1>2. SortedAlways /\ [SNext]_svars => SortedAlways'
  BY StepIsASetStep
<1> QED BY <1>1, <1>2, PTL DEF SSpec

\* The array implements a set of numbers, call by call: each call adds, removes or finds
\* the value it was given and no other, and returns whether that value was there;
\* rhp_uint_rm when it was there.
THEOREM ArrayImplementsSet == ASSUME RmPresent PROVE SSpec => ImplementsSet
<1>1. SInit => Set!Init
  BY EmptyArray
<1>2. SortedAlways /\ [SNext]_svars => [Set!Next]_<<Elts(arr), call, rc>>
  BY StepIsASetStep
<1> QED BY <1>1, <1>2, SortedAlwaysCorrect, PTL DEF SSpec, ImplementsSet, Set!Spec

-----------------------------------------------------------------------------
(***************************************************************************)
(* The inductive invariant.                                                *)
(***************************************************************************)

Uids == {mpid2uid(m) : m \in Created}
AtMostOne == \A x, y \in Created : mptype[x] = "ccflib" /\ mptype[y] = "ccflib" => x = y

\* The MPs that were created, their instances and the queue of those that get one.
MpsInv ==
    /\ Created = 0..(Cardinality(Created) - 1)
    /\ Cardinality(Created) \in Nat /\ Cardinality(Created) >= NumMps
    /\ mptype \in [Created -> {"opt", "ccflib"}]
    /\ \A m \in Created : mptype[m] = "ccflib" => m < NumMps
    /\ instance \in [Created -> Created \cup {NA}]
    /\ \A m \in Created : instance[m] # NA => m < NumMps /\ instance[m] >= NumMps
    /\ \A x, y \in Created : instance[x] = instance[y] /\ instance[x] # NA => x = y
    /\ mps2instantiate \in Seq(0..(NumMps - 1))
    /\ kids \in SUBSET (0..(NumMps - 1))

\* MP m has an instance whose uid is in the array.
InstanceIn(m) == instance[m] # NA /\ mpid2uid(instance[m]) \in Elts(children)

\* The array of children: an original child is in it or its instance is, an MP and its
\* instance are never both in it, and nothing else is.
ChildrenInv ==
    /\ children \in Seq(Uids) /\ StrictlySorted(children)
    /\ \A m \in kids : \/ mpid2uid(m) \in Elts(children)
                       \/ mptype[m] = "ccflib" /\ InstanceIn(m)
    /\ \A m \in Created :
         mpid2uid(m) \in Elts(children) => m \in kids \/ \E k \in kids : instance[k] = m
    /\ \A m \in Created : /\ instance[m] # NA
                          /\ mpid2uid(m) \in Elts(children)
                          => mpid2uid(instance[m]) \notin Elts(children)

\* The loop over the array: its length does not change, and a single CCFLIB child is
\* ahead of the index or gone.
LoopInv ==
    /\ phase \in {"instantiate", "analyze", "collect", "done"}
    /\ i \in Nat /\ nb_mp \in Nat
    /\ phase = "analyze" => nb_mp = Len(children)
    /\ phase \in {"instantiate", "collect"} => status = OK
    /\ phase = "analyze" => status \in {OK, Error_OperationNotAllowed}
    /\ AtMostOne =>
         \A p \in 1..Len(children) : mptype[uid2id(children[p])] = "ccflib" =>
            /\ phase = "analyze" => p > i
            /\ phase \notin {"collect"}
            /\ phase = "done" => status \notin {OK, Error_NotImplemented}

FInv == MpsInv /\ ChildrenInv /\ LoopInv

-----------------------------------------------------------------------------
(***************************************************************************)
(* The sorted enumeration of a set of naturals, and the identifiers.       *)
(***************************************************************************)

\* SortedSeq of a bounded set of naturals is a strictly sorted array of its elements.
LEMMA SortedSeqSorted ==
  ASSUME NEW n \in Nat, NEW S \in SUBSET (0..(n - 1))
  PROVE  /\ SortedSeq(S) \in Seq(S) /\ StrictlySorted(SortedSeq(S))
         /\ Elts(SortedSeq(S)) = S
<1>1. IsFiniteSet(S) /\ \E s : Enumerates(s, S)
  BY EnumerationExists
<1>2. \E s \in [1..Cardinality(S) -> S] : \A a, b \in 1..Cardinality(S) : a < b => s[a] < s[b]
  BY <1>1 DEF Enumerates
<1> DEFINE srt == SortedSeq(S)
           c == Cardinality(S)
<1>3. srt \in [1..c -> S] /\ \A a, b \in 1..c : a < b => srt[a] < srt[b]
  BY <1>2 DEF SortedSeq
<1>4. c \in Nat
  BY <1>1, FS_CardinalityType
<1> HIDE DEF srt, c
<1>5. srt \in Seq(S) /\ Len(srt) = c
  BY <1>3, <1>4
<1>6. StrictlySorted(srt)
  BY <1>3, <1>5 DEF StrictlySorted
<1>7. srt \in Surjection(1..c, S)
  <2>1. \A a, b \in 1..c : srt[a] = srt[b] => a = b
    <3>1. \A a \in 1..c : srt[a] \in Nat
      <4>1. \A x \in S : x \in Nat
        OBVIOUS
      <4> QED
        BY <1>3, <4>1
    <3>2. \A a, b \in 1..c : a < b \/ b < a \/ a = b
      BY <1>4
    <3> QED
      BY <1>3, <3>1, <3>2
  <2>2. srt \in Injection(1..c, S)
    BY <1>3, <2>1 DEF Injection, IsInjective
  <2>3. Cardinality(1..c) = Cardinality(S)
    BY <1>4, FS_Interval DEF c
  <2> QED
    BY <1>1, <2>2, <2>3, FS_Injection
<1>8. Elts(srt) = S
  <2>1. \A x \in S : \E a \in 1..c : srt[a] = x
    BY <1>7 DEF Surjection
  <2> QED
    BY <1>3, <1>5, <2>1 DEF Elts
<1> QED
  BY <1>5, <1>6, <1>8 DEF srt

\* The uid of an MP gives back its id.
LEMMA UidOfMp ==
  ASSUME NEW m \in Int
  PROVE  mpid2uid(m) \in Int /\ uid2id(mpid2uid(m)) = m
BY DEF mpid2uid, uid2id

\* Two MPs have the same uid only if they are the same.
LEMMA UidInjective ==
  ASSUME NEW m \in Int, NEW k \in Int, mpid2uid(m) = mpid2uid(k)
  PROVE  m = k
BY DEF mpid2uid

\* A set with at most one element by its cardinality has at most one element.
LEMMA AtMostOneElement ==
  ASSUME NEW S, IsFiniteSet(S), Cardinality(S) <= 1, NEW x \in S, NEW y \in S
  PROVE  x = y
<1>1. Cardinality(S) \in Nat
  BY FS_CardinalityType
<1>2. Cardinality(S) # 0
  BY FS_EmptySet
<1>3. Cardinality(S) = 1
  BY <1>1, <1>2
<1>4. \E z : S = {z}
  BY <1>3, FS_Singleton
<1> QED
  BY <1>4

-----------------------------------------------------------------------------
(***************************************************************************)
(* The array of children.                                                  *)
(***************************************************************************)

\* Both binary searches of the substitution find their place: the uid of the MP is
\* replaced by the one of its instance, and the array stays sorted and as long.
LEMMA SubstituteProperties ==
  ASSUME NEW V \in SUBSET Int, NEW srt \in Seq(V), StrictlySorted(srt),
         NEW old \in Int, mpid2uid(old) \in Elts(srt),
         NEW new \in Int, mpid2uid(new) \in V, mpid2uid(new) \notin Elts(srt)
  PROVE  /\ substitute(srt, old, new) \in Seq(V)
         /\ StrictlySorted(substitute(srt, old, new))
         /\ Elts(substitute(srt, old, new)) = (Elts(srt) \ {mpid2uid(old)}) \cup {mpid2uid(new)}
         /\ Len(substitute(srt, old, new)) = Len(srt)
<1> DEFINE u == mpid2uid(old)
           v == mpid2uid(new)
           rm == rhp_uint_rmsorted(srt, u).arr
           pos == rhp_uint_findsorted(srt, u)
           add == rhp_uint_adduniqsorted(rm, v).arr
<1>1. u \in Int /\ v \in Int
  BY UidOfMp
<1>2. u \in Elts(srt) /\ v \in V /\ v \notin Elts(srt)
  OBVIOUS
<1>3. substitute(srt, old, new) = add
  BY DEF substitute
<1> HIDE DEF u, v
<1>4. pos # NotFound /\ pos \in 0..(Len(srt) - 1) /\ srt[pos + 1] = u
  BY <1>1, <1>2, FindSortedFinds
<1>5. rm = RemoveAt0(srt, pos)
  BY <1>4 DEF rhp_uint_rmsorted
<1> HIDE DEF pos
<1>6. rm \in Seq(V) /\ StrictlySorted(rm) /\ Elts(rm) = Elts(srt) \ {u}
  BY <1>4, <1>5, RemoveAt0Properties
<1>7. Len(rm) = Len(srt) - 1
  BY <1>4, <1>5 DEF RemoveAt0
<1> HIDE DEF rm
<1>8. v \notin Elts(rm)
  BY <1>2, <1>6
<1>9. rhp_uint_findsorted(rm, v) = NotFound
  BY <1>1, <1>6, <1>8, FindSortedFinds
<1>10. add = rhp_uint_addsorted(rm, v).arr
  BY <1>9 DEF rhp_uint_adduniqsorted
<1>11. add \in Seq(V) /\ StrictlySorted(add) /\ Elts(add) = Elts(rm) \cup {v}
  BY <1>2, <1>6, <1>8, <1>10, AddSortedProperties
<1>12. rhp_uint_addsorted(rm, v).rc = OK
  BY <1>2, <1>6, <1>8, AddSortedProperties
<1>13. Len(add) = Len(rm) + 1
  <2>1. Len(rm) \in Nat
    BY <1>6
  <2>2. \E q : rhp_uint_addsorted(rm, v) = [rc |-> OK, arr |-> InsertedAt(rm, q, v)]
    BY <1>12 DEF rhp_uint_addsorted, OK, Error_DuplicateValue
  <2>3. PICK q : add = InsertedAt(rm, q, v)
    BY <1>10, <2>2
  <2> QED
    BY <2>1, <2>3 DEF InsertedAt
<1> HIDE DEF add
<1>14. Len(srt) \in Nat
  OBVIOUS
<1>15. Len(add) = Len(srt)
  BY <1>7, <1>13, <1>14
<1> QED
  BY <1>3, <1>6, <1>11, <1>15 DEF u, v

\* The uids of the MPs are numbers.
LEMMA CreatedAreNumbers ==
  ASSUME MpsInv
  PROVE  /\ Created \in SUBSET Nat /\ Uids \in SUBSET Int
         /\ \A m \in Created : mpid2uid(m) \in Uids
<1>1. Created \in SUBSET Nat
  BY DEF MpsInv
<1>2. \A m \in Created : mpid2uid(m) \in Int
  BY <1>1, UidOfMp
<1> QED
  BY <1>1, <1>2 DEF Uids

\* A child is an MP that was created, and its place in the array is its uid's.
LEMMA ChildAt ==
  ASSUME MpsInv, ChildrenInv, NEW p \in 1..Len(children)
  PROVE  /\ uid2id(children[p]) \in Created
         /\ children[p] = mpid2uid(uid2id(children[p]))
         /\ children[p] \in Elts(children)
<1>1. children[p] \in Uids
  BY DEF ChildrenInv
<1>2. PICK m \in Created : children[p] = mpid2uid(m)
  BY <1>1 DEF Uids
<1>3. m \in Int
  BY CreatedAreNumbers
<1>4. uid2id(children[p]) = m
  BY <1>2, <1>3, UidOfMp
<1> QED
  BY <1>2, <1>4 DEF Elts

\* An MP is a child when its uid is in the array.
LEMMA ChildIdsUids ==
  ASSUME MpsInv, ChildrenInv, NEW m \in ChildIds(children)
  PROVE  m \in Created /\ mpid2uid(m) \in Elts(children)
<1>1. PICK p \in 1..Len(children) : m = uid2id(children[p])
  BY DEF ChildIds, Elts
<1> QED
  BY <1>1, ChildAt

-----------------------------------------------------------------------------
(***************************************************************************)
(* The initial states, and one lemma per action.                           *)
(***************************************************************************)

\* A Nash node with any children, CCFLIB MPs among them and queue satisfies the invariant.
LEMMA InitFInv == Init => FInv
<1> SUFFICES ASSUME Init PROVE FInv
  OBVIOUS
<1> DEFINE Mps == 0..(NumMps - 1)
<1>1. NumMps \in Nat \ {0}
  BY FoocAssumption
<1>2. PICK ccflibs \in SUBSET Mps :
        /\ kids \in SUBSET Mps
        /\ mptype = [m \in Mps |-> IF m \in ccflibs THEN "ccflib" ELSE "opt"]
        /\ children = SortedSeq({mpid2uid(m) : m \in kids})
        /\ \E n \in Cardinality(ccflibs)..(Cardinality(ccflibs) + MaxRepeat) :
             mps2instantiate \in [1..n -> ccflibs]
        /\ instance = [m \in Mps |-> NA]
        /\ phase = "instantiate" /\ i = 0 /\ nb_mp = 0 /\ status = OK
  BY DEF Init
<1>3. Created = Mps /\ Cardinality(Created) = NumMps
  <2>1. Created = Mps
    BY <1>2 DEF Created
  <2>2. Cardinality(0..(NumMps - 1)) = NumMps
    BY <1>1, FS_Interval
  <2> QED
    BY <2>1, <2>2
<1>4. mps2instantiate \in Seq(Mps)
  <2>1. IsFiniteSet(ccflibs) /\ Cardinality(ccflibs) \in Nat
    BY <1>1, EnumerationExists, FS_CardinalityType
  <2>2. PICK n \in Cardinality(ccflibs)..(Cardinality(ccflibs) + MaxRepeat) :
          mps2instantiate \in [1..n -> ccflibs]
    BY <1>2
  <2>3. n \in Nat
    BY <2>1, FoocAssumption
  <2>4. mps2instantiate \in [1..n -> Mps]
    BY <2>2
  <2> HIDE DEF Mps
  <2> QED
    BY <2>3, <2>4
<1>5. MpsInv
  BY <1>1, <1>2, <1>3, <1>4 DEF MpsInv
<1>6. /\ children \in Seq(Uids) /\ StrictlySorted(children)
      /\ Elts(children) = {mpid2uid(m) : m \in kids}
  <2> DEFINE U == {mpid2uid(m) : m \in kids}
  <2>1. U \in SUBSET (0..(4 * NumMps - 1))
    BY <1>1, <1>2 DEF mpid2uid
  <2>2. 4 * NumMps \in Nat
    BY <1>1
  <2>3. U \subseteq Uids
    BY <1>2, <1>3 DEF Uids
  <2>4. children = SortedSeq(U)
    BY <1>2
  <2> HIDE DEF U
  <2>5. SortedSeq(U) \in Seq(U) /\ StrictlySorted(SortedSeq(U)) /\ Elts(SortedSeq(U)) = U
    BY <2>1, <2>2, SortedSeqSorted
  <2>6. SortedSeq(U) \in Seq(Uids)
    BY <2>3, <2>5
  <2> QED
    BY <2>4, <2>5, <2>6 DEF U
<1>7. ChildrenInv
  <2>1. \A m \in kids : mpid2uid(m) \in Elts(children)
    BY <1>6
  <2>2. ASSUME NEW m \in Created, mpid2uid(m) \in Elts(children) PROVE m \in kids
    <3>1. PICK k \in kids : mpid2uid(m) = mpid2uid(k)
      BY <1>6, <2>2
    <3>2. m \in Int /\ k \in Int
      BY <1>1, <1>2, <1>3
    <3> QED
      BY <3>1, <3>2, UidInjective
  <2> QED
    BY <1>2, <1>3, <1>6, <2>1, <2>2 DEF ChildrenInv
<1>8. LoopInv
  BY <1>1, <1>2 DEF LoopInv
<1> QED
  BY <1>5, <1>7, <1>8 DEF FInv

\* A new instance is of a new MP, which is nobody's child.
LEMMA mp_instantiateFInv == FInv /\ mp_instantiate => FInv'
<1> SUFFICES ASSUME FInv, mp_instantiate PROVE FInv'
  OBVIOUS
<1> DEFINE id == Cardinality(Created)
           m == mps2instantiate[i + 1]
<1>1. MpsInv /\ ChildrenInv /\ LoopInv
  BY DEF FInv
<1>2. phase = "instantiate" /\ i < Len(mps2instantiate) /\ i \in Nat /\ status = OK
  BY <1>1 DEF mp_instantiate, LoopInv
<1>3. UNCHANGED <<kids, children, mps2instantiate, nb_mp>>
  BY DEF mp_instantiate
<1>4. m \in 0..(NumMps - 1)
  <2> DEFINE Mps == 0..(NumMps - 1)
  <2>1. mps2instantiate \in Seq(Mps)
    BY <1>1 DEF MpsInv
  <2> HIDE DEF Mps
  <2>2. Len(mps2instantiate) \in Nat
        /\ \A k \in 1..Len(mps2instantiate) : mps2instantiate[k] \in Mps
    BY <2>1
  <2>3. i + 1 \in 1..Len(mps2instantiate)
    BY <1>2, <2>2
  <2>4. m \in Mps
    BY <2>2, <2>3
  <2> QED
    BY <2>4 DEF Mps
<1>5. CASE instance[m] # NA
  <2>1. phase' = "done" /\ status' = Error_RuntimeError /\ UNCHANGED <<mptype, instance, i>>
    BY <1>5 DEF mp_instantiate, Stop
  <2>2. MpsInv' /\ ChildrenInv'
    BY <1>1, <1>3, <2>1 DEF MpsInv, ChildrenInv, InstanceIn, Created, Uids
  <2>3. LoopInv'
    BY <1>1, <1>3, <2>1 DEF LoopInv, OK, Error_RuntimeError, Error_NotImplemented
  <2> QED
    BY <2>2, <2>3 DEF FInv
<1>6. CASE instance[m] = NA
  <2>1. /\ mptype' = [x \in 0..id |-> IF x = id THEN "opt" ELSE mptype[x]]
        /\ instance' = [x \in 0..id |-> IF x = m THEN id
                                        ELSE IF x = id THEN NA ELSE instance[x]]
        /\ i' = i + 1 /\ UNCHANGED <<phase, status>>
    BY <1>6 DEF mp_instantiate
  <2>2. Created = 0..(id - 1) /\ id \in Nat /\ id >= NumMps /\ NumMps \in Nat \ {0}
    BY <1>1, FoocAssumption DEF MpsInv
  <2>3. Created' = 0..id /\ Cardinality(Created') = id + 1
    <3>1. Created' = 0..id
      BY <2>1 DEF Created
    <3>2. Cardinality(0..id) = id + 1
      BY <2>2, FS_Interval
    <3> QED
      BY <3>1, <3>2
  <2> HIDE DEF id, m
  <2>4. \A x \in Created : /\ x \in 0..id /\ x # id /\ mptype'[x] = mptype[x]
                           /\ x # m => instance'[x] = instance[x]
    BY <2>1, <2>2
  <2>5. /\ mptype'[id] = "opt" /\ instance'[id] = NA /\ instance'[m] = id /\ m \in Created
        /\ m < NumMps /\ id \notin Created /\ Created' = Created \cup {id}
    BY <1>4, <2>1, <2>2, <2>3
  <2>6. instance \in [Created -> Created \cup {NA}]
    BY <1>1 DEF MpsInv
  <2>7. MpsInv'
    <3>1. mptype' \in [Created' -> {"opt", "ccflib"}]
      BY <1>1, <2>1, <2>3, <2>4, <2>5 DEF MpsInv
    <3>2. (\A x \in Created : mptype[x] = "ccflib" => x < NumMps)'
      BY <1>1, <2>4, <2>5 DEF MpsInv
    <3>3. instance' \in [Created' -> Created' \cup {NA}]
      BY <2>1, <2>3, <2>4, <2>5, <2>6
    <3>4. (\A x \in Created : instance[x] # NA => x < NumMps /\ instance[x] >= NumMps)'
      BY <1>1, <2>2, <2>4, <2>5 DEF MpsInv
    <3>5. (\A x, y \in Created : instance[x] = instance[y] /\ instance[x] # NA => x = y)'
      <4>1. \A x \in Created : instance[x] # id
        BY <2>2, <2>6 DEF NA
      <4> QED
        BY <1>1, <2>4, <2>5, <4>1 DEF MpsInv
    <3>6. (mps2instantiate \in Seq(0..(NumMps - 1)) /\ kids \in SUBSET (0..(NumMps - 1)))'
      BY <1>1, <1>3 DEF MpsInv
    <3>7. (/\ Created = 0..(Cardinality(Created) - 1)
           /\ Cardinality(Created) \in Nat /\ Cardinality(Created) >= NumMps)'
      BY <2>2, <2>3
    <3> QED
      BY <3>1, <3>2, <3>3, <3>4, <3>5, <3>6, <3>7 DEF MpsInv
  <2>8. ChildrenInv'
    <3>1. Uids \subseteq Uids'
      BY <2>5 DEF Uids
    <3>2. children' \in Seq(Uids') /\ StrictlySorted(children')
      BY <1>1, <1>3, <3>1 DEF ChildrenInv
    <3>3. \A x \in Created : mpid2uid(x) # mpid2uid(id)
      BY <2>2, <2>4, UidInjective
    <3>4. mpid2uid(id) \notin Elts(children)
      <4>1. \A p \in 1..Len(children) : children[p] \in Uids
        BY <1>1 DEF ChildrenInv
      <4> QED
        BY <3>3, <4>1 DEF Elts, Uids
    <3>5. \A x \in Created' : instance'[x] # NA /\ mpid2uid(x) \in Elts(children)
                              => mpid2uid(instance'[x]) \notin Elts(children)
      BY <1>1, <2>4, <2>5, <3>4 DEF ChildrenInv
    <3>6. kids \subseteq Created
      BY <1>1, <2>2 DEF MpsInv
    <3>7. \A x \in kids : \/ mpid2uid(x) \in Elts(children)
                          \/ /\ mptype'[x] = "ccflib" /\ instance'[x] # NA
                             /\ mpid2uid(instance'[x]) \in Elts(children)
      <4>1. \A x \in kids : \/ mpid2uid(x) \in Elts(children)
                            \/ /\ mptype[x] = "ccflib" /\ instance[x] # NA
                               /\ mpid2uid(instance[x]) \in Elts(children)
        BY <1>1 DEF ChildrenInv, InstanceIn
      <4>2. instance[m] = NA
        BY <1>6 DEF m
      <4> QED
        BY <2>4, <3>6, <4>1, <4>2
    <3>8. ASSUME NEW x \in Created', mpid2uid(x) \in Elts(children)
          PROVE  x \in kids \/ \E k \in kids : instance'[k] = x
      <4>1. x \in Created
        BY <2>5, <3>4, <3>8
      <4>2. x \in kids \/ \E k \in kids : instance[k] = x
        BY <1>1, <3>8, <4>1 DEF ChildrenInv
      <4>3. x # NA /\ instance[m] = NA
        BY <1>6, <2>2, <4>1 DEF NA, m
      <4> QED
        BY <2>4, <3>6, <4>2, <4>3
    <3> QED
      BY <1>3, <3>2, <3>5, <3>7, <3>8 DEF ChildrenInv, InstanceIn
  <2>9. LoopInv'
    <3>1. AtMostOne' => AtMostOne
      BY <2>4, <2>5 DEF AtMostOne
    <3>2. \A p \in 1..Len(children) : mptype'[uid2id(children[p])] = mptype[uid2id(children[p])]
      BY <1>1, <2>4, ChildAt
    <3> QED
      BY <1>1, <1>2, <1>3, <2>1, <3>1, <3>2 DEF LoopInv
  <2> QED
    BY <2>7, <2>8, <2>9 DEF FInv
<1> QED
  BY <1>5, <1>6

\* The loop starts at the first child, and no child is behind it.
LEMMA analyze_startFInv == FInv /\ analyze_start => FInv'
<1> SUFFICES ASSUME FInv, analyze_start PROVE FInv'
  OBVIOUS
<1>1. MpsInv /\ ChildrenInv /\ LoopInv
  BY DEF FInv
<1>2. /\ phase = "instantiate" /\ phase' = "analyze" /\ i' = 0 /\ nb_mp' = Len(children)
      /\ UNCHANGED <<kids, mptype, children, mps2instantiate, instance, status>>
  BY DEF analyze_start
<1>3. MpsInv' /\ ChildrenInv'
  BY <1>1, <1>2 DEF MpsInv, ChildrenInv, InstanceIn, Created, Uids
<1>4. Len(children) \in Nat
  BY <1>1 DEF ChildrenInv
<1>5. LoopInv'
  BY <1>1, <1>2, <1>4 DEF LoopInv, OK
<1> QED
  BY <1>3, <1>5 DEF FInv

\* The CCFLIB MP under the index is replaced by its instance, which was no child yet;
\* the array keeps its length, so the loop ends where it should.
LEMMA analyze_childFInv == FInv /\ analyze_child => FInv'
<1> SUFFICES ASSUME FInv, analyze_child PROVE FInv'
  OBVIOUS
<1> DEFINE m == uid2id(children[i + 1])
<1>1. MpsInv /\ ChildrenInv /\ LoopInv
  BY DEF FInv
<1>2. /\ phase = "analyze" /\ i < nb_mp /\ i \in Nat /\ nb_mp = Len(children)
      /\ status \in {OK, Error_OperationNotAllowed}
      /\ UNCHANGED <<kids, mptype, mps2instantiate, instance, nb_mp>>
  BY <1>1 DEF analyze_child, LoopInv
<1>3. MpsInv'
  BY <1>1, <1>2 DEF MpsInv, Created
<1>4. Created' = Created /\ Uids' = Uids
  BY <1>2 DEF Created, Uids
<1>5. Len(children) \in Nat /\ i + 1 \in 1..Len(children)
  <2>1. Len(children) \in Nat
    BY <1>1 DEF ChildrenInv
  <2> QED
    BY <1>2, <2>1
<1>6. m \in Created /\ children[i + 1] = mpid2uid(m) /\ mpid2uid(m) \in Elts(children)
  BY <1>1, <1>5, ChildAt
<1>7. CASE mptype[m] = "ccflib" /\ instance[m] = NA
  <2>1. phase' = "done" /\ status' = Error_RuntimeError /\ UNCHANGED <<children, i>>
    BY <1>7 DEF analyze_child, Stop
  <2>2. ChildrenInv'
    BY <1>1, <1>2, <1>4, <2>1 DEF ChildrenInv, InstanceIn
  <2>3. LoopInv'
    BY <1>1, <1>2, <2>1 DEF LoopInv, OK, Error_RuntimeError, Error_NotImplemented
  <2> QED
    BY <1>3, <2>2, <2>3 DEF FInv
<1>8. CASE mptype[m] # "ccflib"
  <2>1. /\ UNCHANGED <<children, phase>> /\ i' = i + 1
        /\ status' \in {status, Error_OperationNotAllowed}
    BY <1>8 DEF analyze_child
  <2>2. ChildrenInv'
    BY <1>1, <1>2, <1>4, <2>1 DEF ChildrenInv, InstanceIn
  <2>3. AtMostOne' <=> AtMostOne
    BY <1>2, <1>4 DEF AtMostOne
  <2>4. ASSUME AtMostOne, NEW p \in 1..Len(children), mptype[uid2id(children[p])] = "ccflib"
        PROVE  p > i + 1
    <3>1. p > i
      BY <1>1, <1>2, <2>4 DEF LoopInv
    <3>2. p # i + 1
      BY <1>8, <2>4
    <3> QED
      BY <1>2, <3>1, <3>2
  <2>5. LoopInv'
    BY <1>1, <1>2, <2>1, <2>3, <2>4 DEF LoopInv, OK, Error_OperationNotAllowed
  <2> QED
    BY <1>3, <2>2, <2>5 DEF FInv
<1>9. CASE mptype[m] = "ccflib" /\ instance[m] # NA
  <2> DEFINE inst == instance[m]
  <2>1. /\ children' = substitute(children, m, inst) /\ i' = i + 1 /\ UNCHANGED phase
        /\ status' \in {status, Error_OperationNotAllowed}
    BY <1>9 DEF analyze_child
  <2>2. inst \in Created /\ inst >= NumMps
    BY <1>1, <1>6, <1>9 DEF MpsInv
  <2>3. Created \in SUBSET Int /\ Uids \in SUBSET Int /\ mpid2uid(inst) \in Uids
    BY <1>1, <2>2, CreatedAreNumbers
  <2>4. mpid2uid(inst) \notin Elts(children)
    BY <1>1, <1>6, <1>9 DEF ChildrenInv
  <2>5. children \in Seq(Uids) /\ StrictlySorted(children)
    BY <1>1 DEF ChildrenInv
  <2> HIDE DEF inst, m
  <2>6. /\ children' \in Seq(Uids) /\ StrictlySorted(children')
        /\ Elts(children') = (Elts(children) \ {mpid2uid(m)}) \cup {mpid2uid(inst)}
        /\ Len(children') = Len(children)
    BY <1>6, <2>1, <2>2, <2>3, <2>4, <2>5, SubstituteProperties
  <2>7. \A x \in Created : mpid2uid(x) = mpid2uid(inst) => x = inst
    BY <2>2, <2>3, UidInjective
  <2>8. ASSUME NEW x \in Created, instance[x] # NA, mpid2uid(x) \in Elts(children')
        PROVE  mpid2uid(instance[x]) \notin Elts(children')
    <3>1. x # inst
      BY <1>1, <2>2, <2>8, FoocAssumption DEF MpsInv
    <3>2. mpid2uid(x) \in Elts(children) /\ mpid2uid(x) # mpid2uid(m)
      BY <2>6, <2>7, <2>8, <3>1
    <3>3. mpid2uid(instance[x]) \notin Elts(children)
      BY <1>1, <2>8, <3>2 DEF ChildrenInv
    <3>4. instance[x] \in Created /\ instance[x] # inst
      BY <1>1, <1>6, <2>8, <3>2 DEF MpsInv, inst
    <3> QED
      BY <2>6, <2>7, <3>3, <3>4
  <2>9. ChildrenInv'
    <3>1. kids \subseteq Created /\ \A x \in kids : x < NumMps
      BY <1>1, FoocAssumption DEF MpsInv
    <3>2. m \in Created /\ m < NumMps
      BY <1>1, <1>6, <1>9 DEF MpsInv
    <3>3. \A x \in Created : mpid2uid(x) = mpid2uid(m) => x = m
      BY <1>6, <2>3, UidInjective
    <3>4. ASSUME NEW x \in kids
          PROVE  \/ mpid2uid(x) \in Elts(children')
                 \/ /\ mptype[x] = "ccflib" /\ instance[x] # NA
                    /\ mpid2uid(instance[x]) \in Elts(children')
      <4>1. CASE x = m
        BY <1>9, <2>6, <4>1 DEF inst
      <4>2. CASE x # m /\ mpid2uid(x) \in Elts(children)
        BY <2>6, <3>1, <3>3, <4>2
      <4>3. CASE mptype[x] = "ccflib" /\ instance[x] # NA /\ mpid2uid(instance[x]) \in Elts(children)
        <5>1. instance[x] \in Created /\ instance[x] >= NumMps
          BY <1>1, <3>1, <4>3 DEF MpsInv
        <5>2. instance[x] # m
          BY <2>3, <3>2, <5>1, FoocAssumption
        <5> QED
          BY <2>6, <3>3, <4>3, <5>1, <5>2
      <4> QED
        BY <1>1, <4>1, <4>2, <4>3 DEF ChildrenInv, InstanceIn
    <3>5. ASSUME NEW x \in Created, mpid2uid(x) \in Elts(children')
          PROVE  x \in kids \/ \E k \in kids : instance[k] = x
      <4>1. CASE mpid2uid(x) \in Elts(children)
        BY <1>1, <4>1 DEF ChildrenInv
      <4>2. CASE mpid2uid(x) = mpid2uid(inst)
        <5>1. x = instance[m]
          BY <2>7, <4>2 DEF inst
        <5>2. m \in kids \/ \E k \in kids : instance[k] = m
          BY <1>1, <1>6 DEF ChildrenInv
        <5>3. \A k \in kids : instance[k] # m
          <6>1. \A k \in kids : instance[k] = NA \/ instance[k] >= NumMps
            BY <1>1, <3>1 DEF MpsInv
          <6>2. m \in Nat /\ NumMps \in Nat
            BY <1>1, <3>2, CreatedAreNumbers, FoocAssumption
          <6> QED
            BY <3>2, <6>1, <6>2 DEF NA
        <5> QED
          BY <5>1, <5>2, <5>3
      <4> QED
        BY <2>6, <3>5, <4>1, <4>2
    <3> QED
      BY <1>2, <1>4, <2>6, <2>8, <3>4, <3>5 DEF ChildrenInv, InstanceIn
  <2>10. AtMostOne' <=> AtMostOne
    BY <1>2, <1>4 DEF AtMostOne
  <2>11. ASSUME AtMostOne, NEW p \in 1..Len(children')
         PROVE  mptype[uid2id(children'[p])] # "ccflib"
    <3>1. children'[p] \in Elts(children')
      BY DEF Elts
    <3>2. children'[p] \in Uids
      BY <2>6
    <3>3. PICK x \in Created : children'[p] = mpid2uid(x)
      BY <3>2 DEF Uids
    <3>4. uid2id(children'[p]) = x
      BY <2>3, <3>3, UidOfMp
    <3>5. mptype[inst] # "ccflib"
      BY <1>1, <2>2, <2>3, FoocAssumption DEF MpsInv
    <3>6. x # m
      <4>1. x = m => mpid2uid(m) = mpid2uid(inst)
        BY <2>6, <3>1, <3>3
      <4> QED
        BY <1>6, <1>9, <2>7, <3>5, <4>1
    <3>7. x # m => mptype[x] # "ccflib"
      BY <1>6, <1>9, <2>11 DEF AtMostOne
    <3> QED
      BY <3>4, <3>6, <3>7
  <2>12. LoopInv'
    BY <1>1, <1>2, <2>1, <2>6, <2>10, <2>11 DEF LoopInv, OK, Error_OperationNotAllowed
  <2> QED
    BY <1>3, <2>9, <2>12 DEF FInv
<1> QED
  BY <1>7, <1>8, <1>9

\* At the end of the loop every child is behind the index.
LEMMA analyze_endFInv == FInv /\ analyze_end => FInv'
<1> SUFFICES ASSUME FInv, analyze_end PROVE FInv'
  OBVIOUS
<1>1. MpsInv /\ ChildrenInv /\ LoopInv
  BY DEF FInv
<1>2. /\ phase = "analyze" /\ i = nb_mp /\ phase' = IF status = OK THEN "collect" ELSE "done"
      /\ UNCHANGED <<kids, mptype, children, mps2instantiate, instance, i, nb_mp, status>>
  BY DEF analyze_end
<1>3. MpsInv' /\ ChildrenInv'
  BY <1>1, <1>2 DEF MpsInv, ChildrenInv, InstanceIn, Created, Uids
<1>4. Len(children) \in Nat /\ i = Len(children)
  BY <1>1, <1>2 DEF ChildrenInv, LoopInv
<1>5. AtMostOne => \A p \in 1..Len(children) : mptype[uid2id(children[p])] # "ccflib"
  BY <1>1, <1>2, <1>4 DEF LoopInv
<1>6. AtMostOne' <=> AtMostOne
  BY <1>2 DEF AtMostOne, Created
<1>7. LoopInv'
  BY <1>1, <1>2, <1>5, <1>6 DEF LoopInv, OK
<1> QED
  BY <1>3, <1>7 DEF FInv

\* What is collected was left by a successful analysis.
LEMMA fooc_data_empdagFInv == FInv /\ fooc_data_empdag => FInv'
<1> SUFFICES ASSUME FInv, fooc_data_empdag PROVE FInv'
  OBVIOUS
<1>1. MpsInv /\ ChildrenInv /\ LoopInv
  BY DEF FInv
<1>2. /\ phase = "collect" /\ phase' = "done"
      /\ UNCHANGED <<kids, mptype, children, mps2instantiate, instance, i, nb_mp>>
  BY DEF fooc_data_empdag, Stop
<1>3. MpsInv' /\ ChildrenInv'
  BY <1>1, <1>2 DEF MpsInv, ChildrenInv, InstanceIn, Created, Uids
<1>4. AtMostOne => \A p \in 1..Len(children) : mptype[uid2id(children[p])] # "ccflib"
  BY <1>1, <1>2 DEF LoopInv
<1>5. AtMostOne' <=> AtMostOne
  BY <1>2 DEF AtMostOne, Created
<1>6. LoopInv'
  BY <1>1, <1>2, <1>4, <1>5 DEF LoopInv
<1> QED
  BY <1>3, <1>6 DEF FInv

-----------------------------------------------------------------------------
(***************************************************************************)
(* The theorems.                                                           *)
(***************************************************************************)

\* The invariant holds in every reachable state of the transformation.
THEOREM FInvCorrect == Spec => []FInv
<1>1. FInv /\ UNCHANGED fvars => FInv'
  BY DEF FInv, MpsInv, ChildrenInv, InstanceIn, LoopInv, AtMostOne, Created, Uids, fvars
<1>2. FInv /\ [Next]_fvars => FInv'
  BY <1>1, mp_instantiateFInv, analyze_startFInv, analyze_childFInv, analyze_endFInv,
     fooc_data_empdagFInv DEF Next, Done
<1> QED
  BY InitFInv, <1>2, PTL DEF Spec

\* While its loop rewrites the array it walks over, the array stays sorted and within
\* reach of the index, and each original child keeps exactly one representative, itself or
\* an instance of its own.
THEOREM ChildrenExactCorrect == Spec => []ChildrenExact
<1>1. FInv => ChildrenExact
  <2> SUFFICES ASSUME FInv PROVE ChildrenExact
    OBVIOUS
  <2>1. MpsInv /\ ChildrenInv /\ LoopInv
    BY DEF FInv
  <2>2. TypeOK
    BY <2>1 DEF TypeOK, MpsInv, ChildrenInv, LoopInv, Uids
  <2>3. OneRepresentative
    <3>1. \A x \in Created : x \in ChildIds(children) <=> mpid2uid(x) \in Elts(children)
      <4>1. ASSUME NEW x \in Created, mpid2uid(x) \in Elts(children)
            PROVE  x \in ChildIds(children)
        <5>1. uid2id(mpid2uid(x)) = x
          BY <2>1, CreatedAreNumbers, UidOfMp
        <5> QED
          BY <4>1, <5>1 DEF ChildIds
      <4> QED
        BY <2>1, <4>1, ChildIdsUids
    <3>2. kids \subseteq Created
      BY <2>1, FoocAssumption DEF MpsInv
    <3>3. \A x \in Created : instance[x] # NA => instance[x] \in Created
      BY <2>1 DEF MpsInv
    <3>4. \A x \in kids : Replaced(x) <=> InstanceIn(x)
      BY <3>1, <3>2, <3>3 DEF Replaced, InstanceIn
    <3>5. ASSUME NEW x \in kids
          PROVE  /\ x \in ChildIds(children) <=> ~ Replaced(x)
                 /\ Replaced(x) => mptype[x] = "ccflib"
      <4>1. InstanceIn(x) => mpid2uid(x) \notin Elts(children)
        BY <2>1, <3>2 DEF ChildrenInv, InstanceIn
      <4>2. \/ mpid2uid(x) \in Elts(children)
            \/ mptype[x] = "ccflib" /\ InstanceIn(x)
        BY <2>1 DEF ChildrenInv
      <4> QED
        BY <3>1, <3>2, <3>4, <4>1, <4>2
    <3>6. ASSUME NEW x \in kids, NEW k \in kids, Replaced(x), instance[k] = instance[x]
          PROVE  k = x
      BY <2>1, <3>2, <3>6 DEF MpsInv, Replaced
    <3>7. ASSUME NEW x \in ChildIds(children)
          PROVE  x \in kids \cup {instance[k] : k \in kids}
      <4>1. x \in Created /\ mpid2uid(x) \in Elts(children)
        BY <2>1, ChildIdsUids
      <4>2. x \in kids \/ \E k \in kids : instance[k] = x
        BY <2>1, <4>1 DEF ChildrenInv
      <4> QED
        BY <4>2
    <3> QED
      BY <3>5, <3>6, <3>7 DEF OneRepresentative
  <2>4. ChildrenSorted
    BY <2>1 DEF ChildrenSorted, ChildrenInv
  <2> QED
    BY <2>2, <2>3, <2>4 DEF ChildrenExact
<1> QED
  BY FInvCorrect, <1>1, PTL

\* A single CCFLIB child is replaced wherever it is in the array.
THEOREM OneCcflibReplacedCorrect == Spec => []OneCcflibReplaced
<1>1. FInv => OneCcflibReplaced
  <2> DEFINE C == {m \in 0..(NumMps - 1) : mptype[m] = "ccflib"}
  <2> SUFFICES ASSUME FInv, phase \in {"collect", "done"}, status \in {OK, Error_NotImplemented},
                      Cardinality(C) <= 1, NEW m \in ChildIds(children), mptype[m] = "ccflib"
               PROVE  FALSE
    BY DEF OneCcflibReplaced
  <2>1. MpsInv /\ ChildrenInv /\ LoopInv
    BY DEF FInv
  <2>2. IsFiniteSet(C)
    BY FoocAssumption, EnumerationExists
  <2>3. \A x \in Created : mptype[x] = "ccflib" => x \in C
    <3>1. \A x \in Created : x \in Nat /\ (mptype[x] = "ccflib" => x < NumMps)
      BY <2>1, CreatedAreNumbers DEF MpsInv
    <3> QED
      BY <3>1, FoocAssumption
  <2> HIDE DEF C
  <2>4. AtMostOne
    BY <2>2, <2>3, AtMostOneElement DEF AtMostOne
  <2>5. PICK p \in 1..Len(children) : m = uid2id(children[p])
    BY DEF ChildIds, Elts
  <2> QED
    BY <2>1, <2>4, <2>5 DEF LoopInv
<1> QED
  BY FInvCorrect, <1>1, PTL
=============================================================================
