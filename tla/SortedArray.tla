----------------------------- MODULE SortedArray -----------------------------
(***************************************************************************)
(* A UIntArray in the hands of the EMPDAG code: any sequence of calls to   *)
(* the sorted operations, from an empty array.                             *)
(***************************************************************************)
EXTENDS UIntArray

CONSTANTS
  Vals,        \* the values stored
  RmPresent    \* rhp_uint_rm is only called with a value that is in the array

ASSUME ValsAssumption == Vals \subseteq Nat
ASSUME RmPresentAssumption == RmPresent \in BOOLEAN

VARIABLES
  arr,   \* dat->arr, of length dat->len
  call,  \* the last call: what it was to do, and the value it was given
  rc     \* what it returned

svars == <<arr, call, rc>>

Apply(res) == arr' = res.arr /\ rc' = res.rc

SInit == arr = <<>> /\ call = <<"none", 0>> /\ rc = OK

AddSorted(v) == call' = <<"add", v>> /\ Apply(rhp_uint_addsorted(arr, v))
AddUniqSorted(v) == call' = <<"add", v>> /\ Apply(rhp_uint_adduniqsorted(arr, v))
AddUniqNoFail(v) == call' = <<"add_nofail", v>> /\ Apply(rhp_uint_adduniqnofail(arr, v))
RmSorted(v) == call' = <<"remove", v>> /\ Apply(rhp_uint_rmsorted(arr, v))
Rm(v) ==
  /\ arr # <<>> /\ (RmPresent => v \in Elts(arr))
  /\ call' = <<"remove", v>> /\ Apply(rhp_uint_rm(arr, v))
FindSorted(v) ==
  /\ call' = <<"find", v>>
  /\ rc' = IF rhp_uint_findsorted(arr, v) = NotFound THEN Error_NotFound ELSE OK
  /\ UNCHANGED arr

SNext == \E v \in Vals :
          \/ AddSorted(v) \/ AddUniqSorted(v) \/ AddUniqNoFail(v)
          \/ RmSorted(v) \/ Rm(v) \/ FindSorted(v)

SSpec == SInit /\ [][SNext]_svars

\* Types.
STypeOK == arr \in Seq(Vals) /\ rc \in {OK, Error_DuplicateValue, Error_NotFound}

\* The array stays sorted without duplicates: the binary searches, and the
\* assert(chk_sorted_uintarray()) of every operation, depend on it.
SortedAlways == STypeOK /\ StrictlySorted(arr)

\* The array implements a set, call by call: each call adds, removes or finds the value
\* it was given and no other, and returns whether that value was there.
Set == INSTANCE UIntSet WITH set <- Elts(arr)
ImplementsSet == Set!Spec

\* What the error message of rhp_uint_rm says, "could not find value %d in the
\* dataset": a value that is not there is not removed, and neither is another one.
RmFindsItsValue == [][\A v \in Vals : Rm(v) /\ v \notin Elts(arr) => UNCHANGED arr]_svars
=============================================================================
