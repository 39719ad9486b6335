------------------------------ MODULE UIntSet ------------------------------
(***************************************************************************)
(* What the sorted arrays of reshop_data.c promise to the EMPDAG: a finite *)
(* set of numbers, and for each call what it does to the set and returns,  *)
(* given the value it was called for.                                      *)
(***************************************************************************)
EXTENDS Integers

CONSTANT Vals

VARIABLES
  set,
  call,  \* the last call: what it was to do, and the value it was given
  rc     \* what it returned

Init == set = {} /\ call = <<"none", 0>> /\ rc = "OK"

Add(v) ==
  /\ call' = <<"add", v>>
  /\ set' = set \cup {v}
  /\ rc' = IF v \in set THEN "Error_DuplicateValue" ELSE "OK"

AddNoFail(v) == call' = <<"add_nofail", v>> /\ set' = set \cup {v} /\ rc' = "OK"

Remove(v) ==
  /\ call' = <<"remove", v>>
  /\ set' = set \ {v}
  /\ rc' = IF v \in set THEN "OK" ELSE "Error_NotFound"

Find(v) ==
  /\ call' = <<"find", v>>
  /\ set' = set
  /\ rc' = IF v \in set THEN "OK" ELSE "Error_NotFound"

Next == \E v \in Vals : Add(v) \/ AddNoFail(v) \/ Remove(v) \/ Find(v)

Spec == Init /\ [][Next]_<<set, call, rc>>
=============================================================================
