------------------------------ MODULE UIntArray ------------------------------
(***************************************************************************)
(* The growable arrays of reshop_data.c (UIntArray, of which DagUidArray   *)
(* and MpIdArray are typedefs) and the searches of rhp_search.c.           *)
(*                                                                         *)
(* An array is a TLA+ sequence: dat->arr[i] is arr[i+1].  An operation     *)
(* returns the record [rc, arr] of its error code and the array it leaves. *)
(* Capacity (dat->max, REALLOC_) is abstracted: memory never runs out.     *)
(***************************************************************************)
EXTENDS Integers, Sequences

OK == "OK"
Error_DuplicateValue == "Error_DuplicateValue"
Error_NotFound == "Error_NotFound"

\* UINT_MAX, the answer of the searches for "not in the array"
NotFound == -1

\* chk_sorted_uintarray: what the assert()s of every *sorted operation test
chk_sorted_uintarray(arr) ==
  \A i \in 1..(Len(arr) - 1) : arr[i] <= arr[i + 1]

\* no element is present twice
StrictlySorted(arr) == \A i, j \in 1..Len(arr) : i < j => arr[i] < arr[j]

Elts(arr) == {arr[i] : i \in 1..Len(arr)}

LargestOf(S) == CHOOSE x \in S : \A y \in S : y <= x

\* Mutant: the result of the search is stored.
InsertedAt_SearchResult(arr, pos, v) ==
  [k \in 1..(Len(arr) + 1) |->
     IF k <= pos THEN arr[k] ELSE IF k = pos + 1 THEN NotFound ELSE arr[k - 1]]

\* the memmove()s that open a gap before, and close the gap at, C index pos
InsertedAt(arr, pos, v) ==
  [k \in 1..(Len(arr) + 1) |->
     IF k <= pos THEN arr[k] ELSE IF k = pos + 1 THEN v ELSE arr[k - 1]]

RemoveAt0(arr, pos) ==
  [k \in 1..(Len(arr) - 1) |-> IF k <= pos THEN arr[k] ELSE arr[k + 1]]

------------------------------------------------------------------------------

\* Mutant: the interval never shrinks to one element.
bin_search_uint_Open(arr, elt) ==
  LET n == Len(arr)
      loop[w \in (0..n) \X (0..(n - 1))] ==
        LET min == w[1]
            max == w[2]
            i == (min + max) \div 2
        IN  IF max <= min THEN NotFound
            ELSE IF elt < arr[i + 1]
                 THEN IF i = 0 THEN NotFound ELSE loop[<<min, i - 1>>]
                 ELSE IF elt > arr[i + 1] THEN loop[<<i + 1, max>>]
                 ELSE i
  IN  loop[<<0, n - 1>>]

\* bin_search_uint: the loop over [min, max]; callers ensure n >= 1
bin_search_uint(arr, elt) ==
  LET n == Len(arr)
      loop[w \in (0..n) \X (0..(n - 1))] ==
        LET min == w[1]
            max == w[2]
            i == (min + max) \div 2
        IN  IF max < min THEN NotFound
            ELSE IF elt < arr[i + 1]
                 THEN IF i = 0 THEN NotFound ELSE loop[<<min, i - 1>>]
                 ELSE IF elt > arr[i + 1] THEN loop[<<i + 1, max>>]
                 ELSE i
  IN  loop[<<0, n - 1>>]

rhp_uint_findsorted(arr, v) ==
  IF Len(arr) = 0 THEN NotFound ELSE bin_search_uint(arr, v)

\* rhp_uint_add: append
rhp_uint_add(arr, v) == Append(arr, v)

\* Mutant: v goes before the last smaller element.
rhp_uint_addsorted_Before(arr, v) ==
  LET below == {i \in 1..Len(arr) : arr[i] <= v}
      pos == IF below = {} THEN 0 ELSE LargestOf(below)
  IN  IF pos > 0 /\ arr[pos] = v
      THEN [rc |-> Error_DuplicateValue, arr |-> arr]
      ELSE [rc |-> OK, arr |-> InsertedAt(arr, IF pos = 0 THEN 0 ELSE pos - 1, v)]

(***************************************************************************)
(* rhp_uint_addsorted: the scan from the end stops at the last element     *)
(* that is <= v; an equal one is an error, otherwise v goes right after    *)
(* it.  The fast path (append when the last element is < v) is that case   *)
(* with the last index.                                                    *)
(***************************************************************************)
rhp_uint_addsorted(arr, v) ==
  LET below == {i \in 1..Len(arr) : arr[i] <= v}
      pos == IF below = {} THEN 0 ELSE LargestOf(below)
  IN  IF pos > 0 /\ arr[pos] = v
      THEN [rc |-> Error_DuplicateValue, arr |-> arr]
      ELSE [rc |-> OK, arr |-> InsertedAt(arr, pos, v)]

rhp_uint_adduniqsorted(arr, v) ==
  IF Len(arr) > 0 /\ rhp_uint_findsorted(arr, v) # NotFound
  THEN [rc |-> Error_DuplicateValue, arr |-> arr]
  ELSE rhp_uint_addsorted(arr, v)

rhp_uint_adduniqnofail(arr, v) ==
  IF Len(arr) > 0 /\ rhp_uint_findsorted(arr, v) # NotFound
  THEN [rc |-> OK, arr |-> arr]
  ELSE rhp_uint_addsorted(arr, v)

\* Mutant: the element after the one that was found is removed.
rhp_uint_rmsorted_Next(arr, v) ==
  LET pos == rhp_uint_findsorted(arr, v)
  IN  IF pos = NotFound THEN [rc |-> Error_NotFound, arr |-> arr]
      ELSE [rc |-> OK, arr |-> RemoveAt0(arr, IF pos + 1 < Len(arr) THEN pos + 1 ELSE pos)]

rhp_uint_rmsorted(arr, v) ==
  LET pos == rhp_uint_findsorted(arr, v)
  IN  IF pos = NotFound THEN [rc |-> Error_NotFound, arr |-> arr]
      ELSE [rc |-> OK, arr |-> RemoveAt0(arr, pos)]

(***************************************************************************)
(* rhp_uint_rm: the scan from the end gives up on the first smaller        *)
(* element, and never looks at arr[0]: when it gets there it removes it.   *)
(* The array must not be empty (len - 1 is computed without a test).       *)
(***************************************************************************)
rhp_uint_rm(arr, v) ==
  LET stop == {i \in 2..Len(arr) : arr[i] <= v}
      pos == IF stop = {} THEN 1 ELSE LargestOf(stop)
  IN  IF stop # {} /\ arr[pos] < v
      THEN [rc |-> Error_NotFound, arr |-> arr]
      ELSE [rc |-> OK, arr |-> RemoveAt0(arr, pos - 1)]
=============================================================================
