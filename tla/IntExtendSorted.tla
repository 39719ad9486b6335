--------------------------- MODULE IntExtendSorted ---------------------------
(***************************************************************************)
(* rhp_int_extend_sorted (reshop_data.c): a sorted array is merged in      *)
(* place into another one, by moving blocks of memory.  The variables and  *)
(* equations of an MP are collected with it (mathprgm.c).                  *)
(*                                                                         *)
(* Memory is kept as it is: buf[k] is dat->arr[k], Undef where nothing has *)
(* been written; darr and sarr are the positions the C pointers have moved *)
(* to.  One step is one block of the function, or one turn of its loop.    *)
(***************************************************************************)
EXTENDS Integers, Sequences, FiniteSets

CONSTANTS
  Vals,      \* the values in the arrays
  MaxLen     \* bound on the length of either array

ASSUME ExtendAssumption == Vals \subseteq Nat /\ MaxLen \in Nat

Undef == -1

VARIABLES
  src, dst,        \* the two arrays when the function is called
  buf,             \* dat->arr
  sarr, slen,      \* what is left of the source
  darr, dlen,      \* what is left of the destination
  darr_lastelt,    \* the number of elements from darr to the last one written
  pc

evars == <<src, dst, buf, sarr, slen, darr, dlen, darr_lastelt, pc>>

chk_sorted_intarray(s) == \A k \in 1..(Len(s) - 1) : s[k] <= s[k + 1]

Sorted == {s \in UNION {[1..n -> Vals] : n \in 0..MaxLen} : chk_sorted_intarray(s)}

Total == Len(dst) + Len(src)     \* dat->len after the call

\* memmove inside buf, memcpy from the source
memmove(b, to, from, n) ==
  [k \in DOMAIN b |-> IF k \in to..(to + n - 1) THEN b[from + k - to] ELSE b[k]]

memcpy(b, to, from, n) ==
  [k \in DOMAIN b |-> IF k \in to..(to + n - 1) THEN src[from + k - to + 1] ELSE b[k]]

(***************************************************************************)
(* bin_insert_int, on the n elements of arr from position off on; its last *)
(* two branches are never taken together.                                  *)
(***************************************************************************)
bin_insert_int(arr, off, n, elt) ==
  LET loop[w \in (0..n) \X (-1..(n - 1))] ==
        LET min == w[1]
            max == w[2]
            j == (min + max) \div 2
        IN  IF max < min THEN n
            ELSE IF elt <= arr[off + j]
                 THEN IF j = 0 THEN 0
                      ELSE IF elt >= arr[off + j - 1] THEN j ELSE loop[<<min, j - 1>>]
                 ELSE loop[<<j + 1, max>>]
  IN  loop[<<0, n - 1>>]

S(k) == src[sarr + k + 1]

sfirst == src[1]
send == src[Len(src)]
dfirst == dst[1]
dend == dst[Len(dst)]

------------------------------------------------------------------------------
EInit ==
  /\ src \in Sorted /\ dst \in Sorted
  /\ buf = [k \in 0..(2 * MaxLen - 1) |-> IF k < Len(dst) THEN dst[k + 1] ELSE Undef]
  /\ sarr = 0 /\ slen = Len(src)
  /\ darr = 0 /\ dlen = Len(dst) /\ darr_lastelt = Len(dst)
  /\ pc = "entry"

\* an empty source, or rhp_int_copy into an empty destination
Trivial ==
  /\ pc = "entry" /\ (slen = 0 \/ dlen = 0)
  /\ buf' = memcpy(buf, Len(dst), 0, slen)
  /\ pc' = "done"
  /\ UNCHANGED <<src, dst, sarr, slen, darr, dlen, darr_lastelt>>

\* "sfirst <= dfirst": the source, or its first elements, go in front
Front ==
  /\ pc = "entry" /\ slen > 0 /\ dlen > 0
  /\ LET idx == bin_insert_int(src, sarr + 1, slen, dfirst)
     IN  IF sfirst > dfirst
         THEN pc' = "tail" /\ UNCHANGED <<buf, sarr, slen, darr>>
         ELSE IF send <= dfirst
         THEN /\ buf' = memcpy(memmove(buf, slen, 0, dlen), 0, 0, slen)
              /\ pc' = "done"
              /\ UNCHANGED <<sarr, slen, darr>>
         ELSE /\ buf' = memcpy(memmove(buf, idx, 0, dlen), 0, 0, idx)
              /\ slen' = slen - idx /\ sarr' = sarr + idx /\ darr' = darr + idx
              /\ pc' = "tail"
  /\ UNCHANGED <<src, dst, dlen, darr_lastelt>>

\* "send >= dend": the source, or its last elements, go at the end
Back ==
  /\ pc = "tail"
  /\ LET idx == bin_insert_int(src, sarr + 1, slen, dend)
     IN  IF send < dend
         THEN pc' = "loop" /\ UNCHANGED <<buf, slen, darr_lastelt>>
         ELSE IF sfirst >= dend
         THEN /\ buf' = memcpy(buf, darr + dlen, sarr, slen)
              /\ pc' = "done"
              /\ UNCHANGED <<slen, darr_lastelt>>
         ELSE /\ buf' = memcpy(buf, darr + dlen, sarr + idx, slen - idx)
              /\ slen' = idx
              /\ darr_lastelt' = darr_lastelt + slen - idx
              /\ pc' = "loop"
  /\ UNCHANGED <<src, dst, sarr, darr, dlen>>

\* Mutant: one element too many is taken.
CopyLen_More(v) ==
  LET stop == {k \in 1..(slen - 1) : S(k) > v}
  IN  IF stop = {} THEN slen ELSE (CHOOSE k \in stop : \A j \in stop : k <= j) + 1

\* Mutant: the count starts at 0 and stops at an equal value.
CopyLen_FromZero(v) ==
  LET stop == {k \in 0..(slen - 1) : S(k) >= v}
  IN  IF stop = {} THEN slen ELSE CHOOSE k \in stop : \A j \in stop : k <= j

\* the elements of the source that go before the value v of the destination
CopyLen(v) ==
  LET stop == {k \in 1..(slen - 1) : S(k) > v}
  IN  IF stop = {} THEN slen ELSE CHOOSE k \in stop : \A j \in stop : k <= j

\* Mutant: the count of the elements behind darr is not updated.
Merge_StaleCount ==
  /\ pc = "loop" /\ slen > 0
  /\ LET idx == bin_insert_int(buf, darr, dlen, S(0))
         offset == CopyLen(buf[darr + idx])
     IN  /\ buf' = memcpy(memmove(buf, darr + idx + offset, darr + idx, darr_lastelt),
                          darr + idx, sarr, offset)
         /\ dlen' = dlen - idx
         /\ darr' = darr + idx + offset
         /\ sarr' = sarr + offset /\ slen' = slen - offset
         /\ UNCHANGED darr_lastelt
  /\ UNCHANGED <<src, dst, pc>>

\* Mutant: the rest of the destination shrinks by what was inserted.
Merge_Shrink ==
  /\ pc = "loop" /\ slen > 0
  /\ LET idx == bin_insert_int(buf, darr, dlen, S(0))
         offset == CopyLen(buf[darr + idx])
         behind == darr_lastelt - idx
     IN  /\ buf' = memcpy(memmove(buf, darr + idx + offset, darr + idx, behind),
                          darr + idx, sarr, offset)
         /\ dlen' = dlen - idx - offset
         /\ darr_lastelt' = behind
         /\ darr' = darr + idx + offset
         /\ sarr' = sarr + offset /\ slen' = slen - offset
  /\ UNCHANGED <<src, dst, pc>>

\* Mutant: the elements are copied in before those behind are moved.
Merge_CopyFirst ==
  /\ pc = "loop" /\ slen > 0
  /\ LET idx == bin_insert_int(buf, darr, dlen, S(0))
         offset == CopyLen(buf[darr + idx])
         behind == darr_lastelt - idx
     IN  /\ buf' = memmove(memcpy(buf, darr + idx, sarr, offset),
                           darr + idx + offset, darr + idx, behind)
         /\ dlen' = dlen - idx
         /\ darr_lastelt' = behind
         /\ darr' = darr + idx + offset
         /\ sarr' = sarr + offset /\ slen' = slen - offset
  /\ UNCHANGED <<src, dst, pc>>

\* one turn of the while loop
Merge ==
  /\ pc = "loop" /\ slen > 0
  /\ LET idx == bin_insert_int(buf, darr, dlen, S(0))
         offset == CopyLen(buf[darr + idx])
         behind == darr_lastelt - idx
     IN  /\ buf' = memcpy(memmove(buf, darr + idx + offset, darr + idx, behind),
                          darr + idx, sarr, offset)
         /\ dlen' = dlen - idx
         /\ darr_lastelt' = behind
         /\ darr' = darr + idx + offset
         /\ sarr' = sarr + offset /\ slen' = slen - offset
  /\ UNCHANGED <<src, dst, pc>>

Merged ==
  /\ pc = "loop" /\ slen = 0
  /\ pc' = "done"
  /\ UNCHANGED <<src, dst, buf, sarr, slen, darr, dlen, darr_lastelt>>

Done == pc = "done" /\ UNCHANGED evars

ENext == Trivial \/ Front \/ Back \/ Merge \/ Merged \/ Done

\* one thread runs the function to its end
ESpec == EInit /\ [][ENext]_evars /\ WF_evars(ENext)

------------------------------------------------------------------------------
Occurrences(f, dom, v) == Cardinality({k \in dom : f[k] = v})

\* Types: positions and lengths are unsigned, and stay within dat->len.
ETypeOK ==
  /\ buf \in [0..(2 * MaxLen - 1) -> Vals \cup {Undef}]
  /\ sarr + slen <= Len(src) /\ slen >= 0
  /\ darr \in 0..Total /\ dlen \in 0..Len(dst)
  /\ darr_lastelt \in 0..Total
  /\ pc \in {"entry", "tail", "loop", "done"}

\* The result is sorted, the assert() at each of its four returns.
ResultSorted == \A k \in 1..(Total - 1) : buf[k - 1] <= buf[k]

\* The result has the elements of both arrays, each as often as they had it: no
\* block overwrites one that was not moved yet.
ElementsKept ==
    \A v \in Vals : Occurrences(buf, 0..(Total - 1), v)
                      = Occurrences(src, 1..Len(src), v) + Occurrences(dst, 1..Len(dst), v)

\* In the loop: the room left is that of the rest of the source (the assert()s on
\* darr_lastelt), all that is written lies in front of it and below dat->len, and
\* bin_insert_int is not called on an empty array.
RoomForTheRest ==
  /\ pc = "loop" => /\ darr + darr_lastelt + slen = Total
                    /\ \A k \in 0..(2 * MaxLen - 1) : buf[k] = Undef <=> k >= Total - slen
                    /\ slen > 0 => dlen > 0 /\ S(0) <= dend
  /\ \A k \in Total..(2 * MaxLen - 1) : buf[k] = Undef

\* The loop ends, each turn takes an element of the source, and what is then in
\* the array is the sorted merge of the two.
MergeExact == <>(pc = "done" /\ ResultSorted /\ ElementsKept)
=============================================================================
