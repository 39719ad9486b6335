----------------------------- MODULE EmpDagRoots -----------------------------
(***************************************************************************)
(* The EMPDAG while a model is being written: nodes and arcs are added     *)
(* (EmpDagArcs), a root is chosen (empdag_setroot), and the EMPDAG is      *)
(* finalized (empdag_fini), which infers the roots, checks them and calls  *)
(* the analysis.  Each of these may come again after any of the others.    *)
(*                                                                         *)
(* The analysis itself is EmpDagAnalysis; here it only has a verdict,      *)
(* which is positive only for EMPDAGs that EmpDagAnalysis!AcceptedIsDag    *)
(* allows: a cycle through an MP that an earlier empdag_fini has hidden is *)
(* among them, see FinalizedIsAcyclic.  What mp_finalize thinks of the     *)
(* equations and variables of an MP is a free choice.                      *)
(***************************************************************************)
EXTENDS EmpDagArcs

VARIABLES
  roots,      \* empdag->roots, an array of uids
  uid_root,   \* the root that was chosen, or inferred when it is the only one
  hidable,    \* the MPs with one of the MpIsHidable bits
  late        \* history: the MPs added since finalized was set

rootvars == <<roots, uid_root, hidable, late>>
vars == <<avars, rootvars>>

A == INSTANCE UIntArray

RInit == Init /\ roots = <<>> /\ uid_root = EMPDAG_UID_NONE /\ hidable = {} /\ late = {}

------------------------------------------------------------------------------
AddNode ==
  \/ /\ \E type \in MpTypes : empdag_addmp(type)
     /\ late' = IF finalized THEN late \cup {mps_len} ELSE late
     /\ UNCHANGED <<roots, uid_root, hidable>>
  \/ empdag_addnash /\ UNCHANGED rootvars

AddArc ==
  /\ \/ \E n \in Nashs, m \in MPs : empdag_nashaddmpbyid(n, m)
     \/ \E p, c \in MPs : empdag_mpVFmpbyid(p, c) \/ empdag_mpCTRLmpbyid(p, c)
     \/ \E p \in MPs, n \in Nashs : empdag_mpCTRLnashbyid(p, n)
  /\ UNCHANGED rootvars

\* mp_hidable_asdual, mp_hidable_askkt: the MP is used by a dual or a KKT one
mp_hidable(m) ==
  /\ hidable' = hidable \cup {m}
  /\ rc' = OK
  /\ UNCHANGED <<mps_len, nashs_len, mptype, arcs, mps2instantiate, finalized, hidden,
                 superseded, multiVF, roots, uid_root, late>>

\* Mutant: finalized is left alone.
empdag_setroot_StaysFinal(uid) ==
  LET res == A!rhp_uint_addsorted(roots, uid)
  IN  /\ roots' = res.arr
      /\ uid_root' = IF res.rc = OK THEN uid ELSE uid_root
      /\ rc' = res.rc
      /\ UNCHANGED <<mps_len, nashs_len, mptype, arcs, mps2instantiate, finalized, hidden,
                     superseded, multiVF, hidable, late>>

\* Mutant: the id is stored in place of the uid.
empdag_setroot_Id(uid) ==
  LET res == A!rhp_uint_addsorted(roots, uid2id(uid))
  IN  /\ roots' = res.arr
      /\ uid_root' = IF res.rc = OK THEN uid ELSE uid_root
      /\ finalized' = FALSE
      /\ rc' = res.rc
      /\ UNCHANGED <<mps_len, nashs_len, mptype, arcs, mps2instantiate, hidden,
                     superseded, multiVF, hidable, late>>

\* empdag_rootsadd comes first, and may fail
empdag_setroot(uid) ==
  LET res == A!rhp_uint_addsorted(roots, uid)
  IN  /\ roots' = res.arr
      /\ uid_root' = IF res.rc = OK THEN uid ELSE uid_root
      /\ finalized' = FALSE
      /\ rc' = res.rc
      /\ UNCHANGED <<mps_len, nashs_len, mptype, arcs, mps2instantiate, hidden,
                     superseded, multiVF, hidable, late>>

\* empdag_single_MP_to_Nash; the id of its Nash node is the next one
empdag_single_MP_to_Nash ==
  LET n == nashs_len
      res == A!rhp_uint_addsorted(roots, nashid2uid(n))
      adds == mptype[0] # "undef"
      waits == mptype[0] = "ccflib"
  IN  /\ mps_len = 1 /\ nashs_len < MaxNashs
      /\ waits => Len(mps2instantiate) < MaxInst
      /\ mps2instantiate' = IF waits THEN Append(mps2instantiate, 0) ELSE mps2instantiate
      /\ nashs_len' = nashs_len + 1
      /\ finalized' = FALSE
      /\ nash_arcs' = IF adds THEN [nash_arcs EXCEPT ![n] = {mpid2uid(0)}] ELSE nash_arcs
      /\ rarcs' = IF adds THEN [rarcs EXCEPT ![0] = @ \cup {nashid2uid(n)}] ELSE rarcs
      /\ roots' = IF adds THEN res.arr ELSE roots
      /\ uid_root' = IF adds /\ res.rc = OK THEN nashid2uid(n) ELSE uid_root
      /\ rc' = IF adds THEN res.rc ELSE Error_RuntimeError
      /\ UNCHANGED <<mps_len, mptype, Carcs, Varcs, nash_rarcs, hidden, superseded, multiVF,
                     hidable, late>>

------------------------------------------------------------------------------
(***************************************************************************)
(* empdag_infer_roots: MPs without parents are hidden when they may be,    *)
(* and roots otherwise; the array has the MPs first, then the Nash nodes.  *)
(***************************************************************************)
Orphans == {m \in MPs \ hidden : rarcs[m] = {}}

\* the ids of S below n in increasing order
Increasing(S, n) ==
  LET upto[k \in 0..n] == IF k = 0 THEN <<>>
                          ELSE IF k - 1 \in S THEN Append(upto[k - 1], k - 1)
                          ELSE upto[k - 1]
  IN  upto[n]

UidSeq(ids, ToUid(_)) == [k \in 1..Len(ids) |-> ToUid(ids[k])]

\* Mutant: the MPs are looked at from the last one.
InferredRoots_Backward ==
  LET mps == UidSeq(Increasing(Orphans \ hidable, mps_len), mpid2uid)
  IN  [k \in 1..Len(mps) |-> mps[Len(mps) + 1 - k]]
      \o UidSeq(Increasing({n \in Nashs : nash_rarcs[n] = {}}, nashs_len), nashid2uid)

InferredRoots ==
  UidSeq(Increasing(Orphans \ hidable, mps_len), mpid2uid)
  \o UidSeq(Increasing({n \in Nashs : nash_rarcs[n] = {}}, nashs_len), nashid2uid)

InferredHidden == hidden \cup (Orphans \cap hidable)

\* without MPs nothing is inferred
RootsAfter == IF mps_len > 0 THEN InferredRoots ELSE roots
HiddenAfter == IF mps_len > 0 THEN InferredHidden ELSE hidden
UidRootAfter ==
  IF mps_len > 0 /\ Len(InferredRoots) = 1 THEN InferredRoots[1] ELSE uid_root

\* the tests of empdag_check on the nodes: without parent, they are searched in roots
LostNodes ==
  {u \in {mpid2uid(m) : m \in {k \in MPs \ HiddenAfter : rarcs[k] = {}}}
         \cup {nashid2uid(n) : n \in {k \in Nashs : nash_rarcs[k] = {}}} :
     A!rhp_uint_findsorted(RootsAfter, u) = A!NotFound}

\* the nodes below those of S, S included, over the arcs that lead to no node of X
Below(S, X) ==
  LET Children(T) ==
        ((UNION {Carcs[p] \cup {mpid2uid(c) : c \in Elts(Varcs[p])} :
                   p \in {m \in MPs : mpid2uid(m) \in T}})
         \cup (UNION {nash_arcs[n] : n \in {k \in Nashs : nashid2uid(k) \in T}})) \ X
      step[k \in Nat] == IF k = 0 THEN S ELSE step[k - 1] \cup Children(step[k - 1])
  IN  step[mps_len + nashs_len]

ChildrenOf(u) ==
  IF uidisMP(u)
  THEN Carcs[uid2id(u)] \cup {mpid2uid(c) : c \in Elts(Varcs[uid2id(u)])}
  ELSE nash_arcs[uid2id(u)]

\* no node is below itself over the arcs that lead to no node of X
NoCycleOutside(X) == \A u \in NodeUids : u \notin Below(ChildrenOf(u) \ X, X)

\* what the analysis accepts at most (EmpDagAnalysis!Start, AcceptedIsDag); the code of
\* an unprocessed hidden MP is dropped where a VF arc leads to it, a cycle included
Acceptable ==
  /\ Len(RootsAfter) > 1 => valid_uid(UidRootAfter)
  /\ NoCycleOutside({mpid2uid(m) : m \in HiddenAfter})
  /\ \A u \in NodeUids : \/ u \in Below(Elts(RootsAfter), {})
                         \/ uidisMP(u) /\ uid2id(u) \in HiddenAfter

(***************************************************************************)
(* empdag_fini.  complete is what mp_finalize says of the MPs that have a  *)
(* type, accepted what the analysis and empdag_infertype say.  On a        *)
(* failure the inferred roots and hidden MPs stay.                         *)
(***************************************************************************)
empdag_fini(complete, accepted) ==
  LET typed == mps_len = 0 \/ (complete /\ \A m \in MPs : mptype[m] # "undef")
      rooted == mps_len = 0 \/ InferredRoots # <<>>
      empty == RootsAfter = <<>>
      passed == empty \/ (LostNodes = {} /\ accepted)
  IN  /\ accepted => Acceptable
      /\ IF finalized
         THEN rc' = OK /\ UNCHANGED <<roots, hidden, uid_root, finalized, late>>
         ELSE IF ~typed
         THEN rc' = Error_EMPRuntimeError /\ UNCHANGED <<roots, hidden, uid_root, finalized, late>>
         ELSE /\ roots' = RootsAfter /\ hidden' = HiddenAfter /\ uid_root' = UidRootAfter
              /\ rc' = IF ~rooted THEN Error_EMPIncorrectInput
                       ELSE IF passed THEN OK ELSE Error_EMPRuntimeError
              /\ finalized' = (rooted /\ passed)
              /\ late' = {}
      /\ UNCHANGED <<mps_len, nashs_len, mptype, arcs, mps2instantiate, superseded, multiVF,
                     hidable>>

RNext ==
  \/ AddNode \/ AddArc
  \/ \E m \in MPs : mp_hidable(m)
  \/ \E u \in NodeUids : empdag_setroot(u)
  \/ empdag_single_MP_to_Nash
  \/ \E complete, accepted \in BOOLEAN : empdag_fini(complete, accepted)

RSpec == RInit /\ [][RNext]_vars

------------------------------------------------------------------------------
\* Types.
RTypeOK ==
  /\ TypeOK
  /\ roots \in Seq(NodeUids) /\ uid_root \in NodeUids \cup {EMPDAG_UID_NONE}
  /\ hidable \subseteq MPs /\ late \subseteq MPs

\* While finalized is set, roots holds exactly the nodes that have no parent and are
\* not hidden, whatever was added, chosen or refused before; MPs that were added
\* since are apart, see AllRootedWhenFinalized.
FinalizedRootsExact ==
  finalized =>
    /\ \A m \in MPs \ late :
         mpid2uid(m) \in Elts(roots) <=> rarcs[m] = {} /\ m \notin hidden
    /\ MPs \ late # {} =>
         \A n \in Nashs : nashid2uid(n) \in Elts(roots) <=> nash_rarcs[n] = {}

\* While finalized is set every cycle has a hidden MP and all nodes but the hidden and
\* the late MPs are below a root: every operation that adds an arc takes the flag back.
FinalizedIsDag ==
  finalized /\ MPs \ late # {} =>
    /\ NoCycleOutside({mpid2uid(m) : m \in hidden})
    /\ \A u \in NodeUids : \/ u \in Below(Elts(roots), {})
                           \/ uidisMP(u) /\ uid2id(u) \in hidden \cup late

\* The flag finalized vouches for the roots and for the rooted DAG at once.
FinalizedExact == FinalizedRootsExact /\ FinalizedIsDag

\* A root is found by the binary search of empdag_check as long as the roots are all
\* MPs or all Nash nodes (see RootsAreFound for the others).
RootsOfOneKindFound ==
  (\A u, v \in Elts(roots) : uidisMP(u) = uidisMP(v)) =>
    \A u \in Elts(roots) : A!rhp_uint_findsorted(roots, u) # A!NotFound

------------------------------------------------------------------------------
(***************************************************************************)
(* What comments of the code say, and the code does not ensure.            *)
(***************************************************************************)
\* A node without parent that is "in the root set" is found there.
RootsAreFound == \A u \in Elts(roots) : A!rhp_uint_findsorted(roots, u) # A!NotFound

\* A finalized EMPDAG is acyclic: it is not when the cycle passes through an MP that was
\* an orphan, and hidden, in an earlier empdag_fini.
FinalizedIsAcyclic == finalized => NoCycleOutside({})

\* All MPs of a finalized EMPDAG "have parents or are roots" (or are hidden).
AllRootedWhenFinalized ==
  finalized => \A m \in MPs : \/ rarcs[m] # {} \/ m \in hidden
                             \/ mpid2uid(m) \in Elts(roots)
=============================================================================
