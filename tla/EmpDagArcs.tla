----------------------------- MODULE EmpDagArcs -----------------------------
(***************************************************************************)
(* The nodes and the arcs of an EMPDAG (empdag.c, empdag_mp.h): how MPs    *)
(* and Nash nodes are created, how arcs are added between them, and how an *)
(* MP takes over the arcs of another one.                                  *)
(*                                                                         *)
(* Every arc is stored twice, once with its parent and once, as a reverse  *)
(* arc, with its child:                                                    *)
(*   Carcs[p]      the children of MP p over CTRL arcs (MPs or Nash nodes) *)
(*   Varcs[p]      the MPs p has a value-function (VF) arc to, in order    *)
(*   rarcs[c]      the reverse arcs of MP c                                *)
(*   nash_arcs[n]  the MPs of Nash node n                                  *)
(*   nash_rarcs[n] the reverse arcs of Nash node n                         *)
(* All but Varcs are sorted arrays without duplicates, here sets of uids.  *)
(***************************************************************************)
EXTENDS EmpDagUid, Sequences

CONSTANTS
  MaxMps,      \* bound on the number of MPs
  MaxNashs,    \* bound on the number of Nash nodes
  MaxVarcs,    \* bound on the VF arcs of one MP
  MaxInst,     \* bound on the length of mps2instantiate
  MpTypes,     \* the types MPs are created with
  Builds       \* the builds of the library: with assertions ("debug"), without ("release")

ASSUME BoundsAssumption ==
  /\ MaxMps \in Nat /\ MaxNashs \in Nat /\ MaxVarcs \in Nat /\ MaxInst \in Nat

ASSUME MpTypesAssumption == "opt" \in MpTypes

ASSUME BuildsAssumption == Builds \subseteq {"release", "debug"}

MpIds == 0..(MaxMps - 1)
NashIds == 0..(MaxNashs - 1)

VARIABLES
  mps_len, nashs_len,   \* mps.len and nashs.len: the ids in use are below
  mptype,               \* the type of every MP, "none" above mps_len
  Carcs, Varcs, rarcs, nash_arcs, nash_rarcs,
  mps2instantiate,      \* the CCFLIB MPs waiting for their instance
  finalized,            \* empdag->finalized
  rc,                   \* the return code of the last operation, or Aborted
  hidden,               \* the MPs with MpIsHidden
  superseded,           \* history: MPs whose arcs another MP has taken over
  multiVF               \* history: some VF arc was added a second time

arcs == <<Carcs, Varcs, rarcs, nash_arcs, nash_rarcs>>
avars == <<mps_len, nashs_len, mptype, Carcs, Varcs, rarcs, nash_arcs, nash_rarcs,
           mps2instantiate, finalized, rc, hidden, superseded, multiVF>>

OK == "OK"
Error_DuplicateValue == "Error_DuplicateValue"
Error_NotFound == "Error_NotFound"
Error_RuntimeError == "Error_RuntimeError"
Error_EMPIncorrectInput == "Error_EMPIncorrectInput"
Error_EMPRuntimeError == "Error_EMPRuntimeError"
Aborted == "Aborted"    \* an assertion failed, and there is no process any more

MPs == 0..(mps_len - 1)
Nashs == 0..(nashs_len - 1)

Elts(s) == {s[i] : i \in 1..Len(s)}

------------------------------------------------------------------------------
\* empdag_init
Init ==
  /\ mps_len = 0 /\ nashs_len = 0
  /\ mptype = [m \in MpIds |-> "none"]
  /\ Carcs = [m \in MpIds |-> {}]
  /\ Varcs = [m \in MpIds |-> <<>>]
  /\ rarcs = [m \in MpIds |-> {}]
  /\ nash_arcs = [n \in NashIds |-> {}]
  /\ nash_rarcs = [n \in NashIds |-> {}]
  /\ mps2instantiate = <<>>
  /\ finalized = FALSE
  /\ rc = OK
  /\ hidden = {}
  /\ superseded = {}
  /\ multiVF = FALSE

\* empdag_addmp and its variants; finalized is left alone
empdag_addmp(type) ==
  /\ mps_len < MaxMps
  /\ mps_len' = mps_len + 1
  /\ mptype' = [mptype EXCEPT ![mps_len] = type]
  /\ rc' = OK
  /\ UNCHANGED <<nashs_len, arcs, mps2instantiate, finalized, hidden, superseded, multiVF>>

\* empdag_addnash and its variants
empdag_addnash ==
  /\ nashs_len < MaxNashs
  /\ nashs_len' = nashs_len + 1
  /\ finalized' = FALSE
  /\ rc' = OK
  /\ UNCHANGED <<mps_len, mptype, arcs, mps2instantiate, hidden, superseded, multiVF>>

(***************************************************************************)
(* The arc operations insert the forward arc first (adduniqsorted fails on *)
(* a value that is there), and the reverse arc only when that worked.      *)
(***************************************************************************)
empdag_nashaddmpbyid(n, m) ==
  LET defined == mptype[m] # "undef"
      fwd == defined /\ mpid2uid(m) \notin nash_arcs[n]
      both == fwd /\ nashid2uid(n) \notin rarcs[m]
      waits == defined /\ mptype[m] = "ccflib"
  IN  /\ waits => Len(mps2instantiate) < MaxInst
      /\ mps2instantiate' = IF waits THEN Append(mps2instantiate, m)
                                     ELSE mps2instantiate
      /\ nash_arcs' = IF fwd THEN [nash_arcs EXCEPT ![n] = @ \cup {mpid2uid(m)}]
                             ELSE nash_arcs
      /\ rarcs' = IF both THEN [rarcs EXCEPT ![m] = @ \cup {nashid2uid(n)}]
                          ELSE rarcs
      /\ finalized' = (finalized /\ ~both)
      /\ rc' = IF both THEN OK
               ELSE IF defined THEN Error_DuplicateValue ELSE Error_RuntimeError
      /\ UNCHANGED <<mps_len, nashs_len, mptype, Carcs, Varcs, nash_rarcs,
                     hidden, superseded, multiVF>>

\* the VF arc is appended even when there is one already: adduniqnofail
empdag_mpVFmpbyid(p, c) ==
  /\ p # c
  /\ Len(Varcs[p]) < MaxVarcs
  /\ rarcs' = [rarcs EXCEPT ![c] = @ \cup {rarcVFuid(mpid2uid(p))}]
  /\ Varcs' = [Varcs EXCEPT ![p] = Append(@, c)]
  /\ multiVF' = (multiVF \/ c \in Elts(Varcs[p]))
  /\ finalized' = FALSE
  /\ rc' = OK
  /\ UNCHANGED <<mps_len, nashs_len, mptype, Carcs, nash_arcs, nash_rarcs,
                 mps2instantiate, hidden, superseded>>

\* Mutant: a reverse arc of any type stands in the way of a CTRL one.
empdag_mpCTRLmpbyid_AnyArc(p, c) ==
  LET fwd == mpid2uid(c) \notin Carcs[p]
      both == fwd /\ rarcs[c] \cap {mpid2uid(p), rarcVFuid(mpid2uid(p))} = {}
  IN  /\ p # c
      /\ Carcs' = IF fwd THEN [Carcs EXCEPT ![p] = @ \cup {mpid2uid(c)}] ELSE Carcs
      /\ rarcs' = IF both THEN [rarcs EXCEPT ![c] = @ \cup {rarcCTRLuid(mpid2uid(p))}]
                          ELSE rarcs
      /\ finalized' = (finalized /\ ~both)
      /\ rc' = IF both THEN OK ELSE Error_DuplicateValue
      /\ UNCHANGED <<mps_len, nashs_len, mptype, Varcs, nash_arcs, nash_rarcs,
                     mps2instantiate, hidden, superseded, multiVF>>

\* Mutant: finalized is left alone when the child has a parent already.
empdag_mpCTRLmpbyid_KeepsFinal(p, c) ==
  LET fwd == mpid2uid(c) \notin Carcs[p]
      both == fwd /\ rarcCTRLuid(mpid2uid(p)) \notin rarcs[c]
  IN  /\ p # c
      /\ Carcs' = IF fwd THEN [Carcs EXCEPT ![p] = @ \cup {mpid2uid(c)}] ELSE Carcs
      /\ rarcs' = IF both THEN [rarcs EXCEPT ![c] = @ \cup {rarcCTRLuid(mpid2uid(p))}]
                          ELSE rarcs
      /\ finalized' = (finalized /\ (~both \/ rarcs[c] # {}))
      /\ rc' = IF both THEN OK ELSE Error_DuplicateValue
      /\ UNCHANGED <<mps_len, nashs_len, mptype, Varcs, nash_arcs, nash_rarcs,
                     mps2instantiate, hidden, superseded, multiVF>>

empdag_mpCTRLmpbyid(p, c) ==
  LET fwd == mpid2uid(c) \notin Carcs[p]
      both == fwd /\ rarcCTRLuid(mpid2uid(p)) \notin rarcs[c]
  IN  /\ p # c
      /\ Carcs' = IF fwd THEN [Carcs EXCEPT ![p] = @ \cup {mpid2uid(c)}] ELSE Carcs
      /\ rarcs' = IF both THEN [rarcs EXCEPT ![c] = @ \cup {rarcCTRLuid(mpid2uid(p))}]
                          ELSE rarcs
      /\ finalized' = (finalized /\ ~both)
      /\ rc' = IF both THEN OK ELSE Error_DuplicateValue
      /\ UNCHANGED <<mps_len, nashs_len, mptype, Varcs, nash_arcs, nash_rarcs,
                     mps2instantiate, hidden, superseded, multiVF>>

empdag_mpCTRLnashbyid(p, n) ==
  LET fwd == nashid2uid(n) \notin Carcs[p]
      both == fwd /\ rarcCTRLuid(mpid2uid(p)) \notin nash_rarcs[n]
  IN  /\ Carcs' = IF fwd THEN [Carcs EXCEPT ![p] = @ \cup {nashid2uid(n)}] ELSE Carcs
      /\ nash_rarcs' =
           IF both THEN [nash_rarcs EXCEPT ![n] = @ \cup {rarcCTRLuid(mpid2uid(p))}]
                   ELSE nash_rarcs
      /\ finalized' = (finalized /\ ~both)
      /\ rc' = IF both THEN OK ELSE Error_DuplicateValue
      /\ UNCHANGED <<mps_len, nashs_len, mptype, Varcs, rarcs, nash_arcs,
                     mps2instantiate, hidden, superseded, multiVF>>

------------------------------------------------------------------------------
(***************************************************************************)
(* empdag_substitute_mp_arcs.  The parents of old become parents of new,   *)
(* then the children of old become children of new; old keeps its own      *)
(* Carcs and Varcs.  In the first part every rmsorted finds its value and  *)
(* every adduniqsorted inserts it, by RarcsHaveArcs below.                 *)
(***************************************************************************)
Swap(S, x, y) == IF x \in S THEN (S \ {x}) \cup {y} ELSE S

\* Mutant: everything from the match on is replaced.
SwapFirst_FromMatch(s, x, y) ==
  [i \in 1..Len(s) |-> IF \E j \in 1..i : s[j] = x THEN y ELSE s[i]]

\* the loop over varcs_arr leaves after the first match
SwapFirst(s, x, y) ==
  [i \in 1..Len(s) |->
     IF s[i] = x /\ \A j \in 1..(i - 1) : s[j] # x THEN y ELSE s[i]]

\* Mutant: the new MP does not get the reverse arcs.
RarcsParents_Lost(old, new) == [rarcs EXCEPT ![old] = {}]

\* what empdag_substitute_mp_parents_arcs makes of rarcs, Carcs, Varcs, nash_arcs
RarcsParents(old, new) == [rarcs EXCEPT ![new] = rarcs[old], ![old] = {}]

CarcsParents(old, new) ==
  [p \in MpIds |-> IF rarcCTRLuid(mpid2uid(p)) \in rarcs[old]
                   THEN Swap(Carcs[p], mpid2uid(old), mpid2uid(new)) ELSE Carcs[p]]

VarcsParents(old, new) ==
  [p \in MpIds |-> IF rarcVFuid(mpid2uid(p)) \in rarcs[old]
                   THEN SwapFirst(Varcs[p], old, new) ELSE Varcs[p]]

\* Mutant: Nash nodes keep the old MP.
NashParents_Keep(old, new) == nash_arcs

NashParents(old, new) ==
  [n \in NashIds |-> IF nashid2uid(n) \in rarcs[old]
                     THEN Swap(nash_arcs[n], mpid2uid(old), mpid2uid(new))
                     ELSE nash_arcs[n]]

\* Mutant: the CTRL reverse arc is looked for in the children over VF arcs.
VarcsStuck_Ctrl(old, new) ==
  {i \in 1..Len(Varcs[old]) :
     rarcCTRLuid(mpid2uid(old)) \notin RarcsParents(old, new)[Varcs[old][i]]}

(***************************************************************************)
(* The loop of empdag_substitute_mp_child_arcs over the VF arcs of old:    *)
(* the reverse arc is removed from, and re-inserted in, each child.  It    *)
(* stops at the first child whose reverse arc is not (or no longer) there. *)
(***************************************************************************)
VarcsStuck(old, new) ==
  {i \in 1..Len(Varcs[old]) :
     \/ rarcVFuid(mpid2uid(old)) \notin RarcsParents(old, new)[Varcs[old][i]]
     \/ \E j \in 1..(i - 1) : Varcs[old][j] = Varcs[old][i]}

VarcsMoved(old, new) ==
  {Varcs[old][i] : i \in {k \in 1..Len(Varcs[old]) :
                            \A j \in 1..k : j \notin VarcsStuck(old, new)}}

RarcsChildren(old, new) ==
  LET done == VarcsStuck(old, new) = {}
      r == RarcsParents(old, new)
      uid == mpid2uid(old)
      Vmoved(c) == IF c \in VarcsMoved(old, new)
                   THEN Swap(r[c], rarcVFuid(uid), rarcVFuid(mpid2uid(new)))
                   ELSE r[c]
  IN  [c \in MpIds |-> IF done /\ mpid2uid(c) \in Carcs[old]
                       THEN Swap(Vmoved(c), rarcCTRLuid(uid),
                                 rarcCTRLuid(mpid2uid(new)))
                       ELSE Vmoved(c)]

NashRarcsChildren(old, new) ==
  [n \in NashIds |->
     IF VarcsStuck(old, new) = {} /\ nashid2uid(n) \in Carcs[old]
     THEN Swap(nash_rarcs[n], rarcCTRLuid(mpid2uid(old)), rarcCTRLuid(mpid2uid(new)))
     ELSE nash_rarcs[n]]

(***************************************************************************)
(* The loop over the CTRL arcs asserts chk_mpid_() and chk_nashid_(), which *)
(* return OK, that is 0, for a valid id: they fail for every child.        *)
(***************************************************************************)
ChildAssertFails(old, new) == VarcsStuck(old, new) = {} /\ Carcs[old] # {}

empdag_substitute_mp_arcs(old, new) ==
  /\ "release" \in Builds \/ ~ChildAssertFails(old, new)
  /\ rarcs' = RarcsChildren(old, new)
  /\ nash_rarcs' = NashRarcsChildren(old, new)
  /\ nash_arcs' = NashParents(old, new)
  /\ Varcs' = [VarcsParents(old, new) EXCEPT ![new] = Varcs[old]]
  /\ Carcs' = IF VarcsStuck(old, new) = {}
              THEN [CarcsParents(old, new) EXCEPT ![new] = Carcs[old]]
              ELSE CarcsParents(old, new)
  /\ rc' = IF VarcsStuck(old, new) = {} THEN OK ELSE Error_NotFound
  /\ superseded' = superseded \cup {old}
  /\ finalized' = FALSE

\* no arc starts or ends at MP m
Unlinked(m) ==
  /\ Carcs[m] = {} /\ Varcs[m] = <<>> /\ rarcs[m] = {}
  /\ \A p \in MpIds : mpid2uid(m) \notin Carcs[p] /\ m \notin Elts(Varcs[p])
  /\ \A n \in NashIds : mpid2uid(m) \notin nash_arcs[n]

\* a CCFLIB MP that may get its dual, and one that may get its instance
Dualizable(old) == mps_len < MaxMps /\ mptype[old] = "ccflib" /\ old \notin superseded

Instantiable(old, new) ==
  /\ mptype[old] = "ccflib" /\ old \notin superseded
  /\ \E n \in Nashs : mpid2uid(old) \in nash_arcs[n]
  /\ mptype[new] = "opt" /\ new # old /\ Unlinked(new)

\* Mutant: the dual is taken to have the id after its own.
dualize_NextId(old) ==
  /\ Dualizable(old)
  /\ mps_len' = mps_len + 1
  /\ mptype' = [mptype EXCEPT ![mps_len] = "opt"]
  /\ empdag_substitute_mp_arcs(old, mps_len + 1)
  /\ hidden' = IF VarcsStuck(old, mps_len + 1) = {} THEN hidden \cup {old} ELSE hidden
  /\ UNCHANGED <<nashs_len, mps2instantiate, multiVF>>

\* ccflib_get_mp_and_sense: the dual of a CCFLIB MP is created and replaces it; the
\* primal is hidden once all of its arcs are moved
dualize(old) ==
  /\ Dualizable(old)
  /\ mps_len' = mps_len + 1
  /\ mptype' = [mptype EXCEPT ![mps_len] = "opt"]
  /\ empdag_substitute_mp_arcs(old, mps_len)
  /\ hidden' = IF VarcsStuck(old, mps_len) = {} THEN hidden \cup {old} ELSE hidden
  /\ UNCHANGED <<nashs_len, mps2instantiate, multiVF>>

\* the loop body of mdl_analyze_emp_for_fooc, on a CCFLIB MP of a Nash node: the instance made by
\* mp_instantiate, which no arc touches yet, replaces it
substitute_instance(old, new) ==
  /\ Instantiable(old, new)
  /\ empdag_substitute_mp_arcs(old, new)
  /\ UNCHANGED <<mps_len, nashs_len, mptype, mps2instantiate, hidden, multiVF>>

\* either of the two in a debug build, when the MP has children over CTRL arcs: what the
\* process had done to the arcs is lost with it
substitution_aborts ==
  /\ "debug" \in Builds
  /\ \E old \in MPs :
       \/ Dualizable(old) /\ ChildAssertFails(old, mps_len)
       \/ \E new \in MPs : Instantiable(old, new) /\ ChildAssertFails(old, new)
  /\ rc' = Aborted
  /\ UNCHANGED <<mps_len, nashs_len, mptype, arcs, mps2instantiate, finalized, hidden,
                 superseded, multiVF>>

Next ==
  \/ \E type \in MpTypes : empdag_addmp(type)
  \/ empdag_addnash
  \/ \E n \in Nashs, m \in MPs : empdag_nashaddmpbyid(n, m)
  \/ \E p, c \in MPs : empdag_mpVFmpbyid(p, c)
  \/ \E p, c \in MPs : empdag_mpCTRLmpbyid(p, c)
  \/ \E p \in MPs, n \in Nashs : empdag_mpCTRLnashbyid(p, n)
  \/ \E old \in MPs : dualize(old)
  \/ \E old, new \in MPs : substitute_instance(old, new)
  \/ substitution_aborts

Spec == Init /\ [][rc # Aborted /\ Next]_avars

------------------------------------------------------------------------------
\* the uids of the nodes in use, and the values rarcs may hold
MpUids == {mpid2uid(m) : m \in MPs}
NodeUids == MpUids \cup {nashid2uid(n) : n \in Nashs}
RarcUids == NodeUids \cup {rarcVFuid(mpid2uid(p)) : p \in MPs}

\* Types, and: arcs start and end at nodes in use, none at both ends of one MP
\* (the assert()s of the arc operations).
TypeOK ==
  /\ mps_len \in 0..MaxMps /\ nashs_len \in 0..MaxNashs
  /\ mptype \in [MpIds -> MpTypes \cup {"none"}]
  /\ Carcs \in [MpIds -> SUBSET NodeUids]
  /\ Varcs \in [MpIds -> Seq(MPs)]
  /\ rarcs \in [MpIds -> SUBSET RarcUids]
  /\ nash_arcs \in [NashIds -> SUBSET MpUids]
  /\ nash_rarcs \in [NashIds -> SUBSET MpUids]
  /\ mps2instantiate \in Seq(MPs)
  /\ finalized \in BOOLEAN /\ multiVF \in BOOLEAN
  /\ rc \in {OK, Error_DuplicateValue, Error_NotFound, Error_RuntimeError,
             Error_EMPIncorrectInput, Error_EMPRuntimeError, Aborted}
  /\ hidden \subseteq MPs /\ superseded \subseteq MPs

\* Nothing starts at an id that is not in use, and no MP is its own child.
NoStrayArcs ==
  /\ \A m \in MpIds : m \notin MPs =>
       /\ Carcs[m] = {} /\ Varcs[m] = <<>> /\ rarcs[m] = {}
  /\ \A n \in NashIds : n \notin Nashs => nash_arcs[n] = {} /\ nash_rarcs[n] = {}
  /\ \A m \in MpIds : mpid2uid(m) \notin Carcs[m] /\ m \notin Elts(Varcs[m])

\* A reverse arc is backed by the forward arc of its parent, whatever was added
\* and replaced before: the rmsorted() calls of the substitution rely on it.
RarcsHaveArcs ==
  /\ \A p, c \in MpIds :
       /\ rarcCTRLuid(mpid2uid(p)) \in rarcs[c] => mpid2uid(c) \in Carcs[p]
       /\ rarcVFuid(mpid2uid(p)) \in rarcs[c] => c \in Elts(Varcs[p])
  /\ \A n \in NashIds, c \in MpIds : nashid2uid(n) \in rarcs[c] => mpid2uid(c) \in nash_arcs[n]
  /\ \A p \in MpIds, n \in NashIds :
       rarcCTRLuid(mpid2uid(p)) \in nash_rarcs[n] => nashid2uid(n) \in Carcs[p]

\* The forward arcs of an MP that was not replaced, and of a Nash node, have their
\* reverse arc with the child; for VF arcs as long as none was added twice.  The
\* analysis compares the two counts (empdag_analysis), and refuses a DAG where
\* they differ.
ArcsHaveRarcs ==
  /\ \A p, c \in MpIds : p \notin superseded =>
       /\ mpid2uid(c) \in Carcs[p] => rarcCTRLuid(mpid2uid(p)) \in rarcs[c]
       /\ ~multiVF /\ c \in Elts(Varcs[p]) => rarcVFuid(mpid2uid(p)) \in rarcs[c]
  /\ \A n \in NashIds, c \in MpIds : mpid2uid(c) \in nash_arcs[n] => nashid2uid(n) \in rarcs[c]
  /\ \A p \in MpIds, n \in NashIds : p \notin superseded =>
       (nashid2uid(n) \in Carcs[p] => rarcCTRLuid(mpid2uid(p)) \in nash_rarcs[n])

\* As long as no VF arc was added twice, the VF arcs of an MP have distinct children.
VarcsDistinct ==
  ~multiVF => \A p \in MpIds : \A i, j \in 1..Len(Varcs[p]) :
                Varcs[p][i] = Varcs[p][j] => i = j

\* An arc operation that returns an error has not touched any arc: the forward
\* array refuses a duplicate before the reverse one could.
FailedAddChangesNoArc ==
  [][rc' \in {Error_DuplicateValue, Error_RuntimeError} => UNCHANGED arcs]_avars

\* A substitution of arcs stops half-way only when a VF arc was added twice or, in a
\* build with assertions, when a CCFLIB MP has children over CTRL arcs.
SubstitutionCompletes ==
  [][/\ rc' = Error_NotFound => multiVF
     /\ rc' = Aborted =>
          /\ "debug" \in Builds
          /\ \E old \in MPs : mptype[old] = "ccflib" /\ Carcs[old] # {}]_avars

\* The assertions on the children of a replaced MP hold: they do not.
ChildAssertsHold == rc # Aborted
=============================================================================
