---------------------------- MODULE FoocInstances ----------------------------
(***************************************************************************)
(* How the CCFLIB MPs of a Nash node are replaced before the first-order   *)
(* optimality conditions (FOOC) are computed.  rmdl_empdag_transform makes *)
(* an instance for each MP of mps2instantiate; mdl_analyze_emp_for_fooc    *)
(* walks over the children of the root Nash node and has the instance take *)
(* over the arcs of its CCFLIB MP, which changes the very array it walks   *)
(* over; fooc_data_empdag then collects the children, and the FOOC code    *)
(* accepts MPs of type Opt and Vi only.  The build is one without          *)
(* assertions: with them the substitution of an MP that has CTRL children  *)
(* aborts (EmpDagArcs!ChildAssertFails).                                   *)
(***************************************************************************)
EXTENDS UIntArray, EmpDagUid, FiniteSets

CONSTANTS
  NumMps,       \* the MPs before the instances are made: 0..NumMps-1
  MaxCcflib,    \* bound on the CCFLIB MPs among the children
  MaxRepeat     \* bound on the times an MP is queued again for instantiation

ASSUME FoocAssumption ==
  NumMps \in Nat \ {0} /\ MaxCcflib \in Nat /\ MaxRepeat \in Nat

VARIABLES
  kids,              \* the children of the root Nash node as they were given, for the record
  mptype,            \* the types of the MPs that were created
  children,          \* nashs.arcs of the root Nash node: sorted uids
  mps2instantiate,   \* in the order of the calls to empdag_nashaddmpbyid
  instance,          \* ccflib.mp_instance, of the MPs that have one
  phase,             \* "instantiate", "analyze", "collect" or "done"
  i, nb_mp,          \* the loop index, and the bound of the loop of "analyze"
  childless,         \* the MPs for which childless_mp is true
  status,            \* of the phase
  mplist             \* fooc_dat->mps

fvars == <<kids, mptype, children, mps2instantiate, instance, phase, i, nb_mp, childless,
           status, mplist>>

NA == -1
Error_RuntimeError == "Error_RuntimeError"
Error_OperationNotAllowed == "Error_OperationNotAllowed"
Error_NotImplemented == "Error_NotImplemented"

Created == DOMAIN mptype
ChildIds(arr_) == {uid2id(u) : u \in Elts(arr_)}
SortedSeq(S) ==
  CHOOSE s \in [1..Cardinality(S) -> S] :
    \A a, b \in 1..Cardinality(S) : a < b => s[a] < s[b]

------------------------------------------------------------------------------
(***************************************************************************)
(* A root Nash node with at least one child.  An MP is queued each time it *)
(* is made the child of a Nash node, so one that has two Nash parents is   *)
(* queued twice.                                                           *)
(***************************************************************************)
Init ==
  /\ kids \in SUBSET (0..(NumMps - 1)) \ {{}}
  /\ \E ccflibs \in {S \in SUBSET kids : Cardinality(S) <= MaxCcflib} :
       /\ mptype = [m \in 0..(NumMps - 1) |-> IF m \in ccflibs THEN "ccflib" ELSE "opt"]
       /\ children = SortedSeq({mpid2uid(m) : m \in kids})
       /\ mps2instantiate \in
            UNION {{q \in [1..n -> ccflibs] : {q[k] : k \in 1..n} = ccflibs} :
                   n \in Cardinality(ccflibs)..(Cardinality(ccflibs) + MaxRepeat)}
       /\ instance = [m \in 0..(NumMps - 1) |-> NA]
       /\ phase = "instantiate" /\ i = 0 /\ nb_mp = 0
       /\ childless \in {0..(NumMps - 1)} \cup {(0..(NumMps - 1)) \ {m} : m \in kids}
       /\ status = OK
       /\ mplist = <<>>

Stop(rc_) == phase' = "done" /\ status' = rc_

\* Mutant: the instance is recorded with the MP at the position in the queue.
mp_instantiate_Slot ==
  /\ phase = "instantiate" /\ i < Len(mps2instantiate)
  /\ LET m == mps2instantiate[i + 1]
         id == Cardinality(Created)
     IN  IF instance[m] # NA
         THEN Stop(Error_RuntimeError) /\ UNCHANGED <<mptype, instance, childless, i>>
         ELSE /\ mptype' = [x \in 0..id |-> IF x = id THEN "opt" ELSE mptype[x]]
              /\ instance' = [x \in 0..id |-> IF x = i THEN id
                                              ELSE IF x = id THEN NA ELSE instance[x]]
              /\ childless' = childless \cup {id}
              /\ i' = i + 1
              /\ UNCHANGED <<phase, status>>
  /\ UNCHANGED <<kids, children, mps2instantiate, nb_mp, mplist>>

(***************************************************************************)
(* The loop of rmdl_empdag_transform over mps2instantiate: mp_instantiate  *)
(* creates an MP, whose id is the next one, and refuses to do it twice.    *)
(***************************************************************************)
mp_instantiate ==
  /\ phase = "instantiate" /\ i < Len(mps2instantiate)
  /\ LET m == mps2instantiate[i + 1]
         id == Cardinality(Created)
     IN  IF instance[m] # NA
         THEN Stop(Error_RuntimeError) /\ UNCHANGED <<mptype, instance, childless, i>>
         ELSE /\ mptype' = [x \in 0..id |-> IF x = id THEN "opt" ELSE mptype[x]]
              /\ instance' = [x \in 0..id |-> IF x = m THEN id
                                              ELSE IF x = id THEN NA ELSE instance[x]]
              /\ childless' = childless \cup {id}
              /\ i' = i + 1
              /\ UNCHANGED <<phase, status>>
  /\ UNCHANGED <<kids, children, mps2instantiate, nb_mp, mplist>>

\* Mutant: the last child is left out.
analyze_start_Short ==
  /\ phase = "instantiate" /\ i = Len(mps2instantiate)
  /\ phase' = "analyze" /\ i' = 0 /\ nb_mp' = Len(children) - 1
  /\ UNCHANGED <<kids, mptype, children, mps2instantiate, instance, childless, status,
                 mplist>>

\* the head of mdl_analyze_emp_for_fooc; nb_mp is read once
analyze_start ==
  /\ phase = "instantiate" /\ i = Len(mps2instantiate)
  /\ phase' = "analyze" /\ i' = 0 /\ nb_mp' = Len(children)
  /\ UNCHANGED <<kids, mptype, children, mps2instantiate, instance, childless, status,
                 mplist>>

\* Mutant: the CCFLIB MP is removed and nothing is added.
substitute_NoAdd(arr_, old, new) == rhp_uint_rmsorted(arr_, mpid2uid(old)).arr

\* Mutant: the instance is added and the CCFLIB MP stays.
substitute_NoRm(arr_, old, new) ==
  rhp_uint_adduniqsorted(arr_, mpid2uid(new)).arr

\* Mutant: the instance is put where the CCFLIB MP was.
substitute_InPlace(arr_, old, new) ==
  [k \in 1..Len(arr_) |-> IF arr_[k] = mpid2uid(old) THEN mpid2uid(new) ELSE arr_[k]]

\* empdag_substitute_mp_parents_arcs on the children of the Nash node
substitute(arr_, old, new) ==
  rhp_uint_adduniqsorted(rhp_uint_rmsorted(arr_, mpid2uid(old)).arr, mpid2uid(new)).arr

\* Mutant: the index moves past CCFLIB MPs only.
analyze_child_Stuck ==
  /\ phase = "analyze" /\ i < nb_mp
  /\ LET m == uid2id(children[i + 1])
     IN  IF mptype[m] = "ccflib" /\ instance[m] = NA
         THEN Stop(Error_RuntimeError) /\ UNCHANGED <<children, childless, i>>
         ELSE /\ children' = IF mptype[m] = "ccflib"
                             THEN substitute(children, m, instance[m]) ELSE children
              /\ status' = IF m \in childless THEN status ELSE Error_OperationNotAllowed
              /\ childless' = IF mptype[m] = "ccflib" /\ m \notin childless
                              THEN childless \ {instance[m]} ELSE childless
              /\ i' = IF mptype[m] = "ccflib" THEN i + 1 ELSE i
              /\ UNCHANGED phase
  /\ UNCHANGED <<kids, mptype, mps2instantiate, instance, nb_mp, mplist>>

(***************************************************************************)
(* The body of the loop over mps->arr[i].  An MP with children makes the   *)
(* analysis fail, but only after the loop; its instance takes its children.*)
(***************************************************************************)
analyze_child ==
  /\ phase = "analyze" /\ i < nb_mp
  /\ LET m == uid2id(children[i + 1])
     IN  IF mptype[m] = "ccflib" /\ instance[m] = NA
         THEN Stop(Error_RuntimeError) /\ UNCHANGED <<children, childless, i>>
         ELSE /\ children' = IF mptype[m] = "ccflib"
                             THEN substitute(children, m, instance[m]) ELSE children
              /\ status' = IF m \in childless THEN status ELSE Error_OperationNotAllowed
              /\ childless' = IF mptype[m] = "ccflib" /\ m \notin childless
                              THEN childless \ {instance[m]} ELSE childless
              /\ i' = i + 1
              /\ UNCHANGED phase
  /\ UNCHANGED <<kids, mptype, mps2instantiate, instance, nb_mp, mplist>>

\* the end of mdl_analyze_emp_for_fooc
analyze_end ==
  /\ phase = "analyze" /\ i = nb_mp
  /\ phase' = IF status = OK THEN "collect" ELSE "done"
  /\ UNCHANGED <<kids, mptype, children, mps2instantiate, instance, i, nb_mp, childless,
                 status, mplist>>

\* fooc_data_empdag, then the switch over the types of the MPs
fooc_data_empdag ==
  /\ phase = "collect"
  /\ mplist' = SortedSeq(ChildIds(children))
  /\ Stop(IF \A m \in ChildIds(children) : mptype[m] \in {"opt", "vi"} THEN OK
          ELSE Error_NotImplemented)
  /\ UNCHANGED <<kids, mptype, children, mps2instantiate, instance, i, nb_mp, childless>>

Done == phase = "done" /\ UNCHANGED fvars

Next == mp_instantiate \/ analyze_start \/ analyze_child \/ analyze_end
          \/ fooc_data_empdag \/ Done

\* one thread runs the transformation to its end
Spec == Init /\ [][Next]_fvars /\ WF_fvars(Next)

------------------------------------------------------------------------------
\* Types; the loop index stays within the array although the array changes.
TypeOK ==
  /\ children \in Seq({mpid2uid(m) : m \in Created})
  /\ instance \in [Created -> Created \cup {NA}]
  /\ phase \in {"instantiate", "analyze", "collect", "done"}
  /\ phase = "analyze" /\ i < nb_mp => i < Len(children)

\* MP m is represented by its instance.
Replaced(m) == instance[m] # NA /\ instance[m] \in ChildIds(children)

\* The original children are still represented, each by itself or by an instance of its
\* own, which only a CCFLIB MP has, and never by both; and no other MP is a child: while
\* the array is rewritten under the loop no child is lost, doubled or made up.
OneRepresentative ==
  /\ \A m \in kids : /\ m \in ChildIds(children) <=> ~ Replaced(m)
                      /\ Replaced(m) => mptype[m] = "ccflib"
                      /\ \A k \in kids : Replaced(m) /\ instance[k] = instance[m] => k = m
  /\ ChildIds(children) \subseteq kids \cup {instance[m] : m \in kids}

\* The array that the binary searches of rmsorted and adduniqsorted work on is
\* sorted after each substitution.
ChildrenSorted == StrictlySorted(children)

\* The array of children is right between any two turns of the loop.
ChildrenExact == TypeOK /\ OneRepresentative /\ ChildrenSorted

\* With one CCFLIB child at most, an analysis that succeeds leaves MPs that the FOOC
\* code supports, wherever that child is in the array.
OneCcflibReplaced ==
  phase \in {"collect", "done"} /\ status \in {OK, Error_NotImplemented}
  /\ Cardinality({m \in 0..(NumMps - 1) : mptype[m] = "ccflib"}) <= 1
  => \A m \in ChildIds(children) : mptype[m] # "ccflib"

\* The transformation ends, although its loop changes the array it walks over; and
\* mp_instantiate or a missing instance makes it fail only when an MP was queued twice.
InstantiatesOnce ==
  <>(/\ phase = "done"
     /\ status = Error_RuntimeError =>
          \E j, k \in 1..Len(mps2instantiate) : j # k /\ mps2instantiate[j] = mps2instantiate[k])

(***************************************************************************)
(* mdl_analyze_emp_for_fooc is there "to see if we can compute the first   *)
(* order optimality conditions": when it succeeds, the FOOC code must not  *)
(* find an MP of a type it does not support.                               *)
(***************************************************************************)
AnalysisPredictsFooc == status # Error_NotImplemented
=============================================================================
