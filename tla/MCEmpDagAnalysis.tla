-------------------------- MODULE MCEmpDagAnalysis --------------------------
(***************************************************************************)
(* Families of small EMPDAGs for the analysis.  An EMPDAG is built from a  *)
(* set of arcs and the kinds of its MPs as the code would leave it after   *)
(* empdag_infer_roots: reverse arcs from the arcs, hidden primal MPs, and  *)
(* the roots, MPs first.                                                   *)
(***************************************************************************)
EXTENDS EmpDagAnalysis

CONSTANTS
  NumMps,    \* the MPs are 0 .. NumMps - 1; there is at most one Nash node
  MaxArcs,   \* bound on the number of arcs
  MaxForeign \* bound, in a tree, on the other MPs whose variables one equation has

MpSet == 0..(NumMps - 1)

\* an arc: its type, the id of the parent, the id of the child
MpArcs(kinds) == {<<k, p, c>> : k \in kinds, p \in MpSet, c \in MpSet}
AllArcs ==
  {a \in MpArcs({"C", "V"}) : a[2] # a[3]}
  \cup {<<"E", p, 0>> : p \in MpSet} \cup {<<"N", 0, c>> : c \in MpSet}

VFOrder(S) == SetToSortSeq(S, LAMBDA x, y : x < y)

SenseOf(kind) == CASE kind = "vi" -> "feas" [] kind \in {"max", "ccflib"} -> "max"
                   [] OTHER -> "min"
TypeOf(kind) == IF kind \in {"min", "max"} THEN "opt" ELSE kind

\* MP 0 is the primal of the dual MPs; it is hidden when no arc leads to it
MkDag(A, kind, nashs, root, foreign) ==
  LET rarcs == [m \in MpSet |->
                 {rarcCTRLuid(mpid2uid(a[2])) : a \in {b \in A : b[1] = "C" /\ b[3] = m}}
                 \cup {rarcVFuid(mpid2uid(a[2])) : a \in {b \in A : b[1] = "V" /\ b[3] = m}}
                 \cup {nashid2uid(a[2]) : a \in {b \in A : b[1] = "N" /\ b[3] = m}}]
      nrarcs == [n \in nashs |-> {mpid2uid(a[2]) : a \in {b \in A : b[1] = "E" /\ b[3] = n}}]
      hidden == [m \in MpSet |-> m = 0 /\ rarcs[0] = {}
                                 /\ \E k \in MpSet : kind[k + 1] = "Dual"]
      roots == SortedUids({mpid2uid(m) : m \in {k \in MpSet : rarcs[k] = {} /\ ~hidden[k]}})
               \o SortedUids({nashid2uid(n) : n \in {k \in nashs : nrarcs[k] = {}}})
  IN  [mps |-> MpSet, nashs |-> nashs, foreign |-> foreign,
       type |-> [m \in MpSet |-> TypeOf(kind[m + 1])],
       sense |-> [m \in MpSet |-> SenseOf(kind[m + 1])],
       hidden |-> hidden, primal |-> [m \in MpSet |-> 0],
       Carcs |-> [m \in MpSet |->
                    {mpid2uid(a[3]) : a \in {b \in A : b[1] = "C" /\ b[2] = m}}
                    \cup {nashid2uid(a[3]) : a \in {b \in A : b[1] = "E" /\ b[2] = m}}],
       Varcs |-> [m \in MpSet |-> VFOrder({a[3] : a \in {b \in A : b[1] = "V" /\ b[2] = m}})],
       narcs |-> [n \in nashs |-> {mpid2uid(a[3]) : a \in {b \in A : b[1] = "N" /\ b[2] = n}}],
       rarcs |-> rarcs, nrarcs |-> nrarcs, roots |-> roots,
       uid_root |-> IF Len(roots) = 1 THEN roots[1]
                    ELSE IF root /\ roots # <<>> THEN roots[1] ELSE EMPDAG_UID_NONE]

\* VF arcs start at an optimisation problem, and a dual MP has no children
Sensible(A, kind) ==
  \A a \in A : /\ a[1] = "V" => kind[a[2] + 1] # "vi"
               /\ a[1] # "N" => kind[a[2] + 1] # "Dual"

UpTo(n, S) == UNION {kSubset(k, S) : k \in 0..n}

\* EMPDAGs with a root; with several, uid_root is kept from an earlier root or unset
Family(ArcSets, kinds, nashs, foreign) ==
  {d \in {MkDag(x[1], x[2], nashs, x[3], foreign) :
            x \in {y \in ArcSets \X kinds \X BOOLEAN : Sensible(y[1], y[2])}} :
     d.roots # <<>>}

KindsSenses == {<<"min", "min", "max">>, <<"min", "max", "min">>}
KindsMixed ==
  {<<"vi", "min", "max">>, <<"min", "vi", "min">>, <<"min", "ccflib", "min">>,
   <<"max", "min", "Dual">>, <<"min", "Dual", "max">>}

MpToMp == {a \in AllArcs : a[1] \in {"C", "V"}}

\* trees: one root, and one arc less than there are nodes
TreeDags ==
  LET kinds == {[k \in 1..NumMps |-> "min"]}
  IN  {d \in Family(kSubset(NumMps, AllArcs), kinds, {0}, MaxForeign)
             \cup Family(kSubset(NumMps - 1, MpToMp), kinds, {}, MaxForeign) :
         Len(d.roots) = 1 /\ IsForest(d)}

\* an MP that was an orphan, and hidden, in an earlier empdag_fini and has parents now
HiddenDags ==
  UNION {{[d EXCEPT !.hidden[h] = TRUE] : h \in {m \in MpSet : d.rarcs[m] # {}}} :
           d \in Family(UpTo(MaxArcs, MpToMp), KindsSenses, {}, 0)}

\* a few arcs between MPs of all kinds, and one arc more for the two that have
\* adversarial MPs, below one root; the trees with variables that cross MPs; and hidden MPs
MCDags ==
  Family(UpTo(MaxArcs, AllArcs), KindsMixed, {0}, 0)
  \cup Family(UpTo(MaxArcs, MpToMp), KindsMixed, {}, 0)
  \cup {d \in Family(UpTo(MaxArcs + 1, AllArcs), KindsSenses, {0}, 0)
              \cup Family(UpTo(MaxArcs + 1, MpToMp), KindsSenses, {}, 0) : Len(d.roots) = 1}
  \cup TreeDags \cup HiddenDags

\* subgraphs of a graph where paths of opposite sense meet above a VF arc
MeetingPaths ==
  Family(SUBSET {<<"N", 0, 0>>, <<"N", 0, 1>>, <<"V", 0, 2>>, <<"V", 1, 2>>, <<"V", 2, 3>>},
         {<<"min", "max", "min", "min">>}, {0}, 0)
=============================================================================
