--------------------------- MODULE EmpDagAnalysis ---------------------------
(***************************************************************************)
(* empdag_analysis (empdag_alg.c) and the type that empdag_infertype then  *)
(* gives the EMPDAG: the choice of the root, the depth-first traversal of  *)
(* EmpDagDfs, the count of the nodes that were seen, the comparison of the *)
(* arcs with the reverse arcs, and the walk over the nodes, parents first, *)
(* that computes levels and says what role the variables of the other MPs  *)
(* play in the equations of an MP.                                         *)
(*                                                                         *)
(* The equations of an MP are abstracted to one, given by the set of MPs   *)
(* whose variables it contains, chosen when the MP is analysed; dag.foreign *)
(* bounds the other MPs among them.                                        *)
(***************************************************************************)
EXTENDS EmpDagDfs

CONSTANTS
  Dags,        \* the EMPDAGs analysed
  JunkLevels,  \* what the level of a node may be before it is written
  Builds       \* the builds of the library: with assertions ("debug"), without ("release")

ASSUME JunkLevelsAssumption == JunkLevels # {} /\ JunkLevels \subseteq Nat

ASSUME BuildsAssumption == Builds # {} /\ Builds \subseteq {"release", "debug"}

(***************************************************************************)
(* The EMPDAGs that empdag_analysis is called for: what the functions that *)
(* add arcs (EmpDagArcs) and infer roots (EmpDagRoots) guarantee. Every    *)
(* reverse arc has its arc; the converse fails for an MP whose arcs a dual *)
(* one has taken over, which keeps its own. Any MP may be hidden: an MP    *)
(* that an earlier empdag_fini has hidden may have got parents since. A    *)
(* dual MP has no children of its own.                                     *)
(***************************************************************************)
RarcsOf(d, m) ==
  {rarcCTRLuid(mpid2uid(p)) : p \in {k \in d.mps : mpid2uid(m) \in d.Carcs[k]}}
  \cup {rarcVFuid(mpid2uid(p)) : p \in {k \in d.mps : m \in Range(d.Varcs[k])}}
  \cup {nashid2uid(n) : n \in {k \in d.nashs : mpid2uid(m) \in d.narcs[k]}}

NashRarcsOf(d, n) == {mpid2uid(p) : p \in {k \in d.mps : nashid2uid(n) \in d.Carcs[k]}}

WellFormedDag(d) ==
  /\ IsFiniteSet(d.mps) /\ IsFiniteSet(d.nashs) /\ d.mps \subseteq Nat /\ d.nashs \subseteq Nat
  /\ d.Carcs \in [d.mps -> SUBSET Nodes(d)]
  /\ d.Varcs \in [d.mps -> Seq(d.mps)]
  /\ d.narcs \in [d.nashs -> SUBSET MpUids(d)]
  /\ \A m \in d.mps : d.rarcs[m] \subseteq RarcsOf(d, m)
  /\ \A n \in d.nashs : d.nrarcs[n] \subseteq NashRarcsOf(d, n)
  /\ d.hidden \in [d.mps -> BOOLEAN]
  /\ d.roots \in Seq(Nodes(d))
  /\ \A m \in d.mps :
       d.type[m] = "Dual" => d.primal[m] \in d.mps /\ d.Carcs[m] = {} /\ d.Varcs[m] = <<>>

ASSUME DagsAssumption == \A d \in Dags : WellFormedDag(d)

VARIABLES
  dag,   \* the EMPDAG, not changed by the analysis
  s,     \* EmpDagDfsData
  an     \* what the analysis found so far, and its verdict

vars == <<dag, s, an>>

\* mp_ppty and nash_ppty come from malloc
Unwritten == -1

------------------------------------------------------------------------------
(***************************************************************************)
(* Relations of the DFS intervals and of the reverse arcs.                 *)
(***************************************************************************)
Rarcs(d, u) == IF uidisMP(u) THEN d.rarcs[uid2id(u)] ELSE d.nrarcs[uid2id(u)]

\* rarcs->arr[0] of a sorted array
FirstRarc(d, u) ==
  IF Rarcs(d, u) = {} THEN EMPDAG_UID_NONE
  ELSE CHOOSE r \in Rarcs(d, u) : \A t \in Rarcs(d, u) : r <= t

\* Mutant: the end of the intervals is not compared.
Encloses_NoPost(t, u, v) == t.preorder[u] < t.preorder[v]

Encloses(t, u, v) == t.preorder[u] < t.preorder[v] /\ t.postorder[u] > t.postorder[v]

is_ancestor(t, p, c) == Encloses(t, mpid2uid(p), mpid2uid(c))

\* the reverse arcs followed upwards from MP c, always the first one
Upward(d, c) ==
  LET up[k \in Nat] == IF k = 0 THEN mpid2uid(c)
                       ELSE IF up[k - 1] = EMPDAG_UID_NONE THEN EMPDAG_UID_NONE
                       ELSE FirstRarc(d, parent_uid(up[k - 1]))
  IN  up

\* tree_get_path_backward: the reverse arcs from MP c up to MP p, <<>> when a node
\* without parent comes first
tree_get_path_backward(d, p, c) ==
  LET up == Upward(d, c)
      hits == {k \in 1..Cardinality(Nodes(d)) :
                 up[k] # EMPDAG_UID_NONE /\ parent_uid(up[k]) = mpid2uid(p)}
  IN  IF hits = {} THEN <<>>
      ELSE LET len == CHOOSE k \in hits : \A j \in hits : k <= j
           IN  [k \in 1..len |-> up[k]]

\* Mutant: VF arcs are counted too.
CtrlEdges_AnyArc(path) == Cardinality({k \in 1..Len(path) : uidisMP(path[k])})

CtrlEdges(path) ==
  Cardinality({k \in 1..Len(path) : uidisMP(path[k]) /\ rarcTypeCtrl(path[k])})

\* nidx_parent: NodeIdxErrNoParent and NodeIdxErrDAG are both "not a node"
nidx_parent(d, u) ==
  IF Cardinality(Rarcs(d, u)) = 1 THEN parent_uid(FirstRarc(d, u)) ELSE EMPDAG_UID_NONE

\* lca, on pairs of nodes: the node that was entered last moves up
lca(d, t) ==
  LET f[p \in Nodes(d) \X Nodes(d)] ==
        LET u == p[1]
            v == p[2]
            Up(fixed, moved) == IF nidx_parent(d, moved) = EMPDAG_UID_NONE
                                THEN EMPDAG_UID_NONE
                                ELSE f[<<fixed, nidx_parent(d, moved)>>]
        IN  CASE t.preorder[u] < t.preorder[v] ->
                   IF t.postorder[u] > t.postorder[v] THEN u ELSE Up(u, v)
              [] OTHER ->
                   IF t.postorder[v] >= t.postorder[u] THEN v ELSE Up(v, u)
  IN  f

(***************************************************************************)
(* The role of a variable of MP v in an equation of MP m, in the order of  *)
(* the tests of analyze_mp.  is_child_Carcs and is_parent compare ids, not *)
(* uids.  An lca that does not exist is EMPDAG_UID_NONE, all of whose bits *)
(* are set: it passes for a Nash node.                                     *)
(***************************************************************************)
is_child_Carcs(d, m, v) == \E u \in d.Carcs[m] : uid2id(u) = v

is_child_Varcs(d, m, v) == v \in Range(d.Varcs[m])

is_parent(d, m, v) == \E r \in d.rarcs[m] : uid2id(r) = v

PathRole(path, with, without) ==
  IF path = <<>> THEN "nopath" ELSE IF CtrlEdges(path) > 0 THEN with ELSE without

Role(d, t, m, v) ==
  CASE v = m -> "own"
    [] is_child_Carcs(d, m, v) -> "sol"
    [] is_child_Varcs(d, m, v) -> "future"
    [] Cardinality(d.rarcs[m]) > 1 -> "parents"
    [] is_parent(d, m, v) ->
         IF rarcTypeVF(FirstRarc(d, mpid2uid(m))) THEN "history" ELSE "ctrl"
    [] is_ancestor(t, v, m) ->
         PathRole(tree_get_path_backward(d, v, m), "ctrl", "history")
    [] is_ancestor(t, m, v) ->
         PathRole(tree_get_path_backward(d, m, v), "sol", "future")
    [] OTHER ->
         LET a == lca(d, t)[<<mpid2uid(m), mpid2uid(v)>>]
         IN  IF a = EMPDAG_UID_NONE \/ uidisNash(a) THEN "nash" ELSE "badlca"

\* the roles that count as an error of the MP
BadRoles == {"future", "parents", "badlca"}

------------------------------------------------------------------------------
(***************************************************************************)
(* Levels.  The first parent is read from mp_ppty or nash_ppty, the others *)
(* always from mp_ppty.                                                    *)
(***************************************************************************)
\* whose level is read for the k-th reverse arc
LevelRead(rs, k) == IF k = 1 THEN parent_uid(rs[k]) ELSE mpid2uid(uid2id(rs[k]))

\* that level, junk standing for what was not written
LevelAt(lvl, rs, k, junk) ==
  LET u == LevelRead(rs, k) IN IF lvl[u] = Unwritten THEN junk[u] ELSE lvl[u]

\* Mutant: a CTRL arc does not add a level.
LevelOver_NoCtrl(lvl, rs, k, junk) == LevelAt(lvl, rs, k, junk)

\* parent_level of the k-th reverse arc
LevelOver(lvl, rs, k, junk) ==
  LevelAt(lvl, rs, k, junk) + IF uidisMP(rs[k]) /\ rarcTypeCtrl(rs[k]) THEN 1 ELSE 0

\* what the levels that are read for the node u may hold
Junk(d, u) ==
  LET rs == SortedUids(Rarcs(d, u))
  IN  [{LevelRead(rs, k) : k \in 1..Len(rs)} -> JunkLevels]

\* mp_ctrledge: what a CTRL arc from an MP of type pt to one of type ct adds to
\* the features at level l; {} when a type is not supported
mp_ctrledge(pt, ct, l) ==
  LET kind == IF ct = "opt" THEN "OptSolMap" ELSE "Vi"
      side == IF pt = "opt" THEN "cons" ELSE "vicons"
  IN  IF pt \notin {"opt", "vi"} \/ ct \notin {"opt", "vi"} THEN {}
      ELSE {<<side, kind>>} \cup IF l > 1 THEN {<<"vicons", "MultiLevel">>} ELSE {}

MultiLevelOf(type, l) ==
  IF l <= 1 THEN {} ELSE {<<IF type = "vi" THEN "vicons" ELSE "cons", "MultiLevel">>}

\* the level of MP v as seen from MP m, at level l, whose equation it appears in
LevelBelow(d, m, l, v) == l + CtrlEdges(tree_get_path_backward(d, m, v))

\* the solution variables that add features: not of a child, and of a level that
\* the arcs of m do not account for
DeepSols(d, m, l, sols) ==
  {v \in sols : /\ ~is_child_Carcs(d, m, v)
                /\ \/ l <= 1 /\ LevelBelow(d, m, l, v) > 1
                   \/ l = 0 /\ LevelBelow(d, m, l, v) = 1}

Fatal == [verdict |-> "fatal", level |-> Unwritten, feat |-> {}, roles |-> {}]

\* analyze_mp on an equation with variables of the MPs of V; a fatal end leaves
\* features behind that no one reads, since the analysis has failed
analyze_mp(d, t, lvl, m, V, junk) ==
  LET rs == SortedUids(d.rarcs[m])
      l == IF rs = <<>> THEN 0 ELSE LevelOver(lvl, rs, 1, junk)
      ctrl == {k \in 1..Len(rs) : uidisMP(rs[k]) /\ rarcTypeCtrl(rs[k])}
      edge(k) == mp_ctrledge(d.type[uid2id(rs[k])], d.type[m], l)
      roles == {<<m, v, Role(d, t, m, v)>> : v \in V}
      deep == DeepSols(d, m, l, {r[2] : r \in {q \in roles : q[3] = "sol"}})
      below(v) == mp_ctrledge(d.type[m], d.type[v], LevelBelow(d, m, l, v))
      foreign == V # {} /\ m \notin V /\ \A v \in V : is_ancestor(t, v, m)
  IN  IF \/ \E k \in ctrl : edge(k) = {}
         \/ \E k \in 2..Len(rs) : LevelOver(lvl, rs, k, junk) # l
         \/ l > 1 /\ d.type[m] \notin {"opt", "ccflib", "vi"}
         \/ \E v \in deep : below(v) = {}
         \/ \E r \in roles : r[3] = "nopath"
      THEN Fatal
      ELSE [verdict |-> IF foreign \/ \E r \in roles : r[3] \in BadRoles
                        THEN "issue" ELSE "fine",
            level |-> l,
            feat |-> (UNION {edge(k) : k \in ctrl}) \cup MultiLevelOf(d.type[m], l)
                     \cup (UNION {below(v) : v \in deep}),
            roles |-> roles]

\* the parents are MPs: all levels come from mp_ppty, and a CTRL arc to a Nash node
\* does not add one.  uidisMP() is asserted of the id of each parent, not of its uid.
analyze_nash(d, lvl, n, junk, build) ==
  LET rs == SortedUids(d.nrarcs[n])
      typeof(k) == d.type[uid2id(rs[k])]
      l == IF rs = <<>> THEN 0 ELSE LevelAt(lvl, rs, 1, junk)
      kind == IF l > 1 THEN "MultiLevel" ELSE "Equil"
      refused(k) == LevelAt(lvl, rs, k, junk) # l \/ typeof(k) \notin {"opt", "vi"}
      asserts(k) == build = "debug" => uidisMP(uid2id(rs[k]))
  IN  CASE \E k \in 1..Len(rs) : ~asserts(k) /\ \A j \in 1..(k - 1) : ~refused(j) ->
             [Fatal EXCEPT !.verdict = "aborted"]
        [] \A k \in 1..Len(rs) : asserts(k) /\ ~refused(k) ->
             [verdict |-> "fine", level |-> l, roles |-> {},
              feat |-> {<<IF typeof(k) = "vi" THEN "vicons" ELSE "cons", kind>> :
                          k \in 1..Len(rs)}]
        [] OTHER -> Fatal

------------------------------------------------------------------------------
\* empdag_infertype
empdag_infertype(rootnode, feat, num_active) ==
  LET cons == {f[2] : f \in {g \in feat : g[1] = "cons"}}
      ByRoot(opt, equil) == CASE rootnode = "RootOpt" -> opt
                              [] rootnode = "RootEquil" -> equil
                              [] OTHER -> "error"
  IN  CASE \E f \in feat : f[1] = "vicons" -> "Complex"
        [] feat = {} /\ rootnode = "RootVi" ->
             IF num_active > 1 THEN "Vi" ELSE "Single_Vi"
        [] feat = {} -> ByRoot(IF num_active > 1 THEN "Opt" ELSE "Single_Opt", "Mopec")
        [] "MultiLevel" \in cons ->
             IF rootnode = "RootEquil" THEN "MultilevelMopec" ELSE "Multilevel"
        [] cons = {"OptSolMap"} -> ByRoot("Bilevel", "Epec")
        [] OTHER -> ByRoot("Mpec", "Epec")

\* the feature of the root node; "none" when its type is not supported
RootFeature(d, u) ==
  IF uidisNash(u) THEN "RootEquil"
  ELSE CASE d.type[uid2id(u)] \in {"opt", "ccflib"} -> "RootOpt"
         [] d.type[uid2id(u)] = "vi" -> "RootVi"
         [] OTHER -> "none"

------------------------------------------------------------------------------
Init ==
  /\ dag \in Dags
  /\ s = dfsdata_init(dag)
  /\ an = [phase |-> "start", status |-> "none", uid_root |-> dag.uid_root,
           rootnode |-> "none", todo |-> 0, issues |-> 0,
           level |-> [u \in Nodes(dag) |-> Unwritten], feat |-> {}, roles |-> {},
           mps2reformulate |-> <<>>, saddle_path_starts |-> <<>>,
           istree |-> FALSE, type |-> "Unset"]

Reject == [an EXCEPT !.phase = "done", !.status = "error"]
Abort == [an EXCEPT !.phase = "done", !.status = "aborted"]

\* the checks on the roots
Start ==
  LET root == IF valid_uid(an.uid_root) THEN an.uid_root ELSE dag.roots[1]
  IN  /\ an.phase = "start"
      /\ an' = IF \/ dag.roots = <<>>
                  \/ Len(dag.roots) > 1 /\ ~valid_uid(an.uid_root)
               THEN Reject
               ELSE IF RootFeature(dag, root) = "none"
               THEN [Reject EXCEPT !.uid_root = root]
               ELSE [an EXCEPT !.phase = "dfs", !.uid_root = root,
                               !.rootnode = RootFeature(dag, root)]
      /\ UNCHANGED <<dag, s>>

\* one step of the traversal
Traverse ==
  /\ an.phase = "dfs" /\ s.mode # "end"
  /\ s' = DfsStep(dag, s)
  /\ UNCHANGED <<dag, an>>

\* MPs that were not reached but are hidden count as seen
HiddenUnseen == {m \in dag.mps : dag.hidden[m] /\ s.stat[mpid2uid(m)] # Processed}

\* Mutant: nodes may be missing.
AllSeen_OrLess == Len(s.topo_order) + s.num_visited_dual <= Cardinality(Nodes(dag))

AllSeen ==
  LET visited == Len(s.topo_order) + s.num_visited_dual
  IN  \/ visited = Cardinality(Nodes(dag))
      \/ visited + Cardinality(HiddenUnseen) = Cardinality(Nodes(dag))

\* Mutant: the arcs of Nash nodes are forgotten on one side.
ArcsMatchRarcs_NoNash ==
  \A m \in dag.mps :
    s.num_ancestors[mpid2uid(m)] = Cardinality({r \in dag.rarcs[m] : uidisMP(r)})

\* every MP was reached once over each of its reverse arcs
ArcsMatchRarcs ==
  \A m \in dag.mps : s.num_ancestors[mpid2uid(m)] = Cardinality(dag.rarcs[m])

\* after the traversal; the levels and the variables are not looked at when there
\* are dual MPs
Check ==
  /\ an.phase = "dfs" /\ s.mode = "end"
  /\ an' = IF s.rc # RcOK \/ ~AllSeen \/ ~ArcsMatchRarcs THEN Reject
           ELSE [an EXCEPT !.phase = "nodes",
                           !.todo = IF s.num_visited_dual > 0 THEN 0
                                    ELSE Len(s.topo_order)]
  /\ UNCHANGED <<dag, s>>

\* what the analysis of one node adds to what was found
Record(u, a) ==
  IF a.verdict = "fatal" THEN Reject
  ELSE IF a.verdict = "aborted" THEN Abort
  ELSE [an EXCEPT !.todo = @ - 1,
                  !.issues = @ + IF a.verdict = "issue" THEN 1 ELSE 0,
                  !.level[u] = a.level,
                  !.feat = @ \cup a.feat,
                  !.roles = @ \cup a.roles]

EquationVars(m) == {V \in SUBSET dag.mps : Cardinality(V \ {m}) <= dag.foreign}

\* a hidden MP is passed over
AnalyzeMp ==
  /\ an.phase = "nodes" /\ an.todo > 0
  /\ uidisMP(s.topo_order[an.todo])
  /\ LET u == s.topo_order[an.todo]
         m == uid2id(u)
     IN  \E V \in EquationVars(m), junk \in Junk(dag, u) :
           an' = IF dag.hidden[m] THEN [an EXCEPT !.todo = @ - 1]
                 ELSE Record(u, analyze_mp(dag, s, an.level, m, V, junk))
  /\ UNCHANGED <<dag, s>>

AnalyzeNash ==
  /\ an.phase = "nodes" /\ an.todo > 0
  /\ uidisNash(s.topo_order[an.todo])
  /\ LET u == s.topo_order[an.todo]
     IN  \E junk \in Junk(dag, u), build \in Builds :
           an' = Record(u, analyze_nash(dag, an.level, uid2id(u), junk, build))
  /\ UNCHANGED <<dag, s>>

\* topo_order_nidx2tidx
TopoIdx(m) == CHOOSE k \in 1..Len(s.topo_order) : s.topo_order[k] = mpid2uid(m)

\* Mutant: the adversarial MPs are sorted by id.
SortKey_Id(m) == m

\* topo_order_nidx2tidx is 0 for an MP that has no place in the order
SortKey(m) == IF mpid2uid(m) \in Range(s.topo_order) THEN TopoIdx(m) ELSE 1

\* the adversarial MPs sorted by the topological order; then empdag_infertype
Finish ==
  /\ an.phase = "nodes" /\ an.todo = 0
  /\ an' = IF an.issues > 0 THEN Reject
           ELSE [an EXCEPT
                   !.phase = "done", !.status = "OK",
                   !.mps2reformulate =
                      SortSeq(s.adversarial_mps, LAMBDA x, y : SortKey(x) < SortKey(y)),
                   !.saddle_path_starts = s.saddle_path_starts,
                   !.istree = s.isTree,
                   !.type = empdag_infertype(an.rootnode, an.feat, Len(s.topo_order))]
  /\ UNCHANGED <<dag, s>>

Done == an.phase = "done" /\ UNCHANGED vars

Next == Start \/ Traverse \/ Check \/ AnalyzeMp \/ AnalyzeNash \/ Finish \/ Done

\* the analysis runs in one thread, to its end
Spec == Init /\ [][Next]_vars /\ WF_vars(Next)

------------------------------------------------------------------------------
(***************************************************************************)
(* What the analysis should find, from the arcs alone.                     *)
(***************************************************************************)
CtrlArcs(d) == UNION {{<<mpid2uid(p), c>> : c \in d.Carcs[p]} : p \in d.mps}
VFArcs(d) == UNION {{<<mpid2uid(p), mpid2uid(c)>> : c \in Range(d.Varcs[p])} : p \in d.mps}
NashArcs(d) == UNION {{<<nashid2uid(n), c>> : c \in d.narcs[n]} : n \in d.nashs}
Arcs(d) == CtrlArcs(d) \cup VFArcs(d) \cup NashArcs(d)

\* from a dual MP to the primal one that gives it its content
DualSteps(d) == {<<mpid2uid(m), mpid2uid(d.primal[m])>> :
                   m \in {k \in d.mps : d.type[k] = "Dual"}}

\* the transitive closure of a relation on the nodes
Reach(d, R) ==
  LET Squared(Q) == Q \cup {e \in Nodes(d) \X Nodes(d) :
                             \E w \in Nodes(d) : <<e[1], w>> \in Q /\ <<w, e[2]>> \in Q}
      cl[k \in Nat] == IF k = 0 THEN R ELSE Squared(cl[k - 1])
  IN  cl[Cardinality(Nodes(d))]

\* the arcs that do not touch a hidden MP
IsHidden(d, u) == uidisMP(u) /\ d.hidden[uid2id(u)]
ShownArcs(d) == {e \in Arcs(d) : ~IsHidden(d, e[1]) /\ ~IsHidden(d, e[2])}

\* no cycle passes through nodes that are shown only
ShownAcyclic(d) == \A u \in Nodes(d) : <<u, u>> \notin Reach(d, ShownArcs(d))

Acyclic(d) == \A u \in Nodes(d) : <<u, u>> \notin Reach(d, Arcs(d))

AllReachable(d) ==
  LET R == Reach(d, Arcs(d) \cup DualSteps(d))
  IN  \A u \in Nodes(d) :
        \/ u \in Range(d.roots)
        \/ \E r \in Range(d.roots) : <<r, u>> \in R
        \/ uidisMP(u) /\ d.hidden[uid2id(u)]

\* every node has one parent, over one arc
IsForest(d) == \A u \in Nodes(d) : Cardinality(Rarcs(d, u)) <= 1

NoDual(d) == \A m \in d.mps : d.type[m] # "Dual"

Accepted == an.status = "OK"

\* Types of the state of the analysis.
TypeOK ==
  /\ s.stat \in [Nodes(dag) -> {NotExplored, InProgress, Processed, CycleStart, ErrorState}]
  /\ s.mode \in {"call", "loop", "ret", "end"}
  /\ Range(s.topo_order) \subseteq Nodes(dag)
  /\ an.phase \in {"start", "dfs", "nodes", "done"}
  /\ an.status \in {"none", "OK", "error", "aborted"}
  /\ an.level \in [Nodes(dag) -> Nat \cup {Unwritten}]

\* In an EMPDAG that empdag_analysis accepts every cycle passes through a hidden MP,
\* and all of the nodes but the hidden MPs are below a root, although the traversal
\* drops some of the negative codes that report a cycle (process_Varcs, dfs_nash): the
\* nodes left unfinished are missed by the count, unless they are hidden.
AcceptedIsDag == Accepted => ShownAcyclic(dag) /\ AllReachable(dag)

\* Nothing is refused without a reason: a forest below its one root, with
\* children for its Nash nodes, optimisation problems over its arcs, and no
\* variable that crosses MPs (dag.foreign = 0), passes the analysis.  A build with
\* assertions stops at the Nash nodes below an MP whose id is not an MP as a uid.
WellFormedAccepted ==
  /\ dag.foreign = 0 /\ an.phase = "done"
  /\ Acyclic(dag) /\ AllReachable(dag) /\ IsForest(dag) /\ Len(dag.roots) = 1
  /\ \A n \in dag.nashs : dag.narcs[n] # {}
  /\ \A m \in dag.mps : dag.type[m] = "opt"
  => \/ Accepted
     \/ /\ an.status = "aborted" /\ "debug" \in Builds
        /\ \E n \in dag.nashs : \E r \in dag.nrarcs[n] : ~uidisMP(uid2id(r))

\* The analysis ends, on EMPDAGs with cycles too, and its verdict is right: what it
\* accepts is rooted and acyclic up to its hidden MPs, and nothing is refused without
\* a reason.
VerdictExact == <>(an.phase = "done" /\ AcceptedIsDag /\ WellFormedAccepted)

\* The order in which the nodes are finished has children before their parents:
\* the levels and the reformulations are computed along it.
ChildrenFinishFirst ==
  Accepted => \A i, j \in 1..Len(s.topo_order) :
                <<s.topo_order[i], s.topo_order[j]>> \in Arcs(dag) => j < i

\* The intervals [preorder, postorder], which is_ancestor and lca compare, are
\* nested only along paths.  (A hidden MP on a cycle is left without its postorder.)
NestedArePaths ==
  Accepted /\ NoDual(dag) =>
    \A u, v \in Nodes(dag) :
      s.stat[v] = Processed /\ Encloses(s, u, v) => <<u, v>> \in Reach(dag, Arcs(dag))

\* What the traversal leaves for the passes that follow is sound, whatever the
\* EMPDAG: no cycle of shown nodes, children first, nested intervals along paths.
TraversalSound == AcceptedIsDag /\ ChildrenFinishFirst /\ NestedArePaths

\* an accepted EMPDAG without dual MPs and without a cycle through hidden MPs
AcceptedAcyclic == Accepted /\ NoDual(dag) /\ Acyclic(dag)

\* On a tree the intervals are nested along every path.
PathsAreNested ==
  AcceptedAcyclic /\ an.istree =>
    \A u, v \in Nodes(dag) : <<u, v>> \in Reach(dag, Arcs(dag)) => Encloses(s, u, v)

\* features.istree says whether every node has at most one parent.
TreeFlagExact == AcceptedAcyclic => (an.istree <=> IsForest(dag))

\* On a tree tree_get_path_backward stays within the max_depth + 1 uids that
\* analysis_data_init allocates.
PathFits ==
  Accepted /\ an.istree /\ s.num_visited_dual = 0 /\ Acyclic(dag) =>
    \A m, v \in dag.mps :
      is_ancestor(s, m, v) => Len(tree_get_path_backward(dag, m, v)) <= s.max_depth + 1

\* What the traversal says of trees is right: the flag, the intervals and the depth.
TreesExact == TreeFlagExact /\ PathsAreNested /\ PathFits

\* the MPs at which a path of VF arcs starts: roots, and children over other arcs
PathStarts(d) ==
  {m \in d.mps : \/ mpid2uid(m) \in Range(d.roots)
                 \/ \E e \in CtrlArcs(d) \cup NashArcs(d) : e[2] = mpid2uid(m)}

\* the MPs below the start h over VF arcs whose sense is opposite to that of h
AdversariesOf(d, h) ==
  {m \in d.mps : /\ <<mpid2uid(h), mpid2uid(m)>> \in Reach(d, VFArcs(d))
                 /\ {d.sense[h], d.sense[m]} = {"min", "max"}}

Adversaries(d) == UNION {AdversariesOf(d, h) : h \in PathStarts(d)}

\* mps2reformulate holds MPs that really oppose the start of a path they are on,
\* and on a tree all of them, once.
AdversariesExact ==
  AcceptedAcyclic =>
    /\ Range(an.mps2reformulate) \subseteq Adversaries(dag)
    /\ an.istree => /\ Range(an.mps2reformulate) = Adversaries(dag)
                    /\ Len(an.mps2reformulate) = Cardinality(Adversaries(dag))

\* mps2reformulate never has an MP before one of its descendants: a reformulation
\* starts at the bottom of a path.
DeepestFirst ==
  AcceptedAcyclic =>
    \A i, j \in 1..Len(an.mps2reformulate) :
      <<mpid2uid(an.mps2reformulate[i]), mpid2uid(an.mps2reformulate[j])>>
         \in Reach(dag, Arcs(dag)) => j < i

\* The saddle paths cover the adversarial MPs, and each one has such an MP:
\* ccflib_equil works from their starts alone.
SaddlePathsCover ==
  Accepted /\ NoDual(dag) =>
    /\ Range(an.mps2reformulate) \subseteq
         UNION {AdversariesOf(dag, h) : h \in Range(an.saddle_path_starts)}
    /\ \A h \in Range(an.saddle_path_starts) : AdversariesOf(dag, h) # {}

\* The lists that drive the reformulations have the right MPs in the right order.
AdversariesInOrder == AdversariesExact /\ DeepestFirst /\ SaddlePathsCover

\* A level counts the CTRL arcs between MPs above a node, the same over all of its
\* parents that are shown (a hidden MP has no level).  (MPs that a Nash node shares
\* with another parent are apart: the code reads the level of the Nash node from the
\* array of the MPs.)
LevelsAgree ==
  Accepted /\ s.num_visited_dual = 0 =>
    \A e \in ShownArcs(dag) :
      e[1] \in Range(s.topo_order) /\ ~(uidisNash(e[1]) /\ Cardinality(Rarcs(dag, e[2])) > 1)
      => an.level[e[2]] = an.level[e[1]] +
           IF uidisMP(e[1]) /\ uidisMP(e[2]) /\ e \in CtrlArcs(dag) THEN 1 ELSE 0

\* the lowest nodes that are above both u and v
LowestAbove(d, u, v) ==
  LET R == Reach(d, Arcs(d))
      above == {w \in Nodes(d) : <<w, u>> \in R /\ <<w, v>> \in R}
  IN  {w \in above : \A x \in above : <<w, x>> \notin R}

\* the role of a variable of MP v in an equation of MP m, from the paths between them
RefRole(d, m, v) ==
  LET R == Reach(d, Arcs(d))
      V == Reach(d, VFArcs(d))
      x == mpid2uid(m)
      y == mpid2uid(v)
  IN  CASE m = v -> "own"
        [] <<x, y>> \in V -> "future"
        [] <<x, y>> \in R -> "sol"
        [] <<y, x>> \in V -> "history"
        [] <<y, x>> \in R -> "ctrl"
        [] \E w \in LowestAbove(d, x, y) : uidisNash(w) -> "nash"
        [] OTHER -> "badlca"

\* a Nash node that is the parent, or a CTRL child, of m and has the id v
SameId(d, m, v) ==
  /\ v \in d.nashs
  /\ nashid2uid(v) \in d.rarcs[m] \cup d.Carcs[m]

\* On a tree with one root every variable of another MP is given the role that the
\* path between the two MPs implies, whether the analysis then fails or not.
RolesExact ==
  an.phase = "done" /\ IsForest(dag) /\ Len(dag.roots) = 1 =>
    \A r \in an.roles : SameId(dag, r[1], r[2]) \/ r[3] = RefRole(dag, r[1], r[2])

------------------------------------------------------------------------------
(***************************************************************************)
(* What comments and assertions of the code say, and the code does not     *)
(* ensure.                                                                 *)
(***************************************************************************)
\* "Analyze the EMPDAG and check for correctness": what is accepted is acyclic.
AcceptedIsAcyclic == Accepted => Acyclic(dag)

\* The assertions on the parents of a Nash node hold.
NashParentsAreMPs == an.status # "aborted"

\* All the MPs whose sense is opposite to that of a path they are on are listed,
\* on any EMPDAG ("This occurs when the sense of the path and the child MP are
\* opposite").
AdversariesComplete ==
  Accepted /\ NoDual(dag) => Adversaries(dag) \subseteq Range(an.mps2reformulate)

\* "The parent MP owns the variable", "A (direct) child MP owns the variable": the
\* role is right whatever the ids.
RolesExactForAllIds ==
  Accepted /\ an.istree /\ Len(dag.roots) = 1 =>
    \A r \in an.roles : r[3] = RefRole(dag, r[1], r[2])
=============================================================================
