----------------------------- MODULE EmpDagDfs -----------------------------
(***************************************************************************)
(* The depth-first analysis of an EMPDAG (empdag_analysis and the dfs_*    *)
(* functions of empdag_alg.c), as a function from one state of the         *)
(* traversal to the next.  The C recursion is an explicit stack; one step  *)
(* either visits the next child of the top frame, or leaves the top frame  *)
(* and hands its return code to the frame below.                           *)
(*                                                                         *)
(* A dag is the record                                                     *)
(*   [mps, nashs : finite sets of ids,                                     *)
(*    type, sense, hidden, primal : functions on mps,                      *)
(*    Carcs : [mps -> sets of uids], Varcs : [mps -> Seq(mps)],            *)
(*    narcs : [nashs -> sets of uids],                                     *)
(*    rarcs : [mps -> sets of reverse uids], nrarcs : the same for nashs,  *)
(*    roots : Seq of uids, uid_root : uid]                                 *)
(* Arrays kept sorted and duplicate-free by the code are sets here; Varcs, *)
(* filled in the order of the calls, and roots are sequences.              *)
(***************************************************************************)
EXTENDS EmpDagUid, Sequences, FiniteSets, SequencesExt

\* DfsState of rhp_graph_data.h
NotExplored == "NotExplored"
InProgress == "InProgress"
Processed == "Processed"
CycleStart == "CycleStart"
ErrorState == "ErrorState"

\* Return codes: 0, the negative DagErr* codes, and any positive Error_* one
RcOK == 0
ErrCycle == -1
ErrNashNoChild == -2
ErrGeneric == -3
ErrStatus == 1

MpUids(dag) == {mpid2uid(m) : m \in dag.mps}
NashUids(dag) == {nashid2uid(n) : n \in dag.nashs}
Nodes(dag) == MpUids(dag) \cup NashUids(dag)

SortedUids(S) ==
  CHOOSE q \in [1..Cardinality(S) -> S] : \A a, b \in 1..Cardinality(S) : a < b => q[a] < q[b]

\* the children of a node in the order its dfs_* function visits them,
\* tagged by the loop that visits them
CtrlItems(dag, m) ==
  LET s == SortedUids(dag.Carcs[m])
  IN  [k \in 1..Len(s) |-> <<"C", s[k]>>]

VFItems(dag, m) ==
  [k \in 1..Len(dag.Varcs[m]) |-> <<"V", mpid2uid(dag.Varcs[m][k])>>]

NashItems(dag, n) ==
  LET s == SortedUids(dag.narcs[n])
  IN  [k \in 1..Len(s) |-> <<"N", s[k]>>]

------------------------------------------------------------------------------
(***************************************************************************)
(* The state of a traversal, EmpDagDfsData.  mode says what happens next:  *)
(*   "call"  the dfs_* function described by arg is entered,               *)
(*   "loop"  the top frame goes on with its loops over its children,       *)
(*   "ret"   the call made by the top frame returned rc,                   *)
(*   "end"   empdag_analysis has its verdict on the traversal in rc.       *)
(***************************************************************************)
NoCall == [node |-> EMPDAG_UID_NONE, via |-> "R", path |-> "Unset", depth |-> 0,
           start |-> EMPDAG_UID_NONE, registered |-> FALSE]

dfsdata_init(dag) ==
  [stat |-> [u \in Nodes(dag) |-> NotExplored],
   preorder |-> [u \in Nodes(dag) |-> 0],
   postorder |-> [u \in Nodes(dag) |-> 0],
   num_ancestors |-> [u \in Nodes(dag) |-> 0],
   timestamp |-> 0, topo_order |-> <<>>, num_visited_dual |-> 0,
   isTree |-> TRUE, hasVFPath |-> FALSE, adversarial_mps |-> <<>>,
   saddle_path_starts |-> <<>>, max_depth |-> 0,
   stack |-> <<>>, mode |-> "ret", arg |-> NoCall, rc |-> RcOK, roots_done |-> 0]

Top(s) == Last(s.stack)

Return(s, code) == [s EXCEPT !.mode = "ret", !.rc = code, !.arg = NoCall]

Pop(s, code) == Return([s EXCEPT !.stack = Front(@)], code)

\* Mutant: a node that is reached again leaves isTree alone.
SeenBefore_KeepsTree(s, u) ==
  CASE s.stat[u] = InProgress ->
         Return([s EXCEPT !.stat[u] = CycleStart], ErrCycle)
    [] s.stat[u] = Processed -> Return(s, RcOK)
    [] OTHER -> Return([s EXCEPT !.stat[u] = ErrorState], ErrStatus)

\* process_node_state on a node that was reached before, and what the dfs_*
\* function then returns
SeenBefore(s, u) ==
  CASE s.stat[u] = InProgress ->
         Return([s EXCEPT !.stat[u] = CycleStart], ErrCycle)
    [] s.stat[u] = Processed -> Return([s EXCEPT !.isTree = FALSE], RcOK)
    [] OTHER -> Return([s EXCEPT !.stat[u] = ErrorState], ErrStatus)

sense2pathtype(sense) ==
  CASE sense = "min" -> "VFMin" [] sense = "max" -> "VFMax" [] OTHER -> "Unset"

\* Mutant: only the paths that minimise are looked at.
Adversarial_MinOnly(path, sense) == path = "VFMin" /\ sense = "max"

\* the sense of the path and of the child MP are opposite
Adversarial(path, sense) ==
  \/ path = "VFMin" /\ sense = "max"
  \/ path = "VFMax" /\ sense = "min"

------------------------------------------------------------------------------
\* Mutant: dfs_mpC does not start a new path.
NewFrame_OldStart(dag, a) ==
  LET id == uid2id(a.node)
  IN  [node |-> a.node, via |-> a.via, depth |-> a.depth,
       cur |-> <<"none", EMPDAG_UID_NONE>>, last |-> RcOK,
       path |-> CASE a.via = "N" -> "Equil"
                  [] a.via = "V" -> a.path
                  [] OTHER       -> sense2pathtype(dag.sense[id]),
       start |-> IF a.via \in {"V", "C"} THEN a.start ELSE id,
       registered |-> a.via = "V" /\ a.registered,
       todo |-> CASE a.via = "N" -> NashItems(dag, id)
                  [] a.via = "C" -> CtrlItems(dag, id) \o VFItems(dag, id)
                  [] OTHER       -> VFItems(dag, id) \o CtrlItems(dag, id)]

\* Mutant: the depth of the path is not increased by the MPs on it.
NewFrame_NoDepth(dag, a) ==
  LET id == uid2id(a.node)
  IN  [node |-> a.node, via |-> a.via, depth |-> IF a.via = "N" THEN a.depth ELSE a.depth - 1,
       cur |-> <<"none", EMPDAG_UID_NONE>>, last |-> RcOK,
       path |-> CASE a.via = "N" -> "Equil"
                  [] a.via = "V" -> a.path
                  [] OTHER       -> sense2pathtype(dag.sense[id]),
       start |-> IF a.via = "V" THEN a.start ELSE id,
       registered |-> a.via = "V" /\ a.registered,
       todo |-> CASE a.via = "N" -> NashItems(dag, id)
                  [] a.via = "C" -> CtrlItems(dag, id) \o VFItems(dag, id)
                  [] OTHER       -> VFItems(dag, id) \o CtrlItems(dag, id)]

(***************************************************************************)
(* The head of dfs_mpC (via "C"), dfs_mpV ("V"), dfs_mpInNashOrRoot ("R")  *)
(* and dfs_nash ("N").  A dual MP reached over an arc is marked and the    *)
(* same function is called for its primal; a Nash node without child       *)
(* returns at once and stays InProgress.  start and registered are         *)
(* saddle_path_start and saddle_path_registered: a path of VF arcs starts  *)
(* at an MP that was not reached over a VF arc.                            *)
(***************************************************************************)
NewFrame(dag, a) ==
  LET id == uid2id(a.node)
  IN  [node |-> a.node, via |-> a.via, depth |-> a.depth,
       cur |-> <<"none", EMPDAG_UID_NONE>>, last |-> RcOK,
       path |-> CASE a.via = "N" -> "Equil"
                  [] a.via = "V" -> a.path
                  [] OTHER       -> sense2pathtype(dag.sense[id]),
       start |-> IF a.via = "V" THEN a.start ELSE id,
       registered |-> a.via = "V" /\ a.registered,
       todo |-> CASE a.via = "N" -> NashItems(dag, id)
                  [] a.via = "C" -> CtrlItems(dag, id) \o VFItems(dag, id)
                  [] OTHER       -> VFItems(dag, id) \o CtrlItems(dag, id)]

EnterNode(dag, s) ==
  LET a == s.arg
      u == a.node
      f == NewFrame(dag, a)
      isDual == /\ a.via \in {"C", "V"}
                /\ dag.type[uid2id(u)] = "Dual"
      started == [s EXCEPT !.stat[u] = InProgress,
                           !.preorder[u] = s.timestamp + 1,
                           !.timestamp = @ + 1,
                           !.max_depth = IF /\ a.via # "N" /\ f.todo = <<>>
                                            /\ a.depth > @
                                         THEN a.depth ELSE @]
  IN  CASE s.stat[u] # NotExplored -> SeenBefore(s, u)
        [] s.stat[u] = NotExplored /\ isDual ->
             [s EXCEPT !.stat[u] = Processed, !.num_visited_dual = @ + 1,
                       !.arg.node = mpid2uid(dag.primal[uid2id(u)])]
        [] s.stat[u] = NotExplored /\ ~isDual /\ a.via = "N" /\ f.todo = <<>> ->
             Return(started, ErrNashNoChild)
        [] OTHER ->
             [started EXCEPT !.stack = Append(@, f), !.mode = "loop", !.arg = NoCall]

(***************************************************************************)
(* One turn of the loops of process_Carcs, process_Varcs and dfs_nash.     *)
(* The arc equations are taken to be valid (arcVF_chk_equ).                *)
(***************************************************************************)
VisitChild(dag, s) ==
  LET f == Top(s)
      kind == Head(f.todo)[1]
      c == Head(f.todo)[2]
      csense == dag.sense[uid2id(c)]
      adv == Adversarial(f.path, csense)
      counted == [s EXCEPT !.stack[Len(s.stack)].todo = Tail(@),
                           !.stack[Len(s.stack)].cur = <<kind, c>>,
                           !.num_ancestors[c] = @ + 1,
                           !.hasVFPath = @ \/ kind = "V"]
      Call(t, via, path) ==
        [t EXCEPT !.mode = "call",
                  !.arg = [node |-> c, via |-> via, path |-> path,
                           depth |-> f.depth + 1, start |-> f.start,
                           registered |-> f.registered \/ (kind = "V" /\ adv)]]
  IN  CASE kind = "C" -> Call(counted, IF uidisMP(c) THEN "C" ELSE "N", "Ctrl")
        [] kind = "N" -> Call(counted, "R", "Equil")
        [] kind = "V" /\ csense = "feas" -> Pop(counted, ErrStatus)
        [] OTHER ->
             Call(IF adv
                  THEN [counted EXCEPT
                          !.adversarial_mps = Append(@, uid2id(c)),
                          !.saddle_path_starts =
                             IF f.registered THEN @ ELSE Append(@, f.start),
                          !.stack[Len(s.stack)].registered = TRUE]
                  ELSE counted, "V", f.path)

\* "Make sure there between nodes there is only ONE arc", tested at the end
\* of dfs_mpInNashOrRoot only
TwoArcsFromOneParent(dag, m) ==
  \E r, t \in dag.rarcs[m] : r # t /\ parent_uid(r) = parent_uid(t)

\* Mutant: ids are stored in the order in place of uids.
LeaveNode_Ids(dag, s) ==
  LET f == Top(s)
      u == f.node
  IN  IF f.via = "R" /\ TwoArcsFromOneParent(dag, uid2id(u))
      THEN Pop(s, ErrStatus)
      ELSE Pop([s EXCEPT !.stat[u] = Processed,
                         !.postorder[u] = s.timestamp + 1,
                         !.timestamp = @ + 1,
                         !.topo_order = Append(@, uid2id(u))], RcOK)

\* Mutant: the order is filled from the other end.
LeaveNode_Reversed(dag, s) ==
  LET f == Top(s)
      u == f.node
  IN  IF f.via = "R" /\ TwoArcsFromOneParent(dag, uid2id(u))
      THEN Pop(s, ErrStatus)
      ELSE Pop([s EXCEPT !.stat[u] = Processed,
                         !.postorder[u] = s.timestamp + 1,
                         !.timestamp = @ + 1,
                         !.topo_order = <<u>> \o @], RcOK)

\* the tail of the dfs_* functions
LeaveNode(dag, s) ==
  LET f == Top(s)
      u == f.node
  IN  IF f.via = "R" /\ TwoArcsFromOneParent(dag, uid2id(u))
      THEN Pop(s, ErrStatus)
      ELSE Pop([s EXCEPT !.stat[u] = Processed,
                         !.postorder[u] = s.timestamp + 1,
                         !.timestamp = @ + 1,
                         !.topo_order = Append(@, u)], RcOK)

\* process_Carcs looks at the code of its last child once its loop is over
Loop(dag, s) ==
  LET f == Top(s)
  IN  CASE f.last # RcOK /\ (f.todo = <<>> \/ Head(f.todo)[1] # "C") ->
             Pop(s, ErrStatus)
        [] f.last = RcOK /\ f.todo = <<>> -> LeaveNode(dag, s)
        [] OTHER -> VisitChild(dag, s)

(***************************************************************************)
(* A call came back to the loop of the top frame.  A positive code and the *)
(* cycle code end the loop; the other negative codes are dropped, but for  *)
(* the last child of process_Carcs.  The cycle has been closed when the    *)
(* parent (process_Carcs, dfs_nash) or the child (process_Varcs) is where  *)
(* it starts.                                                              *)
(***************************************************************************)
ChildReturned(s) ==
  LET f == Top(s)
      kind == f.cur[1]
      closing == IF kind = "V" THEN f.cur[2] ELSE f.node
  IN  CASE s.rc > 0 -> Pop(s, s.rc)
        [] s.rc = ErrCycle ->
             Pop(s, IF s.stat[closing] = CycleStart THEN ErrGeneric ELSE ErrCycle)
        [] OTHER -> [s EXCEPT !.mode = "loop",
                              !.stack[Len(s.stack)].last =
                                 IF kind = "C" THEN s.rc ELSE RcOK]

\* Mutant: the loop over the roots does not advance.
NextRoot_Stuck(dag, s) ==
  IF s.rc # RcOK \/ s.roots_done = Len(dag.roots)
  THEN [s EXCEPT !.mode = "end"]
  ELSE LET u == dag.roots[s.roots_done + 1]
       IN  [s EXCEPT !.mode = "call",
                     !.arg = [node |-> u, via |-> IF uidisMP(u) THEN "R" ELSE "N",
                              path |-> "Unset", depth |-> 0,
                              start |-> EMPDAG_UID_NONE, registered |-> FALSE]]

\* the loop of empdag_analysis over the roots
NextRoot(dag, s) ==
  IF s.rc # RcOK \/ s.roots_done = Len(dag.roots)
  THEN [s EXCEPT !.mode = "end"]
  ELSE LET u == dag.roots[s.roots_done + 1]
       IN  [s EXCEPT !.mode = "call", !.roots_done = @ + 1,
                     !.arg = [node |-> u, via |-> IF uidisMP(u) THEN "R" ELSE "N",
                              path |-> "Unset", depth |-> 0,
                              start |-> EMPDAG_UID_NONE, registered |-> FALSE]]

\* one step of the traversal
DfsStep(dag, s) ==
  CASE s.mode = "call" -> EnterNode(dag, s)
    [] s.mode = "loop" -> Loop(dag, s)
    [] s.mode = "ret" /\ s.stack = <<>> -> NextRoot(dag, s)
    [] OTHER -> ChildReturned(s)
=============================================================================
