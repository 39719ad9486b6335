# TLA+ models of ReSHOP

ReSHOP turns models of hierarchical games (bilevel problems, equilibria, composite and risk-averse
objectives) into models that a solver accepts. Its own core is the **EMPDAG**: a directed acyclic
graph whose nodes are mathematical programmes (MPs) and Nash equilibria, and whose arcs say who
controls what and who uses the value of whom. User code or the EMP interpreter builds the EMPDAG,
`empdag_fini` checks and classifies it, and the reformulations then replace some of its MPs by duals
or instances before the first-order optimality conditions (FOOC) are assembled. Source paths below
are relative to `src/`, the root of the repository.

This directory holds TLA+ modules for that core, TLC configurations that check them on small
instances, and TLAPS proofs for instances of any size.

## 1. Inventory

| Component | State | Operations | Correct when |
|---|---|---|---|
| EMPDAG ids (`src/dag/empdag_uid.h`) | uids: an id shifted by two bits, plus a bit for the kind of node and one for the kind of reverse arc | encode, decode | the kinds and ids are told apart everywhere they are compared |
| EMPDAG nodes and arcs (`src/dag/empdag.c`, `empdag_mp.h`, `empdag_mpe.h`) | `mps`, `nashs`, forward arcs (`Carcs`, `Varcs`, `nashs.arcs`), reverse arcs (`rarcs`), `mps2instantiate`, `finalized` | `empdag_add*`, four arc operations, `empdag_substitute_mp_arcs`, delete last node, copy | the two directions of an arc agree after every operation, failed ones included |
| EMPDAG roots and finalization (`empdag.c`, `src/api/api_empdag.c`) | `roots`, `uid_root`, hidden and hidable MPs, `finalized` | `empdag_setroot`, `empdag_infer_roots`, `empdag_fini`, `empdag_check`, `empdag_single_MP_to_Nash` | the roots of a finalized EMPDAG are the nodes without parent, and it is acyclic (but for hidden MPs, see section 3) |
| EMPDAG analysis (`src/dag/empdag_alg.c`) | `EmpDagDfsData`: states, orders and intervals of the traversal, path data, levels, features | `empdag_analysis`, `dfs_*`, `analyze_mp`, `analyze_nash`, `empdag_infertype` | it accepts only DAGs (but for hidden MPs, see section 3), ends, lists what must be reformulated in a usable order, gives variables their role |
| Sorted arrays (`src/utils/data-structures/reshop_data.c`, `src/utils/rhp_search.c`) | an array of unsigned or int and its length | sorted insertion, removal, search, in-place merge | it is sorted, and it is a set |
| Preparation of the FOOC (`src/toplayer/mdl_transform.c`, `src/dag/empdag_minimax.c`, `src/hop_algos/fooc_data.c`) | the children of the root Nash node, instances of CCFLIB MPs | instantiate, substitute, collect | what the analysis lets through can be processed |
| Computation of the FOOC (`src/hop_algos/fooc.c`, `fooc_data.c`) | the MCP under construction: counts, sorted objective equations, renumberings, blocks | fill, lay out, inject, differentiate, match | every constraint has its place, the system is square, each equation is the derivative of the Lagrangian of the right MP |
| MPs (`src/dag/mathprgm.c`, `mathprgm_helpers.c`, `src/rhp/mdl_rhp_edit_equ.c`) | lists of variables and equations per MP; owner, role, properties and partner per variable and equation; objective, counts of a VI | add variables, constraints, VI pairs; set the objective; finalize; remove, copy, flip equations | the two records of ownership agree, the objective is in place, VI functions and variables are matched, nothing is lost |
| Contraction of VF paths (`src/rhp/rmdl_empdag.c`) | the EMPDAG, the MPs and the weights of VF arcs | claim the contents of the MPs on a path, rewrite the objective | the MP that is left owns everything once |
| CCFLIB and OVF reformulations (`src/ovf/`) | equations, dual MPs, arcs | `ccflib_equil`, `ovf_fenchel`, `ccflib_get_mp_and_sense` | only the arcs they move are modelled (`dualize`) |
| Containers and sparse rows (`src/rhp/cmat.c`, `ctr_rhp.c`, `src/toplayer/container.c`) | elements in two linked lists each, ends of the columns, placeholders, the number of active variables, deleted marks | add and remove variables and equations, copies, switch to nonlinear, objective variables | both lists hold exactly the elements; the count and the equations agree with them |
| Model lifecycle (`src/toplayer/mdl.c`, `rhp_process.c`) | statuses, reference counts, chain of models | finalize, solve, postprocess | planned |
| EMP interpreter (`src/gams/emp*.c`) | tokens; byte code, stacks of jumps to patch, scopes; value stack, local variables, labels and arcs | parse, compile, run, resolve labels | the MPs and arcs made are those that the statement means |
| Pools and arenas (`src/utils/pool.c`, `allocators/`) | ownership, stamps | grow, release | planned |
| GUI link (`src/utils/rhp_ipc.c`, `rhpgui_launcher.c`, `printout.c`, `gui/utils/`) | two processes, two stream connections, the phase of a transfer, the GUI's models | launch, signal, connect, send a model, log, close | the two stay in step, OK means received, neither waits for ever |
| Expression trees, backends, options, printing, bindings | | | numerical, proprietary calls, formatting or generated code: not modelled |

**How the parts interact.** All calls are synchronous and in one thread, except for the GUI link. The
API and the interpreter call the arc operations and `empdag_setroot` in any order; arcs and roots are
sorted arrays; `empdag_fini` infers the roots, searches them with `rhp_uint_findsorted`, and calls
the analysis, which reads arcs and reverse arcs and leaves lists (`mps2reformulate`,
`saddle_path_starts`) for the reformulations. These create MPs and move arcs with
`empdag_substitute_mp_arcs`; the FOOC code reads the children of the root.

**What is hard here.** (a) Data kept twice (arcs and reverse arcs, `roots` and `uid_root`, `finalized` as a
cached verdict, the lists of an MP and the metadata of its variables, rows and columns of the container
matrix) under any order of calls, failed calls and repeated finalizations; (b) a recursive traversal
that visits a shared node once, with the data of the path it came on, and that drops some of its
return codes; (c) loops over arrays that their own body changes; (d) several index spaces in the same
integers (ids of MPs and Nash nodes, indices of the source model and of the MCP, variables and
multipliers); (e) in-place moves of overlapping blocks; (f) a one-pass compiler that patches jumps by
their depth; (g) one pair of concurrent processes, the library and its GUI, which match messages by their
position and block on each other. `PROJECT.json` lists these hazards with their lines and the
properties that would notice.

## 2. Modules

| Module | Models | Uses |
|---|---|---|
| `EmpDagUid` | the encoding of `empdag_uid.h`, numerically (uid = 4 id + kind bits); `UINT_MAX` is -1 | |
| `EmpDagArcs` | nodes, arcs, substitution of an MP, as actions | `EmpDagUid` |
| `EmpDagRoots` | composition of the actions of `EmpDagArcs` with the choice of a root and the finalization | `EmpDagArcs`, `UIntArray` |
| `EmpDagRootsProofs` | TLAPS proofs about `EmpDagArcs` and `EmpDagRoots` | `EmpDagRoots`, `UIntArrayProofs` |
| `EmpDagDfs` | the traversal as a function from one state to the next; the C recursion is an explicit stack | `EmpDagUid` |
| `EmpDagAnalysis` | `empdag_analysis` around the traversal, and `empdag_infertype` | `EmpDagDfs` |
| `EmpDagAnalysisProofs` | proofs about `EmpDagAnalysis` and `EmpDagDfs` | `EmpDagAnalysis`, `UIntArrayProofs` |
| `UIntArray` | the operations on sorted unsigned arrays, with the binary searches as the code does them | |
| `UIntArrayProofs` | proofs about its operators: the binary search, sorted insertion, removal; induction over the naturals, recursive functions, the sorted enumeration of a finite set | `UIntArray` |
| `UIntSet` | abstract specification: a set with return codes | |
| `SortedArray` | any sequence of calls on one array; refines `UIntSet` | `UIntArray`, `UIntSet` |
| `IntExtendSorted` | the in-place merge, one turn of the loop per step | |
| `FoocInstances` | instances of CCFLIB MPs and their substitution under the loop over the children | `UIntArray`, `EmpDagUid` |
| `FoocInstancesProofs` | proofs about `SortedArray` and `FoocInstances` | `SortedArray`, `FoocInstances`, `UIntArrayProofs` |
| `FoocSystem` | the layout and assembly of the MCP by `fooc_mcp` | |
| `FoocSystemProofs` | proofs about `FoocSystem` | `FoocSystem`, `UIntArrayProofs` |
| `MathPrgm` | MPs with their variables, equations and objectives, edits of equations, contraction | |
| `MathPrgmProofs` | proofs about `MathPrgm`, and about the merge | `MathPrgm`, `IntExtendSorted`, `UIntArrayProofs` |
| `CMat` | the container matrix, one iteration of a loop per step | |
| `CMatProofs` | proofs about `CMat` | `CMat`, `UIntArrayProofs` |
| `EmpVm` | the compiler of the EMP interpreter (operators), its stack machine (actions), and the meaning of a statement | |
| `GuiIpc` | the library's thread and the GUI process, with the streams between them | |
| `GuiIpcProofs` | proofs about `GuiIpc` | `GuiIpc`, `UIntArrayProofs` |
| `MC*` | state constraints, symmetry and families of small instances for the modules of the same name | |

### Correspondence to the code

*Arcs.* The variables of `EmpDagArcs` are the fields of `DagMpArray` and `DagNashArray`. Arrays that the
code keeps sorted and unique are sets of uids (`SortedArray` justifies it); `Varcs` is a sequence,
because `empdag_mpVFmpbyid` appends without looking for an earlier arc. An action is one call, the
return code is `rc`. `dualize` is `ccflib_get_mp_and_sense`: create the dual, substitute, hide the primal.
`superseded` and `multiVF` are history variables: an MP that was substituted keeps its own forward
arcs, and a VF arc that was added twice has one reverse arc only, so that a later substitution fails
half-way. The properties are stated around these two behaviours of the code, not
around a condition that avoids them: both happen in the runs. `Builds` says which builds of the library are meant: in one with
assertions, `substitution_aborts` is what happens to every MP with children over CTRL arcs, because
`empdag.c:1535` and `:1541` assert the value of `chk_mpid_()` and `chk_nashid_()`, which is 0 (`OK`) for a valid
id (`:1513` compares it with `OK`). The process ends there (`rc` is `Aborted`), with a part of the arcs moved.

*Roots.* `empdag_fini` is one action: `mp_finalize` of every MP (a free verdict, but an MP without type
fails), `empdag_infer_roots` with hiding, the tests of `empdag_check` with the binary search as it
is, then the analysis as a free verdict that is positive at most for EMPDAGs with the property
`AcceptedIsDag` of `EmpDagAnalysis`. That leaves room for a cycle through an MP that an earlier `empdag_fini` hid
as an orphan and that got arcs since (`FinalizedIsAcyclic` in `V_EmpDagRoots`): the model lets it be accepted, as the code does. `EmpDagRoots` has the additions of
`EmpDagArcs` and not the substitutions. When the finalization fails, the inferred roots and the hidden MPs stay behind, as
in the code. `late` is a history variable: MPs added while `finalized` is set.

*Analysis.* `s` is `EmpDagDfsData` with the stack of calls; one step of `Traverse` enters, continues or
leaves one call of `dfs_mpC`, `dfs_mpV` or `dfs_nash`, with the return codes as the loops of the code
treat them (some negative ones are dropped). The path data that C passes by value are in the frame.
`Check` counts the nodes and compares arcs and reverse arcs, `AnalyzeMp` and `AnalyzeNash` are one turn of
the loop over the topological order, backwards. Levels come from `malloc`: reading one that is not
written yet gives any value of `JunkLevels`. An MP has one equation, which stands for the union of
its equations: the set of MPs whose variables it has, chosen when the MP is analysed. `WellFormedDag` says which EMPDAGs
the analysis is called for: those that the functions of `EmpDagArcs` and `EmpDagRoots` build, with parents of hidden MPs. With the build
"debug", `analyze_nash` has the assertion of `empdag_alg.c:1571` and `:1588`, `uidisMP` of the id of a parent where its uid is meant; the status is then "aborted".

*Arrays.* The binary searches are translated with their bounds; a result is an index or the value for
"not found". The merge works on a buffer with room for both arrays; cells that hold
nothing are marked, so that a read or write outside shows. `call` in `SortedArray` and `UIntSet` records the last call with
its value, so that the refinement matches each call with the operation on that value.

*FOOC.* The phases are the loops of `rmdl_empdag_transform` and `mdl_analyze_emp_for_fooc`, with the loop
index and its bound as variables, and the collection in `fooc_data_empdag`. `kids` keeps the children as they were at first. The build is one
without assertions: with them the substitution of an MP that has CTRL children aborts (`EmpDagArcs`).

*MCP.* The source model `m` is constant: MPs, roles, which variables an equation has. The phases of `pc`
are the loops of `fooc_mcp`: `fill` collects the objective equations with the insertion that shifts
`mp2objequ` and `objequs2mps`, `layout` computes the counts, `inject` walks over the source equations
between two objective equations, the later phases add zero functions, the lists of constraints and
the derivatives, and match variables. `terms` is the content of an equation: the gradient of an
objective or multiplier times constraint. `rosetta_equs`, `vi2ei_F` and `equs` are the arrays of that name.

*MPs.* The state of the model is one record; a C function is an operator that returns the error code with
the record as it is at the return, so that a failing call leaves what it did before. `Then` is
`S_CHECK`. Each action is a call of the API or of a transformation. `Latest` follows the rosetta of
replaced equations. Which equations a variable occurs in is data (`column`), changed by
the edits. The failures within `mp_claimequvar`, which a contraction calls, are not modelled.

*Container matrix.* An element is named by what it stands for (a pair of equation and variable, the
constant of an equation, a placeholder), and `next_var`, `next_equ`, `prev_equ`, `equs`, `vars`,
`last_equ`, `n` are the fields of the code. Operations over several elements are a `job`
that takes one step per iteration; errors stay in `failed`.

*Interpreter.* The operators of the first half of `EmpVm` have the names of the functions of
`empinterp_vm_compiler.c`; `Program` is a statement with its code, as `ProgramsAssumption` says; `c` is the `Compiler` with the tape. An instruction is one cell, so a jump
holds the position it leads to. The actions of the second half are the opcodes of `empvm_run`; what an
assertion of the code excludes is the status "fault". `Meaning` is computed on the syntax alone.

*GUI.* `lib` and `gui` are the places of the two threads of control, `up` and `down` the streams, whose units are
what one `write` puts in. `ph` is where the GUI's handler is in the script of a transfer, `turn`
the clients that `poll` reported, `blocking` the descriptors that a transfer set to blocking reads (and that its
error paths leave so). A write to the log is refused when the stream is full. The GUI process ends when it cannot be run or
fails before it listens, and when the window is closed between two turns of its loop; the program ends between two calls. A GUI that is killed
within a turn, and writes of which the stream takes a part only, are not modelled.

## 3. Runs

Passing runs:

| Run | Question | Bounds, and why they are enough |
|---|---|---|
| `arcs` | Do arcs and reverse arcs agree after any sequence of calls? (`RarcsHaveArcs`, `ArcsHaveRarcs`, `FailedAddChangesNoArc`, `SubstitutionCompletes`) | 4 MPs (3 when one of them has no type), 1 Nash node, 2 VF arcs per MP, 2 arcs in place, both builds. A substitution needs the old MP, the new one, a parent and a child; two equal VF arcs need two places. The theorems cover the rest. |
| `roots` | Has a finalized EMPDAG exactly the nodes without parent as roots, everything else below them, and no cycle but through hidden MPs, after any sequence of additions, choices of roots and refused finalizations? (`FinalizedExact`, `RootsOfOneKindFound`) | 2 MPs, 1 Nash node, 3 arcs: cycles through both kinds of nodes, roots of both kinds, hidden MPs, finalization before and after each change. |
| `analysis` | Does the analysis agree with definitions made from the arcs alone? | 3 MPs of the types and senses optimisation (min, max), VI, CCFLIB and dual, at most one Nash node, all sets of 3 arcs, of 4 below one root for the two sense patterns that make adversarial MPs; on trees one MP's variables in each other one. Diamonds, cycles through a Nash node, two parents of different kinds, hidden primals, and (`HiddenDags`) hidden MPs with parents, on cycles too, occur, in both builds. |
| `sorted_array` | Does the array implement a set, call by call? (`SortedAlways`, and the refinement `ImplementsSet`) | 7 values, all subsets reachable: every branch of the searches at both ends and in gaps. `rhp_uint_rm` is called with values that are there, as its callers do. |
| `extend_sorted` | Does the merge keep everything, sorted, within its memory, and end? (`MergeExact`, `RoomForTheRest`) | all pairs of sorted arrays of length up to 4 over 5 values: all interleavings of up to four blocks. |
| `fooc_instances` | Are the children of a Nash node replaced consistently, none lost and none doubled? (`ChildrenExact`, `OneCcflibReplaced`, `InstantiatesOnce`) | 4 MPs, 3 of them CCFLIB, one queued twice. |
| `fooc_system` | Is the MCP that is assembled the one of the model? (`LayoutExact`, `LagrangianExact`, `SucceedsExactly`) | 3 variables, up to 5 equations in all orders, up to 3 MPs: three optimisers (two shifts of the objective list), optimiser and VI, two VIs with zero functions, deleted variables, a variable that belongs to no MP, objective variables, the lower level of a bilevel problem, no EMPDAG; and models that are refused for an MP of another type, an objective that is missing or given twice, an equation of another kind, a zero function for a deleted variable, a constraint without a variable of its MP. |
| `mathprgm` | Do the MPs and the metadata agree after any sequence of calls? (`ListsExact`, `ObjectiveInPlace`, `PairsMatch`, `NothingLost`) | 2 MPs (optimisers, or one VI), 2 variables, 2 equations and 2 interchangeable spares, so that a copy can be copied again; 5 calls, two of which may fail: build an MP (3 calls), edit it, contract it (about 940000 states). |
| `cmat` | Are rows, columns, counts and equations exact between any two steps? (`ListsExact`, `ContentsMatch`, `LeavesWithLast`) | 3 equations (interchangeable), 2 variables, 4 elements: first, middle and last element of a column, an emptied row, a copy next to its original, all placeholders. 2 equations with 3 variables, for the middle of a row, pass too (1.8 million states). |
| `emp_vm` | Does the compiled code make what the statement says? (`JumpsResolved`, `MachineInOrder`, `MadeAsWritten`) | 250 statements: all conditions of two and many of three elements of six kinds with "and", "or", `not` and parentheses, sums with and without condition, free sets, loops around labels, labels over two sets, arcs with conditions; sets of 2 elements (first, last and one more turn of every loop), all contents of the sets that are tested. 205 of them are within `Sound`. |
| `gui_ipc` | Do library and GUI stay in step, and does everything end? (`StreamsInStep`, `OkMeansReceived`, `CallsEnd`, `LogIsServed`) | 2 starts, 3 transfers of 5 kinds of model (none, an empty EMPDAG, one chunk, a Nash node, two chunks of which the first is larger than the buffer), 4 log messages, a stream of 3 units: an error in one transfer is followed by another one, and a log message falls between any two messages. A full chunk is larger than the buffer (`MpMax` > `BufMax`) as in the code, where `MathPrgmGuiMax` is computed from the basic data of a node and the message has whole nodes; two chunks that both fit are in the theorems only. |

Several properties of a run are conjunctions of named parts, each with a statement of its own in the
module, and each part with at least one mutant that breaks it:

| Property | Parts |
|---|---|
| `VerdictExact` (`EmpDagAnalysis`) | the analysis ends, on cyclic input too; in an accepted EMPDAG all nodes are below a root or hidden and every cycle has a hidden MP (`AcceptedIsDag`); well-formed trees are accepted, but for the assertion on ids (`WellFormedAccepted`) |
| `TraversalSound` | what was accepted is acyclic and reachable, hidden MPs apart (`AcceptedIsDag`); children are finished before parents (`ChildrenFinishFirst`); the intervals that `is_ancestor` compares are nested only along paths (`NestedArePaths`) |
| `TreesExact` | `istree` is exact (`TreeFlagExact`); on trees the intervals are nested along all paths (`PathsAreNested`), and the path to an ancestor fits its array (`PathFits`) |
| `AdversariesInOrder` | `mps2reformulate` has only adversarial MPs, on trees all of them (`AdversariesExact`), with descendants first (`DeepestFirst`); the saddle paths cover the adversarial MPs (`SaddlePathsCover`) |
| `LevelsAgree`, `RolesExact` | levels count CTRL arcs between MPs that are shown; roles of variables are those of the path between the MPs |
| `FinalizedExact` (`EmpDagRoots`) | `FinalizedRootsExact`; `FinalizedIsDag`: rooted, and every cycle has a hidden MP |
| `MergeExact` (`IntExtendSorted`) | the merge ends, with `ResultSorted` and `ElementsKept` |
| `ChildrenExact` (`FoocInstances`) | `OneRepresentative`: each original child is there itself or as an instance of its own, only a CCFLIB MP is replaced, and there is no other child; `ChildrenSorted` and the types |
| `LayoutExact` (`FoocSystem`) | `ObjequsExact`, `BlocksFit`, `EquationsPlaced`, `Square` and the types |
| `ListsExact` (`MathPrgm`) | `ListedIsOwned`, `ViCounts` and the types |
| `ListsExact`, `ContentsMatch` (`CMat`) | `RowsExact`, `ColumnsExact`, `BackwardExact`, `CountExact` and the types; `MatchesEquations`, `CopyExact` |
| `MachineInOrder` (`EmpVm`) | `StackBalanced` and the types |
| `StreamsInStep`, `CallsEnd` (`GuiIpc`) | `InStep`, `LogFramed` and the types; `StartEnds`, `TransferEnds` |

`Sound` in `EmpVm` names the conditions that the compiler translates as written; it excludes the elements
described under the finding below, `.last` of other than the first set of a file, `sameas` of two sets
and `$NOT` of several elements. `SucceedsExactly` has the condition that the lower level of a bilevel
problem has all variables of the upper level, see below; its models have one root, MPs without children, senses min and max,
and cones for which a multiplier exists, so the errors of `fooc.c:1527` (number of roots), `:1537` (`fooc_check_childless_mps`), `:1147` and
`:1238` (senses) and of `ctr_rhp_add_vars.c` (cones) are outside of it. `ViCounts` and `PairsMatch` are about VIs of which nothing was
removed: `mp_getnumvars` asserts the count (`mathprgm.c:957`) and the edits do not maintain it, as the comment at
`mdl_rhp_edit_equ.c:448` says of one of them. `TransferEnds` is about models without Nash nodes, `LogFramed`
about logs of which no text was refused, both because of the disagreements below.

`CHECK_DEADLOCK FALSE` is set where a behaviour may stop: `arcs`, `roots`, `mathprgm` and `cmat`, whose bounds
on nodes, calls or elements end the behaviours while the program may stop calling at any time, and `gui_ipc`, where the
program ends or has nothing more to send.

**Fairness.** `VerdictExact`, `MergeExact`, `InstantiatesOnce`, `SucceedsExactly` and `MadeAsWritten` assume weak fairness of the whole next-state relation (in `EmpVm`, of the
machine's step). Each of these models is one C function in one thread without waiting: it is never stopped
between two of its steps, and the choices within a step (variables of an equation, junk) are not
constrained by fairness. `GuiIpc` assumes weak fairness of the steps of the library and of those of the
GUI, each as one process that the operating system schedules while it can run; nothing makes the user start
transfers, log, or close the window, and nothing keeps the GUI alive.

### Where code and comments disagree

Each of the configurations `V_*.cfg` checks one property that a comment, message or assertion states, and TLC
refutes it. The first one is part of the list of runs, the others are run by hand. `V_EmpDagRoots.cfg` is for three properties, of which
it has the last two commented out.

| Configuration (module) | The code says | The model shows |
|---|---|---|
| `V_ConditionIsAsWritten` (`MCEmpVm`) | "and" resolves the true jumps "usually tied to an TOK_OR, like this one: (cond1 and (cond2 or cond3) and cond4)" | it also takes those of an earlier "or" outside of the parentheses: `a(i) or (b(i) and c(i))` becomes (a or b) and c; `a(i) or not b(i)` becomes not (a or b); after an "or", a sum is entered in its middle |
| `V_EveryTransferEnds` (`MCGuiIpc`) | Nash nodes and their names are sent and acknowledged (`rhp_ipc.c:253`) | the names are never sent, the GUI expects them (`rhpgui_ipc.c:311`): both sides wait |
| `V_ClosedMeansDisconnected` (`MCGuiIpc`) | "[IPC] client %u disconnected" (`rhp_gui_ipc_poll.c:102`) | header and text of a log message are two writes; the GUI may find the header only and closes the connection |
| `V_ActiveNotDeleted` (`MCCMat`) | `assert(... && !v->is_deleted)` (`mdl_ops_rhp.c:341`) | a placeholder for the objective or a fixed equation makes a deleted variable active without resetting the mark; `rhp_is_var_valid` then answers no |
| `V_MappingMayBeEmptied` (`MCCMat`) | a mapping without variables becomes a constant equation (`cmat.c:864`) | the constant of an equation with an expression tree is not in its own field: removing the last variable is an error |
| `V_ObjectiveIsOwn` (`MCMathPrgm`) | "If this variable appears in another MP, can't substitute" (`mathprgm_helpers.c:31`) | the loop is left with the objective equation found before, and the equation of the other MP is made the objective |
| `V_ObjectiveFollowsFlip` (`MCMathPrgm`) | "flipping objective equation '%s' is not yet supported" (`ctr_rhp.c:705`) | it asks for the objective of the model only: the objective equation of an MP is flipped, and its flipped copy can be copied again as a constraint |
| `V_UpperVariablesAreFree` (`MCFoocSystem`) | "number of active variables could be larger than expected, as in the MPEC case" (`fooc.c:1926`) | variables of the upper level are expected but active only where they occur: one that the lower level does not have is an error |
| `V_AdversariesComplete` (`MCEmpDagAnalysis`) | an MP is listed when "the sense of the path and the child MP are opposite" | not below a node first reached on a path of the same sense: shared nodes are traversed once |
| `V_RolesExactForAllIds` (`MCEmpDagAnalysis`) | "A (direct) child MP owns the variable" | `is_parent` and `is_child_Carcs` compare ids: a Nash node with the id of an MP passes for it |
| `V_ChildAssertsHold` (`MCEmpDagArcs`) | `assert(chk_mpid_(empdag, mpid_child))`, `assert(chk_nashid_(empdag, nashid_child))` (`empdag.c:1535`, `:1541`) | both functions return 0 for a valid id: with assertions, a substitution of an MP with children over CTRL arcs aborts half-way |
| `V_EmpDagRoots`, `FinalizedIsAcyclic` (`MCEmpDagRoots`) | "Cycle detected in the EMP DAG" is an error of the analysis (`empdag_alg.c:66`), and `finalized` is set when it succeeds (`empdag.c:318`) | an MP that is an orphan and hidable is hidden by a first `empdag_fini`; arcs that put it on a cycle are then added, and the next `empdag_fini` may accept them |
| `V_AcceptedIsAcyclic` (`MCEmpDagAnalysis`) | "Analyze the EMPDAG and check for correctness" (`empdag_alg.c:1634`) | the error code of a hidden MP on a cycle is dropped where a VF arc leads to it (`empdag_alg.c:634`), the MP is counted as seen although it was not finished (`:1731`), and its unwritten level may agree with its parents' |
| `V_NashParentsAreMPs` (`MCEmpDagAnalysis`) | `assert(uidisMP(pid))` (`empdag_alg.c:1571`, `:1588`) | `pid` is an id, not a uid: with assertions, the analysis aborts at a Nash node below an MP whose id is 2, 3, 6, 7, ... |
| `V_RmFindsItsValue` (`SortedArray`) | "could not find value %d in the dataset" | `rhp_uint_rm` never looks at the first element; a smaller value removes it and OK is returned |
| `V_AnalysisPredictsFooc` (`FoocInstances`) | "to see if we can compute the first order optimality conditions" | with two CCFLIB children the loop passes over one, which the FOOC code then refuses |
| `V_EmpDagRoots`, `RootsAreFound` (`MCEmpDagRoots`) | an error if "not in the root set" | Nash roots are appended after MP roots and the array is searched as sorted: a root is reported as missing |
| `V_EmpDagRoots`, `AllRootedWhenFinalized` (`MCEmpDagRoots`) | all MPs "have parents or are roots" | `empdag_addmp` leaves `finalized` set, and the next `empdag_fini` returns at once |

The passing properties are stated as strongly as the code allows next to these. The restrictions in
them that are not obvious, with the behaviour of the code behind each:

- `TreesExact`, `AdversariesInOrder` and `LevelsAgree` are about EMPDAGs without a cycle: on one that was accepted with a cycle
  through hidden MPs (`V_AcceptedIsAcyclic`), the hidden MP has no place in the order and its interval is open.
- `SaddlePathsCover` says nothing about a start being listed once: `saddle_path_registered` is passed by
  value (`empdag_alg.c:612`), and a sibling branch registers it again.
- `LevelsAgree` leaves out MPs that a Nash node shares with another parent: the level of a second
  parent is read from `mp_ppty` also when it is a Nash node (`empdag_alg.c:1306`).
- `PathFits` is about trees: on other DAGs the path over the first reverse arcs may be longer than the
  depth that the traversal found (`empdag_alg.c:1031`).
- `RolesExact` is about EMPDAGs with one root: without a common ancestor, the value for "none" passes for a
  Nash node (`empdag_alg.c:1521`).
- `FinalizedRootsExact` does not mention `uid_root`: with several inferred roots the old value stays
  (`empdag.c:1349`), and a root that was inferred already cannot be chosen (`empdag.c:679`).
- `ObjectiveInPlace` leaves out an MP whose objective equation was flipped, because of `V_ObjectiveFollowsFlip`.
- `MathPrgm` starts no contraction from a model where an MP has a foreign objective, and a replaced objective
  equation stays active but in no list. `FoocSystem` has no such equation: it would be injected as a linear
  constraint without being counted as one.
- Some functions look at the arcs of the first MP for those of every MP (`empdag->mps.Varcs->len` in
  `mp_finalize` and in `rmdl_mp_objequ2objfun`, `mdl_ops_rhp.c:1027`); `FirstHasVF` is that.
- Without an EMPDAG the VI functions are counted over the first `ctr->n` variables (`fooc.c:372`), which misses some
  when variables were deleted; the families have none deleted there.
- In `EmpVm`, `.last` reads the index of a size to tell where it is (`empinterp_vm_compiler.c:1572`), `sameas` of two sets
  converts the same value twice (`empinterp_vm.c:1302`), `$NOT` of several elements negates the first, and `$NOT ((` pops an
  empty stack; a labelled Nash node in a loop does not push its label (`empinterp_vm_compiler.c:4355`).
  "and" and "or" have no precedence; `Meaning` takes them from left to right, as the compiler does.

## 4. Proofs

Eight modules hold theorems. They are about the same definitions that TLC runs, for every value of the
constants that the named assumptions of the modules allow. Every inductive invariant was checked by TLC on the
instances of section 3 before it was proved.

| Theorem | Says | Assumes |
|---|---|---|
| `EmpDagRootsProofs`, first part: `TypeCorrect`, `ArcInvCorrect`, `RarcsHaveArcsCorrect`, `ArcsHaveRarcsCorrect` | arcs and reverse arcs agree, after additions and substitutions | the bounds are natural numbers, `"opt"` is a type of MP |
| `FailedAddChangesNoArcCorrect`, `SubstitutionCompletesCorrect` | action properties: a failed addition changes no arc; a substitution stops half-way only when a VF arc was added twice or, with assertions, for an MP that has CTRL children | the same |
| second part: `RInvCorrect`, `RTypeCorrect`, `FinalizedExactCorrect`, `RootsOfOneKindFoundCorrect` | after any additions and finalizations, a finalized EMPDAG has exact roots, all its nodes but the hidden and the late MPs below a root, and no cycle but through hidden MPs, provided that the analysis keeps `AcceptedIsDag`; roots of one kind are found by the search | the same |
| `EmpDagAnalysisProofs`: `AnalysisTypes`, `TraversalIsSound` | what the analysis accepts has no cycle but through hidden MPs, and no node but hidden MPs out of reach; its order has children first; without dual MPs the intervals of finished nodes are nested only along paths | `DagsAssumption`: the EMPDAGs are `WellFormedDag`, see below; `JunkLevelsAssumption`: memory that is not written yet holds numbers; `BuildsAssumption`: at least one of the two builds |
| `DfsInvHolds`, `IntervalInvHolds`, `ReachIsClosure` | the two inductive invariants of the traversal, kept by every step on every EMPDAG, cyclic ones too; `Reach` is the transitive closure | the EMPDAG is `WellFormedDag` |
| `UIntArrayProofs`: `BinSearchFinds`, `AddSortedProperties` | the binary search returns the position of the value, or none exactly when it is absent; the insertion adds the value and keeps the order | arrays of integers |
| `FoocInstancesProofs`, first part: `SortedAlwaysCorrect`, `ArrayImplementsSet` | the array stays sorted; every call does and returns what the call of `UIntSet` with the same value does | the values are natural numbers; for the refinement, `RmPresent`: `rhp_uint_rm` is called with values that are there, as its callers do |
| second part: `FInvCorrect`, `ChildrenExactCorrect`, `OneCcflibReplacedCorrect` | under the loop that replaces them, each of the original children stays represented once, by itself or by its own instance, in a sorted array that has nothing else | the numbers are natural numbers |
| `GuiIpcProofs`: `IInvCorrect`, `StreamsInStepCorrect`, `OkMeansReceivedCorrect` | library and GUI stay in step, OK means that the GUI has the whole model, for any models, sizes of buffers and chunks | sizes are positive, numbers of calls natural |
| `MathPrgmProofs`, first part: `IInvCorrect`, `ListsExactCorrect`, `NothingLostCorrect`, `LInvCorrect`, `ObjectiveInPlaceCorrect`, `PairsMatchCorrect` | the lists of the MPs and the metadata agree, also after calls that failed half-way; a call that succeeds loses nothing; while no call failed, the objective equations stay in place and the VI functions matched | `MathPrgmAssumption`: finite sets of MPs, variables and equations, no variable is an equation, and a start model whose matrix has equations of the model only |
| `MathPrgmProofs`, last part: `MInvCorrect`, `MergedSorted`, `TypeCorrect`, `RoomForTheRestCorrect` | the merge stays within its memory, its `assert()`s hold, and when it returns the array is the sorted merge of the two, each value as often as in both | the values and the bound on the lengths are natural numbers |
| `CMatProofs`: `CInvCorrect`, `ListsExactCorrect`, `ContentsMatchCorrect`, `LeavesWithLastCorrect` | the lists of the container matrix hold exactly its elements, also between two iterations of a loop and after an error; the equations say the same between two operations; a variable that leaves is marked and in no row | `CMatAssumption`, `NilAssumption`: finite sets, a null pointer is no element |
| `FoocSystemProofs`: `SysInvCorrect`, `LayoutExactCorrect`, `TermsInvCorrect`, `LagrangianExactCorrect` | at every step of the assembly of the MCP its maps are exact, its blocks fit, its equations are at their places; in the end it is square, and the equation of each variable is the derivative of the Lagrangian of its own MP | `FamiliesAssumption`: the source models are `WellFormed`, see below |

**Arcs.** The inductive invariant is

    ArcInv == TypeOK /\ NoStrayArcs /\ RarcsHaveArcs /\ ArcsHaveRarcs /\ VarcsDistinct

`NoStrayArcs` and `VarcsDistinct` are checked by no run: this theorem has them for all sizes. None of
the parts is inductive alone. A substitution walks over the reverse arcs of the old MP and
removes arcs of the parents, so *reverse arcs have arcs* must hold for it to find them; it then walks over
the children and removes reverse arcs, so *arcs have reverse arcs* must hold for it to succeed.
`NoStrayArcs` gives that the id of a new MP is not the end of any arc, and that an MP is not its own parent, so
that the two halves of a substitution do not disturb each other. `VarcsDistinct` is needed because
the code replaces the first VF arc to the old MP only: with distinct children that is all of them.
The lemmas follow this: `SwapFirst*` and `EltsSwapFirst` (what replacing the first occurrence does
to a sequence), `VFLoop` (which children keep an old reverse arc),
`SubstRarcs`, `SubstCarcs`, `SubstVarcs` and `SubstNash` (each array after a substitution, pointwise),
`SubstitutionStep` (the invariant), `FreshUnlinked` (a new id is unlinked), and `ArcInvStep` with one step per
action. The two action properties follow from the invariant and the distinctness of the return codes.

**Roots.** `RInv == RTypeOK /\ ArcInv /\ RootsSorted /\ FinalizedRootsExact /\ DagHolds`. Every step of
`EmpDagRoots` is a step of `EmpDagArcs` or keeps the arcs, so `ArcInv` carries over; a root that is in the
reverse arcs of no node has, by `ArcInv`, no arc to it. While `finalized` is set only MPs without arcs are added:
`NewMPKeepsDag` shows that they disturb no path. The nodes below a root are computed by iteration;
`Saturation` and `DescLeast` prove, by counting, that as many rounds as there are nodes reach all of them.
`RootsSorted` is about lists of one kind of node: with both kinds the list is not sorted (`RootsAreFound` in `V_EmpDagRoots`).

**Analysis.** The C recursion is a stack, so every claim about "when this call returns" becomes a claim about what the stack
holds. A step changes many fields; the lemmas `StartedIs`, `LeaveIs`, `VisitIs`, ... state for each of them what it does
and end in `DfsStepIs`, so that the invariants are about a handful of cases. The first invariant holds on every EMPDAG:

    DfsInv == StackInv /\ KidsInv /\ OrderInv /\ CountInv /\ ReachedInv

*StackInv*: no node is on the stack twice, and those on it are being visited. *KidsInv*: a child of a node on the stack is still to be
visited, is above it on the stack, or is settled, unless the top frame is about to fail: this carries the exception for the return codes
that the loops drop, and it makes a node whose loop ends have all children in the order. *OrderInv* is that order: children are
before parents, and every finished node has a place or is dual. *CountInv* ties the counters to the finished nodes. With it, when
the counts agree every node is finished or hidden (`AllSeenIs`): so a node left behind by a dropped code makes the counts differ and the
EMPDAG is refused, unless it is a hidden MP: those are the nodes that the order may miss. A relation within a strict order has no cycle, so
the arcs between shown nodes have none (`OrderIsAcyclic`), and *ReachedInv* gives a root for each node. The paths
of the properties are `Reach`, squared as often as there are nodes; `ReachIsClosure` shows by counting that this is the closure.

`IntervalInv == TimesInv /\ PathInv /\ NestInv` is for EMPDAGs without dual MPs, whose numbering skips a node.
*PathInv* says that the stack is a path; *NestInv*, which is the property for the nodes finished so far and for those on the stack,
needs it: a node that is entered is below all of the stack. A node whose loop was left on an error keeps an open interval, so the
property is about finished nodes.

`WellFormedDag` asks for finite sets, arcs between existing nodes and an arc for every reverse arc (`RarcsHaveArcs` in `EmpDagArcs`), not for
the converse: an MP whose arcs a dual one took over keeps its own. Hidden MPs may have parents and children like others: `empdag_infer_roots` hides
an orphan, and the arc operations do not look at the mark. This is why the theorem has its exception: hidden MPs on a cycle are
counted as seen (`V_AcceptedIsAcyclic`).

**Sorted arrays.** The binary search is a recursive function. `NatSetInduction` states induction for a *set* of
naturals, `RecursiveFunction` that a function defined by recursion on the naturals exists, both from the
well-foundedness of strict inclusion on finite sets; `BinSearchFinds` is by induction on the width of the interval
and also shows that no index leaves the array, with the unsigned bounds of the code. The refinement has one
lemma, `EveryCallIsASetOperation`, with one step per call; both specifications record the call and its value, so a
step of the array can only be the operation of the set on the same value.

**Merge.** `MInv` says that at every step what is written is in order and without a gap (`Written`), that it is the destination with what was taken of
the source, counted for every value (`CountedIn`), and how the rest of the destination lies behind `darr` (`Behind`: it ends with the last
element of the destination and starts above what is left of the source). Every step of the code is one insertion of a block:
`InsertKeepsOrder` and `InsertAdds` show what that does to order and contents, overlapping moves included, `InsertStep` puts them together, and each action
has to show that its search found a place where the block fits (`BinInsertFinds`, `CopyLenFits`). `BinInsertFinds` is for the
binary search with duplicates, whose loop may end on any of several right places. The precondition of that search, a value that
is not above the last one, is what `Behind` and the last conjunct of `AtLoop` are for.

**Instances for the FOOC.** `FInv == MpsInv /\ ChildrenInv /\ LoopInv`. *ChildrenInv* says of every child that was given that it or its
instance is in the array, never both, and that nothing else is; instances are distinct and made for CCFLIB MPs (*MpsInv*), so no child is lost
and none is there twice. A substitution removes a child and inserts
a new one elsewhere in the sorted array, while the index of the loop goes on. `LoopInv` says that
the length stays the same and that a single CCFLIB child is ahead of the index or gone. The instance has a larger uid
than the original, so the children between the two move forward by one place and the loop passes over one of them; that
is harmless when it is not a CCFLIB MP, and with two it is not (`V_AnalysisPredictsFooc`): hence the condition on their number.

**GUI.** `IInv` relates the position `k` of the library in the script of its model to the phase of the GUI, to the units and
answers under way and to the part of the EMPDAG received: `Expects(j)` is "the GUI is where message `j` is
expected", and `Sync` lists the seven situations a transfer can be in (`Quiet`, `Writing`, `Sent`, `Answered`, and
the three that the code's errors lead to: `Refused`, `GivenUp`, `Overrun`). `Framed` says that header and text of log messages alternate.
There is one lemma per action of either process; `ScriptIs` and `ChunksAre` compute the script, `ChunkFits` when a
chunk is read whole.

**MPs.** `IInv == Sound(mdl) /\ Bounded /\ Counted` with the ranges of the counters. `Sound` is `ListedIsOwned` with what it needs:
the types, *Occupied* and *ColumnsActive* (a spare equation is in no column, so it can become a copy), *VarsOwned* with
the objective variable, *UnownedRoles* and *ObjequsMarked* (an equation that an MP takes over has no other role). A function of
the code is a chain of updates of one variable, equation or MP, and it may return after each of them. `Step(s, t, m, X, d)` says
what a chain from `s` to `t` keeps: the result is sound, only `m` changes, its lists lose nothing but `X`, its
counts grow by `d` at most. Each update has a lemma (`WithVar*`, `WithEqu*`, `WithMp*`), each function of the code
one that composes them, and each action one step under `NextInv`; a contraction changes two MPs and has `Contracts` in
place of `Step`. `Counted`, the balance of a VI, holds only while no call has failed. `NothingLost` follows from `Step`: the set `X` of each action is accounted for.
The proof uncovered one assumption that was missing in the module (variables and equations are disjoint: `Listed` is one set).

What holds only while no call failed is `LInv == IInv /\ (failures = 0 => Linked(mdl, edited))`. `Linked` has four parts. *Retired*:
an equation that has a copy has left the model, so that the rosetta never forks and never comes back to an equation in a list.
*FunctionsOfVis*: the VI functions are in VIs, so that an objective or a contraction never touches a pair. *Pairs*:
for every VI function in a list the rosetta leads from the equation that its variable names to it (`Ends`, a path no longer
than the number of equations that have a copy, which is why the bounded walk of `Latest` reaches its end: `EndIsLatest`).
*PlacedAt*: an MP without an objective equation lists every active equation it owns, and one that names an objective equation of its
own lists it. The first half is needed because `mp_identify_objequ` makes an equation the objective without
adding it to the list; the second is stronger than `ObjectiveInPlace`: the name is updated with every copy, so that
`Latest` never has to go on from it. A copy extends one path and leaves the others (`NewEnds`). Each way the code changes
the links has one lemma (`MatchedLinked` for a new pair, `SubstituteLinked` for a copy, `LeavesLinked`, `ClaimLinked`,
`RevarsLinked`, `TouchLinked`), each function of the code one that shows which way it is, `NextFollows` one step per action.

**Container matrix.** `CInv` says what the code keeps nowhere: that the elements of a row are a list, and those of a column too.
`Listing(first, next, S)` is "the pointers from `first` along `next` number the elements of `S` without repetition and end";
the lemmas `List*` say what putting an element first or last, taking one out, or changing the pointers of other elements does to
a list, and `ListWalk`, by induction on its length, that a walk bounded by the size of the container meets all of it, which is what the
properties and the searches of the model read. `ColumnsInv` adds that the back pointers are the inverse and that only the first element of a
column can be a placeholder; without that, the element that `cmat_elt_new` puts in the place of an objective placeholder would lose the rest of
the column. `RowsInv` follows a row also while `cmat_rm_equ` takes it apart, from the element the loop is at (`RowStart`).
`ContentsInv` is per equation and variable: the matrix and the equation agree (`Fits`), or the loop in progress has not come to the variable
(`Ahead`); `JobInv` is what each loop knows, for a copy that the elements done and those ahead are together the row of the
source (`Copied`). After an error of `equ_rm_var` only the part about the lists is left, as in the code: the linear part has lost the variable
and the matrix has not. There is one lemma per pointer operation (`EltNewColumns`, `UnlinkColumns`, `LinkRows`, `FrontRows`,
`DropRows`, `CstRows`, `NewPlaceholder`) and one per action (`...Step`).

**Layout of the MCP.** All the numbers that the filters, the objective list and the walk hand out have one form: `Before(S, x)`, the count of the
members of a set below `x`. The first lemmas say that it is a bijection onto an initial segment (`BeforeInjective`,
`BeforeOnto`) and how it grows along a walk (`BeforeNext`). With it the place of an equation has a closed form, `Rosetta(e)`, its variable
another, `DualOf(e)`, and what the code does with five counters and an array is shown to compute them:

    SysInv == ListInv /\ (pc = "inject" => Walk) /\ (behind the walk: Built) /\ (at the end: Matched) /\ types

`ListInv` is about the loop over the MPs: the sorted list and its two maps are inverse (`FillObjequKeeps`), it has the objective equations of
the MPs before `i`, and the VI functions counted are those of these MPs. That both are complete at the end (`LayoutFull`) makes
`cons_size` the number of constraints, and that the intervals between the objective equations cover everything else (`WalkedIs`) makes the
separate count of the linear constraints agree with the test that sorts them (`LinconsCounted`). `Walk` says what each counter is when
equation `ei_src` is next, that the equations before it are at their places, and that no other place has a variable: so no copy finds
its place taken (`CopyToStep`). Afterwards only equations F change, and only to the variable that they are the derivative for
(`MatchStep`, `MatchStepKeeps`).
**Terms of the Lagrangian.** What an equation F has got is a bag, so that a term added twice would show. The invariant is

    TermsInv == the lists of constraints are exact (`ConsExact`) /\ terms = SetToBag(AllTerms(the variables whose MP had its turn))

with `TermsAt(v)` the terms that the model says belong to `v`: of the objective, of the constraints of its own MP with their multipliers, of
its VI function and of its own multiplier. A bag that is the bag of a set has each of its members once, and for that the terms of
different variables must not meet (`TermsDisjoint`): they are at different equations, because the renumbering of the
variables is injective. Each turn of the loop then adds a set that was not there (`TermsWithEquation`, `TermsWithout`); the
code finds that set through the lists of constraints, the renumbered rows and the normal cone (`ConsOfMpIs`, `NormalConeIs`,
`ObjequOfIs`), so here the layout is needed. At the end every variable that had no turn belongs to no MP
and has no terms (`AllDone`), and the matching of `SysInv` says which equation is the variable's own (`LagrangianIs`).

`WellFormed` is what the containers and the EMPDAG guarantee: filters keep existing indices, roles and owners fit (`MathPrgm` is about
that), VI functions and variables of VIs are one to one, and with an EMPDAG every equation that is kept belongs to some MP and every
variable to one or to none (`mdl_checkmetadata`, `mdl_ops.c:376` to `:417`). Part of it the code asserts (`fooc.c:792` to `:796`, `:1572`); two parts it relies on
without an assertion: a variable has a zero function only in a VI whose conditions are computed, and in a VI without EMPDAG no variable was deleted.

Only model-checked:

- liveness (`CallsEnd`, `LogIsServed`, `InstantiatesOnce`, and the parts of `VerdictExact`, `MergeExact`, `SucceedsExactly` and
  `MadeAsWritten` that say that something ends), which these provers do not reach;
- of the analysis `TreesExact`, `AdversariesInOrder`, `LevelsAgree` and `RolesExact`: what is computed along the order that the theorems are about.
  `PathsAreNested` and `PathFits` need the converse of `NestInv`, that a tree is entered once over its only path, and the others
  compare recursive walks with sets of paths, which is induction over data. EMPDAGs with MPs that a dual one superseded are in
  the theorems and not in the instances of the runs;
- `EmpVm`, whose operators are declared `RECURSIVE`, which excludes proofs;

## 5. Plan

1. Done: ids, arcs, roots and finalization, traversal and analysis, sorted arrays, merge, instances for
   the FOOC, assembly of the MCP, MPs, container matrix, compiler and machine of the interpreter, GUI link; proofs
   for arcs, roots, the traversal, sorted arrays, merge, instances, layout and terms of the MCP, GUI link, MPs and the container matrix.
2. Next theorems: the flag and the intervals of trees (`TreesExact`), from `IntervalInv` and the order of the entries.
3. Next modules: `EmpDagRoots` with the real analysis in place of its verdict, repeated after changes, with the features
   that are accumulated and not reset; the contraction of VF paths over `EmpDagArcs` and `MathPrgm` together;
   statuses and reference counts along a chain of models; the link resolver of the interpreter.

The map covers about 9 % of the implementation: the control of the core. Most of the rest is input and output, the
grammar of the interpreter, numerical code, expression trees, printing and the interfaces to solvers.

Not modelled: model lifecycle and pools (planned), and, not planned, expression trees and the numerical content of reformulations (equations,
Jacobians), solver, GAMS and AMPL calls, the grammar of the interpreter, printing and options, generated
bindings.

## 6. Running

    tlc -config MCEmpDagArcs.cfg MCEmpDagArcs      # and the other .cfg files
    tlc -config V_EveryTransferEnds.cfg MCGuiIpc   # a configuration V_*: see the table in section 3
    tlapm EmpDagRootsProofs.tla                    # and the other *Proofs modules; MathPrgmProofs takes 15 minutes

Each definition named `X_Suffix` in front of a definition `X` is a mutant: `X` with a plausible mistake, which
must make the property listed with it in `PROJECT.json` fail.
