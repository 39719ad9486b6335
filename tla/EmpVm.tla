-------------------------------- MODULE EmpVm --------------------------------
(***************************************************************************)
(* The EMP interpreter in its VM mode.  A statement that iterates over     *)
(* GAMS sets, as in                                                        *)
(*                                                                         *)
(*    loop(i$(a(i)),  n(i,j)$(b(j) and c(i,j)): min obj + m(j,k)$(d(k)))   *)
(*                                                                         *)
(* is compiled in one pass (empinterp_vm_compiler.c): the loops are tests  *)
(* and jumps back, the conditions only jumps, whose targets are not known  *)
(* when they are emitted.  Two stacks hold the jumps to patch, truey_jumps *)
(* and falsey_jumps, each jump with the depth it was emitted at; patching  *)
(* takes the longest top part of a stack whose depths are at least a given *)
(* one.  A stack machine (empinterp_vm.c) then runs the code and makes one *)
(* mathematical programme per tuple the condition keeps, with its arcs.    *)
(*                                                                         *)
(* The compiler is the operators of the first half, the machine the        *)
(* actions of the second.  The abstract specification is the meaning of    *)
(* the statement, computed on its syntax (Meaning).                        *)
(*                                                                         *)
(* Left out: the lexer and the checks of the syntax; local sets (the debug *)
(* build refuses them, empinterp_vm_compiler.c:903); sums of expressions,  *)
(* the dual operator, CCF functions, the symbols an MP reads;              *)
(* `yes$(...)` in a projection; a second statement in the body of a loop;  *)
(* sets that are empty (the loop tests after its body); a Nash label in a  *)
(* loop; `$NOT ((...))`.                                                   *)
(***************************************************************************)
EXTENDS Naturals, SequencesExt

CONSTANTS
  Programs,   \* a set of Program(stmt, sizes, rels): a statement, what earlier ones of
              \* the file left in vm->uints, and the contents that the sets it tests
              \* may have (functions from names to sets of tuples)
  Slots,      \* number of local variables of the machine (UINT8_COUNT in the code)
  SetElts     \* a GAMS set one loops over, to its elements (UELs) in order

\* Sets of the loops have elements; UELs are positive (0 is "any").
ASSUME EmpVmAssumption ==
  \A s \in DOMAIN SetElts : SetElts[s] # <<>> /\ \A k \in DOMAIN SetElts[s] : SetElts[s][k] \in Nat \ {0}

(***************************************************************************)
(* Syntax.  An index list is a sequence of set names.  A condition is      *)
(* <<>> or <<chain>>; a chain has items and, between them, ops "and"/"or"; *)
(* `not` is the NOT of `$NOT (...)`.  Items:                               *)
(*   [k: "in", p, idx, neg]          p(idx)                                *)
(*   [k: "first"/"last", s, neg]     s.first, s.last                       *)
(*   [k: "uel", s, u, neg]           sameas(s,'u')                         *)
(*   [k: "same", s, t, neg]          sameas(s,t)                           *)
(*   [k: "sum", sets, cond, in1, in2, neg]                                 *)
(*        sum{sets$cond, ...} or, when in1 is not <<>>, sum{in1, ...}; the *)
(*        second argument is in2, or yes when in2 is <<>>                  *)
(*   [k: "group", chain]             ( ... )                               *)
(* Statements: [k: "label", idx, cond, arcs], an MP per tuple of idx and   *)
(* under it the arcs [idx, cond]; [k: "loop", sets, cond, body].           *)
(***************************************************************************)

-----------------------------------------------------------------------------
(* The compiler. *)

Ins(op, args) == [op |-> op, args |-> args]

EmitAll(c, instrs) == [c EXCEPT !.code = @ \o instrs]
Emit(c, op, args)  == EmitAll(c, <<Ins(op, args)>>)

\* The target 0 stands for the 0xffff that a jump holds until it is patched.
EmitJump(c, op, kind, depth) ==
  [Emit(c, op, <<0>>) EXCEPT ![kind] = Append(@, [depth |-> depth, at |-> Len(c.code) + 1])]

\* The jumps at the positions of ats now lead to the end of the code.
PatchAt(c, ats) ==
  [c EXCEPT !.code = <<>> \o [n \in DOMAIN @ |-> IF n \in ats THEN [@[n] EXCEPT !.args = <<Len(c.code) + 1>>]
                                                               ELSE @[n]]]

\* Mutant: the jumps of the depth itself stay pending.
patch_jumps_Deeper(c, kind, depth) ==
  LET jumps == c[kind]
      keep  == Max({n \in DOMAIN jumps : jumps[n].depth <= depth} \union {0})
  IN  [PatchAt(c, {jumps[n].at : n \in keep + 1 .. Len(jumps)}) EXCEPT ![kind] = SubSeq(@, 1, keep)]

patch_jumps(c, kind, depth) ==
  LET jumps == c[kind]
      keep  == Max({n \in DOMAIN jumps : jumps[n].depth < depth} \union {0})
  IN  [PatchAt(c, {jumps[n].at : n \in keep + 1 .. Len(jumps)}) EXCEPT ![kind] = SubSeq(@, 1, keep)]

\* Iterator number k of the statement has the local slots 2(k-1), its index in the
\* set, and 2(k-1)+1, the element; env is the stack of the iterators in control.
IdxSlot(k)  == 2 * (k - 1)
IterSlot(k) == 2 * (k - 1) + 1
InControl(c, s) == \E k \in DOMAIN c.env : c.env[k].set = s
resolve_local(c, s) == Max({k \in DOMAIN c.env : c.env[k].set = s})

begin_scope(c) == [c EXCEPT !.depth = @ + 1]
end_scope(c)   == [c EXCEPT !.depth = @ - 1, !.env = SelectSeq(@, LAMBDA e : e.depth < c.depth)]

\* Sets of idx that no loop controls, and their positions.
Uncontrolled(c, idx) == SelectSeq([d \in DOMAIN idx |-> [set |-> idx[d], pos |-> d]],
                                  LAMBDA x : ~InControl(c, x.set))

loop_init(c, iters) ==
  LET n == Len(c.env)
      Entry(i) == [set |-> iters[i].set, depth |-> c.depth, max |-> Len(c.uints) + i - 1, start |-> 0]
      Zero(i)  == <<Ins("LVAR_ZERO", <<IdxSlot(n + i)>>), Ins("LVAR_ZERO", <<IterSlot(n + i)>>)>>
  IN  [EmitAll(c, FlattenSeq([i \in DOMAIN iters |-> Zero(i)]))
         EXCEPT !.env   = @ \o [i \in DOMAIN iters |-> Entry(i)],
                !.uints = @ \o [i \in DOMAIN iters |-> Len(SetElts[iters[i].set])]]

\* With an object (0 for none) each iterator also updates its place in the object; n
\* iterators were in control before.
loop_start(c, n, iters, obj) ==
  LET Update(i) == <<Ins("LOOPVAR_UPDATE", <<IterSlot(n + i), IdxSlot(n + i), iters[i].set>>)>>
                     \o IF obj = 0 THEN <<>>
                        ELSE <<Ins("SETFROM_LOOPVAR", <<obj, iters[i].pos, IterSlot(n + i)>>)>>
      Start(i) == Len(c.code) + 1 + Len(FlattenSeq([h \in 1 .. i - 1 |-> Update(h)]))
  IN  [EmitAll(c, FlattenSeq([i \in DOMAIN iters |-> Update(i)]))
         EXCEPT !.env = <<>> \o [k \in DOMAIN @ |-> IF k > n THEN [@[k] EXCEPT !.start = Start(k - n)] ELSE @[k]]]

loop_initandstart(c, iters, obj) == loop_start(loop_init(c, iters), Len(c.env), iters, obj)

\* Mutant: only the outermost iterator is incremented before its test.
loop_increment_OuterOnly(c, n) ==
  LET first == Len(c.env) - n
      Next(k) == (IF k = first + 1 THEN <<Ins("LVAR_INC", <<IdxSlot(k)>>)>> ELSE <<>>)
                   \o <<Ins("PUSH_LIDX", <<IdxSlot(k)>>), Ins("PUSH_VMUINT", <<c.env[k].max>>), Ins("EQUAL", <<>>),
                        Ins("JUMP_BACK_IF_FALSE", <<c.env[k].start>>)>>
  IN  EmitAll(c, FlattenSeq([i \in 1 .. n |-> Next(Len(c.env) + 1 - i)]))

\* The iterators of the innermost loop are the last n of env.
loop_increment(c, n) ==
  LET first == Len(c.env) - n
      Next(k) == <<Ins("LVAR_INC", <<IdxSlot(k)>>), Ins("PUSH_LIDX", <<IdxSlot(k)>>),
                   Ins("PUSH_VMUINT", <<c.env[k].max>>), Ins("EQUAL", <<>>),
                   Ins("JUMP_BACK_IF_FALSE", <<c.env[k].start>>)>>
                   \o IF k = first + 1 THEN <<>> ELSE <<Ins("LVAR_ZERO", <<IdxSlot(k)>>)>>
  IN  EmitAll(c, FlattenSeq([i \in 1 .. n |-> Next(Len(c.env) + 1 - i)]))

\* A new object for p(idx) or label(idx); the indices in control update it at once.
gmsindices_process(c, name, idx) ==
  LET obj == Len(c.objs) + 1
      InCtl == SelectSeq([d \in DOMAIN idx |-> d], LAMBDA d : InControl(c, idx[d]))
  IN  [EmitAll(c, [i \in DOMAIN InCtl |->
                     Ins("SETFROM_LOOPVAR", <<obj, InCtl[i], IterSlot(resolve_local(c, idx[InCtl[i]]))>>)])
         EXCEPT !.objs = Append(@, [name |-> name, dim |-> Len(idx)])]

\* Mutant: no jump from the case "false" over the case "true".
emit_not_projection_FallsThrough(c0) ==
  LET c1 == patch_jumps(Emit(c0, "PUSH_FALSE", <<>>), "truey", c0.depth)
  IN  EmitJump(EmitAll(c1, <<Ins("PUSH_TRUE", <<>>), Ins("NOT", <<>>)>>), "JUMP_IF_TRUE", "truey", c0.depth)

emit_not_projection(c) ==
  LET true == Len(c.code) + 2
      cases == Emit(patch_jumps(EmitAll(c, <<Ins("PUSH_FALSE", <<>>), Ins("JUMP", <<0>>)>>), "truey", c.depth),
                    "PUSH_TRUE", <<>>)
  IN  EmitJump(Emit(PatchAt(cases, {true}), "NOT", <<>>), "JUMP_IF_TRUE", "truey", c.depth)

NegatedIf(neg, c) == IF neg THEN emit_not_projection(c) ELSE c

\* The element that a membership test is about is the object made last.
EmitMembership(c, depth) ==
  EmitJump(Emit(c, "MEMBERSHIP_TEST", <<Len(c.objs)>>), "JUMP_IF_TRUE", "truey", depth)

membership_test_start(c, it) ==
  EmitMembership(loop_initandstart(gmsindices_process(c, it.p, it.idx), Uncontrolled(c, it.idx), Len(c.objs) + 1),
                 c.depth + 1)

membership_test(c, it, neg) ==
  end_scope(NegatedIf(neg, loop_increment(membership_test_start(begin_scope(c), it), Len(Uncontrolled(c, it.idx)))))

EmitNot(c, neg) == IF neg THEN Emit(c, "NOT", <<>>) ELSE c

\* max_lidx and max_gidx share their memory: whether there is a local variable with
\* the size is read off the index of the size among vm->uints.
set_attribute(c, it, neg) ==
  LET k     == resolve_local(c, it.s)
      idx   == Ins("PUSH_LIDX", <<IdxSlot(k)>>)
      size  == Ins(IF c.env[k].max # 0 THEN "PUSH_LIDX" ELSE "PUSH_VMUINT", <<c.env[k].max>>)
      first == <<idx, Ins("PUSH_BYTE", <<0>>), Ins("EQUAL", <<>>)>>
      last  == <<size, idx, Ins("STACKTOP_INC", <<>>), Ins("EQUAL", <<>>)>>
  IN  EmitJump(EmitNot(EmitAll(c, IF it.k = "first" THEN first ELSE last), neg),
               "JUMP_IF_TRUE", "truey", c.depth)

parse_sameas(c, it, neg) ==
  LET other == IF it.k = "uel" THEN Ins("PUSH_VMINT", <<it.u>>)
                               ELSE Ins("PUSH_LIDX", <<IterSlot(resolve_local(c, it.t))>>)
      this  == Ins("PUSH_LIDX", <<IterSlot(resolve_local(c, it.s))>>)
  IN  patch_jumps(EmitJump(EmitNot(EmitAll(c, <<other, this, Ins("EQUAL", <<>>)>>), neg),
                           "JUMP_IF_TRUE", "truey", c.depth + 1),
                  "falsey", c.depth)

RECURSIVE parse_condition(_, _)

\* The iterators over sets, with their condition if there is one.
WithCondition(c, cond) == IF cond = <<>> THEN c ELSE parse_condition(c, cond[1])
parse_loopiters_operator(c, sets, cond) ==
  WithCondition(loop_initandstart(c, [i \in DOMAIN sets |-> [set |-> sets[i], pos |-> i]], 0), cond)

sumtype_parse_arg1(c, it) ==
  IF it.in1 # <<>> THEN membership_test_start(c, it.in1[1])
  ELSE EmitJump(parse_loopiters_operator(c, it.sets, it.cond), "JUMP", "truey", c.depth)

\* The second argument of the sum, after the first one holds.
ProjectionArg2(c, it) ==
  IF it.in2 = <<>> THEN EmitJump(c, "JUMP", "truey", c.depth)
  ELSE EmitMembership(gmsindices_process(c, it.in2[1].p, it.in2[1].idx), c.depth)

\* The end of the iteration; n iterators were in control before the sum.  The jump at
\* the end of the increments leads over the second argument, to the case "false".
ProjectionAfterLoop(c, it, inc) ==
  PatchAt(Emit(ProjectionArg2(patch_jumps(Emit(c, "JUMP", <<0>>), "truey", c.depth), it), "JUMP_BACK", <<inc>>),
          {Len(c.code) + 1})
ProjectionLoop(c, it, n) ==
  ProjectionAfterLoop(loop_increment(c, Len(c.env) - n), it, Len(c.code) + 1)

parse_projection_in_conditional(c, it, neg) ==
  LET d == c.depth + 1
      arg1 == patch_jumps(sumtype_parse_arg1(begin_scope(c), it), "falsey", d)
  IN  end_scope(EmitJump(NegatedIf(neg, ProjectionLoop(arg1, it, Len(c.env))), "JUMP", "falsey", d))

RECURSIVE parse_conditional(_, _, _)

\* One element of a condition, at its place in a chain of "and"s and "or"s.
ConditionalItem(c, it, neg) ==
  CASE it.k = "in"                -> membership_test(c, it, neg)
    [] it.k \in {"first", "last"} -> set_attribute(c, it, neg)
    [] it.k \in {"uel", "same"}   -> parse_sameas(c, it, neg)
    [] it.k = "sum"               -> parse_projection_in_conditional(c, it, neg)
    [] it.k = "group"             ->
         [parse_conditional([c EXCEPT !.depth = @ + 1], it.chain, FALSE) EXCEPT !.depth = c.depth]

\* Mutant: "or" resolves the true jumps, as "and" does.
Connective_OrTrue(c, op) ==
  patch_jumps(IF op = "and" THEN EmitJump(c, "JUMP", "falsey", c.depth) ELSE c, "truey", c.depth)

\* What stands between two elements.
Connective(c, op) ==
  IF op = "and" THEN patch_jumps(EmitJump(c, "JUMP", "falsey", c.depth), "truey", c.depth)
                ELSE patch_jumps(c, "falsey", c.depth)

parse_conditional(c0, chain, not) ==
  LET Next(c, n) ==
        LET it == chain.items[n]
        IN  ConditionalItem(IF n = 1 THEN c ELSE Connective(c, chain.ops[n - 1]), it,
                            (n = 1 /\ not) \/ (it.k # "group" /\ it.neg))
  IN  FoldLeftDomain(Next, c0, chain.items)

parse_condition(c, chain) ==
  LET elements == [parse_conditional([c EXCEPT !.depth = @ + 1], chain, chain.not) EXCEPT !.depth = c.depth]
  IN  patch_jumps(EmitJump(elements, "JUMP", "falsey", c.depth), "truey", c.depth)

\* The jumps on top that are deeper than the scope leave with the scope; a truey jump
\* that is left is an error.
c_normalize_jumps_depth(c) ==
  LET jumps == c.falsey
      keep  == Max({n \in DOMAIN jumps : jumps[n].depth < c.depth} \union {0})
  IN  [c EXCEPT !.error  = @ \/ c.truey # <<>>,
                !.falsey = <<>> \o [n \in DOMAIN @ |-> IF n > keep THEN [@[n] EXCEPT !.depth = c.depth] ELSE @[n]]]

\* The end of every loop: both outcomes of the condition are resolved.
EndLoop(c, n) == end_scope(patch_jumps(loop_increment(patch_jumps(c, "falsey", c.depth), n), "truey", c.depth))

vm_gmsindicesasarc(c, arc) ==
  LET indices == gmsindices_process(c, "arc", arc.idx)
      obj   == Len(c.objs) + 1
      iters == Uncontrolled(c, arc.idx)
      slots == [i \in DOMAIN iters |-> <<iters[i].pos, IterSlot(Len(c.env) + i)>>]
      start == loop_initandstart(begin_scope(Emit(indices, "LINKLABELS_INIT", <<obj>>)), iters, obj)
  IN  IF iters = <<>> THEN Emit(indices, "LINKLABELS_DUP", <<obj>>)
      ELSE Emit(EndLoop(Emit(WithCondition(start, arc.cond), "LINKLABELS_STORE", slots), Len(iters)),
                "LINKLABELS_FINI", <<>>)

LabelCondition(c, cond) == IF cond = <<>> THEN c ELSE c_normalize_jumps_depth(parse_condition(c, cond[1]))

\* A label definition with an MP: with a condition vm_labeldef_condition, otherwise
\* vm_labeldef_loop.
vm_labeldef(c, st) ==
  LET obj   == Len(c.objs) + 1
      iters == Uncontrolled(c, st.idx)
      start == loop_initandstart(gmsindices_process(begin_scope(c), "label", st.idx), iters, obj)
      mp    == EmitAll(LabelCondition(start, st.cond),
                       <<Ins("PUSH_BYTE", <<0>>), Ins("PUSH_GIDX", <<obj>>), Ins("NEW_MP", <<>>)>>)
  IN  EndLoop(EmitAll(FoldLeft(vm_gmsindicesasarc, mp, st.arcs), <<Ins("MP_FINALIZE", <<>>), Ins("POP", <<>>)>>),
              Len(iters))

RECURSIVE Statement(_, _)
parse_loop(c0, st) ==
  EndLoop(Statement(parse_loopiters_operator(begin_scope(c0), st.sets, st.cond), st.body), Len(st.sets))

Statement(c, st) == IF st.k = "loop" THEN parse_loop(c, st) ELSE vm_labeldef(c, st)

Start(sizes) == [code |-> <<>>, truey |-> <<>>, falsey |-> <<>>, depth |-> 0, env |-> <<>>,
                 uints |-> sizes, objs |-> <<>>, error |-> FALSE]

Compiled(st, sizes) == Emit(Statement(Start(sizes), st), "END", <<>>)

\* A statement as the machine gets it: compiled before any of it runs.
Program(st, sizes, rels) == [stmt |-> st, sizes |-> sizes, rels |-> rels, vm |-> Compiled(st, sizes)]

ASSUME ProgramsAssumption == \A p \in Programs : p = Program(p.stmt, p.sizes, p.rels)

-----------------------------------------------------------------------------
(* The machine. *)

VARIABLES
  prog,    \* the statement that runs, and the sizes stored before it
  vm,      \* the result of the compiler: the code, the sizes, the objects
  rel,     \* the contents of the sets its conditions test
  pc,      \* code.ip
  stack,   \* values [t, v]: the type and the payload
  locals,  \* the local variables
  objs,    \* the uels of the loop objects
  parent,  \* uid_parent: the node that is being defined, 0 for none
  link,    \* state.linklabels: the entry of arcs that is being filled, 0 for none
  nodes,   \* the labels of the MPs made, in order
  arcs,    \* linklabels2arcs
  dups,    \* linklabel2arc
  status   \* "run", "end", or "fault" where an assertion of the code fails

vars == <<prog, vm, rel, pc, stack, locals, objs, parent, link, nodes, arcs, dups, status>>

Instr == vm.code[pc]
Arg   == Instr.args

Top == Last(stack)
Val(t, v) == [t |-> t, v |-> v]
Bool(b) == Val("bool", IF b THEN 1 ELSE 0)

Init ==
  /\ \E p \in Programs :
       /\ prog = [stmt |-> p.stmt, sizes |-> p.sizes]
       /\ vm = p.vm
       /\ rel \in p.rels
  /\ pc = 1 /\ stack = <<>>
  /\ locals = [s \in 0 .. Slots - 1 |-> Val("none", 0)]
  /\ objs = [o \in DOMAIN vm.objs |-> [d \in 1 .. vm.objs[o].dim |-> 0]]
  /\ parent = 0 /\ link = 0 /\ nodes = <<>> /\ arcs = <<>> /\ dups = <<>>
  /\ status = "run"

Runs(ops) == status = "run" /\ Instr.op \in ops

Advance == pc' = pc + 1 /\ UNCHANGED <<prog, vm, rel, status>>
Faults  == status' = "fault" /\ UNCHANGED <<prog, vm, rel, pc, stack, locals, objs, parent, link, nodes, arcs, dups>>

Push ==
  /\ Runs({"PUSH_BYTE", "PUSH_LIDX", "PUSH_VMUINT", "PUSH_VMINT", "PUSH_TRUE", "PUSH_FALSE", "PUSH_GIDX"})
  /\ stack' = Append(stack,
       CASE Instr.op = "PUSH_BYTE"   -> Val("uint", Arg[1])
         [] Instr.op = "PUSH_LIDX"   -> locals[Arg[1]]
         [] Instr.op = "PUSH_VMUINT" -> Val("uint", vm.uints[Arg[1] + 1])
         [] Instr.op = "PUSH_VMINT"  -> Val("int", Arg[1])
         [] Instr.op = "PUSH_TRUE"   -> Bool(TRUE)
         [] Instr.op = "PUSH_FALSE"  -> Bool(FALSE)
         [] Instr.op = "PUSH_GIDX"   -> Val("regentry", Arg[1]))
  /\ Advance
  /\ UNCHANGED <<locals, objs, parent, link, nodes, arcs, dups>>

\* a_elt <- a_set[a_idx]; the index must be in the set.
LoopvarUpdate ==
  /\ Runs({"LOOPVAR_UPDATE"})
  /\ LET set == SetElts[Arg[3]]
         idx == locals[Arg[2]].v
     IN  IF idx < Len(set)
         THEN /\ locals' = [locals EXCEPT ![Arg[1]] = Val("loopvar", set[idx + 1])]
              /\ Advance
              /\ UNCHANGED <<stack, objs, parent, link, nodes, arcs, dups>>
         ELSE Faults

LvarZero ==
  /\ Runs({"LVAR_ZERO"})
  /\ locals' = [locals EXCEPT ![Arg[1]] = Val("uint", 0)]
  /\ Advance
  /\ UNCHANGED <<stack, objs, parent, link, nodes, arcs, dups>>

LvarInc ==
  /\ Runs({"LVAR_INC"})
  /\ locals' = [locals EXCEPT ![Arg[1]].v = @ + 1]
  /\ Advance
  /\ UNCHANGED <<stack, objs, parent, link, nodes, arcs, dups>>

StacktopInc ==
  /\ Runs({"STACKTOP_INC"})
  /\ stack' = Append(Front(stack), [Top EXCEPT !.v = @ + 1])
  /\ Advance
  /\ UNCHANGED <<locals, objs, parent, link, nodes, arcs, dups>>

\* GMSSYMITER_, LINKLABELS_ and REGENTRY_SETFROM_LOOPVAR.
SetFromLoopvar ==
  /\ Runs({"SETFROM_LOOPVAR"})
  /\ IF locals[Arg[3]].t = "loopvar"
     THEN /\ objs' = [objs EXCEPT ![Arg[1]][Arg[2]] = locals[Arg[3]].v]
          /\ Advance
          /\ UNCHANGED <<stack, locals, parent, link, nodes, arcs, dups>>
     ELSE Faults

\* A loop variable on top becomes an integer.  For one below the top the code converts
\* the top a second time.
Equal ==
  /\ Runs({"EQUAL"})
  /\ LET below == stack[Len(stack) - 1]
         top   == IF Top.t = "loopvar" \/ below.t = "loopvar" THEN Val("int", Top.v) ELSE Top
     IN  stack' = Append(SubSeq(stack, 1, Len(stack) - 2), Bool(top.t = below.t /\ top.v = below.v))
  /\ Advance
  /\ UNCHANGED <<locals, objs, parent, link, nodes, arcs, dups>>

Not ==
  /\ Runs({"NOT"})
  /\ stack' = Append(Front(stack), Bool(Top.v = 0))
  /\ Advance
  /\ UNCHANGED <<locals, objs, parent, link, nodes, arcs, dups>>

Jump ==
  /\ Runs({"JUMP", "JUMP_BACK"})
  /\ pc' = Arg[1]
  /\ UNCHANGED <<prog, vm, rel, stack, locals, objs, parent, link, nodes, arcs, dups, status>>

JumpIf ==
  /\ Runs({"JUMP_IF_TRUE", "JUMP_BACK_IF_FALSE"})
  /\ pc' = IF (Top = Bool(TRUE)) = (Instr.op = "JUMP_IF_TRUE") THEN Arg[1] ELSE pc + 1
  /\ stack' = Front(stack)
  /\ UNCHANGED <<prog, vm, rel, locals, objs, parent, link, nodes, arcs, dups, status>>

MembershipTest ==
  /\ Runs({"MEMBERSHIP_TEST"})
  /\ stack' = Append(stack, Bool(objs[Arg[1]] \in rel[vm.objs[Arg[1]].name]))
  /\ Advance
  /\ UNCHANGED <<locals, objs, parent, link, nodes, arcs, dups>>

\* The links to be made start as a copy of the object.
LinklabelsInit ==
  /\ Runs({"LINKLABELS_INIT"})
  /\ arcs' = Append(arcs, [parent |-> parent, data |-> objs[Arg[1]], recs |-> <<>>])
  /\ link' = Len(arcs')
  /\ Advance
  /\ UNCHANGED <<stack, locals, objs, parent, nodes, dups>>

LinklabelsStore ==
  /\ Runs({"LINKLABELS_STORE"})
  /\ LET Place(d) == {i \in DOMAIN Arg : Arg[i][1] = d}
         data == arcs[link].data
         rec  == [d \in DOMAIN data |-> IF Place(d) = {} THEN data[d]
                                        ELSE locals[Arg[Max(Place(d))][2]].v]
     IN  arcs' = [arcs EXCEPT ![link].recs = Append(@, rec)]
  /\ Advance
  /\ UNCHANGED <<stack, locals, objs, parent, link, nodes, dups>>

\* Mutant: the dropped links stay the ones being filled.
LinklabelsFini_Kept ==
  /\ Runs({"LINKLABELS_FINI"})
  /\ arcs' = IF arcs[link].recs = <<>> THEN Front(arcs) ELSE arcs
  /\ Advance
  /\ UNCHANGED <<stack, locals, objs, parent, link, nodes, dups>>

\* Links without a child are dropped: they are the last ones.
LinklabelsFini ==
  /\ Runs({"LINKLABELS_FINI"})
  /\ arcs' = IF arcs[link].recs = <<>> THEN Front(arcs) ELSE arcs
  /\ link' = 0
  /\ Advance
  /\ UNCHANGED <<stack, locals, objs, parent, nodes, dups>>

LinklabelsDup ==
  /\ Runs({"LINKLABELS_DUP"})
  /\ dups' = Append(dups, [parent |-> parent, rec |-> objs[Arg[1]]])
  /\ Advance
  /\ UNCHANGED <<stack, locals, objs, parent, link, nodes, arcs>>

\* NEW_OBJ mp_new takes the sense and the label from the stack and leaves the MP.
NewMp ==
  /\ Runs({"NEW_MP"})
  /\ nodes' = Append(nodes, objs[Top.v])
  /\ parent' = Len(nodes')
  /\ stack' = Append(SubSeq(stack, 1, Len(stack) - 2), Val("mp", Len(nodes')))
  /\ Advance
  /\ UNCHANGED <<locals, objs, link, arcs, dups>>

MpFinalize ==
  /\ Runs({"MP_FINALIZE"})
  /\ IF Top.t = "mp"
     THEN /\ parent' = 0 /\ Advance
          /\ UNCHANGED <<stack, locals, objs, link, nodes, arcs, dups>>
     ELSE Faults

Pop ==
  /\ Runs({"POP"})
  /\ stack' = Front(stack)
  /\ Advance
  /\ UNCHANGED <<locals, objs, parent, link, nodes, arcs, dups>>

End ==
  /\ Runs({"END"})
  /\ status' = "end"
  /\ UNCHANGED <<prog, vm, rel, pc, stack, locals, objs, parent, link, nodes, arcs, dups>>

Stopped == status \in {"end", "fault"} /\ UNCHANGED vars

Step ==
  \/ Push \/ LoopvarUpdate \/ LvarZero \/ LvarInc \/ StacktopInc \/ SetFromLoopvar
  \/ Equal \/ Not \/ Jump \/ JumpIf \/ MembershipTest
  \/ LinklabelsInit \/ LinklabelsStore \/ LinklabelsFini \/ LinklabelsDup
  \/ NewMp \/ MpFinalize \/ Pop \/ End

Next == Step \/ Stopped

\* The machine runs to the end of its code in one call of empvm_run.
Spec == Init /\ [][Next]_vars /\ WF_vars(Step)

-----------------------------------------------------------------------------
(***************************************************************************)
(* What a statement means, computed on its syntax.  env maps the sets in   *)
(* control to their elements.  "and" and "or" are taken from left to       *)
(* right, as the compiler does; parentheses group.                         *)
(***************************************************************************)

RECURSIVE Tuples(_)
Tuples(sets) ==
  IF sets = <<>> THEN << <<>> >>
  ELSE FlattenSeq([k \in DOMAIN SetElts[Head(sets)] |->
                     [n \in DOMAIN Tuples(Tail(sets)) |-> <<SetElts[Head(sets)][k]>> \o Tuples(Tail(sets))[n]]])

\* env, extended with every tuple of the sets, in order.
Envs(env, sets) ==
  [n \in DOMAIN Tuples(sets) |->
     [s \in DOMAIN env \union ToSet(sets) |->
        IF s \in DOMAIN env THEN env[s] ELSE Tuples(sets)[n][CHOOSE i \in DOMAIN sets : sets[i] = s]]]

Free(env, idx) == SelectSeq(idx, LAMBDA s : s \notin DOMAIN env)
Uels(env, idx) == [d \in DOMAIN idx |-> env[idx[d]]]

Holds_in(env, it, r) == \E e \in ToSet(Envs(env, Free(env, it.idx))) : Uels(e, it.idx) \in r[it.p]

RECURSIVE HoldsUpTo(_, _, _, _)
Kept(env, sets, cond, r) ==
  SelectSeq(Envs(env, sets),
            LAMBDA e : cond = <<>> \/ HoldsUpTo(e, cond[1], Len(cond[1].items), r) # cond[1].not)

Holds_sum(env, it, r) ==
  LET sets == IF it.in1 = <<>> THEN it.sets ELSE Free(env, it.in1[1].idx)
  IN  \E e \in ToSet(Kept(env, sets, it.cond, r)) :
        /\ it.in1 # <<>> => Holds_in(e, it.in1[1], r)
        /\ it.in2 # <<>> => Holds_in(e, it.in2[1], r)

Holds(env, it, r) ==
  CASE it.k = "in"    -> Holds_in(env, it, r) # it.neg
    [] it.k = "first" -> (env[it.s] = SetElts[it.s][1]) # it.neg
    [] it.k = "last"  -> (env[it.s] = Last(SetElts[it.s])) # it.neg
    [] it.k = "uel"   -> (env[it.s] = it.u) # it.neg
    [] it.k = "same"  -> (env[it.s] = env[it.t]) # it.neg
    [] it.k = "sum"   -> Holds_sum(env, it, r) # it.neg
    [] it.k = "group" -> HoldsUpTo(env, it.chain, Len(it.chain.items), r)

HoldsUpTo(env, chain, n, r) ==
  LET it == Holds(env, chain.items[n], r)
  IN  IF n = 1 THEN it
      ELSE IF chain.ops[n - 1] = "and" THEN HoldsUpTo(env, chain, n - 1, r) /\ it
                                       ELSE HoldsUpTo(env, chain, n - 1, r) \/ it

RECURSIVE Instances(_, _, _)
\* The labels that a statement defines, each with the environment it is defined in.
Instances(env, st, r) ==
  IF st.k = "loop"
  THEN LET es == Kept(env, st.sets, st.cond, r)
       IN  FlattenSeq([n \in DOMAIN es |-> Instances(es[n], st.body, r)])
  ELSE Kept(env, Free(env, st.idx), st.cond, r)

RECURSIVE LabelOf(_)
LabelOf(st) == IF st.k = "loop" THEN LabelOf(st.body) ELSE st

\* A function with no set in its domain.
NoEnv == [s \in {} |-> 0]

\* Labels in order; per label, the arcs over sets that have a child, and those without sets.
Meaning(p, r) ==
  LET label == LabelOf(p.stmt)
      insts == Instances(NoEnv, p.stmt, r)
      Recs(e, a) == LET es == Kept(e, Free(e, a.idx), a.cond, r) IN [m \in DOMAIN es |-> Uels(es[m], a.idx)]
      Own(m, dup) == LET as == SelectSeq(label.arcs, LAMBDA a : (Free(insts[m], a.idx) = <<>>) = dup)
                     IN  [i \in DOMAIN as |-> [parent |-> m, recs |-> Recs(insts[m], as[i])]]
      All(dup) == FlattenSeq([m \in DOMAIN insts |-> Own(m, dup)])
  IN  [nodes |-> [m \in DOMAIN insts |-> Uels(insts[m], label.idx)],
       arcs  |-> SelectSeq(All(FALSE), LAMBDA a : a.recs # <<>>),
       dups  |-> All(TRUE)]

Made == [nodes |-> nodes,
         arcs  |-> [a \in DOMAIN arcs |-> [parent |-> arcs[a].parent, recs |-> arcs[a].recs]],
         dups  |-> [d \in DOMAIN dups |-> [parent |-> dups[d].parent, recs |-> <<dups[d].rec>>]]]

(***************************************************************************)
(* Where the compiler is right.  A pending jump "true" of an element that  *)
(* an "or" follows must not be taken for a jump of a later one.            *)
(***************************************************************************)
RECURSIVE SoundChain(_, _), Captures(_), Clean(_, _)

\* Compiling the element patches true jumps that are deeper than its chain.
Captures(it) ==
  \/ it.k = "in" /\ it.neg
  \/ it.k = "sum"
  \/ it.k = "group" /\ (\/ "and" \in ToSet(it.chain.ops)
                         \/ \E m \in DOMAIN it.chain.items : Captures(it.chain.items[m]))

\* sizes: how many sizes are stored before the one of the set tested with .last.
Clean(it, old) ==
  CASE it.k = "same"  -> FALSE
    [] it.k = "last"  -> it.s \notin old
    [] it.k = "sum"   -> it.cond = <<>> \/ SoundChain(it.cond[1], old)
    [] it.k = "group" -> SoundChain(it.chain, old)
    [] OTHER          -> TRUE

SoundChain(chain, old) ==
  /\ chain.not => Len(chain.items) = 1 /\ ~chain.items[1].neg
  /\ \A m \in DOMAIN chain.items :
       /\ Clean(chain.items[m], old)
       /\ Captures(chain.items[m]) =>
            \A h \in 1 .. m - 1 :
              \/ chain.items[h].k \in {"first", "last"}
              \/ \E b \in h .. m - 1 : chain.ops[b] = "and"

\* Every condition of the statement is one that the compiler translates as written.
Sound(p) ==
  LET st    == p.stmt
      label == LabelOf(st)
      First == IF st.k = "loop" THEN st.sets[1] ELSE st.idx[1]
      old   == DOMAIN SetElts \ (IF p.sizes = <<>> THEN {First} ELSE {})
      Fine(cond) == cond = <<>> \/ SoundChain(cond[1], old)
  IN  /\ st.k = "loop" => Fine(st.cond)
      /\ Fine(label.cond)
      /\ \A a \in DOMAIN label.arcs : Fine(label.arcs[a].cond)

-----------------------------------------------------------------------------
(* Properties. *)

\* Types of the machine's state (empvm_run).
TypeOK ==
  /\ pc \in DOMAIN vm.code
  /\ \A k \in DOMAIN stack : stack[k].t \in {"uint", "int", "loopvar", "bool", "regentry", "mp", "none"}
  /\ parent \in 0 .. Len(nodes) /\ link \in 0 .. Len(arcs)
  /\ status \in {"run", "end", "fault"}

\* The one-pass compiler ends with no jump left to patch and every jump with a target:
\* what the assertions of end_scope say, at the end of the statement.
JumpsResolved ==
  /\ vm.truey = <<>> /\ vm.falsey = <<>> /\ ~vm.error /\ vm.depth = 0 /\ vm.env = <<>>
  /\ \A n \in DOMAIN vm.code :
       vm.code[n].op \in {"JUMP", "JUMP_BACK", "JUMP_IF_TRUE", "JUMP_BACK_IF_FALSE"}
         => vm.code[n].args[1] \in DOMAIN vm.code

\* Whatever way the jumps of a condition take, they leave no value behind: when a loop
\* starts its next turn, and at the end, the stack holds at most the MP being defined.
StackBalanced ==
  /\ status = "end" => stack = <<>>
  /\ status = "run" /\ Instr.op = "LOOPVAR_UPDATE" =>
       stack = IF parent = 0 THEN <<>> ELSE <<Val("mp", parent)>>

\* Jumps, stack and registers of the machine are in order at every instruction.
MachineInOrder == TypeOK /\ StackBalanced

\* A statement whose conditions the compiler can translate is run to its end, no jump leads
\* in circles and no assertion of the machine fails; the MPs are then made in the order
\* of the loops, exactly those the conditions keep, and their arcs are exactly those of
\* the conditions on arcs.
MadeAsWritten == Sound(prog) ~> (status = "end" /\ Made = Meaning(prog, rel))

\* What the comment in parse_conditional (empinterp_vm_compiler.c:2143) intends: "and"
\* resolves the true jumps of the elements that an "or" of the same parentheses links,
\* "usually tied to an TOK_OR, like this one: (cond1 and (cond2 or cond3) and cond4)",
\* so that every condition means what it says.
ConditionIsAsWritten == status = "end" => Made = Meaning(prog, rel)
==============================================================================
