-------------------------------- MODULE CMat --------------------------------
(***************************************************************************)
(* The container matrix of a ReSHOP model (src/src/rhp/cmat.c): for every  *)
(* active equation the list of the variables it contains, and for every    *)
(* variable the list of the equations that contain it.  An element belongs *)
(* to two lists at once: to its row, linked by next_var from equs[ei], and *)
(* to its column, linked both ways by next_equ and prev_equ from vars[vi]  *)
(* to last_equ[vi].  The container counts its active variables in n.       *)
(*                                                                         *)
(* The equations keep their own data next to the matrix: the variables of  *)
(* the linear part (lequ) and those of the expression tree (nl).  Loops    *)
(* over several elements take one step per iteration, so that the          *)
(* invariants are checked between any two of them.  Coefficients are left  *)
(* out; the build is the release one, without the debug check of           *)
(* cmat_elt_new.                                                           *)
(***************************************************************************)
EXTENDS Integers, FiniteSets

CONSTANTS
    Equs,      \* the equation indices the container has space for
    Vars,      \* the variable indices
    PerpVars,  \* the variables that can be perpendicular to a VI function
    Objects,   \* the equation objects in use, among "Mapping" and "ConeInclusion"
    MaxElts,   \* bound on the regular elements, for model checking
    Nil        \* NULL, and the invalid index

ASSUME CMatAssumption ==
    /\ IsFiniteSet(Equs) /\ IsFiniteSet(Vars)
    /\ Nil \notin Equs /\ Nil \notin Vars
    /\ PerpVars \subseteq Vars
    /\ MaxElts \in Nat
    /\ Objects \subseteq {"Mapping", "ConeInclusion"}

-----------------------------------------------------------------------------
(* Elements, named by what they stand for.  Only Reg elements are regular, *)
(* the others are placeholders: a constant equation, a variable that is    *)
(* only perpendicular to a VI function, an objective variable in no        *)
(* equation.                                                               *)

Elt(k, ei, vi) == [kind |-> k, ei |-> ei, vi |-> vi]
Reg(ei, vi) == Elt("reg", ei, vi)
Cst(ei) == Elt("cst", ei, Nil)
Perp(ei, vi) == Elt("perp", ei, vi)
Obj(vi) == Elt("obj", Nil, vi)

Elts == {Reg(p[1], p[2]) : p \in Equs \X Vars} \cup {Cst(ei) : ei \in Equs}
        \cup {Perp(p[1], p[2]) : p \in Equs \X Vars} \cup {Obj(vi) : vi \in Vars}

\* A null pointer is no element
ASSUME NilAssumption == Nil \notin Elts

VARIABLES
    etype,       \* "none" for an element that is not in the matrix
    next_var, next_equ, prev_equ,
    equs, vars, last_equ,
    n,           \* ctr->n, the number of active variables
    is_deleted,  \* ctr->vars[vi].is_deleted
    deleted,     \* the equations in deleted_equs
    object,      \* ctr->equs[ei].object, "none" before the equation is added
    dual,        \* equmeta[ei].dual of a VI function, Nil for another equation
    lequ, nl,    \* the variables of the linear part and of the tree of ei
    job,         \* the loop in progress
    failed       \* the error the last operation returned, "no" without one

matrix == <<etype, next_var, next_equ, prev_equ, equs, vars, last_equ, n, is_deleted>>
equdata == <<object, dual, lequ, nl>>
cvars == <<matrix, deleted, equdata, job, failed>>

Types == {"none", "Lin", "NL", "CstEqu", "VarPerp", "ObjVar"}
Errors == {"no", "EmptiedMapping", "EmptiedInclusion", "NotLinear"}
Ops == {"idle", "append", "sync", "addvars", "copy", "rmsrc", "rm", "delvar"}
NoJob == [op |-> "idle", ei |-> Nil, src |-> Nil, cme |-> Nil, prev |-> Nil,
          todo |-> {}, vi |-> Nil]

Init ==
    /\ etype = [e \in Elts |-> "none"]
    /\ next_var = [e \in Elts |-> Nil]
    /\ next_equ = [e \in Elts |-> Nil]
    /\ prev_equ = [e \in Elts |-> Nil]
    /\ equs = [ei \in Equs |-> Nil]
    /\ vars = [vi \in Vars |-> Nil]
    /\ last_equ = [vi \in Vars |-> Nil]
    /\ n = 0
    /\ is_deleted = [vi \in Vars |-> FALSE]
    /\ deleted = {}
    /\ object = [ei \in Equs |-> "none"]
    /\ dual = [ei \in Equs |-> Nil]
    /\ lequ = [ei \in Equs |-> {}]
    /\ nl = [ei \in Equs |-> {}]
    /\ job = NoJob
    /\ failed = "no"

Idle == job = NoJob /\ failed = "no"

\* cmat_chk_equvaridx: an equation that was added and not removed
Editable(ei) == object[ei] # "none" /\ ei \notin deleted

-----------------------------------------------------------------------------
(* Reading the lists.                                                      *)

Live == {e \in Elts : etype[e] # "none"}

\* The bound on the size of the matrix leaves room for k more elements
Room(k) == Cardinality({e \in Live : e.kind = "reg"}) + k <= MaxElts

\* What a walk of at most len steps from first along next meets
Walk(first, next, len) ==
    LET met[k \in 0..len] ==
          IF k = 0 THEN {first} \ {Nil}
          ELSE met[k - 1] \cup ({next[e] : e \in met[k - 1]} \ {Nil})
    IN  met[len]

RowFrom(e) == Walk(e, next_var, Cardinality(Vars))

\* cmat_get_equ_cme: a constant equation has no element to append to
FirstCme(ei) == IF equs[ei] = Cst(ei) THEN Nil ELSE equs[ei]
Row(ei) == RowFrom(FirstCme(ei))
Column(vi) == Walk(vars[vi], next_equ, Cardinality(Equs))

\* The search of a variable along the row of an equation
InRow(ei, vi) == \E e \in Row(ei) : e.vi = vi

\* The element the walk of a row ends with, Nil for an empty row
RowEnd(ei) == IF FirstCme(ei) = Nil THEN Nil
              ELSE CHOOSE e \in Row(ei) : next_var[e] = Nil

-----------------------------------------------------------------------------
(* The steps on one element.  Each operator gives one field after it.      *)

\* The first element of the variable
Fresh(vi) == vars[vi] = Nil

\* ... or the one that takes the place of the placeholder of an objective
\* variable, which is not the last of any column
Heads(vi) == Fresh(vi) \/ last_equ[vi] = Nil

\* Mutant: a variable known by a placeholder only is counted once more
CountWith_Placeholder(vi) == IF Heads(vi) THEN n + 1 ELSE n

\* Mutant: the count goes down
CountWith_Down(vi) == IF Fresh(vi) THEN n - 1 ELSE n

CountWith(vi) == IF Fresh(vi) THEN n + 1 ELSE n

\* Mutant: only the first element of a variable becomes the last of its column
LastWith_FirstOnly(e) == IF Heads(e.vi) THEN [last_equ EXCEPT ![e.vi] = e] ELSE last_equ

LastWith(e) == [last_equ EXCEPT ![e.vi] = e]

\* cmat_elt_new: an element starts the column of its variable or comes behind
\* the last one.  A constant equation stops being one, for all callers.
EltNew(e, ty) ==
    LET vi == e.vi
    IN  /\ etype' = [x \in Elts |-> IF x = e THEN ty
                                    ELSE IF x = Cst(e.ei) \/ (Heads(vi) /\ x = vars[vi])
                                         THEN "none" ELSE etype[x]]
        /\ prev_equ' = [prev_equ EXCEPT ![e] = IF Fresh(vi) THEN Nil ELSE last_equ[vi]]
        /\ next_equ' = [x \in Elts |-> IF ~Heads(vi) /\ x = last_equ[vi] THEN e
                                       ELSE next_equ[x]]
        /\ vars' = IF Heads(vi) THEN [vars EXCEPT ![vi] = e] ELSE vars
        /\ n' = CountWith(vi)
        /\ is_deleted' = [is_deleted EXCEPT ![vi] = IF Fresh(vi) THEN FALSE ELSE @]
        /\ last_equ' = LastWith(e)

\* Mutant: every new element starts the row
Link_Front(e, prev) ==
    equs' = [equs EXCEPT ![e.ei] = e] /\ UNCHANGED next_var

\* The new element behind prev, or at the start of its row
Link(e, prev) ==
    IF prev # Nil
    THEN next_var' = [next_var EXCEPT ![prev] = e] /\ UNCHANGED equs
    ELSE equs' = [equs EXCEPT ![e.ei] = e] /\ UNCHANGED next_var

\* Mutant: the element after the removed one keeps its back pointer
PrevWithout_Stale(e) == [prev_equ EXCEPT ![e] = Nil]

PrevWithout(e) ==
    [x \in Elts |-> IF x = e THEN Nil
                    ELSE IF x = next_equ[e] THEN prev_equ[e] ELSE prev_equ[x]]

\* Mutant: a column that lost its first element still starts there
VarsWithout_KeepFirst(e) ==
    IF prev_equ[e] = Nil /\ next_equ[e] = Nil THEN [vars EXCEPT ![e.vi] = Nil] ELSE vars

VarsWithout(e) ==
    IF prev_equ[e] = Nil THEN [vars EXCEPT ![e.vi] = next_equ[e]] ELSE vars

\* The element is the only one of its variable
OnlyOne(e) == prev_equ[e] = Nil /\ next_equ[e] = Nil

\* Mutant: a variable that leaves the container is not marked
DeletedWithout_Unmarked(e) == is_deleted

DeletedWithout(e) == IF OnlyOne(e) THEN [is_deleted EXCEPT ![e.vi] = TRUE] ELSE is_deleted

\* An element leaves its column; with the last one the variable leaves the
\* container (cmat_equ_rm_var, cmat_rm_equ)
Unlink(e) ==
    /\ prev_equ' = PrevWithout(e)
    /\ next_equ' = [x \in Elts |-> IF x = e THEN Nil
                                   ELSE IF x = prev_equ[e] THEN next_equ[e] ELSE next_equ[x]]
    /\ last_equ' = IF next_equ[e] = Nil THEN [last_equ EXCEPT ![e.vi] = prev_equ[e]]
                   ELSE last_equ
    /\ vars' = VarsWithout(e)
    /\ n' = IF OnlyOne(e) THEN n - 1 ELSE n
    /\ is_deleted' = DeletedWithout(e)
    /\ etype' = [etype EXCEPT ![e] = "none"]

\* cmat_cst_equ, for a row that is empty
CstEqu(ei) ==
    /\ etype' = [etype EXCEPT ![Cst(ei)] = "CstEqu"]
    /\ equs' = [equs EXCEPT ![ei] = Cst(ei)]

-----------------------------------------------------------------------------
(* Adding to an equation.                                                  *)

\* rctr_add_equ_empty, with the role the equation gets before it is filled: a
\* mapping can be the function of a VI, perpendicular to a variable of its own
AddEquEmpty(ei, obj, vi) ==
    /\ Idle
    /\ object[ei] = "none"
    /\ vi # Nil => obj = "Mapping" /\ \A ej \in Equs : dual[ej] # vi
    /\ object' = [object EXCEPT ![ei] = obj]
    /\ dual' = [dual EXCEPT ![ei] = vi]
    /\ UNCHANGED <<matrix, deleted, lequ, nl, job, failed>>

\* rctr_equ_addnewvar: the caller knows that the variable is new to the
\* equation; it goes to the front of the row (cmat_equ_add_newlvar)
AddNewVar(ei, vi) ==
    LET e == Reg(ei, vi)
    IN  /\ Idle /\ Editable(ei) /\ Room(1)
        /\ vi \notin lequ[ei] \cup nl[ei]
        /\ lequ' = [lequ EXCEPT ![ei] = @ \cup {vi}]
        /\ EltNew(e, "Lin")
        /\ next_var' = [next_var EXCEPT ![e] = FirstCme(ei)]
        /\ equs' = [equs EXCEPT ![ei] = e]
        /\ UNCHANGED <<deleted, object, dual, nl, job, failed>>

\* rctr_equ_addlvar, rctr_equ_addlinvars: the variable may be there already,
\* in either part; only a new one changes the matrix (cmat_equ_add_lvar)
AddLvar(ei, vi) ==
    /\ Idle /\ Editable(ei) /\ Room(1)
    /\ ~InRow(ei, vi)
    /\ EltNew(Reg(ei, vi), "Lin")
    /\ Link(Reg(ei, vi), RowEnd(ei))
    /\ lequ' = [lequ EXCEPT ![ei] = @ \cup {vi}]
    /\ UNCHANGED <<deleted, object, dual, nl, job, failed>>

\* Variables that are new to the row are appended one after the other, behind
\* the element the row ended with: rctr_equ_addnewlvars, and cmat_sync_lequ for
\* an equation whose linear part was built first
StartAppend(op, ei, S) ==
    /\ Idle /\ Editable(ei) /\ Room(Cardinality(S))
    /\ IF op = "append" THEN S # {} ELSE lequ[ei] = {}
    /\ S \cap (lequ[ei] \cup nl[ei]) = {}
    /\ lequ' = [lequ EXCEPT ![ei] = @ \cup S]
    /\ job' = [NoJob EXCEPT !.op = op, !.ei = ei, !.todo = S, !.prev = RowEnd(ei)]
    /\ UNCHANGED <<matrix, deleted, object, dual, nl, failed>>

\* cmat_fill_equ: the row of an equation taken over from another model
StartFill(ei, S, T) ==
    /\ Idle /\ Editable(ei) /\ Room(Cardinality(S \cup T))
    /\ equs[ei] = Nil
    /\ S \cap T = {} /\ S \cup T # {}
    /\ lequ' = [lequ EXCEPT ![ei] = S]
    /\ nl' = [nl EXCEPT ![ei] = T]
    /\ job' = [NoJob EXCEPT !.op = "append", !.ei = ei, !.todo = S \cup T]
    /\ UNCHANGED <<matrix, deleted, object, dual, failed>>

AppendStep(vi) ==
    LET e == Reg(job.ei, vi)
    IN  /\ failed = "no"
        /\ job.op \in {"append", "sync"} /\ vi \in job.todo
        /\ EltNew(e, IF vi \in nl[job.ei] THEN "NL" ELSE "Lin")
        /\ Link(e, job.prev)
        /\ job' = IF job.op = "append" /\ job.todo = {vi} THEN NoJob
                  ELSE [job EXCEPT !.todo = @ \ {vi}, !.prev = e]
        /\ UNCHANGED <<deleted, equdata, failed>>

\* The second half of rctr_fix_equ: the variable of a VI function is active,
\* by a placeholder when it is in no equation (cmat_isolated_var_perp_equ)
FixVar(ei) ==
    IF dual[ei] # Nil /\ vars[dual[ei]] = Nil
    THEN /\ vars' = [vars EXCEPT ![dual[ei]] = Perp(ei, dual[ei])]
         /\ last_equ' = [last_equ EXCEPT ![dual[ei]] = Perp(ei, dual[ei])]
         /\ n' = n + 1
    ELSE UNCHANGED <<vars, last_equ, n>>

\* The end of cmat_sync_lequ: rctr_fix_equ keeps an empty equation active
SyncEnd ==
    LET ei == job.ei
        isolated == dual[ei] # Nil /\ vars[dual[ei]] = Nil
    IN  /\ failed = "no"
        /\ job.op = "sync" /\ job.todo = {}
        /\ equs' = [equs EXCEPT ![ei] = IF @ = Nil THEN Cst(ei) ELSE @]
        /\ etype' = [x \in Elts |-> IF equs[ei] = Nil /\ x = Cst(ei) THEN "CstEqu"
                                    ELSE IF isolated /\ x = Perp(ei, dual[ei]) THEN "VarPerp"
                                    ELSE etype[x]]
        /\ FixVar(ei)
        /\ job' = NoJob
        /\ UNCHANGED <<next_var, next_equ, prev_equ, is_deleted, deleted, equdata, failed>>

\* cmat_equ_add_vars, cmat_equ_add_nlvar, cmat_equ_add_vars_excpt: the
\* variables of an expression that was added to the tree
StartAddVars(ei, S) ==
    /\ Idle /\ Editable(ei) /\ Room(Cardinality({vi \in S : ~InRow(ei, vi)}))
    /\ S # {}
    /\ job' = [NoJob EXCEPT !.op = "addvars", !.ei = ei, !.todo = S]
    /\ UNCHANGED <<matrix, deleted, equdata, failed>>

\* Mutant: a linear variable turned nonlinear stays in the linear part
SwitchVarNl_KeepLinear(ei, vi) ==
    /\ nl' = [nl EXCEPT ![ei] = @ \cup {vi}]
    /\ UNCHANGED lequ

\* equ_switch_var_nl, and the tree that holds the variable
SwitchVarNl(ei, vi) ==
    /\ nl' = [nl EXCEPT ![ei] = @ \cup {vi}]
    /\ lequ' = [lequ EXCEPT ![ei] = @ \ {vi}]

\* One variable: found in the row it becomes nonlinear, else it is appended
AddVarsStep(vi) ==
    LET ei == job.ei
        e == Reg(ei, vi)
    IN  /\ failed = "no"
        /\ job.op = "addvars" /\ vi \in job.todo
        /\ IF InRow(ei, vi)
           THEN /\ etype' = [etype EXCEPT ![e] = "NL"]
                /\ UNCHANGED <<next_var, next_equ, prev_equ, equs, vars, last_equ, n, is_deleted>>
           ELSE EltNew(e, "NL") /\ Link(e, RowEnd(ei))
        /\ SwitchVarNl(ei, vi)
        /\ job' = IF job.todo = {vi} THEN NoJob ELSE [job EXCEPT !.todo = @ \ {vi}]
        /\ UNCHANGED <<deleted, object, dual, failed>>

\* rmdl_setobjvar: an objective variable in no equation gets a placeholder
SetObjVar(vi) ==
    /\ Idle
    /\ vars[vi] = Nil
    /\ vars' = [vars EXCEPT ![vi] = Obj(vi)]
    /\ etype' = [etype EXCEPT ![Obj(vi)] = "ObjVar"]
    /\ n' = n + 1
    /\ UNCHANGED <<next_var, next_equ, prev_equ, equs, last_equ, is_deleted>>
    /\ UNCHANGED <<deleted, equdata, job, failed>>
-----------------------------------------------------------------------------
(* Removing from an equation.                                              *)

\* The element of the row that comes before e, Nil for the first one
Before(e) == IF equs[e.ei] = e THEN Nil ELSE CHOOSE x \in Row(e.ei) : next_var[x] = e

NextWithout(e) ==
    [x \in Elts |-> IF x = e THEN Nil
                    ELSE IF x = Before(e) THEN next_var[e] ELSE next_var[x]]

\* equ_rm_var, for a variable of the linear part, which loses it first.  The
\* last variable of an equation cannot leave it: cmat_equ_rm_var wants to turn
\* a mapping into a constant one, but cmat_cst_equ refuses a row that still has
\* its element; another equation must not become empty.
EquRmVar(ei, vi) ==
    LET e == Reg(ei, vi)
    IN  /\ lequ' = [lequ EXCEPT ![ei] = @ \ {vi}]
        /\ IF equs[ei] = e /\ next_var[e] = Nil
           THEN /\ failed' = IF object[ei] = "Mapping" THEN "EmptiedMapping"
                             ELSE "EmptiedInclusion"
                /\ UNCHANGED matrix
           ELSE /\ Unlink(e)
                /\ next_var' = NextWithout(e)
                /\ equs' = IF equs[ei] = e THEN [equs EXCEPT ![ei] = next_var[e]] ELSE equs
                /\ UNCHANGED failed

RmVar(ei, vi) ==
    /\ Idle /\ Editable(ei)
    /\ equs[ei] # Nil
    /\ vi \in lequ[ei]
    /\ EquRmVar(ei, vi)
    /\ UNCHANGED <<deleted, object, dual, nl, job>>

\* rctr_delete_var walks the column of the variable
StartDeleteVar(vi) ==
    /\ Idle
    /\ ~is_deleted[vi]
    /\ job' = [NoJob EXCEPT !.op = "delvar", !.vi = vi, !.cme = vars[vi]]
    /\ UNCHANGED <<matrix, deleted, equdata, failed>>

\* The successor is read before the element goes.  Only a variable of the
\* linear part can be removed, and a placeholder names none.
DeleteVarStep ==
    /\ failed = "no"
    /\ job.op = "delvar" /\ job.cme # Nil
    /\ LET e == job.cme
       IN  IF e.kind = "reg" /\ job.vi \in lequ[e.ei]
           THEN EquRmVar(e.ei, job.vi) /\ job' = [job EXCEPT !.cme = next_equ[e]]
           ELSE failed' = "NotLinear" /\ UNCHANGED <<matrix, lequ, job>>
    /\ UNCHANGED <<deleted, object, dual, nl>>

DeleteVarEnd ==
    /\ failed = "no"
    /\ job.op = "delvar" /\ job.cme = Nil
    /\ vars' = [vars EXCEPT ![job.vi] = Nil]
    /\ is_deleted' = [is_deleted EXCEPT ![job.vi] = TRUE]
    /\ job' = NoJob
    /\ UNCHANGED <<etype, next_var, next_equ, prev_equ, equs, last_equ, n>>
    /\ UNCHANGED <<deleted, equdata, failed>>

-----------------------------------------------------------------------------
(* Removing and replacing an equation.                                     *)

\* cmat_rm_equ takes the row from the equation before it unlinks its elements.
\* What the equation contains is kept for its evaluation only, and left out
\* with its metadata.
RmEqu(ei) ==
    /\ failed = "no"
    /\ Idle \/ (job.op = "rmsrc" /\ job.src = ei)
    /\ Editable(ei) /\ equs[ei] # Nil
    /\ equs' = [equs EXCEPT ![ei] = Nil]
    /\ deleted' = deleted \cup {ei}
    /\ lequ' = [lequ EXCEPT ![ei] = {}]
    /\ nl' = [nl EXCEPT ![ei] = {}]
    /\ dual' = [dual EXCEPT ![ei] = Nil]
    /\ etype' = [etype EXCEPT ![Cst(ei)] = "none"]
    /\ job' = IF equs[ei] = Cst(ei) THEN NoJob
              ELSE [NoJob EXCEPT !.op = "rm", !.ei = ei, !.cme = equs[ei]]
    /\ UNCHANGED <<next_var, next_equ, prev_equ, vars, last_equ, n, is_deleted>>
    /\ UNCHANGED <<object, failed>>

RmStep ==
    LET e == job.cme
    IN  /\ failed = "no"
        /\ job.op = "rm"
        /\ Unlink(e)
        /\ next_var' = [next_var EXCEPT ![e] = Nil]
        /\ job' = IF next_var[e] = Nil THEN NoJob ELSE [job EXCEPT !.cme = next_var[e]]
        /\ UNCHANGED <<equs, deleted, equdata, failed>>

\* rmdl_dup_equ, rmdl_equ_dup_except and rmdl_equ_flip put a copy in the place
\* of an equation; the second one leaves a linear variable out, and a variable
\* a VI function is perpendicular to follows the last two.  Only rmdl_dup_equ
\* is ever given a constant equation.
StartDup(src, dst, how, vi) ==
    /\ Idle /\ Editable(src) /\ Room(Cardinality(Row(src)))
    /\ equs[src] # Nil /\ object[dst] = "none"
    /\ how # "dup" => equs[src] # Cst(src)
    /\ IF how = "except" THEN vi \in lequ[src] ELSE vi = Nil
    /\ object' = [object EXCEPT ![dst] = object[src]]
    /\ dual' = [dual EXCEPT ![dst] = IF how = "dup" THEN Nil ELSE dual[src]]
    /\ lequ' = [lequ EXCEPT ![dst] = lequ[src] \ {vi}]
    /\ nl' = [nl EXCEPT ![dst] = nl[src]]
    /\ job' = [NoJob EXCEPT !.op = "copy", !.ei = dst, !.src = src, !.vi = vi,
                            !.cme = FirstCme(src)]
    /\ UNCHANGED <<matrix, deleted, failed>>

\* Mutant: every copied variable is linear
CopyType_Lin(e) == "Lin"

CopyType(e) == etype[e]

\* One element of the source: cmat_copy_equ, cmat_copy_equ_except and
\* cmat_cpy_equ_flipped
CopyStep ==
    LET e == job.cme
        new == Reg(job.ei, e.vi)
    IN  /\ failed = "no"
        /\ job.op = "copy" /\ e # Nil
        /\ IF e.vi = job.vi
           THEN job' = [job EXCEPT !.cme = next_var[e]] /\ UNCHANGED matrix
           ELSE /\ EltNew(new, CopyType(e))
                /\ Link(new, job.prev)
                /\ job' = [job EXCEPT !.cme = next_var[e], !.prev = new]
        /\ UNCHANGED <<deleted, equdata, failed>>

\* A copy without variables is a constant equation; the source goes
CopyEnd ==
    /\ failed = "no"
    /\ job.op = "copy" /\ job.cme = Nil
    /\ IF equs[job.ei] = Nil
       THEN CstEqu(job.ei) /\ UNCHANGED <<next_var, next_equ, prev_equ, vars, last_equ, n, is_deleted>>
       ELSE UNCHANGED matrix
    /\ job' = [job EXCEPT !.op = "rmsrc", !.prev = Nil]
    /\ UNCHANGED <<deleted, equdata, failed>>

-----------------------------------------------------------------------------
AddToEquation(ei) ==
    \/ \E obj \in Objects, vi \in PerpVars \cup {Nil} : AddEquEmpty(ei, obj, vi)
    \/ \E vi \in Vars : AddNewVar(ei, vi) \/ AddLvar(ei, vi)
    \/ \E S \in SUBSET Vars :
          \/ \E op \in {"append", "sync"} : StartAppend(op, ei, S)
          \/ \E T \in SUBSET Vars : StartFill(ei, S, T)
          \/ StartAddVars(ei, S)

RemoveFromEquation(ei) ==
    \/ \E vi \in Vars : RmVar(ei, vi)
    \/ RmEqu(ei)
    \/ \E dst \in Equs, how \in {"dup", "except", "flip"}, vi \in Vars \cup {Nil} :
          StartDup(ei, dst, how, vi)

Loop ==
    \/ \E vi \in Vars : AppendStep(vi) \/ AddVarsStep(vi)
    \/ SyncEnd \/ RmStep \/ CopyStep \/ CopyEnd \/ DeleteVarStep \/ DeleteVarEnd

Next ==
    \/ \E ei \in Equs : AddToEquation(ei) \/ RemoveFromEquation(ei)
    \/ \E vi \in Vars : SetObjVar(vi) \/ StartDeleteVar(vi)
    \/ Loop

Spec == Init /\ [][Next]_cvars

-----------------------------------------------------------------------------
(* Properties.                                                             *)

Ptr == Elts \cup {Nil}

\* The types of the variables of the model.
TypeOK ==
    /\ etype \in [Elts -> Types]
    /\ next_var \in [Elts -> Ptr]
    /\ next_equ \in [Elts -> Ptr]
    /\ prev_equ \in [Elts -> Ptr]
    /\ equs \in [Equs -> Ptr]
    /\ vars \in [Vars -> Ptr]
    /\ last_equ \in [Vars -> Ptr]
    /\ n \in Nat
    /\ is_deleted \in [Vars -> BOOLEAN]
    /\ deleted \subseteq Equs
    /\ object \in [Equs -> {"none", "Mapping", "ConeInclusion"}]
    /\ dual \in [Equs -> Vars \cup {Nil}]
    /\ lequ \in [Equs -> SUBSET Vars]
    /\ nl \in [Equs -> SUBSET Vars]
    /\ job \in [op : Ops, ei : Equs \cup {Nil}, src : Equs \cup {Nil}, cme : Ptr,
                prev : Ptr, todo : SUBSET Vars, vi : Vars \cup {Nil}]
    /\ failed \in Errors

\* Where the row of ei starts: while cmat_rm_equ unlinks it, at the next element
RowStart(ei) == IF job.op = "rm" /\ job.ei = ei THEN job.cme ELSE equs[ei]

\* The list of an equation holds exactly the elements of the equation, whatever
\* was added to it at the front or at the end, removed or copied (cmat.c keeps
\* no other record of what an equation contains).
RowsExact ==
    \A ei \in Equs :
        RowFrom(RowStart(ei)) = {e \in Live : e.ei = ei /\ e.kind \in {"reg", "cst"}}

\* The list of a variable holds exactly the elements of the variable: no
\* removal of an equation or of a variable from an equation loses another
\* equation or leaves one that is gone.
ColumnsExact ==
    \A vi \in Vars : Column(vi) = {e \in Live : e.vi = vi}

\* A column can be read backwards from last_equ: prev_equ is the inverse of
\* next_equ, and last_equ is where the column ends.  The placeholder of an
\* objective variable is the only element that is not in the backward list.
BackwardExact ==
    /\ \A e \in Live : next_equ[e] # Nil => prev_equ[next_equ[e]] = e
    /\ \A e \in Live : prev_equ[e] # Nil => next_equ[prev_equ[e]] = e
    /\ \A vi \in Vars :
          IF vars[vi] \in {Nil, Obj(vi)} THEN last_equ[vi] = Nil
          ELSE last_equ[vi] \in Column(vi) /\ next_equ[last_equ[vi]] = Nil

\* ctr->n is the number of variables that have an element, placeholders
\* included: what the exports allocate from it is what they fill.
CountExact == n = Cardinality({vi \in Vars : vars[vi] # Nil})

\* The matrix is one set of elements, however it is read: by rows, by columns from
\* either end, or by its count.
ListsExact == TypeOK /\ RowsExact /\ ColumnsExact /\ BackwardExact /\ CountExact

\* What cmat_chk_expensive checks, between two operations: the matrix and the
\* equations say the same of every variable, and every equation that is not
\* constant holds the variables of its row in one of its parts.
MatchesEquations ==
    Idle => \A ei \in Equs : equs[ei] # Nil =>
                /\ {e.vi : e \in {x \in Row(ei) : etype[x] = "Lin"}} = lequ[ei]
                /\ {e.vi : e \in {x \in Row(ei) : etype[x] = "NL"}} = nl[ei]
                /\ lequ[ei] \cap nl[ei] = {}

\* Before the source of a copy is removed, the copy holds the same variables in
\* the same parts, without the one left out, and is active even when it holds
\* none (rmdl_dup_equ, rmdl_equ_dup_except, rmdl_equ_flip).
CopyExact ==
    LET content(ei) == {<<e.vi, etype[e]>> : e \in Row(ei)}
    IN  job.op = "rmsrc" =>
            /\ equs[job.ei] # Nil
            /\ content(job.ei) = {c \in content(job.src) : c[1] # job.vi}

\* The matrix and the equations, and a copy and its source, say the same.
ContentsMatch == MatchesEquations /\ CopyExact

\* A variable leaves the container only with its last element, or when it is
\* deleted by name; it then is in no equation.
LeavesWithLast ==
    [][\A vi \in Vars : vars[vi] # Nil /\ vars'[vi] = Nil
          => is_deleted'[vi] /\ \A ei \in Equs : Reg(ei, vi) \notin Row(ei)']_cvars

\* What rhp_is_var_valid and the assertions of the export to GAMS say: an active
\* variable is not marked as deleted.
ActiveNotDeleted == \A vi \in Vars : vars[vi] # Nil => ~is_deleted[vi]

\* A mapping whose last variable is removed becomes a constant equation.
MappingMayBeEmptied == failed # "EmptiedMapping"
=============================================================================
