------------------------------ MODULE MathPrgm ------------------------------
(***************************************************************************)
(* The mathematical programmes (MP) of a model and the metadata of its     *)
(* equations and variables (src/src/dag/mathprgm.c).  Ownership is kept    *)
(* twice: an MP has the sorted lists of its equations and variables, and   *)
(* every equation and variable names its MP, with its role, its properties *)
(* and, in a variational inequality, its dual.  The building calls, the    *)
(* editing of equations (rmdl_dup_equ and its kin) and the contraction of  *)
(* VF paths all change both sides.                                         *)
(*                                                                         *)
(* The model state is one record and a C function is an operator from a    *)
(* state to a result, so that an error in the middle of a function leaves  *)
(* what was done before it.  The lists are sets here: the sorted arrays    *)
(* have a module of their own.  The algebra is reduced to the equations a  *)
(* variable appears in, in the order of its column of the matrix.          *)
(***************************************************************************)
EXTENDS Naturals, Sequences, FiniteSets

CONSTANTS
    Vars,         \* the variable indices
    Equs,         \* the equation indices, spare ones for copies included
    Mps,          \* the MP ids
    Kinds,        \* the senses of the MPs to start from: functions from Mps
    StartEqu,     \* the [object, cone] of every equation the model starts with
    StartColumn,  \* for every variable, the sequence of its [ei, nl]
    Modified,     \* the MPs with an objective function modifier (a VF arc to a child)
    FirstHasVF,   \* does the first MP have a VF arc to a child
    MaxCalls,     \* bound on the calls
    MaxFailures,  \* bound on the calls that fail
    NA            \* IdxNA and MpId_NA

Senses == {"min", "max", "feasibility"}
Objects == {"mapping", "definedmapping", "coneinclusion"}
Cones == {"none", "zero", "inequality"}

ASSUME MathPrgmAssumption ==
    /\ IsFiniteSet(Vars) /\ IsFiniteSet(Equs) /\ IsFiniteSet(Mps)
    /\ Vars \cap Equs = {} /\ NA \notin Vars \cup Equs \cup Mps
    /\ Kinds \subseteq [Mps -> Senses]
    /\ DOMAIN StartEqu \subseteq Equs
    /\ \A e \in DOMAIN StartEqu : StartEqu[e] \in [object : Objects, cone : Cones]
    /\ StartColumn \in [Vars -> Seq([ei : DOMAIN StartEqu, nl : BOOLEAN])]
    /\ Modified \subseteq Mps /\ FirstHasVF \in BOOLEAN
    /\ MaxCalls \in Nat /\ MaxFailures \in Nat

VARIABLES
    mdl,       \* the model: vars, equs, mps, column
    calls,     \* the number of calls so far
    failures,  \* the number of those that returned an error
    edited     \* <<m, "equ">> when an equation of m was removed or copied, <<m, "obj">> when
               \* one marked as objective was flipped, <<m, "var">> when a variable was taken
               \* out of m, <<m, "mp">> when m was contracted

vars == <<mdl, calls, failures, edited>>

-----------------------------------------------------------------------------
(* The property of a variable is a bit mask: VarIsObjMin, VarIsObjMax,     *)
(* VarIsExplicitlyDefined and VarPerpToViFunction are single bits, and     *)
(* VarPerpToZeroFunctionVi = 9.                                            *)

ObjMin == 1
ObjMax == 2
Explicit == 4
PerpVi == {8}
PerpZero == {1, 8}

NoVar == [mp |-> NA, role |-> "undefined", ppty |-> {}, dual |-> NA]
NoEqu == [mp |-> NA, role |-> "undefined", dual |-> NA, active |-> FALSE,
          object |-> "none", cone |-> "none", res |-> NA]
Mp(sense) == [sense |-> sense, alive |-> TRUE, finalized |-> FALSE, vars |-> {}, equs |-> {},
              objvar |-> NA, objequ |-> NA, num_cons |-> 0, num_zeros |-> 0]

IsOpt(s, m) == s.mps[m].sense \in {"min", "max"}
IsVi(s, m) == s.mps[m].sense = "feasibility"
Occurs(s, v, e) == \E i \in DOMAIN s.column[v] : s.column[v][i].ei = e

\* The result of a call: the error code and the model it leaves
OK(s) == [ok |-> TRUE, mdl |-> s]
Error(s) == [ok |-> FALSE, mdl |-> s]

\* S_CHECK: return at once on an error
Then(r, Op(_)) == IF r.ok THEN Op(r.mdl) ELSE r

-----------------------------------------------------------------------------
(* Adding to an MP.                                                        *)

mp_addvarchk(s, m, v) ==
    IF s.vars[v].mp # NA THEN Error(s)
    ELSE OK([s EXCEPT !.vars[v].mp = m, !.mps[m].vars = @ \cup {v}])

\* Mutant: the owner is not asked
mp_addequchk_Shared(s, m, e) == OK([s EXCEPT !.equs[e].mp = m, !.mps[m].equs = @ \cup {e}])

mp_addequchk(s, m, e) ==
    IF s.equs[e].mp # NA THEN Error(s)
    ELSE OK([s EXCEPT !.equs[e].mp = m, !.mps[m].equs = @ \cup {e}])

mp_addvar(s, m, v) ==
    Then(mp_addvarchk(s, m, v), LAMBDA t : OK([t EXCEPT !.vars[v].role = "primal"]))

\* Mutant: the constraints of a VI are not counted
mp_addconstraint_NoCount(s, m, e) ==
    Then(mp_addequchk(s, m, e),
         LAMBDA t : OK([t EXCEPT !.equs[e].role = IF @ = "undefined" THEN "constraint" ELSE @]))

\* The result of the role check is not looked at
mp_addconstraint(s, m, e) ==
    Then(mp_addequchk(s, m, e),
         LAMBDA t : OK([t EXCEPT !.equs[e].role = IF @ = "undefined" THEN "constraint" ELSE @,
                                 !.mps[m].num_cons = IF IsVi(t, m) THEN @ + 1 ELSE @]))

\* The equation is added first and an undefined role is an error afterwards
mp_addequ(s, m, e) ==
    Then(mp_addequchk(s, m, e),
         LAMBDA t : IF t.equs[e].role = "undefined" THEN Error(t) ELSE OK(t))

\* Mutant: the variable points at the equation but not the other way round
rctr_setequvarperp_OneWay(s, e, v) ==
    LET t == [s EXCEPT !.vars[v].role = "primal", !.vars[v].dual = e] IN
    IF e = NA THEN OK([t EXCEPT !.vars[v].ppty = PerpZero])
    ELSE IF t.equs[e].role # "undefined" THEN Error(t)
    ELSE OK([t EXCEPT !.equs[e].role = "vifunction", !.vars[v].ppty = PerpVi])

rctr_setequvarperp(s, e, v) ==
    LET t == [s EXCEPT !.vars[v].role = "primal", !.vars[v].dual = e] IN
    IF e = NA THEN OK([t EXCEPT !.vars[v].ppty = PerpZero])
    ELSE IF t.equs[e].role # "undefined" THEN Error(t)
    ELSE OK([t EXCEPT !.equs[e].role = "vifunction", !.equs[e].dual = v,
                      !.vars[v].ppty = PerpVi])

\* e = NA stands for the zero function
mp_addvipair(s, m, e, v) ==
    Then(mp_addvarchk(s, m, v), LAMBDA t :
    Then(IF e = NA THEN OK([t EXCEPT !.mps[m].num_zeros = @ + 1])
         ELSE Then(mp_addequchk(t, m, e), LAMBDA u : OK([u EXCEPT !.equs[e].object = "mapping"])),
         LAMBDA u : rctr_setequvarperp(u, e, v)))

-----------------------------------------------------------------------------
(* The objective.                                                          *)

\* Mutant: the role is left as it was
mp_setobjequ_internal_NoRole(s, m, e) ==
    IF ~ IsOpt(s, m) THEN Error(s)
    ELSE OK([s EXCEPT !.mps[m].equs = @ \ {s.mps[m].objequ}, !.mps[m].objequ = e])

\* The former objective equation leaves the list, its metadata stay
mp_setobjequ_internal(s, m, e) ==
    IF ~ IsOpt(s, m) THEN Error(s)
    ELSE LET t == [s EXCEPT !.mps[m].equs = @ \ {s.mps[m].objequ},
                            !.mps[m].objequ = e, !.equs[e].role = "objective"]
             ov == s.mps[m].objvar
         IN  OK(IF ov = NA THEN t ELSE [t EXCEPT !.vars[ov].ppty = @ \cup {Explicit}])

mp_setobjequ(s, m, e) ==
    Then(mp_setobjequ_internal(s, m, e), LAMBDA t : mp_addequchk(t, m, e))

mp_setobjvar_internal(s, m, v) ==
    IF ~ IsOpt(s, m) THEN Error(s)
    ELSE OK([s EXCEPT !.mps[m].objvar = v, !.vars[v].role = "objective",
                      !.vars[v].ppty = @ \cup {IF s.mps[m].sense = "min" THEN ObjMin ELSE ObjMax}])

\* With an invalid index the objective variable leaves the list, but stays the MP's
ClearObjVar(s, m) ==
    LET v == s.mps[m].objvar
        t == [s EXCEPT !.mps[m].objvar = NA]
        u == [t EXCEPT !.mps[m].vars = @ \ {v}]
    IN  IF ~ IsOpt(s, m) THEN Error(s)
        ELSE IF v = NA THEN OK(t)
        ELSE IF v \notin s.mps[m].vars THEN Error(t)
        ELSE IF s.vars[v].role # "objective" THEN Error(u)
        ELSE OK([u EXCEPT !.vars[v].role = "primal", !.vars[v].ppty = {}])

mp_setobjvar(s, m, v) ==
    IF v = NA THEN ClearObjVar(s, m)
    ELSE IF s.vars[v].mp \notin {NA, m} THEN Error(s)
    ELSE Then(IF s.vars[v].mp = NA THEN mp_addvarchk(s, m, v) ELSE OK(s),
              LAMBDA t : mp_setobjvar_internal(t, m, v))

mp_rm_var(s, m, v) ==
    IF s.vars[v].mp # m THEN Error(s)
    ELSE LET t == [s EXCEPT !.vars[v].mp = NA] IN
         IF v \notin s.mps[m].vars THEN Error(t)
         ELSE OK([t EXCEPT !.mps[m].vars = @ \ {v}])

-----------------------------------------------------------------------------
(* Finalization.                                                           *)

\* The search for the only equation of this MP with the objective variable,
\* linearly: objequ is what it found, ei the equation it looked at last.  It is
\* ei that becomes the objective equation.
mp_identify_objequ(s, m) ==
    LET col == s.column[s.mps[m].objvar]
        good(i) == s.equs[col[i].ei].mp = m /\ ~ col[i].nl
        objequ == IF good(1) /\ (Len(col) = 1 \/ ~ good(2)) THEN col[1].ei ELSE NA
        ei == col[IF good(1) /\ Len(col) > 1 THEN 2 ELSE 1].ei
    IN  IF /\ objequ # NA
           /\ s.equs[objequ].object = "coneinclusion" /\ s.equs[objequ].cone = "zero"
        THEN mp_setobjequ_internal([s EXCEPT !.equs[objequ].object = "definedmapping",
                                             !.equs[objequ].cone = "none"], m, ei)
        ELSE OK(s)

rmdl_checkobjequvar(s, v, e) ==
    /\ e # NA
    /\ s.equs[e].object \in {"mapping", "definedmapping"} /\ s.equs[e].cone = "none"
    /\ Occurs(s, v, e)

\* resolved: empdag->arcs_fully_resolved.  The children are looked up with the
\* first MP, whatever the MP.
mp_finalize(s, m, resolved) ==
    LET fin(t) == OK([t EXCEPT !.mps[m].finalized = TRUE])
        ov == s.mps[m].objvar
        check(t) ==
            LET oe == t.mps[m].objequ IN
            IF ov # NA THEN IF rmdl_checkobjequvar(t, ov, oe) THEN fin(t) ELSE Error(t)
            ELSE IF t.equs[oe].object = "mapping" THEN fin(t) ELSE Error(t)
    IN  IF s.mps[m].finalized THEN OK(s)
        ELSE IF s.mps[m].vars = {}
             THEN IF ~ resolved THEN OK(s) ELSE IF FirstHasVF THEN fin(s) ELSE Error(s)
        ELSE IF ~ IsOpt(s, m) THEN fin(s)
        ELSE IF s.mps[m].objequ # NA THEN check(s)
        ELSE IF ov = NA
             THEN IF ~ resolved THEN OK(s) ELSE IF m \in Modified THEN fin(s) ELSE Error(s)
        ELSE Then(mp_identify_objequ(s, m), check)

-----------------------------------------------------------------------------
(* Editing equations.  A copy takes the next free index and follows its    *)
(* source in every column, except in that of the variable left out.        *)

Without(col, e) ==
    LET upto[k \in 0 .. Len(col)] == IF k = 0 THEN <<>>
                                     ELSE IF col[k].ei # e THEN Append(upto[k-1], col[k])
                                     ELSE upto[k-1]
    IN  upto[Len(col)]
Spare(s) == {e \in Equs : s.equs[e].object = "none"}

AddCopy(s, e, n, vi_no) ==
    LET entry(v) == CHOOSE i \in DOMAIN s.column[v] : s.column[v][i].ei = e IN
    [s EXCEPT !.equs[n] = [NoEqu EXCEPT !.active = TRUE, !.object = s.equs[e].object,
                                        !.cone = s.equs[e].cone],
              !.column = [v \in Vars |-> IF v # vi_no /\ Occurs(s, v, e)
                                         THEN Append(@[v], [@[v][entry(v)] EXCEPT !.ei = n])
                                         ELSE @[v]]]

\* Mutant: the columns of the matrix keep the equation
rmdl_rm_equ_KeepColumn(s, e) ==
    LET m == s.equs[e].mp
        t == [s EXCEPT !.equs[e].active = FALSE]
    IN  IF m = NA THEN OK(t)
        ELSE IF e \notin s.mps[m].equs THEN Error(t)
        ELSE OK([t EXCEPT !.mps[m].equs = @ \ {e}])

\* The metadata keep the owner and the role
rmdl_rm_equ(s, e) ==
    LET m == s.equs[e].mp
        t == [s EXCEPT !.equs[e].active = FALSE,
                       !.column = [v \in Vars |-> Without(@[v], e)]]
    IN  IF m = NA THEN OK(t)
        ELSE IF e \notin s.mps[m].equs THEN Error(t)
        ELSE OK([t EXCEPT !.mps[m].equs = @ \ {e}])

rmdl_dup_equ(s, e, n) ==
    Then(rmdl_rm_equ(AddCopy(s, e, n, NA), e), LAMBDA t :
        LET m == t.equs[e].mp
            u == [t EXCEPT !.equs[e].res = n]
        IN  IF m = NA THEN OK(u)
            ELSE IF u.mps[m].objequ = e THEN mp_setobjequ(u, m, n)
            ELSE mp_addconstraint(u, m, n))

\* The role, the dual and the owner of e, for its copy n
CopyMeta(s, e, n) == [s EXCEPT !.equs[n].role = s.equs[e].role, !.equs[n].dual = s.equs[e].dual,
                               !.equs[n].mp = s.equs[e].mp]

rmdl_equ_dup_except(s, e, n, vi_no) ==
    Then(rmdl_rm_equ(AddCopy(s, e, n, vi_no), e), LAMBDA t :
        LET m == t.equs[e].mp
            u == CopyMeta([t EXCEPT !.equs[e].res = n], e, n)
            w == [u EXCEPT !.equs[n].mp = NA]
        IN  CASE m = NA -> OK(u)
              [] m # NA /\ u.equs[n].role = "objective" -> mp_setobjequ(w, m, n)
              [] m # NA /\ u.equs[n].role = "vifunction" -> OK([u EXCEPT !.mps[m].equs = @ \cup {n}])
              [] m # NA /\ u.equs[n].role = "constraint" -> mp_addconstraint(w, m, n)
              [] OTHER -> Error(w))

\* A flipped equation goes to the MP of its source before the source leaves
rmdl_equ_flip(s, e, n) ==
    LET t == AddCopy(s, e, n, NA)
        m == s.equs[e].mp
        u == CopyMeta([t EXCEPT !.equs[e].res = n], e, n)
    IN  IF s.equs[e].cone = "none" THEN Error(t)
        ELSE Then(IF m = NA THEN OK(u) ELSE mp_addequ([u EXCEPT !.equs[n].mp = NA], m, n),
                  LAMBDA w : rmdl_rm_equ(w, e))

\* The objective equation of m without its objective variable
rmdl_mp_objequ2objfun(s, m, n) ==
    Then(rmdl_equ_dup_except(s, s.mps[m].objequ, n, s.mps[m].objvar), LAMBDA t :
        mp_setobjvar([t EXCEPT !.equs[n].object = "mapping"], m, NA))

\* The same for an equation that defines its objective variable
rmdl_equ_defmap2map(s, m, n) ==
    LET v == s.mps[m].objvar IN
    Then(rmdl_equ_dup_except(s, s.mps[m].objequ, n, v), LAMBDA t :
        LET u == [t EXCEPT !.equs[n].object = "mapping"] IN
        IF v \notin u.mps[m].vars THEN Error(u)
        ELSE OK([u EXCEPT !.mps[m].vars = @ \ {v}, !.mps[m].objvar = NA]))

\* A new mapping becomes the objective; with an objective variable this is not implemented
mp_ensure_obequ(s, m, n) ==
    IF ~ IsOpt(s, m) THEN Error(s)
    ELSE IF s.mps[m].objequ # NA THEN OK(s)
    ELSE LET t == [s EXCEPT !.equs[n] = [NoEqu EXCEPT !.active = TRUE, !.object = "mapping"]] IN
         Then(mp_setobjvar(t, m, NA), LAMBDA u :
         Then(mp_setobjequ(u, m, n), LAMBDA w : IF s.mps[m].objvar = NA THEN OK(w) ELSE Error(w)))

\* Mutant: the variables that follow the objective variable are forgotten
mp_claimequvar_from_mp_NoVars(s, m, c) ==
    LET es == s.mps[c].equs \ {s.mps[c].objequ} IN
    [s EXCEPT !.mps[m].equs = @ \cup es,
              !.equs = [e \in Equs |-> IF e \in es THEN [@[e] EXCEPT !.mp = m]
                                       ELSE IF e = s.mps[c].objequ THEN [@[e] EXCEPT !.mp = NA]
                                       ELSE @[e]]]

\* m takes the equations and variables of c, the objective of c is left to nobody
mp_claimequvar_from_mp(s, m, c) ==
    LET es == s.mps[c].equs \ {s.mps[c].objequ}
        vs == s.mps[c].vars \ {s.mps[c].objvar}
    IN  [s EXCEPT !.mps[m].equs = @ \cup es, !.mps[m].vars = @ \cup vs,
                  !.equs = [e \in Equs |-> IF e \in es THEN [@[e] EXCEPT !.mp = m]
                                           ELSE IF e = s.mps[c].objequ THEN [@[e] EXCEPT !.mp = NA]
                                           ELSE @[e]],
                  !.vars = [v \in Vars |-> IF v \in vs THEN [@[v] EXCEPT !.mp = m]
                                           ELSE IF v = s.mps[c].objvar THEN [@[v] EXCEPT !.mp = NA]
                                           ELSE @[v]]]

-----------------------------------------------------------------------------
(* The calls.                                                              *)

Init ==
    /\ \E k \in Kinds : mdl = [vars |-> [v \in Vars |-> NoVar],
                               equs |-> [e \in Equs |->
                                            IF e \in DOMAIN StartEqu
                                            THEN [NoEqu EXCEPT !.active = TRUE,
                                                               !.object = StartEqu[e].object,
                                                               !.cone = StartEqu[e].cone]
                                            ELSE NoEqu],
                               mps |-> [m \in Mps |-> Mp(k[m])],
                               column |-> StartColumn]
    /\ calls = 0 /\ failures = 0 /\ edited = {}

Active == {e \in Equs : mdl.equs[e].active}
Alive == {m \in Mps : mdl.mps[m].alive}

\* The equations that can be edited: the MP they name has not been contracted
Editable == {e \in Active : mdl.equs[e].mp \in Alive \cup {NA}}
Owner(e, what) == {<<m, what>> : m \in {mdl.equs[e].mp} \ {NA}}
FlippedObj(e) == IF mdl.equs[e].role = "objective" THEN Owner(e, "obj") ELSE {}

\* The effect r of a call that edits the MPs eds; a call that changes nothing is no step
Call(r, eds) ==
    /\ calls < MaxCalls /\ calls' = calls + 1
    /\ r.mdl # mdl
    /\ r.ok \/ failures < MaxFailures
    /\ failures' = IF r.ok THEN failures ELSE failures + 1
    /\ mdl' = r.mdl
    /\ edited' = edited \cup eds

\* A VI gets its variables in pairs with the VI functions
AddVar(m, v) == IsOpt(mdl, m) /\ Call(mp_addvar(mdl, m, v), {})
AddConstraint(m, e) == Call(mp_addconstraint(mdl, m, e), {})
AddEqu(m, e) == Call(mp_addequ(mdl, m, e), {})
AddViPair(m, e, v) == IsVi(mdl, m) /\ Call(mp_addvipair(mdl, m, e, v), {})

\* The objective is given before the MP is finalized
SetObjEqu(m, e) == ~ mdl.mps[m].finalized /\ Call(mp_setobjequ(mdl, m, e), {})
SetObjVar(m, v) == ~ mdl.mps[m].finalized /\ Call(mp_setobjvar(mdl, m, v), {})
EnsureObjEqu(m) == \E n \in Spare(mdl) : Call(mp_ensure_obequ(mdl, m, n), {})

\* The variable of an OVF, which leaves its MP to become an objective variable
RmVar(m, v) == v # mdl.mps[m].objvar /\ Call(mp_rm_var(mdl, m, v), {<<m, "var">>})
Finalize(m) ==
    \E resolved \in BOOLEAN :
        /\ mdl.mps[m].objvar # NA => mdl.column[mdl.mps[m].objvar] # <<>>
        /\ Call(mp_finalize(mdl, m, resolved), {})

\* Only the contraction removes an objective equation
RmEqu(e) == mdl.equs[e].role # "objective" /\ Call(rmdl_rm_equ(mdl, e), Owner(e, "equ"))
Dup(e) == \E n \in Spare(mdl) : Call(rmdl_dup_equ(mdl, e, n), Owner(e, "equ"))
DupExcept(e, v) ==
    \E n \in Spare(mdl) : Call(rmdl_equ_dup_except(mdl, e, n, v), Owner(e, "equ"))
Flip(e) ==
    \E n \in Spare(mdl) : Call(rmdl_equ_flip(mdl, e, n), Owner(e, "equ") \cup FlippedObj(e))

\* The MP of the objective, with an objective variable that its objective equation contains
Defined(m) ==
    LET e == mdl.mps[m].objequ
        v == mdl.mps[m].objvar
    IN  /\ mdl.mps[m].finalized /\ IsOpt(mdl, m) /\ e \in Editable /\ v # NA
        /\ Occurs(mdl, v, e) /\ mdl.equs[e].mp = m /\ mdl.equs[e].role = "objective"

ObjEqu2ObjFun(m) ==
    \E n \in Spare(mdl) : Defined(m) /\ Call(rmdl_mp_objequ2objfun(mdl, m, n), {<<m, "equ">>})

DefMap2Map(m) ==
    \E n \in Spare(mdl) : /\ Defined(m) /\ mdl.equs[mdl.mps[m].objequ].object = "definedmapping"
                          /\ Call(rmdl_equ_defmap2map(mdl, m, n), {<<m, "equ">>})

\* The contraction of a VF arc: the parent claims what the child owns, the objective
\* equation of the child, which is its own, is deleted and the child is freed
Contract(m, c) ==
    LET t == mp_claimequvar_from_mp(mdl, m, c)
        e == mdl.mps[c].objequ
        r == IF e \in Active THEN rmdl_rm_equ(t, e) ELSE OK(t)
    IN  /\ m # c /\ IsOpt(mdl, m) /\ IsOpt(mdl, c)
        /\ mdl.mps[m].finalized /\ mdl.mps[c].finalized
        /\ e # NA => mdl.equs[e].mp = c
        /\ Call([r EXCEPT !.mdl.mps[c].alive = FALSE], {<<c, "mp">>})

OnMp(m) ==
    \/ Finalize(m) \/ EnsureObjEqu(m) \/ ObjEqu2ObjFun(m) \/ DefMap2Map(m)
    \/ SetObjVar(m, NA)
    \/ \E v \in Vars : AddVar(m, v) \/ SetObjVar(m, v) \/ RmVar(m, v) \/ AddViPair(m, NA, v)
    \/ \E e \in Active : AddConstraint(m, e) \/ AddEqu(m, e) \/ SetObjEqu(m, e)
    \/ \E e \in Active, v \in Vars : AddViPair(m, e, v)
    \/ \E c \in Alive : Contract(m, c)

Next ==
    \/ \E m \in Alive : OnMp(m)
    \/ \E e \in Editable : RmEqu(e) \/ Dup(e) \/ Flip(e) \/ \E v \in Vars : DupExcept(e, v)

Spec == Init /\ [][Next]_vars

-----------------------------------------------------------------------------
(* Properties.                                                             *)

VarMetas == [mp : Mps \cup {NA}, role : {"undefined", "objective", "primal"},
             ppty : SUBSET {1, 2, 4, 8}, dual : Equs \cup {NA}]
EquMetas == [mp : Mps \cup {NA}, role : {"undefined", "objective", "constraint", "vifunction"},
             dual : Vars \cup {NA}, active : BOOLEAN,
             object : Objects \cup {"none"}, cone : Cones, res : Equs \cup {NA}]
MpRecords == [sense : Senses, alive : BOOLEAN, finalized : BOOLEAN,
              vars : SUBSET Vars, equs : SUBSET Equs, objvar : Vars \cup {NA},
              objequ : Equs \cup {NA}, num_cons : 0 .. MaxCalls, num_zeros : 0 .. MaxCalls]

\* The metadata and the MPs have the types of the C structures, and the counters of a VI
\* never exceed the number of calls.
TypeOK ==
    /\ mdl.vars \in [Vars -> VarMetas] /\ mdl.equs \in [Equs -> EquMetas]
    /\ mdl.mps \in [Mps -> MpRecords]
    /\ \A v \in Vars : \A i \in DOMAIN mdl.column[v] : mdl.column[v][i].ei \in Active
    /\ calls \in 0 .. MaxCalls /\ failures \in 0 .. MaxFailures
    /\ edited \subseteq Mps \X {"equ", "obj", "var", "mp"}

\* What an MP lists it owns: every equation and variable in the list of an MP in use names
\* this MP in its metadata, and the equation is still in the model.  Hence two MPs never
\* share one, also after calls that failed half-way (mp_addvarchk, mp_addequchk and all
\* that edits the lists).
ListedIsOwned ==
    \A m \in Alive :
        /\ \A v \in mdl.mps[m].vars : mdl.vars[v].mp = m
        /\ \A e \in mdl.mps[m].equs : mdl.equs[e].mp = m /\ e \in Active

\* The equation that stands for e now: what the rosetta leads to
Latest(e) ==
    LET f[k \in 0 .. Cardinality(Equs)] ==
            IF k = 0 THEN e
            ELSE IF mdl.equs[f[k-1]].res = NA THEN f[k-1] ELSE mdl.equs[f[k-1]].res
    IN  f[Cardinality(Equs)]

\* As long as no call failed and no objective equation of the MP was flipped, which leaves the
\* MP with the index of the source, an objective equation that is the MP's own stays in its
\* place through every copy: the equation that stands for the one a finalized MP names is
\* marked as objective and is in the list of the MP.
ObjectiveInPlace ==
    failures = 0 => \A m \in Alive :
        LET oe == mdl.mps[m].objequ IN
        mdl.mps[m].finalized /\ oe # NA /\ mdl.equs[oe].mp = m /\ <<m, "obj">> \notin edited =>
            mdl.equs[Latest(oe)].role = "objective" /\ Latest(oe) \in mdl.mps[m].equs

\* The same when the objective equation was flipped: process_flipped says that "flipping
\* objective equation '%s' is not yet supported", but it asks for the objective of the model,
\* and the one of an MP is flipped and later copied as a constraint.
ObjectiveFollowsFlip ==
    failures = 0 => \A m \in Alive :
        LET oe == mdl.mps[m].objequ IN
        mdl.mps[m].finalized /\ oe # NA /\ mdl.equs[oe].mp = m =>
            mdl.equs[Latest(oe)].role = "objective"

\* The count that mp_getnumvars asserts: in a VI the variables with a VI function are as many
\* as the equations that are no constraint, as long as no call failed, nothing of this VI
\* was removed or copied and none of its equations is made an objective.
ViCounts ==
    failures = 0 => \A m \in Alive :
        /\ IsVi(mdl, m) /\ <<m, "equ">> \notin edited /\ <<m, "var">> \notin edited
        /\ \A e \in mdl.mps[m].equs : mdl.equs[e].role # "objective"
        =>
            Cardinality(mdl.mps[m].vars) + mdl.mps[m].num_cons
              = Cardinality(mdl.mps[m].equs) + mdl.mps[m].num_zeros

\* The lists of an MP, its counts and the owners in the metadata are one account.
ListsExact == TypeOK /\ ListedIsOwned /\ ViCounts

\* A VI function and its variable stay matched through copies and flips: the equation names
\* the variable, and the variable names an equation that the rosetta follows to it, as long as
\* no call failed and no variable was taken out of the VI.
PairsMatch ==
    failures = 0 => \A m \in Alive : \A e \in mdl.mps[m].equs :
        mdl.equs[e].role = "vifunction" /\ <<m, "var">> \notin edited =>
            LET v == mdl.equs[e].dual IN
            /\ v \in mdl.mps[m].vars
            /\ mdl.vars[v].dual # NA /\ Latest(mdl.vars[v].dual) = e

\* Nothing falls out of the MPs: an equation or variable in the list of some MP is in the list
\* of some MP after a call that succeeds, unless it was the objective, it was taken out, or
\* the equation left the model, and then the copy that the call made of it is listed.
Listed(s) == UNION {s.mps[m].vars \cup s.mps[m].equs : m \in {k \in Mps : s.mps[k].alive}}

NothingLost ==
    [][failures' = failures =>
         \A x \in Listed(mdl) \ Listed(mdl') :
            \/ \E m \in Mps : x \in {mdl.mps[m].objequ, mdl.mps[m].objvar}
            \/ x \in Vars /\ mdl'.vars[x].mp = NA
            \/ x \in Equs /\ ~ mdl'.equs[x].active
               /\ (mdl'.equs[x].res = mdl.equs[x].res \/ mdl'.equs[x].res \in Listed(mdl'))]_vars

\* The objective equation of an MP is not one of another MP (mp_identify_objequ: "If this
\* variable appears in another MP, can't substitute").
ObjectiveIsOwn ==
    failures = 0 => \A m \in Alive :
        mdl.mps[m].objequ # NA => mdl.equs[mdl.mps[m].objequ].mp \in {m, NA}

=============================================================================
