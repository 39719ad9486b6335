----------------------------- MODULE FoocSystem -----------------------------
(***************************************************************************)
(* The layout of the complementarity problem (MCP) that fooc_mcp           *)
(* (src/hop_algos/fooc.c) builds from the optimisation problems and VIs of *)
(* an EMPDAG: one equation F for each variable, then the nonlinear and     *)
(* then the linear constraints, each with a multiplier as its variable.    *)
(*                                                                         *)
(* The source equations are walked over in the intervals between the       *)
(* objective equations, the variables and equations are renumbered by      *)
(* filters, and in the bilevel case (sub) the variables of the upper level *)
(* have no equation. Expressions are abstracted to the variables that they *)
(* have; the derivative of a nonlinear one has all of them, that of an     *)
(* affine one none.                                                        *)
(*                                                                         *)
(* A source model m has the fields                                         *)
(*   nv, ne   numbers of variables and equations, indices 0 .. nv - 1 and  *)
(*            0 .. ne - 1                                                  *)
(*   mps      the MPs whose conditions are computed; empty without EMPDAG  *)
(*   type, objequ, objvar    of an MP                                      *)
(*   own, zero, live         owner of a variable; variables of a VI with a *)
(*            zero function; the variables that the filter keeps           *)
(*   keep, object, role, eown, nl, dual, vars   of an equation             *)
(*   sub      the filter is the one of a subdag below the root             *)
(* VI functions have their variable kept: the matrix of the model has a    *)
(* placeholder for it.                                                     *)
(***************************************************************************)
EXTENDS Integers, Sequences, FiniteSets, Bags, SequencesExt

CONSTANT Families   \* sequence of sets of source models

NA == -1

(***************************************************************************)
(* What the containers and the EMPDAG guarantee of a source model, and     *)
(* fooc_mcp asserts or relies on. Filters keep indices that exist. A kept  *)
(* objective equation is that of its MP. The VI functions are matched one  *)
(* to one with the variables of the VIs that have no zero function, and    *)
(* their variables are kept. A variable has a zero function only in a VI   *)
(* whose conditions are computed, and in a VI without EMPDAG no variable is *)
(* gone: the loops over zero functions and over the first ctr->n variables *)
(* rely on it. mdl_checkmetadata has checked that each kept constraint     *)
(* belongs to an MP, and each kept variable to one that exists, or, such   *)
(* as a multiplier of the source model, to none.                           *)
(***************************************************************************)
MpIds(x) == IF x.mps = <<>> THEN {0} ELSE ToSet(x.mps)
ViVars(x) == {v \in 0 .. x.nv - 1 : x.own[v] \in MpIds(x) /\ x.type[x.own[v]] = "vi"}
KeptIn(x, kind) == {e \in x.keep : x.role[e] = kind}

WellFormed(x) ==
    /\ x.nv \in Nat /\ x.live \subseteq 0 .. x.nv - 1 /\ x.zero \subseteq ViVars(x)
    /\ x.ne \in Nat /\ x.keep \subseteq 0 .. x.ne - 1
    /\ x.mps \in Seq(Nat) /\ \A p, q \in DOMAIN x.mps : x.mps[p] = x.mps[q] => p = q
    /\ x.mps = <<>> =>
           /\ x.type[0] \in {"opt", "vi"} /\ ~x.sub
           /\ x.type[0] = "vi" => x.live = 0 .. x.nv - 1
           /\ \A c \in KeptIn(x, "constraint") : x.eown[c] = 0
    /\ \A e \in x.keep : /\ x.role[e] \in {"objective", "vifunction", "constraint"}
                         /\ x.object[e] = "Mapping" <=> x.role[e] # "constraint"
    /\ \A e \in KeptIn(x, "objective") : x.eown[e] \in MpIds(x) /\ x.objequ[x.eown[e]] = e
    /\ \A k \in MpIds(x) :
           /\ x.objequ[k] # NA => /\ x.objequ[k] \in KeptIn(x, "objective") /\ x.eown[x.objequ[k]] = k
                                  /\ x.type[k] # "vi"
           /\ x.objvar[k] # NA => x.objvar[k] \in 0 .. x.nv - 1 /\ x.own[x.objvar[k]] = k
    /\ x.mps # <<>> =>
           /\ \A c \in KeptIn(x, "constraint") : x.eown[c] # NA
           /\ ~x.sub => \A v \in x.live : x.own[v] \in MpIds(x) \cup {NA}
    /\ {x.dual[e] : e \in KeptIn(x, "vifunction")} = ViVars(x) \ x.zero
    /\ \A e, d \in KeptIn(x, "vifunction") : x.dual[e] \in x.live /\ (x.dual[e] = x.dual[d] => e = d)

ASSUME FamiliesAssumption == \A f \in DOMAIN Families : \A x \in Families[f] : WellFormed(x)

VARIABLES
    m,            \* the source model
    pc,           \* the phase of fooc_mcp: a loop, or the way it ended
    i,            \* the turn of the loops over the MPs
    objequs,      \* fooc_dat->objequs
    mp2objequ,    \* place in mps -> place in objequs
    objequs2mps,  \* place in objequs -> place in mps
    n_vifuncs, n_vizerofuncs,
    ei_src,       \* the source equation that is next
    i_objequs,    \* the objective equation that ends the interval
    ei_nl, ei_lin, vi_mult, n_mappings,
    rosetta_equs, \* source equation -> equation of the MCP
    equs,         \* equation of the MCP -> what was copied there
    dual,         \* equation of the MCP -> its variable
    terms,        \* bag of the terms that were added to the equations F
    cons          \* place in mps -> its nonlinear and linear constraints in the MCP

vars == <<m, pc, i, objequs, mp2objequ, objequs2mps, n_vifuncs, n_vizerofuncs, ei_src,
          i_objequs, ei_nl, ei_lin, vi_mult, n_mappings, rosetta_equs, equs, dual, terms, cons>>
fillVars == <<objequs, mp2objequ, objequs2mps, n_vifuncs, n_vizerofuncs>>
walkVars == <<ei_src, i_objequs, ei_nl, ei_lin, vi_mult, n_mappings, rosetta_equs>>
mcpVars == <<equs, dual, terms, cons>>

Empty == [kind |-> "none", src |-> NA]
Ended == {"done", "error", "outside"}

Mps == DOMAIN m.mps
Mp(k) == m.mps[k]

(***************************************************************************)
(* Renumbering                                                             *)
(***************************************************************************)
Before(S, v) == Cardinality({u \in S : u < v})

\* copy_vars_fops
rosetta_vars(v) == IF v \in m.live THEN Before(m.live, v) ELSE NA

\* fooc_data_empdag: the variables that get an equation F, and its place
FoocVars == IF m.sub THEN {v \in m.live : \E k \in Mps : m.own[v] = Mp(k)} ELSE m.live
AuxVars == m.live \ FoocVars

ei_F(v) == IF v \in FoocVars THEN Before(FoocVars, v) ELSE NA
vi_F(ei) == rosetta_vars(CHOOSE v \in FoocVars : Before(FoocVars, v) = ei)

n_primalvars == Cardinality(m.live)
n_foocvars == Cardinality(FoocVars)

(***************************************************************************)
(* The objective equations and the number of VI functions                  *)
(***************************************************************************)
\* Where the insertion from the end of the list stops
Place(o) ==
    LET P == {p \in 1 .. Len(objequs) : objequs[p] <= o} IN
    IF P = {} THEN 1 ELSE 1 + (CHOOSE p \in P : \A q \in P : q <= p)

\* Mutant: the MPs of the objective equations that move keep their place
FillObjequ_Stale(k, o) ==
    /\ objequs' = InsertAt(objequs, Place(o), o)
    /\ objequs2mps' = InsertAt(objequs2mps, Place(o), k)
    /\ mp2objequ' = [mp2objequ EXCEPT ![k] = Place(o)]

\* Objective equation o of the k-th MP; the equations behind it move by one
FillObjequ(k, o) ==
    /\ objequs' = InsertAt(objequs, Place(o), o)
    /\ objequs2mps' = InsertAt(objequs2mps, Place(o), k)
    /\ mp2objequ' = [j \in Mps |->
           IF j = k THEN Place(o)
           ELSE IF \E p \in Place(o) .. Len(objequs) : objequs2mps[p] = j
                THEN 1 + (CHOOSE p \in Place(o) .. Len(objequs) : objequs2mps[p] = j)
                ELSE mp2objequ[j]]

Stop(how) == pc' = how /\ UNCHANGED <<m, i>>

FillOpt ==
    /\ pc = "fill" /\ i \in Mps /\ m.type[Mp(i)] = "opt"
    /\ LET oe == m.objequ[Mp(i)]  ov == m.objvar[Mp(i)] IN
       \/ /\ (oe = NA) = (ov = NA)
          /\ Stop("error") /\ UNCHANGED fillVars
       \/ /\ (oe = NA) # (ov = NA)
          /\ IF oe # NA THEN FillObjequ(i, oe) ELSE UNCHANGED <<objequs, mp2objequ, objequs2mps>>
          /\ i' = i + 1
          /\ UNCHANGED <<m, pc, n_vifuncs, n_vizerofuncs>>
    /\ UNCHANGED <<walkVars, mcpVars>>

MpVars(k) == {v \in 0 .. m.nv - 1 : m.own[v] = Mp(k)}
\* Mutant: the zero functions of all VIs
Zeros_All(k) == m.zero
Zeros(k) == MpVars(k) \cap m.zero

FillVi ==
    /\ pc = "fill" /\ i \in Mps /\ m.type[Mp(i)] = "vi"
    /\ n_vizerofuncs' = n_vizerofuncs + Cardinality(Zeros(i))
    /\ n_vifuncs' = n_vifuncs + Cardinality(MpVars(i)) - Cardinality(Zeros(i))
    /\ i' = i + 1
    /\ UNCHANGED <<m, pc, objequs, mp2objequ, objequs2mps, walkVars, mcpVars>>

\* An MP of another type: CCFLIB MPs must have been replaced before
FillOther ==
    /\ pc = "fill" /\ i \in Mps /\ m.type[Mp(i)] \notin {"opt", "vi"}
    /\ Stop("error")
    /\ UNCHANGED <<fillVars, walkVars, mcpVars>>

\* Without EMPDAG the data is that of the model, as if it were the data of MP 0. The loop
\* that counts the VI functions goes over the first ctr->n variables.
FillNoHop ==
    /\ pc = "fill" /\ m.mps = <<>>
    /\ IF m.type[0] = "opt"
       THEN /\ objequs' = IF m.objequ[0] = NA THEN <<>> ELSE <<m.objequ[0]>>
            /\ pc' = IF (m.objequ[0] = NA) = (m.objvar[0] = NA) THEN "error" ELSE "layout"
            /\ UNCHANGED <<m, i, mp2objequ, objequs2mps, n_vifuncs, n_vizerofuncs>>
       ELSE LET V == {v \in 0 .. n_primalvars - 1 : m.own[v] = 0} IN
            /\ n_vizerofuncs' = Cardinality(V \cap m.zero)
            /\ n_vifuncs' = Cardinality(V \ m.zero)
            /\ pc' = "layout"
            /\ UNCHANGED <<m, i, objequs, mp2objequ, objequs2mps>>
    /\ UNCHANGED <<walkVars, mcpVars>>

(***************************************************************************)
(* The sizes of the parts                                                  *)
(***************************************************************************)
cons_size == Cardinality(m.keep) - (Len(objequs) + n_vifuncs)
mcp_size == cons_size + n_foocvars

\* What the walk over the intervals between the objective equations meets
Walked ==
    LET from(p) == IF p = 1 THEN 0 ELSE objequs[p - 1] + 1
        to(p) == IF p <= Len(objequs) THEN objequs[p] ELSE m.ne
    IN  UNION {from(p) .. to(p) - 1 : p \in 1 .. Len(objequs) + 1}

\* Mutant: the VI functions that are affine count too
n_lincons_AnyRole == Cardinality({e \in Walked \cap m.keep : e \notin m.nl})
n_lincons == Cardinality({e \in Walked \cap m.keep : e \notin m.nl /\ m.role[e] = "constraint"})

\* The end of the loop over the MPs and the sizes of the MCP, all of it still empty
Layout ==
    /\ \/ pc = "layout"
       \/ pc = "fill" /\ m.mps # <<>> /\ i \notin Mps
    /\ IF cons_size < n_lincons
       THEN pc' = "error" /\ UNCHANGED <<walkVars, equs, dual>>
       ELSE /\ pc' = "inject"
            /\ ei_src' = 0 /\ i_objequs' = 1 /\ n_mappings' = 0
            /\ ei_nl' = n_foocvars
            /\ ei_lin' = mcp_size - n_lincons
            /\ vi_mult' = n_primalvars
            /\ equs' = [e \in 0 .. mcp_size - 1 |-> Empty]
            /\ dual' = [e \in 0 .. mcp_size - 1 |-> NA]
            /\ UNCHANGED rosetta_equs
    /\ UNCHANGED <<m, i, fillVars, terms, cons>>

(***************************************************************************)
(* inject_vifunc_and_cons                                                  *)
(***************************************************************************)
ei_src_end == IF i_objequs <= Len(objequs) THEN objequs[i_objequs] ELSE m.ne

\* rctr_setequvarperp refuses an equation that has its variable already
MayMatch(ei) == ei \in DOMAIN dual /\ dual[ei] = NA

\* Mutant: rosetta_equs is not updated
CopyTo_NoRosetta(e, ei, vi, kind) ==
    IF ei \notin DOMAIN equs THEN pc' = "outside" /\ UNCHANGED <<equs, dual, rosetta_equs>>
    ELSE /\ equs' = [equs EXCEPT ![ei] = [kind |-> kind, src |-> e]]
         /\ UNCHANGED rosetta_equs
         /\ IF MayMatch(ei) THEN dual' = [dual EXCEPT ![ei] = vi] /\ UNCHANGED pc
                            ELSE pc' = "error" /\ UNCHANGED dual

\* Equation e becomes equation ei of the MCP, with variable vi
CopyTo(e, ei, vi, kind) ==
    IF ei \notin DOMAIN equs THEN pc' = "outside" /\ UNCHANGED <<equs, dual, rosetta_equs>>
    ELSE /\ equs' = [equs EXCEPT ![ei] = [kind |-> kind, src |-> e]]
         /\ rosetta_equs' = [rosetta_equs EXCEPT ![e] = ei]
         /\ IF MayMatch(ei) THEN dual' = [dual EXCEPT ![ei] = vi] /\ UNCHANGED pc
                            ELSE pc' = "error" /\ UNCHANGED dual

InInterval == pc = "inject" /\ ei_src < ei_src_end

SkipEqu ==
    /\ InInterval /\ ei_src \notin m.keep
    /\ rosetta_equs' = [rosetta_equs EXCEPT ![ei_src] = NA]
    /\ ei_src' = ei_src + 1
    /\ UNCHANGED <<m, pc, i, fillVars, i_objequs, ei_nl, ei_lin, vi_mult, n_mappings, mcpVars>>

InjectVifunc ==
    /\ InInterval /\ ei_src \in m.keep /\ m.object[ei_src] = "Mapping"
    /\ IF n_mappings >= n_vifuncs
       THEN pc' = "error" /\ UNCHANGED <<equs, dual, rosetta_equs, n_mappings, ei_src>>
       ELSE /\ LET v == m.dual[ei_src] IN CopyTo(ei_src, ei_F(v), rosetta_vars(v), "vifunc")
            /\ n_mappings' = n_mappings + 1
            /\ ei_src' = ei_src + 1
    /\ UNCHANGED <<m, i, fillVars, i_objequs, ei_nl, ei_lin, vi_mult, terms, cons>>

\* Mutant: the multiplier has the index of the equation
InjectMult_EquIndex(ei) == ei
\* The multiplier of the constraint that becomes equation ei: the next one
InjectMult(ei) == vi_mult

InjectCons ==
    /\ InInterval /\ ei_src \in m.keep /\ m.object[ei_src] = "ConeInclusion"
    /\ IF ei_src \in m.nl
       THEN /\ CopyTo(ei_src, ei_nl, InjectMult(ei_nl), "cons")
            /\ ei_nl' = ei_nl + 1 /\ UNCHANGED ei_lin
       ELSE /\ CopyTo(ei_src, ei_lin, InjectMult(ei_lin), "cons")
            /\ ei_lin' = ei_lin + 1 /\ UNCHANGED ei_nl
    /\ vi_mult' = vi_mult + 1
    /\ ei_src' = ei_src + 1
    /\ UNCHANGED <<m, i, fillVars, i_objequs, n_mappings, terms, cons>>

\* An equation that is neither a mapping nor a constraint
InjectOther ==
    /\ InInterval /\ ei_src \in m.keep /\ m.object[ei_src] \notin {"Mapping", "ConeInclusion"}
    /\ Stop("error")
    /\ UNCHANGED <<fillVars, walkVars, mcpVars>>

\* Mutant: the interval is not counted
NextObjequ_Same == i_objequs
NextObjequ == i_objequs + 1

EndInterval ==
    /\ pc = "inject" /\ ei_src >= ei_src_end
    /\ rosetta_equs' = [rosetta_equs EXCEPT ![ei_src_end] = NA]
    /\ ei_src' = ei_src_end + 1
    /\ i_objequs' = NextObjequ
    /\ pc' = IF NextObjequ <= Len(objequs) + 1 THEN pc
             ELSE IF n_mappings = n_vifuncs THEN "zero" ELSE "error"
    /\ UNCHANGED <<m, i, fillVars, ei_nl, ei_lin, vi_mult, n_mappings, mcpVars>>

\* The variables that get a zero function: the first n_vizerofuncs that qualify
ZeroVars ==
    LET Q == {v \in m.live : v \in m.zero} IN
    {v \in Q : Cardinality({u \in Q : u < v}) < n_vizerofuncs}

InjectZerofuncs ==
    /\ pc = "zero"
    /\ equs' = [e \in DOMAIN equs |-> IF \E v \in ZeroVars : ei_F(v) = e
                                      THEN [kind |-> "zero", src |-> NA] ELSE equs[e]]
    /\ dual' = [e \in DOMAIN dual |-> IF \E v \in ZeroVars : ei_F(v) = e
                    THEN rosetta_vars(CHOOSE v \in ZeroVars : ei_F(v) = e) ELSE dual[e]]
    /\ pc' = IF \E v \in ZeroVars : ei_F(v) = NA THEN "outside"
             ELSE IF \E v \in ZeroVars : ~MayMatch(ei_F(v)) THEN "error"
             ELSE IF Cardinality(ZeroVars) = n_vizerofuncs THEN "lists" ELSE "error"
    /\ i' = 1
    /\ UNCHANGED <<m, fillVars, walkVars, terms, cons>>

(***************************************************************************)
(* The constraints of each MP, then its equations F                        *)
(***************************************************************************)
ei_lincons_start == mcp_size - n_lincons
MpEqus(k) == {e \in 0 .. m.ne - 1 : m.eown[e] = Mp(k)}

\* The equations of the MP that are in the constraint part of the MCP
ConsOfMp(k) ==
    LET C == {rosetta_equs[e] : e \in {d \in MpEqus(k) : rosetta_equs[d] >= n_foocvars}} IN
    [nl |-> {c \in C : c < ei_lincons_start}, lin |-> {c \in C : c >= ei_lincons_start}]

ListMp ==
    /\ pc = "lists" /\ i \in Mps
    /\ cons' = [cons EXCEPT ![i] = ConsOfMp(i)]
    /\ i' = i + 1
    /\ UNCHANGED <<m, pc, fillVars, walkVars, equs, dual, terms>>

ListsEnd ==
    /\ pc = "lists" /\ i \notin Mps
    /\ pc' = "primal" /\ i' = 1
    /\ UNCHANGED <<m, fillVars, walkVars, mcpVars>>

\* identify_vars_in_mp
var_in_mp(k) == MpVars(k) \cap m.live

\* add_nonlinear_normal_cone_term, add_polyhedral_normal_cone_term_: the multiplier of each
\* constraint, in the equation of each variable of the constraint that is in V
NormalCone(C, V) ==
    SetToBag(UNION {{<<ei_F(v), "mult", dual[c]>> : v \in m.vars[equs[c].src] \cap V} :
                    c \in C.nl \cup C.lin})

\* The gradient of objective equation o with respect to the variables V of its MP: they are
\* matched with their equation
Gradient(o, V, C) ==
    LET G == m.vars[o] \cap V IN
    /\ terms' = terms (+) SetToBag({<<ei_F(v), "grad", o>> : v \in G}) (+) NormalCone(C, V)
    /\ dual' = [e \in DOMAIN dual |-> IF \E v \in G : ei_F(v) = e
                    THEN rosetta_vars(CHOOSE v \in G : ei_F(v) = e) ELSE dual[e]]
    /\ pc' = IF \A v \in G : MayMatch(ei_F(v)) THEN pc ELSE "error"

\* The objective is a variable: its derivative is a constant
Constant(v, V, C) ==
    /\ terms' = terms (+) SetToBag({<<ei_F(v), "cst", NA>>}) (+) NormalCone(C, V)
    /\ dual' = [dual EXCEPT ![ei_F(v)] = rosetta_vars(v)]
    /\ pc' = IF MayMatch(ei_F(v)) THEN pc ELSE "error"

\* Mutant: the place in mps is used as the place in objequs
ObjequOf_Place(k) == IF k \in DOMAIN objequs THEN objequs[k] ELSE NA
ObjequOf(k) == IF mp2objequ[k] # NA THEN objequs[mp2objequ[k]] ELSE NA

PrimalOpt ==
    /\ pc = "primal" /\ i \in Mps /\ m.type[Mp(i)] = "opt"
    /\ LET o == ObjequOf(i) IN
       IF o = NA THEN Constant(m.objvar[Mp(i)], var_in_mp(i), cons[i])
       ELSE Gradient(o, var_in_mp(i), cons[i])
    /\ i' = i + 1
    /\ UNCHANGED <<m, fillVars, walkVars, equs, cons>>

PrimalVi ==
    /\ pc = "primal" /\ i \in Mps /\ m.type[Mp(i)] = "vi"
    /\ terms' = terms (+) NormalCone(cons[i], var_in_mp(i))
    /\ i' = i + 1
    /\ UNCHANGED <<m, pc, fillVars, walkVars, equs, dual, cons>>

\* Without EMPDAG: all constraints, all variables
PrimalNoHop ==
    /\ pc = "primal" /\ m.mps = <<>> /\ i = 1
    /\ LET C == [nl |-> n_foocvars .. ei_lincons_start - 1, lin |-> ei_lincons_start .. mcp_size - 1] IN
       IF objequs # <<>> THEN Gradient(objequs[1], m.live, C)
       ELSE IF m.type[0] = "vi" THEN terms' = terms (+) NormalCone(C, m.live) /\ UNCHANGED <<pc, dual>>
       ELSE pc' = "error" /\ UNCHANGED <<terms, dual>>   \* an objective variable alone is refused
    /\ i' = 2
    /\ UNCHANGED <<m, fillVars, walkVars, equs, cons>>

(***************************************************************************)
(* The matching of what the Lagrangian does not have, and the last check   *)
(***************************************************************************)
Derivative(e) == IF e \in m.nl THEN m.vars[e] ELSE {}

\* The variables of equation ei of the MCP
VarsOf(ei) ==
    LET T == {t \in BagToSet(terms) : t[1] = ei}
        own == IF equs[ei].src = NA THEN {} ELSE m.vars[equs[ei].src]
        grads == UNION {Derivative(t[3]) : t \in {u \in T : u[2] = "grad"}}
        mults == {t[3] : t \in {u \in T : u[2] = "mult"}}
        jacs == UNION {Derivative(equs[c].src) : c \in {d \in DOMAIN dual : dual[d] \in mults}}
    IN  {rosetta_vars(v) : v \in own \cup grads \cup jacs} \cup mults

\* Mutant: only equations that are not empty are matched
Unmatched_NotEmpty ==
    {ei \in 0 .. n_foocvars - 1 : dual[ei] = NA /\ \E t \in BagToSet(terms) : t[1] = ei}
Unmatched == {ei \in 0 .. n_foocvars - 1 : dual[ei] = NA}

Matching ==
    /\ pc = "primal" /\ i \notin Mps /\ (m.mps = <<>> => i = 2)
    /\ dual' = [ei \in DOMAIN dual |-> IF ei \in Unmatched THEN vi_F(ei) ELSE dual[ei]]
    /\ LET active == (UNION {VarsOf(ei) : ei \in DOMAIN equs}) \cup {dual'[ei] : ei \in 0 .. n_foocvars - 1}
       IN  pc' = IF Cardinality(active) < n_primalvars + cons_size THEN "error" ELSE "done"
    /\ UNCHANGED <<m, i, fillVars, walkVars, equs, terms, cons>>

Init ==
    /\ \E f \in DOMAIN Families : m \in Families[f]
    /\ pc = "fill" /\ i = 1
    /\ objequs = <<>> /\ objequs2mps = <<>> /\ mp2objequ = [k \in DOMAIN m.mps |-> NA]
    /\ n_vifuncs = 0 /\ n_vizerofuncs = 0
    /\ ei_src = 0 /\ i_objequs = 1 /\ ei_nl = 0 /\ ei_lin = 0 /\ vi_mult = 0 /\ n_mappings = 0
    /\ rosetta_equs = [e \in 0 .. m.ne |-> NA]
    /\ equs = <<>> /\ dual = <<>> /\ terms = EmptyBag
    /\ cons = [k \in DOMAIN m.mps |-> [nl |-> {}, lin |-> {}]]

Next ==
    \/ FillOpt \/ FillVi \/ FillOther \/ FillNoHop \/ Layout
    \/ SkipEqu \/ InjectVifunc \/ InjectCons \/ InjectOther \/ EndInterval \/ InjectZerofuncs
    \/ ListMp \/ ListsEnd \/ PrimalOpt \/ PrimalVi \/ PrimalNoHop \/ Matching
    \/ pc \in Ended /\ UNCHANGED vars

Spec == Init /\ [][Next]_vars /\ WF_vars(Next)

(***************************************************************************)
(* Properties                                                              *)
(***************************************************************************)
\* Types of the state: counters are numbers, the equations of the MCP have variables of the
\* MCP or none, the renumbering stays within it.
TypeOK ==
    /\ pc \in {"fill", "layout", "inject", "zero", "lists", "primal"} \cup Ended
    /\ i \in Nat /\ ei_src \in Nat /\ i_objequs \in Nat
    /\ n_vifuncs \in Nat /\ n_vizerofuncs \in Nat /\ n_mappings \in Nat
    /\ objequs \in Seq(0 .. m.ne - 1)
    /\ \A e \in DOMAIN dual : dual[e] \in -1 .. n_primalvars + cons_size - 1
    /\ \A e \in 0 .. m.ne : rosetta_equs[e] \in -1 .. mcp_size - 1

\* While the objective equations are inserted into their sorted list, the two maps between
\* the list and the MPs stay inverse to each other and lead each MP to its own equation.
ObjequsExact ==
    /\ \A p, q \in DOMAIN objequs : p < q => objequs[p] < objequs[q]
    /\ m.mps # <<>> =>
        /\ \A p \in DOMAIN objequs : mp2objequ[objequs2mps[p]] = p
        /\ \A k \in Mps : mp2objequ[k] # NA =>
               objequs2mps[mp2objequ[k]] = k /\ objequs[mp2objequ[k]] = m.objequ[Mp(k)]

Kept(kind) == KeptIn(m, kind)

\* The blocks of the MCP never run into each other: the nonlinear constraints stay below the
\* linear ones, these within the MCP, and no equation is written outside of it. The number
\* of linear constraints is found by another test than the one that sorts them.
BlocksFit ==
    /\ pc # "outside"
    /\ pc \in {"inject", "zero", "lists", "primal", "done"} =>
           ei_nl <= ei_lincons_start /\ ei_lin <= mcp_size

\* When the injection is over, every constraint has its own place in the block of its kind, no
\* place of these blocks is left, and each VI function is among the equations F, matched with its variable;
\* objective equations and equations that the filter drops have none.
EquationsPlaced ==
    pc \in {"lists", "primal", "done"} =>
        /\ \A e \in Kept("constraint") :
               /\ rosetta_equs[e] \in (IF e \in m.nl THEN n_foocvars .. ei_lincons_start - 1
                                                     ELSE ei_lincons_start .. mcp_size - 1)
               /\ equs[rosetta_equs[e]] = [kind |-> "cons", src |-> e]
        /\ \A ei \in n_foocvars .. mcp_size - 1 : equs[ei].kind = "cons"
        /\ \A e \in Kept("vifunction") :
               /\ rosetta_equs[e] \in 0 .. n_foocvars - 1
               /\ equs[rosetta_equs[e]] = [kind |-> "vifunc", src |-> e]
               /\ dual[rosetta_equs[e]] = rosetta_vars(m.dual[e])
        /\ \A e \in 0 .. m.ne : e \notin Kept("constraint") \cup Kept("vifunction") => rosetta_equs[e] = NA

\* The system that is handed to the solver is square: the equations F are matched with the
\* variables that are differentiated for, the constraints with the multipliers, one to one.
Square ==
    pc = "done" =>
        /\ {dual[ei] : ei \in 0 .. n_foocvars - 1} = {rosetta_vars(v) : v \in FoocVars}
        /\ {dual[ei] : ei \in n_foocvars .. mcp_size - 1} = n_primalvars .. n_primalvars + cons_size - 1

\* The layout of the MCP, at every step of its assembly: its maps, its blocks, the places of
\* its equations and, in the end, their matching.
LayoutExact == TypeOK /\ ObjequsExact /\ BlocksFit /\ EquationsPlaced /\ Square

OwnerOf(v) == IF m.mps = <<>> THEN 0 ELSE m.own[v]
\* The constraints of the MP that has variable v
MpConstraints(v) == {c \in Kept("constraint") : m.eown[c] = OwnerOf(v)}

\* The equation of a variable is the derivative of the Lagrangian of its own MP: the gradient of
\* the objective if that has the variable, and once the multiplier of each constraint of this MP
\* that has the variable, no other.
LagrangianExact ==
    pc = "done" => \A v \in FoocVars :
        LET k == OwnerOf(v)
            T == {t \in DOMAIN terms : dual[t[1]] = rosetta_vars(v)}
        IN  /\ \A t \in T : terms[t] = 1
            /\ {t[3] : t \in {u \in T : u[2] = "grad"}} =
                   {o \in Kept("objective") : m.eown[o] = k /\ v \in m.vars[o]}
            /\ {t[3] : t \in {u \in T : u[2] = "mult"}} =
                   {dual[rosetta_equs[c]] : c \in {d \in MpConstraints(v) : v \in m.vars[d]}}

\* What a model needs for its conditions to be computed
Supported ==
    /\ \A k \in IF m.mps = <<>> THEN {0} ELSE ToSet(m.mps) :
           /\ m.type[k] \in {"opt", "vi"}
           /\ m.type[k] = "opt" => (m.objequ[k] = NA) # (m.objvar[k] = NA)
           /\ m.type[k] = "opt" /\ m.mps = <<>> => m.objequ[k] # NA
    /\ \A e \in m.keep : m.object[e] \in {"Mapping", "ConeInclusion"}
    /\ m.zero \subseteq m.live
    /\ \A c \in Kept("constraint") : \E v \in FoocVars \cap m.vars[c] : OwnerOf(v) = m.eown[c]
\* The variables of the upper level that the lower level sees
Seen == (UNION {m.vars[e] : e \in Kept("constraint") \cup Kept("vifunction")})
        \cup (UNION {Derivative(o) : o \in {q \in Kept("objective") : \E v \in FoocVars \cap m.vars[q] : OwnerOf(v) = m.eown[q]}})

\* The computation ends, and succeeds exactly for the models that are supported and whose constraints
\* all have a variable of their MP, provided that in the bilevel case the lower level has
\* all variables of the upper level.
SucceedsExactly ==
    <>(pc \in Ended /\ (pc = "done" <=> Supported /\ AuxVars \subseteq Seen))

\* Comment of the last check: there may be more active variables than expected, "as in the MPEC
\* case". Variables of the upper level that the lower level does not have are no error.
UpperVariablesAreFree == pc = "error" => ~Supported
=============================================================================
