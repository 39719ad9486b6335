---------------------------- MODULE MathPrgmProofs ----------------------------
(***************************************************************************)
(* Proofs about the mathematical programmes, for any model and any number  *)
(* of calls: the lists of the MPs and the metadata are one account, also   *)
(* after calls that failed half-way; no call that succeeds loses an        *)
(* equation or a variable; and as long as no call fails the objective      *)
(* equation of an MP stays in its place and the VI functions stay matched  *)
(* with their variables.                                                   *)
(*                                                                         *)
(* A function of the code is a chain of updates of one variable, equation  *)
(* or MP.  What each update keeps is proved once; a chain keeps what its   *)
(* links keep.                                                             *)
(*                                                                         *)
(* The indices of an MP are collected with rhp_int_extend_sorted           *)
(* (IntExtendSorted): its proofs are at the end.                           *)
(***************************************************************************)
EXTENDS MathPrgm, IntExtendSorted, FiniteSetTheorems, TLAPS

AP == INSTANCE UIntArrayProofs

-----------------------------------------------------------------------------
(***************************************************************************)
(* The invariant of a model.                                               *)
(***************************************************************************)

MpRecs == [sense : Senses, alive : BOOLEAN, finalized : BOOLEAN,
           vars : SUBSET Vars, equs : SUBSET Equs, objvar : Vars \cup {NA},
           objequ : Equs \cup {NA}, num_cons : Nat, num_zeros : Nat]
Entries == [ei : Equs, nl : BOOLEAN]
Mdls == [vars : [Vars -> VarMetas], equs : [Equs -> EquMetas], mps : [Mps -> MpRecs],
         column : [Vars -> Seq(Entries)]]

\* An equation that is in the model has an object, so it is no spare one.
Occupied(s) == \A e \in Equs : s.equs[e].active => s.equs[e].object # "none"

\* The matrix has equations of the model only.
ColumnsActive(s) ==
    \A v \in Vars : \A i \in DOMAIN s.column[v] : s.equs[s.column[v][i].ei].active

VarsOwned(s) ==
    \A m \in Mps : s.mps[m].alive =>
        /\ \A v \in s.mps[m].vars : s.vars[v].mp = m
        /\ s.mps[m].objvar # NA => s.vars[s.mps[m].objvar].mp = m

EqusOwned(s) ==
    \A m \in Mps : s.mps[m].alive =>
        \A e \in s.mps[m].equs : s.equs[e].mp = m /\ s.equs[e].active

\* An equation of no MP has no role, or it is an objective that was contracted or that
\* mp_setobjequ could not hand over.
UnownedRoles(s) ==
    \A e \in Equs : s.equs[e].mp = NA => s.equs[e].role \in {"undefined", "objective"}

\* What an MP names as its objective equation is one.
ObjequsMarked(s) ==
    \A m \in Mps : LET e == s.mps[m].objequ IN
        e # NA => s.equs[e].object # "none" /\ s.equs[e].role = "objective"

Sound(s) ==
    /\ s \in Mdls
    /\ Occupied(s) /\ ColumnsActive(s) /\ VarsOwned(s) /\ EqusOwned(s)
    /\ UnownedRoles(s) /\ ObjequsMarked(s)

\* From s to t only m changes, the lists lose nothing but elements of X, the counts go up by
\* d at most, no objective equation loses its mark, and an equation that has left the model
\* stays out of it and keeps its copy.
Keeps(s, t, m, X, d) ==
    /\ \A k \in Mps : k # m => t.mps[k] = s.mps[k]
    /\ \A k \in Mps : /\ t.mps[k].sense = s.mps[k].sense
                      /\ t.mps[k].alive = s.mps[k].alive
                      /\ s.mps[k].vars \subseteq t.mps[k].vars \cup X
                      /\ s.mps[k].equs \subseteq t.mps[k].equs \cup X
                      /\ t.mps[k].num_cons <= s.mps[k].num_cons + d
                      /\ t.mps[k].num_zeros <= s.mps[k].num_zeros + d
    /\ \A e \in Equs : s.equs[e].object # "none" =>
          /\ t.equs[e].object # "none"
          /\ s.equs[e].role = "objective" => t.equs[e].role = "objective"
          /\ ~ s.equs[e].active => ~ t.equs[e].active /\ t.equs[e].res = s.equs[e].res

Step(s, t, m, X, d) == Sound(t) /\ Keeps(s, t, m, X, d)

-----------------------------------------------------------------------------
(***************************************************************************)
(* The updates.                                                            *)
(***************************************************************************)

WithVar(s, v, x) == [s EXCEPT !.vars = [@ EXCEPT ![v] = x]]
WithEqu(s, e, x) == [s EXCEPT !.equs = [@ EXCEPT ![e] = x]]
WithMp(s, m, x) == [s EXCEPT !.mps = [@ EXCEPT ![m] = x]]
WithColumns(s, c) == [s EXCEPT !.column = c]

\* The fields after an update of a variable.
LEMMA WithVarFields ==
  ASSUME NEW s \in Mdls, NEW v \in Vars, NEW x
  PROVE  /\ WithVar(s, v, x).equs = s.equs
         /\ WithVar(s, v, x).mps = s.mps
         /\ WithVar(s, v, x).column = s.column
         /\ \A w \in Vars : WithVar(s, v, x).vars[w] = IF w = v THEN x ELSE s.vars[w]
<1>1. /\ WithVar(s, v, x).equs = s.equs
      /\ WithVar(s, v, x).mps = s.mps
      /\ WithVar(s, v, x).column = s.column
      /\ WithVar(s, v, x).vars = [s.vars EXCEPT ![v] = x]
  BY DEF Mdls, WithVar
<1>2. DOMAIN s.vars = Vars
  BY DEF Mdls
<1> QED
  BY <1>1, <1>2

\* The fields after an update of an equation.
LEMMA WithEquFields ==
  ASSUME NEW s \in Mdls, NEW e \in Equs, NEW x
  PROVE  /\ WithEqu(s, e, x).vars = s.vars
         /\ WithEqu(s, e, x).mps = s.mps
         /\ WithEqu(s, e, x).column = s.column
         /\ \A f \in Equs : WithEqu(s, e, x).equs[f] = IF f = e THEN x ELSE s.equs[f]
<1>1. /\ WithEqu(s, e, x).vars = s.vars
      /\ WithEqu(s, e, x).mps = s.mps
      /\ WithEqu(s, e, x).column = s.column
      /\ WithEqu(s, e, x).equs = [s.equs EXCEPT ![e] = x]
  BY DEF Mdls, WithEqu
<1>2. DOMAIN s.equs = Equs
  BY DEF Mdls
<1> QED
  BY <1>1, <1>2

\* The fields after an update of an MP.
LEMMA WithMpFields ==
  ASSUME NEW s \in Mdls, NEW m \in Mps, NEW x
  PROVE  /\ WithMp(s, m, x).vars = s.vars
         /\ WithMp(s, m, x).equs = s.equs
         /\ WithMp(s, m, x).column = s.column
         /\ \A k \in Mps : WithMp(s, m, x).mps[k] = IF k = m THEN x ELSE s.mps[k]
<1>1. /\ WithMp(s, m, x).vars = s.vars
      /\ WithMp(s, m, x).equs = s.equs
      /\ WithMp(s, m, x).column = s.column
      /\ WithMp(s, m, x).mps = [s.mps EXCEPT ![m] = x]
  BY DEF Mdls, WithMp
<1>2. DOMAIN s.mps = Mps
  BY DEF Mdls
<1> QED
  BY <1>1, <1>2

\* The fields after an update of the columns.
LEMMA WithColumnsFields ==
  ASSUME NEW s \in Mdls, NEW c
  PROVE  /\ WithColumns(s, c).vars = s.vars /\ WithColumns(s, c).equs = s.equs
         /\ WithColumns(s, c).mps = s.mps /\ WithColumns(s, c).column = c
BY DEF Mdls, WithColumns

\* The types after an update.
LEMMA WithTypes ==
  ASSUME NEW s \in Mdls
  PROVE  /\ \A v \in Vars, x \in VarMetas : WithVar(s, v, x) \in Mdls
         /\ \A e \in Equs, x \in EquMetas : WithEqu(s, e, x) \in Mdls
         /\ \A m \in Mps, x \in MpRecs : WithMp(s, m, x) \in Mdls
         /\ \A c \in [Vars -> Seq(Entries)] : WithColumns(s, c) \in Mdls
BY Zenon DEF Mdls, WithVar, WithEqu, WithMp, WithColumns

\* The records of a model.
LEMMA Records ==
  ASSUME NEW s \in Mdls
  PROVE  /\ s.vars \in [Vars -> VarMetas] /\ s.equs \in [Equs -> EquMetas]
         /\ s.mps \in [Mps -> MpRecs] /\ s.column \in [Vars -> Seq(Entries)]
         /\ \A v \in Vars : s.vars[v] \in VarMetas
         /\ \A e \in Equs : s.equs[e] \in EquMetas
         /\ \A m \in Mps : /\ s.mps[m] \in MpRecs
                           /\ s.mps[m].num_cons \in Nat /\ s.mps[m].num_zeros \in Nat
                           /\ s.mps[m].vars \subseteq Vars /\ s.mps[m].equs \subseteq Equs
                           /\ s.mps[m].objvar \in Vars \cup {NA}
                           /\ s.mps[m].objequ \in Equs \cup {NA}
BY DEF Mdls, MpRecs

\* The entries of the columns.
LEMMA ColumnEntries ==
  ASSUME NEW s \in Mdls, NEW v \in Vars, NEW i \in DOMAIN s.column[v]
  PROVE  s.column[v][i] \in Entries /\ s.column[v][i].ei \in Equs
<1>1. s.column[v] \in Seq(Entries)
  BY Records
<1>2. s.column[v][i] \in Entries
  <2> HIDE DEF Entries
  <2> QED
    BY <1>1
<1> QED
  BY <1>2 DEF Entries

\* A model is a step from itself.
LEMMA NoStep ==
  ASSUME NEW s, Sound(s), NEW m, NEW X, NEW d \in Nat
  PROVE  Step(s, s, m, X, d)
BY Records DEF Step, Keeps, Sound

\* Steps follow one another.
LEMMA Steps ==
  ASSUME NEW s, NEW t, NEW u, Sound(s), NEW m, NEW X, NEW d \in Nat, NEW c \in Nat,
         Step(s, t, m, X, d), Step(t, u, m, X, c)
  PROVE  Step(s, u, m, X, d + c)
<1>1. Sound(u) /\ s \in Mdls /\ t \in Mdls /\ u \in Mdls
  BY DEF Step, Sound
<1>2. Keeps(s, t, m, X, d) /\ Keeps(t, u, m, X, c)
  BY DEF Step
<1>3. \A k \in Mps : /\ s.mps[k].num_cons \in Nat /\ s.mps[k].num_zeros \in Nat
                     /\ t.mps[k].num_cons \in Nat /\ t.mps[k].num_zeros \in Nat
                     /\ u.mps[k].num_cons \in Nat /\ u.mps[k].num_zeros \in Nat
  BY <1>1, Records
<1>4. \A k \in Mps : /\ u.mps[k].num_cons <= s.mps[k].num_cons + (d + c)
                     /\ u.mps[k].num_zeros <= s.mps[k].num_zeros + (d + c)
  BY <1>2, <1>3 DEF Keeps
<1>5. Keeps(s, u, m, X, d + c)
  BY <1>2, <1>4 DEF Keeps
<1> QED
  BY <1>1, <1>5 DEF Step

\* The marks of the objective equations that a change of the equations keeps.
MarksKept(s, t) ==
    \A e \in Equs : s.equs[e].object # "none" =>
        /\ t.equs[e].object # "none"
        /\ s.equs[e].role = "objective" => t.equs[e].role = "objective"
        /\ ~ s.equs[e].active => ~ t.equs[e].active /\ t.equs[e].res = s.equs[e].res

\* A change that leaves the MPs alone and keeps the marks.
LEMMA KeepsMps ==
  ASSUME NEW s \in Mdls, NEW t, t.mps = s.mps, MarksKept(s, t), NEW m, NEW X
  PROVE  Keeps(s, t, m, X, 0)
<1>1. \A k \in Mps : s.mps[k].num_cons \in Nat /\ s.mps[k].num_zeros \in Nat
  BY Records
<1> QED
  BY <1>1 DEF Keeps, MarksKept

\* A change to one variable is a step when the MPs that list it own it afterwards.
LEMMA VarStep ==
  ASSUME NEW s, Sound(s), NEW v \in Vars, NEW x \in VarMetas,
         \A k \in Mps : s.mps[k].alive /\ v \in s.mps[k].vars => x.mp = k,
         \A k \in Mps : s.mps[k].alive /\ v = s.mps[k].objvar => x.mp = k,
         NEW m, NEW X
  PROVE  Step(s, WithVar(s, v, x), m, X, 0)
<1> DEFINE t == WithVar(s, v, x)
<1>1. s \in Mdls /\ t \in Mdls
  BY WithTypes DEF Sound
<1>2. /\ t.equs = s.equs /\ t.mps = s.mps /\ t.column = s.column
      /\ \A w \in Vars : t.vars[w] = IF w = v THEN x ELSE s.vars[w]
  BY <1>1, WithVarFields
<1> HIDE DEF t
<1>3. Sound(t)
  <2>1. Occupied(t) /\ ColumnsActive(t)
    BY <1>2 DEF Sound, Occupied, ColumnsActive
  <2>2. VarsOwned(t)
    <3>1. \A k \in Mps : s.mps[k].vars \subseteq Vars /\ s.mps[k].objvar \in Vars \cup {NA}
      BY <1>1, Records
    <3>2. VarsOwned(s)
      BY DEF Sound
    <3> SUFFICES ASSUME NEW k \in Mps, s.mps[k].alive
                 PROVE  /\ \A w \in s.mps[k].vars : t.vars[w].mp = k
                        /\ s.mps[k].objvar # NA => t.vars[s.mps[k].objvar].mp = k
      BY <1>2 DEF VarsOwned
    <3>3. \A w \in s.mps[k].vars : t.vars[w].mp = k
      BY <1>2, <3>1, <3>2 DEF VarsOwned
    <3>4. s.mps[k].objvar # NA => t.vars[s.mps[k].objvar].mp = k
      BY <1>2, <3>1, <3>2 DEF VarsOwned
    <3> QED
      BY <3>3, <3>4
  <2>3. EqusOwned(t)
    BY <1>2 DEF Sound, EqusOwned
  <2>4. UnownedRoles(t) /\ ObjequsMarked(t)
    BY <1>2 DEF Sound, UnownedRoles, ObjequsMarked
  <2> QED
    BY <1>1, <2>1, <2>2, <2>3, <2>4 DEF Sound
<1>4. Keeps(s, t, m, X, 0)
  BY <1>1, <1>2, KeepsMps DEF MarksKept
<1> QED
  BY <1>3, <1>4 DEF Step, t

\* What a change of the record x of an equation to y keeps.
Marks(x, y) ==
    /\ y.active => y.object # "none"
    /\ y.mp = NA => y.role \in {"undefined", "objective"}
    /\ x.object # "none" =>
          /\ y.object # "none"
          /\ x.role = "objective" => y.role = "objective"
          /\ ~ x.active => ~ y.active /\ y.res = x.res

\* A change to one equation is a step when the MPs that list it own it afterwards and it
\* leaves the model only after its columns.
LEMMA EquStep ==
  ASSUME NEW s, Sound(s), NEW e \in Equs, NEW x \in EquMetas, Marks(s.equs[e], x),
         \A k \in Mps : s.mps[k].alive /\ e \in s.mps[k].equs => x.mp = k /\ x.active,
         x.active \/ \A v \in Vars : ~ Occurs(s, v, e),
         NEW m, NEW X
  PROVE  Step(s, WithEqu(s, e, x), m, X, 0)
<1> DEFINE t == WithEqu(s, e, x)
<1>1. s \in Mdls /\ t \in Mdls
  BY WithTypes DEF Sound
<1>2. /\ t.vars = s.vars /\ t.mps = s.mps /\ t.column = s.column
      /\ \A f \in Equs : t.equs[f] = IF f = e THEN x ELSE s.equs[f]
  BY <1>1, WithEquFields
<1> HIDE DEF t
<1>3. Sound(t)
  <2>1. Occupied(t)
    BY <1>2 DEF Sound, Occupied, Marks
  <2>2. ColumnsActive(t)
    <3> SUFFICES ASSUME NEW v \in Vars, NEW i \in DOMAIN s.column[v]
                 PROVE  t.equs[s.column[v][i].ei].active
      BY <1>2 DEF ColumnsActive
    <3>1. s.column[v][i].ei \in Equs
      BY <1>1, ColumnEntries
    <3>2. s.equs[s.column[v][i].ei].active
      BY DEF Sound, ColumnsActive
    <3>3. s.column[v][i].ei = e => Occurs(s, v, e)
      BY DEF Occurs
    <3> QED
      BY <1>2, <3>1, <3>2, <3>3
  <2>3. VarsOwned(t)
    BY <1>2 DEF Sound, VarsOwned
  <2>4. EqusOwned(t)
    <3>1. \A k \in Mps : s.mps[k].equs \subseteq Equs
      BY <1>1, Records
    <3>2. \A k \in Mps : s.mps[k].alive =>
             \A f \in s.mps[k].equs : s.equs[f].mp = k /\ s.equs[f].active
      BY DEF Sound, EqusOwned
    <3> SUFFICES ASSUME NEW k \in Mps, s.mps[k].alive, NEW f \in s.mps[k].equs
                 PROVE  t.equs[f].mp = k /\ t.equs[f].active
      BY <1>2 DEF EqusOwned
    <3>3. f \in Equs
      BY <3>1
    <3> QED
      BY <1>2, <3>2, <3>3
  <2>5. UnownedRoles(t)
    BY <1>2 DEF Sound, UnownedRoles, Marks
  <2>6. ObjequsMarked(t)
    <3>1. \A k \in Mps : s.mps[k].objequ \in Equs \cup {NA}
      BY <1>1, Records
    <3> QED
      BY <1>2, <3>1 DEF Sound, ObjequsMarked, Marks
  <2> QED
    BY <1>1, <2>1, <2>2, <2>3, <2>4, <2>5, <2>6 DEF Sound
<1>4. Keeps(s, t, m, X, 0)
  BY <1>1, <1>2, KeepsMps DEF MarksKept, Marks
<1> QED
  BY <1>3, <1>4 DEF Step, t

\* A change to one MP.
Owns(s, m, x) ==
    /\ \A v \in x.vars : s.vars[v].mp = m
    /\ x.objvar # NA => s.vars[x.objvar].mp = m
    /\ \A e \in x.equs : s.equs[e].mp = m /\ s.equs[e].active
Follows(x, y, X, d) ==
    /\ y.sense = x.sense /\ y.alive = x.alive
    /\ x.vars \subseteq y.vars \cup X /\ x.equs \subseteq y.equs \cup X
    /\ y.num_cons <= x.num_cons + d /\ y.num_zeros <= x.num_zeros + d
Names(s, e) == e # NA => s.equs[e].object # "none" /\ s.equs[e].role = "objective"

\* A change to one MP is a step when the MP owns what it lists and its objective is marked.
LEMMA MpStep ==
  ASSUME NEW s, Sound(s), NEW m \in Mps, NEW x \in MpRecs, NEW X, NEW d \in Nat,
         x.alive => Owns(s, m, x), Names(s, x.objequ), Follows(s.mps[m], x, X, d)
  PROVE  Step(s, WithMp(s, m, x), m, X, d)
<1> DEFINE t == WithMp(s, m, x)
<1>1. s \in Mdls /\ t \in Mdls
  BY WithTypes DEF Sound
<1>2. /\ t.vars = s.vars /\ t.equs = s.equs /\ t.column = s.column
      /\ \A k \in Mps : t.mps[k] = IF k = m THEN x ELSE s.mps[k]
  BY <1>1, WithMpFields
<1> HIDE DEF t
<1>3. Sound(t)
  <2>1. Occupied(t) /\ ColumnsActive(t) /\ UnownedRoles(t)
    BY <1>2 DEF Sound, Occupied, ColumnsActive, UnownedRoles
  <2>2. VarsOwned(t) /\ EqusOwned(t)
    BY <1>2 DEF Sound, VarsOwned, EqusOwned, Owns
  <2>3. ObjequsMarked(t)
    BY <1>2 DEF Sound, ObjequsMarked, Names
  <2> QED
    BY <1>1, <2>1, <2>2, <2>3 DEF Sound
<1>4. Keeps(s, t, m, X, d)
  BY <1>1, <1>2, Records DEF Keeps, Follows
<1> QED
  BY <1>3, <1>4 DEF Step, t

\* Other columns are a step when they have equations of the model only.
LEMMA ColumnStep ==
  ASSUME NEW s, Sound(s), NEW c \in [Vars -> Seq(Entries)],
         \A v \in Vars : \A i \in DOMAIN c[v] : s.equs[c[v][i].ei].active,
         NEW m, NEW X
  PROVE  Step(s, WithColumns(s, c), m, X, 0)
<1> DEFINE t == WithColumns(s, c)
<1>1. s \in Mdls /\ t \in Mdls
  BY WithTypes DEF Sound
<1>2. t.vars = s.vars /\ t.equs = s.equs /\ t.mps = s.mps /\ t.column = c
  BY <1>1, WithColumnsFields
<1> HIDE DEF t
<1>3. Sound(t)
  BY <1>1, <1>2 DEF Sound, Occupied, ColumnsActive, VarsOwned, EqusOwned, UnownedRoles,
                    ObjequsMarked
<1>4. Keeps(s, t, m, X, 0)
  BY <1>1, <1>2, KeepsMps DEF MarksKept
<1> QED
  BY <1>3, <1>4 DEF Step, t

\* A step without counting, before or after another.
LEMMA Chain ==
  ASSUME NEW s, NEW t, NEW u, NEW m, NEW X, NEW d \in Nat, Sound(s),
         \/ Step(s, t, m, X, 0) /\ Step(t, u, m, X, d)
         \/ Step(s, t, m, X, d) /\ Step(t, u, m, X, 0)
  PROVE  Step(s, u, m, X, d)
<1>1. CASE Step(s, t, m, X, 0) /\ Step(t, u, m, X, d)
  <2>1. Step(s, u, m, X, 0 + d)
    BY <1>1, Steps
  <2> QED
    BY <2>1
<1>2. CASE Step(s, t, m, X, d) /\ Step(t, u, m, X, 0)
  <2>1. Step(s, u, m, X, d + 0)
    BY <1>2, Steps
  <2> QED
    BY <2>1
<1> QED
  BY <1>1, <1>2

\* A step loses no more than a larger set has, and counts no more than a larger bound.
LEMMA Wider ==
  ASSUME NEW s, NEW t, Sound(s), NEW m, NEW X, NEW Y, X \subseteq Y, NEW d \in Nat, NEW c \in Nat,
         d <= c, Step(s, t, m, X, d)
  PROVE  Step(s, t, m, Y, c)
<1>1. s \in Mdls /\ t \in Mdls
  BY DEF Step, Sound
<1>2. Keeps(s, t, m, X, d)
  BY DEF Step
<1>3. \A k \in Mps : /\ s.mps[k].num_cons \in Nat /\ s.mps[k].num_zeros \in Nat
                     /\ t.mps[k].num_cons \in Nat /\ t.mps[k].num_zeros \in Nat
  BY <1>1, Records
<1>4. \A k \in Mps : /\ t.mps[k].num_cons <= s.mps[k].num_cons + c
                     /\ t.mps[k].num_zeros <= s.mps[k].num_zeros + c
  BY <1>2, <1>3 DEF Keeps
<1>5. Keeps(s, t, m, Y, c)
  BY <1>2, <1>4 DEF Keeps
<1> QED
  BY <1>5 DEF Step

-----------------------------------------------------------------------------
(***************************************************************************)
(* Adding to an MP.                                                        *)
(***************************************************************************)

\* What a sound model says of one variable and one equation.
LEMMA Owners ==
  ASSUME NEW s, Sound(s)
  PROVE  /\ s \in Mdls
         /\ \A v \in Vars : \A k \in Mps :
               s.mps[k].alive /\ v \in s.mps[k].vars => s.vars[v].mp = k
         /\ \A k \in Mps : s.mps[k].alive /\ s.mps[k].objvar # NA =>
               s.mps[k].objvar \in Vars /\ s.vars[s.mps[k].objvar].mp = k
         /\ \A e \in Equs : \A k \in Mps :
               s.mps[k].alive /\ e \in s.mps[k].equs => s.equs[e].mp = k /\ s.equs[e].active
         /\ \A e \in Equs : /\ s.equs[e].active => s.equs[e].object # "none"
                            /\ s.equs[e].mp = NA => s.equs[e].role \in {"undefined", "objective"}
         /\ NA \notin Vars /\ NA \notin Equs /\ NA \notin Mps
BY MathPrgmAssumption, Records DEF Sound, VarsOwned, EqusOwned, Occupied, UnownedRoles

\* The record x for m lists what it lists in s and what it owns, but for some of X, has the
\* same objective or a marked one, and counts d more at most.
Relists(s, m, x, X, d) ==
    /\ x.sense = s.mps[m].sense /\ x.alive = s.mps[m].alive
    /\ x.vars \subseteq s.mps[m].vars \cup {v \in Vars : s.vars[v].mp = m}
    /\ x.equs \subseteq s.mps[m].equs \cup {e \in Equs : s.equs[e].mp = m /\ s.equs[e].active}
    /\ s.mps[m].vars \subseteq x.vars \cup X /\ s.mps[m].equs \subseteq x.equs \cup X
    /\ x.objequ = s.mps[m].objequ \/ Names(s, x.objequ)
    /\ x.objvar \in {s.mps[m].objvar, NA} \/ s.vars[x.objvar].mp = m
    /\ x.num_cons <= s.mps[m].num_cons + d /\ x.num_zeros <= s.mps[m].num_zeros + d

\* Such a record is a step.
LEMMA ListStep ==
  ASSUME NEW s, Sound(s), NEW m \in Mps, NEW x \in MpRecs, NEW X, NEW d \in Nat,
         Relists(s, m, x, X, d)
  PROVE  Step(s, WithMp(s, m, x), m, X, d)
<1>1. s.mps[m].vars \subseteq Vars /\ s.mps[m].equs \subseteq Equs
  BY Records, Owners
<1>2. x.alive => Owns(s, m, x)
  <2> SUFFICES ASSUME s.mps[m].alive PROVE Owns(s, m, x)
    BY DEF Relists
  <2>1. \A w \in s.mps[m].vars : s.vars[w].mp = m
    BY <1>1, Owners
  <2>2. \A e \in s.mps[m].equs : s.equs[e].mp = m /\ s.equs[e].active
    BY <1>1, Owners
  <2>3. x.objvar # NA => s.vars[x.objvar].mp = m
    BY Owners DEF Relists
  <2> QED
    BY <2>1, <2>2, <2>3 DEF Owns, Relists
<1>3. Names(s, x.objequ)
  BY DEF Relists, Names, Sound, ObjequsMarked
<1>4. Follows(s.mps[m], x, X, d)
  BY DEF Relists, Follows
<1> QED
  BY <1>2, <1>3, <1>4, MpStep

\* mp_addvarchk: one variable that had no owner is listed.
LEMMA AddVarChk ==
  ASSUME NEW s, Sound(s), NEW m \in Mps, NEW v \in Vars, NEW X, NEW r, r = mp_addvarchk(s, m, v)
  PROVE  /\ Step(s, r.mdl, m, X, 0) /\ r.ok \in BOOLEAN
         /\ r.ok => /\ s.vars[v].mp = NA /\ r.mdl.vars[v].mp = m /\ r.mdl.equs = s.equs
                    /\ r.mdl.mps[m] = [s.mps[m] EXCEPT !.vars = @ \cup {v}]
<1> DEFINE x == [s.vars[v] EXCEPT !.mp = m]
           y == [s.mps[m] EXCEPT !.vars = @ \cup {v}]
           t == WithVar(s, v, x)
           u == WithMp(t, m, y)
<1>1. CASE s.vars[v].mp # NA
  <2>1. r.mdl = s /\ r.ok = FALSE
    BY <1>1 DEF mp_addvarchk, Error
  <2> QED
    BY <2>1, NoStep, Zenon
<1>2. CASE s.vars[v].mp = NA
  <2>1. s \in Mdls /\ s.vars[v] \in VarMetas /\ s.mps[m] \in MpRecs
    BY Records, Owners
  <2>2. r.mdl = u /\ r.ok = TRUE
    BY <1>2, <2>1 DEF mp_addvarchk, OK, WithVar, WithMp, Mdls
  <2>3. x \in VarMetas /\ x.mp = m
    BY <2>1 DEF VarMetas
  <2>4. /\ y \in MpRecs /\ y.objequ = s.mps[m].objequ
        /\ y.vars = s.mps[m].vars \cup {v} /\ y.equs = s.mps[m].equs /\ y.alive = s.mps[m].alive
        /\ y.sense = s.mps[m].sense /\ y.objvar = s.mps[m].objvar
        /\ y.num_cons <= s.mps[m].num_cons + 0 /\ y.num_zeros <= s.mps[m].num_zeros + 0
    BY <2>1 DEF MpRecs
  <2> HIDE DEF x, y, u
  <2>5. Step(s, t, m, X, 0)
    BY <1>2, <2>3, Owners, VarStep
  <2>6. /\ t \in Mdls /\ t.mps = s.mps /\ t.equs = s.equs /\ t.vars[v] = x
    BY <2>1, <2>3, WithVarFields, WithTypes
  <2> HIDE DEF t
  <2>7. Relists(t, m, y, X, 0)
    BY <2>3, <2>4, <2>6 DEF Relists
  <2>8. Step(t, u, m, X, 0)
    BY <2>4, <2>5, <2>7, ListStep DEF Step, u
  <2>9. Step(s, u, m, X, 0)
    BY <2>5, <2>8, Chain
  <2>10. u.mps[m] = y /\ u.vars = t.vars /\ u.equs = t.equs
    BY <2>4, <2>6, WithMpFields DEF u
  <2> QED
    BY <1>2, <2>2, <2>3, <2>6, <2>9, <2>10, Zenon DEF y
<1> QED
  BY <1>1, <1>2

\* What mp_addequchk does when it succeeds.
EquListed(s, t, m, e) ==
    /\ s.equs[e].mp = NA /\ t.vars = s.vars
    /\ t.equs[e] = [s.equs[e] EXCEPT !.mp = m]
    /\ t.mps[m] = [s.mps[m] EXCEPT !.equs = @ \cup {e}]

\* mp_addequchk: one equation that had no owner is listed.
LEMMA AddEquChk ==
  ASSUME NEW s, Sound(s), NEW m \in Mps, NEW e \in Equs, s.equs[e].active, NEW X,
         NEW r, r = mp_addequchk(s, m, e)
  PROVE  /\ Step(s, r.mdl, m, X, 0) /\ r.ok \in BOOLEAN
         /\ r.ok => EquListed(s, r.mdl, m, e)
<1> DEFINE x == [s.equs[e] EXCEPT !.mp = m]
           y == [s.mps[m] EXCEPT !.equs = @ \cup {e}]
           t == WithEqu(s, e, x)
           u == WithMp(t, m, y)
<1>1. CASE s.equs[e].mp # NA
  <2>1. r.mdl = s /\ r.ok = FALSE
    BY <1>1 DEF mp_addequchk, Error
  <2> QED
    BY <2>1, NoStep, Zenon
<1>2. CASE s.equs[e].mp = NA
  <2>1. s \in Mdls /\ s.equs[e] \in EquMetas /\ s.mps[m] \in MpRecs
    BY Records, Owners
  <2>2. r.mdl = u /\ r.ok = TRUE
    BY <1>2, <2>1 DEF mp_addequchk, OK, WithEqu, WithMp, Mdls
  <2>3. /\ x \in EquMetas /\ x.mp = m /\ x.active = s.equs[e].active
        /\ x.object = s.equs[e].object /\ x.role = s.equs[e].role
    BY <2>1, Zenon DEF EquMetas
  <2>4. /\ y \in MpRecs /\ y.objequ = s.mps[m].objequ
        /\ y.vars = s.mps[m].vars /\ y.equs = s.mps[m].equs \cup {e} /\ y.alive = s.mps[m].alive
        /\ y.sense = s.mps[m].sense /\ y.objvar = s.mps[m].objvar
        /\ y.num_cons <= s.mps[m].num_cons + 0 /\ y.num_zeros <= s.mps[m].num_zeros + 0
    BY <2>1 DEF MpRecs
  <2> HIDE DEF x, y, u
  <2>5. Marks(s.equs[e], x)
    BY <2>3, Owners DEF Marks
  <2>6. Step(s, t, m, X, 0)
    BY <1>2, <2>3, <2>5, Owners, EquStep, ZenonT(30)
  <2>7. /\ t \in Mdls /\ t.mps = s.mps /\ t.vars = s.vars /\ t.equs[e] = x
    BY <2>1, <2>3, WithEquFields, WithTypes
  <2> HIDE DEF t
  <2>8. Relists(t, m, y, X, 0)
    BY <2>3, <2>4, <2>7, Zenon DEF Relists
  <2>9. Step(t, u, m, X, 0)
    BY <2>4, <2>6, <2>8, ListStep DEF Step, u
  <2>10. Step(s, u, m, X, 0)
    BY <2>6, <2>9, Chain
  <2>11. u.mps[m] = y /\ u.vars = t.vars /\ u.equs = t.equs
    BY <2>4, <2>7, WithMpFields DEF u
  <2> QED
    BY <1>2, <2>2, <2>7, <2>10, <2>11, Zenon DEF EquListed, x, y
<1> QED
  BY <1>1, <1>2

\* A variable that keeps its owner may change.
LEMMA SameOwner ==
  ASSUME NEW s, Sound(s), NEW v \in Vars, NEW x \in VarMetas, x.mp = s.vars[v].mp, NEW m, NEW X
  PROVE  Step(s, WithVar(s, v, x), m, X, 0)
BY Owners, VarStep

\* An equation that keeps its owner, its place in the model and its marks may change.
LEMMA SamePlace ==
  ASSUME NEW s, Sound(s), NEW e \in Equs, NEW x \in EquMetas,
         x.mp = s.equs[e].mp, s.equs[e].active, x.active = s.equs[e].active,
         Marks(s.equs[e], x), NEW m, NEW X
  PROVE  Step(s, WithEqu(s, e, x), m, X, 0)
<1>1. \A k \in Mps : s.mps[k].alive /\ e \in s.mps[k].equs => x.mp = k /\ x.active
  BY Owners
<1> QED
  BY <1>1, EquStep, Zenon

\* mp_addvar.
LEMMA AddVarStep ==
  ASSUME NEW s, Sound(s), NEW m \in Mps, NEW v \in Vars, NEW X, NEW r, r = mp_addvar(s, m, v)
  PROVE  Step(s, r.mdl, m, X, 0)
<1> DEFINE q == mp_addvarchk(s, m, v)
           x == [q.mdl.vars[v] EXCEPT !.role = "primal"]
<1>1. Step(s, q.mdl, m, X, 0) /\ q.ok \in BOOLEAN
  BY AddVarChk, Zenon
<1>2. Sound(q.mdl) /\ q.mdl \in Mdls /\ q.mdl.vars[v] \in VarMetas
  BY <1>1, Owners, Records DEF Step
<1>3. r.mdl = q.mdl \/ r.mdl = WithVar(q.mdl, v, x)
  BY <1>2 DEF mp_addvar, Then, OK, WithVar, Mdls
<1> HIDE DEF q
<1>4. x \in VarMetas /\ x.mp = q.mdl.vars[v].mp
  BY <1>2 DEF VarMetas
<1> HIDE DEF x
<1>5. Step(q.mdl, WithVar(q.mdl, v, x), m, X, 0)
  BY <1>2, <1>4, SameOwner
<1> QED
  BY <1>1, <1>3, <1>5, Chain

\* What mp_addconstraint does to an MP when it succeeds: what it lists is counted in a VI.
ConstraintListed(s, t, m, e) ==
    /\ s.equs[e].mp = NA
    /\ t.mps[m] = [s.mps[m] EXCEPT !.equs = @ \cup {e},
                                   !.num_cons = IF IsVi(s, m) THEN @ + 1 ELSE @]

\* mp_addconstraint.
LEMMA AddConstraintStep ==
  ASSUME NEW s, Sound(s), NEW m \in Mps, NEW e \in Equs, s.equs[e].active, NEW X,
         NEW r, r = mp_addconstraint(s, m, e)
  PROVE  /\ Step(s, r.mdl, m, X, 1)
         /\ r.ok => ConstraintListed(s, r.mdl, m, e)
<1> DEFINE q == mp_addequchk(s, m, e)
           x == [q.mdl.equs[e] EXCEPT !.role = IF @ = "undefined" THEN "constraint" ELSE @]
           y == [q.mdl.mps[m] EXCEPT !.num_cons = IF IsVi(q.mdl, m) THEN @ + 1 ELSE @]
           t == WithEqu(q.mdl, e, x)
           u == WithMp(t, m, y)
<1>1. /\ Step(s, q.mdl, m, X, 0) /\ q.ok \in BOOLEAN
      /\ q.ok => /\ s.equs[e].mp = NA /\ q.mdl.equs[e] = [s.equs[e] EXCEPT !.mp = m]
                 /\ q.mdl.mps[m] = [s.mps[m] EXCEPT !.equs = @ \cup {e}]
  BY AddEquChk DEF EquListed
<1>2. Sound(q.mdl) /\ q.mdl \in Mdls /\ q.mdl.equs[e] \in EquMetas /\ q.mdl.mps[m] \in MpRecs
  BY <1>1, Owners, Records DEF Step
<1>3. CASE ~ q.ok
  <2>1. r = q
    BY <1>3 DEF mp_addconstraint, Then
  <2> QED
    BY <1>1, <1>3, <2>1, Wider
<1>4. CASE q.ok
  <2>1. r.mdl = u /\ r.ok = TRUE
    BY <1>2, <1>4 DEF mp_addconstraint, Then, OK, WithEqu, WithMp, Mdls
  <2>2. s.equs[e] \in EquMetas /\ s.mps[m] \in MpRecs
    BY Records, Owners
  <2>3. q.mdl.equs[e].mp = m /\ q.mdl.equs[e].active
    BY <1>1, <1>4, <2>2 DEF EquMetas
  <2>4. q.mdl.mps[m].sense = s.mps[m].sense /\ q.mdl.mps[m].num_cons = s.mps[m].num_cons
    BY <1>1, <1>4, <2>2 DEF MpRecs
  <2>5. y = [s.mps[m] EXCEPT !.equs = @ \cup {e}, !.num_cons = IF IsVi(s, m) THEN @ + 1 ELSE @]
    BY <1>1, <1>4, <2>2, <2>4, Zenon DEF MpRecs, IsVi
  <2> HIDE DEF q
  <2>6. /\ x \in EquMetas /\ x.mp = q.mdl.equs[e].mp /\ x.active = q.mdl.equs[e].active
        /\ x.object = q.mdl.equs[e].object
        /\ q.mdl.equs[e].role = "objective" => x.role = "objective"
    BY <1>2 DEF EquMetas
  <2>7. /\ y \in MpRecs /\ y.objequ = q.mdl.mps[m].objequ
        /\ y.vars = q.mdl.mps[m].vars /\ y.equs = q.mdl.mps[m].equs
        /\ y.alive = q.mdl.mps[m].alive /\ y.sense = q.mdl.mps[m].sense
        /\ y.objvar = q.mdl.mps[m].objvar
        /\ y.num_cons <= q.mdl.mps[m].num_cons + 1 /\ y.num_zeros <= q.mdl.mps[m].num_zeros + 1
    BY <1>2 DEF MpRecs
  <2> HIDE DEF x, y, u
  <2>8. Marks(q.mdl.equs[e], x)
    BY <1>2, <2>3, <2>6, Owners DEF Marks
  <2>9. Step(q.mdl, t, m, X, 0)
    BY <1>2, <2>3, <2>6, <2>8, SamePlace, Zenon
  <2>10. t \in Mdls /\ t.mps = q.mdl.mps
    BY <1>2, <2>6, WithEquFields, WithTypes
  <2> HIDE DEF t
  <2>11. Relists(t, m, y, X, 1)
    BY <2>7, <2>10 DEF Relists
  <2>12. Step(t, u, m, X, 1)
    BY <2>7, <2>9, <2>11, ListStep DEF Step, u
  <2>13. Step(s, t, m, X, 0)
    BY <1>1, <2>9, Chain
  <2>14. Step(s, u, m, X, 1)
    BY <2>12, <2>13, Chain
  <2>15. u.mps[m] = y
    BY <2>7, <2>10, WithMpFields DEF u
  <2> QED
    BY <1>1, <1>4, <2>1, <2>5, <2>14, <2>15 DEF ConstraintListed
<1> QED
  BY <1>1, <1>3, <1>4

\* mp_addequ: what it takes has a role, hence it was an objective.
LEMMA AddEquStep ==
  ASSUME NEW s, Sound(s), NEW m \in Mps, NEW e \in Equs, s.equs[e].active, NEW X,
         NEW r, r = mp_addequ(s, m, e)
  PROVE  /\ Step(s, r.mdl, m, X, 0)
         /\ r.ok => /\ r.mdl.equs[e].role = "objective"
                    /\ r.mdl.mps[m] = [s.mps[m] EXCEPT !.equs = @ \cup {e}]
<1> DEFINE q == mp_addequchk(s, m, e)
<1>1. /\ Step(s, q.mdl, m, X, 0) /\ q.ok \in BOOLEAN
      /\ q.ok => /\ s.equs[e].mp = NA /\ q.mdl.equs[e] = [s.equs[e] EXCEPT !.mp = m]
                 /\ q.mdl.mps[m] = [s.mps[m] EXCEPT !.equs = @ \cup {e}]
  BY AddEquChk DEF EquListed
<1>2. s.equs[e] \in EquMetas
  BY Owners, Records
<1>3. q.ok => q.mdl.equs[e].role = s.equs[e].role
  BY <1>1, <1>2 DEF EquMetas
<1>4. r.mdl = q.mdl /\ (r.ok => q.ok /\ q.mdl.equs[e].role # "undefined")
  BY DEF mp_addequ, Then, OK, Error
<1> HIDE DEF q
<1> QED
  BY <1>1, <1>3, <1>4, Owners

\* rctr_setequvarperp changes no MP.
LEMMA SetPerpStep ==
  ASSUME NEW s, Sound(s), NEW v \in Vars, NEW e \in Equs \cup {NA},
         e # NA => s.equs[e].active /\ s.equs[e].mp # NA,
         NEW m, NEW X, NEW r, r = rctr_setequvarperp(s, e, v)
  PROVE  Step(s, r.mdl, m, X, 0) /\ r.mdl.mps = s.mps
<1> DEFINE x == [s.vars[v] EXCEPT !.role = "primal", !.dual = e]
           t == WithVar(s, v, x)
<1>1. s \in Mdls /\ s.vars[v] \in VarMetas
  BY Owners, Records
<1>2. x \in VarMetas /\ x.mp = s.vars[v].mp
  BY <1>1, Zenon DEF VarMetas
<1>3. t = [s EXCEPT !.vars[v].role = "primal", !.vars[v].dual = e]
  BY <1>1, Zenon DEF WithVar, Mdls
<1>4. Step(s, t, m, X, 0)
  BY <1>2, SameOwner, Zenon
<1>5. t \in Mdls /\ t.vars[v] = x /\ t.equs = s.equs /\ t.mps = s.mps /\ Sound(t)
  BY <1>1, <1>2, <1>4, WithVarFields, WithTypes DEF Step
<1> HIDE DEF t
<1>6. CASE e = NA
  <2> DEFINE y == [x EXCEPT !.ppty = PerpZero]
  <2>1. r.mdl = WithVar(t, v, y)
    BY <1>3, <1>5, <1>6, Zenon DEF rctr_setequvarperp, OK, WithVar, Mdls
  <2>2. y \in VarMetas /\ y.mp = x.mp
    BY <1>2, Zenon DEF VarMetas, PerpZero
  <2> HIDE DEF x, y
  <2>3. Step(t, WithVar(t, v, y), m, X, 0) /\ WithVar(t, v, y).mps = t.mps
    BY <1>5, <2>2, SameOwner, WithVarFields
  <2> QED
    BY <1>4, <1>5, <2>1, <2>3, Chain
<1>7. CASE e # NA /\ t.equs[e].role # "undefined"
  <2>1. r.mdl = t
    BY <1>3, <1>7 DEF rctr_setequvarperp, Error
  <2> QED
    BY <1>4, <1>5, <2>1
<1>8. CASE e # NA /\ t.equs[e].role = "undefined"
  <2> DEFINE y == [x EXCEPT !.ppty = PerpVi]
             z == [t.equs[e] EXCEPT !.role = "vifunction", !.dual = v]
             u == WithEqu(t, e, z)
  <2>1. e \in Equs /\ t.equs[e] \in EquMetas /\ t.equs[e].active /\ t.equs[e].mp # NA
    BY <1>5, <1>8, Records
  <2>2. r.mdl = WithVar(u, v, y)
    <3>1. r.mdl = [t EXCEPT !.equs[e].role = "vifunction", !.equs[e].dual = v,
                            !.vars[v].ppty = PerpVi]
      BY <1>3, <1>8 DEF rctr_setequvarperp, OK
    <3>2. u = [t EXCEPT !.equs[e].role = "vifunction", !.equs[e].dual = v]
      BY <1>5, <2>1, Zenon DEF WithEqu, Mdls
    <3>3. u \in Mdls /\ u.vars = t.vars
      <4>1. z \in EquMetas
        BY <2>1, Zenon DEF EquMetas
      <4> QED
        BY <1>5, <2>1, <4>1, WithEquFields, WithTypes
    <3>4. r.mdl = [u EXCEPT !.vars[v].ppty = PerpVi]
      BY <3>1, <3>2, Zenon
    <3> HIDE DEF u
    <3>5. [u EXCEPT !.vars[v].ppty = PerpVi] = WithVar(u, v, y)
      BY <1>5, <3>3, Zenon DEF WithVar, Mdls
    <3> QED
      BY <3>4, <3>5
  <2>3. y \in VarMetas /\ y.mp = x.mp
    BY <1>2, Zenon DEF VarMetas, PerpVi
  <2>4. /\ z \in EquMetas /\ z.mp = t.equs[e].mp /\ z.active = t.equs[e].active
        /\ z.object = t.equs[e].object
    BY <2>1, Zenon DEF EquMetas
  <2> HIDE DEF x, y, z
  <2>5. Marks(t.equs[e], z)
    BY <1>5, <1>8, <2>1, <2>4, Owners DEF Marks
  <2>6. Step(t, u, m, X, 0)
    BY <1>5, <2>1, <2>4, <2>5, SamePlace, Zenon
  <2>7. u \in Mdls /\ u.mps = t.mps /\ u.vars = t.vars /\ Sound(u)
    BY <1>5, <2>1, <2>4, <2>6, WithEquFields, WithTypes DEF Step
  <2> HIDE DEF u
  <2>8. Step(u, WithVar(u, v, y), m, X, 0) /\ WithVar(u, v, y).mps = u.mps
    BY <1>5, <2>3, <2>7, SameOwner, WithVarFields
  <2>9. Step(s, u, m, X, 0)
    BY <1>4, <2>6, Chain
  <2>10. Step(s, WithVar(u, v, y), m, X, 0)
    BY <2>8, <2>9, Chain
  <2> QED
    BY <1>5, <2>2, <2>7, <2>8, <2>10
<1> QED
  BY <1>6, <1>7, <1>8

\* mp_addvipair: a call that succeeds lists one variable, and one equation or a zero function.
PairListed(s, t, m, v, e) ==
    /\ s.vars[v].mp = NA
    /\ e # NA => s.equs[e].mp = NA
    /\ t.mps[m] = IF e = NA THEN [s.mps[m] EXCEPT !.vars = @ \cup {v}, !.num_zeros = @ + 1]
                  ELSE [s.mps[m] EXCEPT !.vars = @ \cup {v}, !.equs = @ \cup {e}]

\* With the zero function.
LEMMA AddZeroStep ==
  ASSUME NEW s, Sound(s), NEW m \in Mps, NEW v \in Vars, NEW X,
         NEW r, r = mp_addvipair(s, m, NA, v)
  PROVE  Step(s, r.mdl, m, X, 1) /\ (r.ok => PairListed(s, r.mdl, m, v, NA))
<1> DEFINE q == mp_addvarchk(s, m, v)
           t == q.mdl
           y == [t.mps[m] EXCEPT !.num_zeros = @ + 1]
           u == WithMp(t, m, y)
           p == rctr_setequvarperp(u, NA, v)
<1>1. /\ Step(s, t, m, X, 0) /\ q.ok \in BOOLEAN
      /\ q.ok => s.vars[v].mp = NA /\ t.mps[m] = [s.mps[m] EXCEPT !.vars = @ \cup {v}]
  BY AddVarChk
<1>2. Sound(t) /\ t \in Mdls /\ t.mps[m] \in MpRecs
  BY <1>1, Owners, Records DEF Step
<1>3. CASE ~ q.ok
  <2>1. r = q
    BY <1>3 DEF mp_addvipair, Then
  <2> QED
    BY <1>1, <1>3, <2>1, Wider
<1>4. CASE q.ok
  <2>1. u = [t EXCEPT !.mps[m].num_zeros = @ + 1]
    BY <1>2 DEF WithMp, Mdls
  <2>2. r = p
    BY <1>4, <2>1 DEF mp_addvipair, Then, OK
  <2> HIDE DEF q
  <2>3. /\ y \in MpRecs /\ y.objequ = t.mps[m].objequ
        /\ y.vars = t.mps[m].vars /\ y.equs = t.mps[m].equs
        /\ y.alive = t.mps[m].alive /\ y.sense = t.mps[m].sense
        /\ y.objvar = t.mps[m].objvar
        /\ y.num_cons <= t.mps[m].num_cons + 1 /\ y.num_zeros <= t.mps[m].num_zeros + 1
    BY <1>2 DEF MpRecs
  <2>4. s.mps[m] \in MpRecs
    BY Owners, Records
  <2>5. y = [s.mps[m] EXCEPT !.vars = @ \cup {v}, !.num_zeros = @ + 1]
    BY <1>1, <1>4, <2>4, Zenon DEF MpRecs
  <2> HIDE DEF t, y
  <2>6. Relists(t, m, y, X, 1)
    BY <2>3 DEF Relists
  <2>7. Step(t, u, m, X, 1) /\ u.mps[m] = y
    BY <1>2, <2>3, <2>6, ListStep, WithMpFields
  <2>8. Step(s, u, m, X, 1) /\ Sound(u)
    BY <1>1, <2>7, Chain DEF Step
  <2> HIDE DEF u
  <2>9. Step(u, p.mdl, m, X, 0) /\ p.mdl.mps = u.mps
    BY <2>8, SetPerpStep
  <2>10. Step(s, p.mdl, m, X, 1)
    BY <2>8, <2>9, Chain
  <2> QED
    BY <1>1, <1>4, <2>2, <2>5, <2>7, <2>9, <2>10 DEF PairListed, t
<1> QED
  BY <1>1, <1>3, <1>4

\* With an equation.
LEMMA AddPairStep ==
  ASSUME NEW s, Sound(s), NEW m \in Mps, NEW v \in Vars, NEW e \in Equs, s.equs[e].active, NEW X,
         NEW r, r = mp_addvipair(s, m, e, v)
  PROVE  Step(s, r.mdl, m, X, 1) /\ (r.ok => PairListed(s, r.mdl, m, v, e))
<1> DEFINE q == mp_addvarchk(s, m, v)
           t == q.mdl
           g == mp_addequchk(t, m, e)
           x == [g.mdl.equs[e] EXCEPT !.object = "mapping"]
           u == WithEqu(g.mdl, e, x)
           p == rctr_setequvarperp(u, e, v)
<1>1. /\ Step(s, t, m, X, 0) /\ q.ok \in BOOLEAN
      /\ q.ok => /\ s.vars[v].mp = NA /\ t.mps[m] = [s.mps[m] EXCEPT !.vars = @ \cup {v}]
                 /\ t.equs = s.equs
  BY AddVarChk
<1>2. Sound(t) /\ e # NA
  BY <1>1, Owners DEF Step
<1>3. CASE ~ q.ok
  <2>1. r = q
    BY <1>3 DEF mp_addvipair, Then
  <2> QED
    BY <1>1, <1>3, <2>1, Wider
<1>4. CASE q.ok
  <2>1. /\ Step(t, g.mdl, m, X, 0) /\ g.ok \in BOOLEAN
        /\ g.ok => /\ t.equs[e].mp = NA /\ g.mdl.equs[e] = [t.equs[e] EXCEPT !.mp = m]
                   /\ g.mdl.mps[m] = [t.mps[m] EXCEPT !.equs = @ \cup {e}]
    BY <1>1, <1>2, <1>4, AddEquChk DEF EquListed
  <2>2. Step(s, g.mdl, m, X, 0)
    BY <1>1, <2>1, Chain
  <2>3. /\ Sound(g.mdl) /\ g.mdl \in Mdls /\ g.mdl.equs[e] \in EquMetas
        /\ t.equs[e] \in EquMetas /\ s.mps[m] \in MpRecs
    BY <1>2, <2>2, Owners, Records DEF Step
  <2>4. CASE ~ g.ok
    <3>1. r = g
      BY <1>2, <1>4, <2>4 DEF mp_addvipair, Then
    <3> QED
      BY <2>2, <2>4, <3>1, Wider
  <2>5. CASE g.ok
    <3>1. u = [g.mdl EXCEPT !.equs[e].object = "mapping"]
      BY <2>3 DEF WithEqu, Mdls
    <3>2. r = p
      BY <1>2, <1>4, <2>5, <3>1 DEF mp_addvipair, Then, OK
    <3>3. g.mdl.mps[m] = [s.mps[m] EXCEPT !.vars = @ \cup {v}, !.equs = @ \cup {e}]
      BY <1>1, <1>4, <2>1, <2>3, <2>5, Zenon DEF MpRecs
    <3>4. g.mdl.equs[e].mp = m /\ g.mdl.equs[e].active
      BY <1>1, <1>4, <2>1, <2>3, <2>5 DEF EquMetas
    <3>5. s.equs[e].mp = NA
      BY <1>1, <1>4, <2>1, <2>5
    <3> HIDE DEF g, t
    <3>6. /\ x \in EquMetas /\ x.mp = g.mdl.equs[e].mp /\ x.active = g.mdl.equs[e].active
          /\ x.object = "mapping" /\ x.role = g.mdl.equs[e].role
      BY <2>3 DEF EquMetas, Objects
    <3> HIDE DEF x
    <3>7. Marks(g.mdl.equs[e], x)
      BY <2>3, <3>4, <3>6, Owners DEF Marks
    <3>8. Step(g.mdl, u, m, X, 0)
      BY <2>3, <3>4, <3>6, <3>7, SamePlace, Zenon
    <3>9. Step(s, u, m, X, 0) /\ Sound(u) /\ u.mps = g.mdl.mps /\ u.equs[e] = x
      BY <2>2, <2>3, <3>6, <3>8, Chain, WithEquFields DEF Step
    <3> HIDE DEF u
    <3>10. Step(u, p.mdl, m, X, 0) /\ p.mdl.mps = u.mps
      BY <3>4, <3>6, <3>9, Owners, SetPerpStep, Zenon
    <3>11. Step(s, p.mdl, m, X, 0)
      BY <3>9, <3>10, Chain
    <3>12. Step(s, p.mdl, m, X, 1)
      BY <3>11, Wider
    <3> QED
      BY <1>1, <1>2, <1>4, <3>2, <3>3, <3>5, <3>9, <3>10, <3>12 DEF PairListed
  <2> QED
    BY <2>1, <2>4, <2>5
<1> QED
  BY <1>1, <1>3, <1>4

-----------------------------------------------------------------------------
(***************************************************************************)
(* The objective.                                                          *)
(***************************************************************************)

\* mp_setobjequ_internal: the former objective equation may leave the list.
LEMMA SetObjEquInternalStep ==
  ASSUME NEW s, Sound(s), NEW m \in Mps, NEW e \in Equs, s.equs[e].active,
         NEW X, s.mps[m].objequ \in X, NEW r, r = mp_setobjequ_internal(s, m, e)
  PROVE  /\ Step(s, r.mdl, m, X, 0) /\ r.ok \in BOOLEAN /\ (r.ok => IsOpt(s, m))
         /\ r.mdl.equs[e].mp = s.equs[e].mp /\ r.mdl.equs[e].active
         /\ r.mdl.mps[m].objvar = s.mps[m].objvar
<1> DEFINE x == [s.equs[e] EXCEPT !.role = "objective"]
           y == [s.mps[m] EXCEPT !.equs = @ \ {s.mps[m].objequ}, !.objequ = e]
           ov == s.mps[m].objvar
           t == WithEqu(s, e, x)
           u == WithMp(t, m, y)
           z == [s.vars[ov] EXCEPT !.ppty = @ \cup {Explicit}]
<1>1. s \in Mdls /\ s.equs[e] \in EquMetas /\ s.mps[m] \in MpRecs
  BY Records, Owners
<1>2. CASE ~ IsOpt(s, m)
  <2>1. r.mdl = s /\ r.ok = FALSE
    BY <1>2 DEF mp_setobjequ_internal, Error
  <2> QED
    BY <1>2, <2>1, NoStep, Zenon
<1>3. CASE IsOpt(s, m)
  <2>1. /\ x \in EquMetas /\ x.mp = s.equs[e].mp /\ x.active = s.equs[e].active
        /\ x.object = s.equs[e].object /\ x.role = "objective"
    BY <1>1, Zenon DEF EquMetas
  <2>2. y \in MpRecs /\ y.objvar = s.mps[m].objvar
    BY <1>1, Zenon DEF MpRecs
  <2>0. /\ y.objequ = e
        /\ y.vars = s.mps[m].vars /\ y.equs = s.mps[m].equs \ {s.mps[m].objequ}
        /\ y.alive = s.mps[m].alive /\ y.sense = s.mps[m].sense
        /\ y.objvar = s.mps[m].objvar
        /\ y.num_cons <= s.mps[m].num_cons + 0 /\ y.num_zeros <= s.mps[m].num_zeros + 0
    BY <1>1 DEF MpRecs
  <2>3. u = [s EXCEPT !.mps[m].equs = @ \ {s.mps[m].objequ},
                      !.mps[m].objequ = e, !.equs[e].role = "objective"]
    BY <1>1, Zenon DEF WithEqu, WithMp, Mdls
  <2>4. Marks(s.equs[e], x)
    BY <2>1, Owners DEF Marks
  <2> HIDE DEF x, y
  <2>5. Step(s, t, m, X, 0)
    BY <2>1, <2>4, SamePlace, Zenon
  <2>6. /\ Sound(t) /\ t \in Mdls /\ t.mps = s.mps /\ t.vars = s.vars /\ t.equs[e] = x
    BY <1>1, <2>1, <2>5, WithEquFields, WithTypes DEF Step
  <2> HIDE DEF t
  <2>7. Names(t, y.objequ)
    BY <2>0, <2>1, <2>6, Owners DEF Names
  <2>8. Relists(t, m, y, X, 0)
    BY <2>0, <2>6, <2>7 DEF Relists
  <2>9. Step(t, u, m, X, 0)
    BY <2>2, <2>6, <2>8, ListStep
  <2>10. Step(s, u, m, X, 0) /\ Sound(u)
    BY <2>5, <2>9, Chain DEF Step
  <2>11. u \in Mdls /\ u.vars = s.vars /\ u.equs[e] = x /\ u.mps[m] = y
    BY <2>2, <2>6, WithMpFields, WithTypes
  <2> HIDE DEF u
  <2>12. CASE ov = NA
    <3>1. r.mdl = u /\ r.ok = TRUE
      BY <1>3, <2>3, <2>12 DEF mp_setobjequ_internal, OK
    <3> QED
      BY <1>3, <2>1, <2>2, <2>10, <2>11, <3>1, Zenon
  <2>13. CASE ov # NA
    <3>1. ov \in Vars
      BY <1>1, <2>13, Records
    <3>2. s.vars[ov] \in VarMetas
      BY <1>1, <3>1, Records
    <3>3. r.mdl = [u EXCEPT !.vars[ov].ppty = @ \cup {Explicit}] /\ r.ok = TRUE
      BY <1>3, <2>3, <2>13 DEF mp_setobjequ_internal, OK
    <3>4. z \in VarMetas /\ z.mp = s.vars[ov].mp
      BY <3>2 DEF VarMetas, Explicit
    <3> HIDE DEF ov
    <3>5. r.mdl = WithVar(u, ov, z)
      BY <2>11, <3>3 DEF WithVar, Mdls
    <3> HIDE DEF z
    <3>6. Step(u, WithVar(u, ov, z), m, X, 0)
      BY <2>10, <2>11, <3>1, <3>4, SameOwner
    <3>7. WithVar(u, ov, z).equs = u.equs /\ WithVar(u, ov, z).mps = u.mps
      BY <2>11, <3>1, WithVarFields
    <3>8. Step(s, r.mdl, m, X, 0)
      BY <2>10, <3>5, <3>6, Chain
    <3> QED
      BY <1>3, <2>1, <2>2, <2>11, <3>3, <3>5, <3>7, <3>8, ZenonT(40)
  <2> QED
    BY <2>12, <2>13
<1> QED
  BY <1>2, <1>3

\* mp_setobjequ fails in a VI and lists the equation when it succeeds.
LEMMA SetObjEquStep ==
  ASSUME NEW s, Sound(s), NEW m \in Mps, NEW e \in Equs, s.equs[e].active,
         NEW X, s.mps[m].objequ \in X, NEW r, r = mp_setobjequ(s, m, e)
  PROVE  /\ Step(s, r.mdl, m, X, 0)
         /\ r.ok => /\ IsOpt(s, m) /\ e \in r.mdl.mps[m].equs
                    /\ r.mdl.mps[m].objvar = s.mps[m].objvar
<1> DEFINE q == mp_setobjequ_internal(s, m, e)
           t == q.mdl
           g == mp_addequchk(t, m, e)
<1>1. /\ Step(s, t, m, X, 0) /\ q.ok \in BOOLEAN /\ (q.ok => IsOpt(s, m))
      /\ t.equs[e].active /\ t.mps[m].objvar = s.mps[m].objvar
  BY SetObjEquInternalStep
<1>2. r = IF q.ok THEN g ELSE q
  BY DEF mp_setobjequ, Then
<1>3. Sound(t) /\ t \in Mdls /\ t.mps[m] \in MpRecs
  BY <1>1, Owners, Records DEF Step
<1>4. q.mdl = t
  OBVIOUS
<1> HIDE DEF q, t
<1>5. Step(t, g.mdl, m, X, 0) /\ (g.ok => EquListed(t, g.mdl, m, e))
  BY <1>1, <1>3, AddEquChk
<1> HIDE DEF g
<1>6. Step(s, g.mdl, m, X, 0)
  BY <1>1, <1>5, Chain
<1>7. g.ok => e \in g.mdl.mps[m].equs /\ g.mdl.mps[m].objvar = t.mps[m].objvar
  BY <1>3, <1>5 DEF MpRecs, EquListed
<1> QED
  BY <1>1, <1>2, <1>4, <1>6, <1>7

\* mp_setobjvar_internal changes no list.
LEMMA SetObjVarInternalStep ==
  ASSUME NEW s, Sound(s), NEW m \in Mps, NEW v \in Vars, s.vars[v].mp = m, NEW X,
         NEW r, r = mp_setobjvar_internal(s, m, v)
  PROVE  Step(s, r.mdl, m, X, 0) /\ (r.ok => IsOpt(s, m))
<1> DEFINE z == [s.vars[v] EXCEPT !.role = "objective",
                     !.ppty = @ \cup {IF s.mps[m].sense = "min" THEN ObjMin ELSE ObjMax}]
           y == [s.mps[m] EXCEPT !.objvar = v]
           t == WithMp(s, m, y)
           u == WithVar(t, v, z)
<1>1. s \in Mdls /\ s.vars[v] \in VarMetas /\ s.mps[m] \in MpRecs
  BY Records, Owners
<1>2. CASE ~ IsOpt(s, m)
  <2>1. r.mdl = s /\ r.ok = FALSE
    BY <1>2 DEF mp_setobjvar_internal, Error
  <2> QED
    BY <1>2, <2>1, NoStep
<1>3. CASE IsOpt(s, m)
  <2>1. r.mdl = u /\ r.ok = TRUE
    BY <1>1, <1>3, Zenon DEF mp_setobjvar_internal, OK, WithVar, WithMp, Mdls
  <2>2. z \in VarMetas /\ z.mp = s.vars[v].mp
    BY <1>1, Zenon DEF VarMetas, ObjMin, ObjMax
  <2>3. /\ y \in MpRecs /\ y.objequ = s.mps[m].objequ
        /\ y.vars = s.mps[m].vars /\ y.equs = s.mps[m].equs
        /\ y.alive = s.mps[m].alive /\ y.sense = s.mps[m].sense
        /\ y.objvar = v
        /\ y.num_cons <= s.mps[m].num_cons + 0 /\ y.num_zeros <= s.mps[m].num_zeros + 0
    BY <1>1 DEF MpRecs
  <2> HIDE DEF y, z
  <2>4. Relists(s, m, y, X, 0)
    BY <2>3 DEF Relists
  <2>5. Step(s, t, m, X, 0)
    BY <2>3, <2>4, ListStep
  <2>6. Sound(t) /\ t.vars = s.vars
    BY <1>1, <2>3, <2>5, WithMpFields DEF Step
  <2> HIDE DEF t
  <2>7. Step(t, u, m, X, 0)
    BY <2>2, <2>6, SameOwner
  <2> QED
    BY <1>3, <2>1, <2>5, <2>7, Chain
<1> QED
  BY <1>2, <1>3

\* Taking an element of X off a list is a step.
LEMMA Unlist ==
  ASSUME NEW s, Sound(s), NEW m \in Mps, NEW v, NEW X, v \in X
  PROVE  /\ Step(s, WithMp(s, m, [s.mps[m] EXCEPT !.vars = @ \ {v}]), m, X, 0)
         /\ Step(s, WithMp(s, m, [s.mps[m] EXCEPT !.equs = @ \ {v}]), m, X, 0)
<1> DEFINE x == [s.mps[m] EXCEPT !.vars = @ \ {v}]
           y == [s.mps[m] EXCEPT !.equs = @ \ {v}]
<1>1. s.mps[m] \in MpRecs
  BY Records, Owners
<1>2. /\ x \in MpRecs /\ x.objequ = s.mps[m].objequ
      /\ x.vars = s.mps[m].vars \ {v} /\ x.equs = s.mps[m].equs
      /\ x.alive = s.mps[m].alive /\ x.sense = s.mps[m].sense
      /\ x.objvar = s.mps[m].objvar
      /\ x.num_cons <= s.mps[m].num_cons + 0 /\ x.num_zeros <= s.mps[m].num_zeros + 0
  BY <1>1 DEF MpRecs
<1>3. /\ y \in MpRecs /\ y.objequ = s.mps[m].objequ
      /\ y.vars = s.mps[m].vars /\ y.equs = s.mps[m].equs \ {v}
      /\ y.alive = s.mps[m].alive /\ y.sense = s.mps[m].sense
      /\ y.objvar = s.mps[m].objvar
      /\ y.num_cons <= s.mps[m].num_cons + 0 /\ y.num_zeros <= s.mps[m].num_zeros + 0
  BY <1>1 DEF MpRecs
<1> HIDE DEF x, y
<1>4. Relists(s, m, x, X, 0) /\ Relists(s, m, y, X, 0)
  BY <1>2, <1>3 DEF Relists
<1>5. Step(s, WithMp(s, m, x), m, X, 0) /\ Step(s, WithMp(s, m, y), m, X, 0)
  BY <1>2, <1>3, <1>4, ListStep
<1> QED
  BY <1>5 DEF x, y

\* mp_setobjvar with an invalid index: the objective variable may leave the list.
LEMMA ClearObjVarStep ==
  ASSUME NEW s, Sound(s), NEW m \in Mps, NEW X, s.mps[m].objvar \in X,
         NEW r, r = ClearObjVar(s, m)
  PROVE  /\ Step(s, r.mdl, m, X, 0) /\ r.ok \in BOOLEAN /\ (r.ok => IsOpt(s, m))
         /\ r.mdl.equs = s.equs /\ r.mdl.mps[m].objequ = s.mps[m].objequ
<1> DEFINE v == s.mps[m].objvar
           y == [s.mps[m] EXCEPT !.objvar = NA]
           t == WithMp(s, m, y)
           w == [y EXCEPT !.vars = @ \ {v}]
           u == WithMp(t, m, w)
           z == [s.vars[v] EXCEPT !.role = "primal", !.ppty = {}]
<1>1. s \in Mdls /\ s.mps[m] \in MpRecs
  BY Records, Owners
<1>2. CASE ~ IsOpt(s, m)
  <2>1. r.mdl = s /\ r.ok = FALSE
    BY <1>2 DEF ClearObjVar, Error
  <2> QED
    BY <1>2, <2>1, NoStep, Zenon
<1>3. CASE IsOpt(s, m)
  <2>1. /\ y \in MpRecs /\ y.objequ = s.mps[m].objequ
        /\ y.vars = s.mps[m].vars /\ y.equs = s.mps[m].equs
        /\ y.alive = s.mps[m].alive /\ y.sense = s.mps[m].sense
        /\ y.objvar = NA
        /\ y.num_cons <= s.mps[m].num_cons + 0 /\ y.num_zeros <= s.mps[m].num_zeros + 0
    BY <1>1 DEF MpRecs
  <2>2. t = [s EXCEPT !.mps[m].objvar = NA]
    BY <1>1 DEF WithMp, Mdls
  <2>3. /\ w \in MpRecs /\ w.objequ = y.objequ
    BY <2>1, Zenon DEF MpRecs
  <2> HIDE DEF y
  <2>4. Relists(s, m, y, X, 0)
    BY <2>1 DEF Relists
  <2>5. Step(s, t, m, X, 0) /\ t \in Mdls
    BY <1>1, <2>1, <2>4, ListStep, WithTypes
  <2>6. t.mps[m] = y /\ t.equs = s.equs /\ t.vars = s.vars /\ Sound(t)
    BY <1>1, <2>1, <2>5, WithMpFields DEF Step
  <2> HIDE DEF t
  <2>7. u = [t EXCEPT !.mps[m].vars = @ \ {v}]
    BY <2>5, <2>6 DEF WithMp, Mdls
  <2>8. w = [t.mps[m] EXCEPT !.vars = @ \ {v}]
    BY <2>6
  <2> HIDE DEF w
  <2>9. Step(t, u, m, X, 0)
    BY <2>6, <2>8, Unlist, Zenon
  <2>10. Step(s, u, m, X, 0) /\ Sound(u) /\ u \in Mdls
    BY <2>5, <2>9, Chain DEF Step, Sound
  <2>11. u.mps[m] = w /\ u.equs = s.equs /\ u.vars = s.vars
    BY <2>3, <2>5, <2>6, WithMpFields
  <2> HIDE DEF u
  <2>12. \/ r = OK(t) \/ r = Error(t) \/ r = Error(u)
         \/ r = OK([u EXCEPT !.vars[v].role = "primal", !.vars[v].ppty = {}]) /\ v # NA
    BY <1>3, <2>2, <2>7 DEF ClearObjVar
  <2>13. CASE r = OK(t) \/ r = Error(t)
    <3>1. r = OK(t) => r.mdl = t /\ r.ok \in BOOLEAN
      BY DEF OK
    <3>2. r = Error(t) => r.mdl = t /\ r.ok \in BOOLEAN
      BY DEF Error
    <3> QED
      BY <1>3, <2>1, <2>5, <2>6, <2>13, <3>1, <3>2
  <2>14. CASE r = Error(u)
    <3>1. r.mdl = u /\ r.ok \in BOOLEAN
      BY <2>14 DEF Error
    <3> QED
      BY <1>3, <2>1, <2>3, <2>10, <2>11, <3>1
  <2>15. CASE r = OK([u EXCEPT !.vars[v].role = "primal", !.vars[v].ppty = {}]) /\ v # NA
    <3>1. r.mdl = [u EXCEPT !.vars[v].role = "primal", !.vars[v].ppty = {}] /\ r.ok = TRUE
      BY <2>15 DEF OK
    <3>2. v \in Vars
      BY <1>1, <2>15, Records
    <3>3. s.vars[v] \in VarMetas
      BY <1>1, <3>2, Records
    <3>4. z \in VarMetas /\ z.mp = s.vars[v].mp
      BY <3>3, Zenon DEF VarMetas
    <3> HIDE DEF v
    <3>5. r.mdl = WithVar(u, v, z)
      BY <2>10, <2>11, <3>1, <3>2, Zenon DEF WithVar, Mdls
    <3> HIDE DEF z
    <3>6. Step(u, r.mdl, m, X, 0)
      BY <2>10, <2>11, <3>2, <3>4, <3>5, SameOwner
    <3>7. r.mdl.equs = u.equs /\ r.mdl.mps = u.mps
      BY <2>10, <3>2, <3>5, WithVarFields
    <3>8. Step(s, r.mdl, m, X, 0)
      BY <2>10, <3>6, Chain
    <3> QED
      BY <1>3, <2>1, <2>3, <2>11, <3>1, <3>7, <3>8, Zenon
  <2> QED
    BY <2>12, <2>13, <2>14, <2>15
<1> QED
  BY <1>2, <1>3

\* mp_setobjvar.
LEMMA SetObjVarStep ==
  ASSUME NEW s, Sound(s), NEW m \in Mps, NEW v \in Vars \cup {NA},
         NEW X, v = NA => s.mps[m].objvar \in X,
         NEW r, r = mp_setobjvar(s, m, v)
  PROVE  Step(s, r.mdl, m, X, 0) /\ (r.ok => IsOpt(s, m))
<1>1. CASE v = NA
  <2>1. r = ClearObjVar(s, m)
    BY <1>1 DEF mp_setobjvar
  <2> QED
    BY <1>1, <2>1, ClearObjVarStep
<1>2. CASE v # NA /\ s.vars[v].mp \notin {NA, m}
  <2>1. r.mdl = s /\ r.ok = FALSE
    BY <1>2 DEF mp_setobjvar, Error
  <2> QED
    BY <2>1, NoStep
<1>3. CASE v # NA /\ s.vars[v].mp \in {NA, m}
  <2> DEFINE q == IF s.vars[v].mp = NA THEN mp_addvarchk(s, m, v) ELSE OK(s)
             g == mp_setobjvar_internal(q.mdl, m, v)
  <2>1. v \in Vars
    BY <1>3
  <2>2. Step(s, q.mdl, m, X, 0) /\ q.ok \in BOOLEAN /\ (q.ok => q.mdl.vars[v].mp = m)
    <3>1. CASE s.vars[v].mp = NA
      <4>1. q = mp_addvarchk(s, m, v)
        BY <3>1
      <4> DEFINE p == mp_addvarchk(s, m, v)
      <4>2. /\ Step(s, p.mdl, m, X, 0) /\ p.ok \in BOOLEAN
            /\ p.ok => /\ s.vars[v].mp = NA /\ p.mdl.vars[v].mp = m /\ p.mdl.equs = s.equs
                       /\ p.mdl.mps[m] = [s.mps[m] EXCEPT !.vars = @ \cup {v}]
        BY <2>1, AddVarChk
      <4> HIDE DEF p
      <4> QED
        BY <4>1, <4>2 DEF p
    <3>2. CASE s.vars[v].mp # NA
      <4>1. q.mdl = s /\ q.ok = TRUE
        BY <3>2 DEF OK
      <4> QED
        BY <1>3, <3>2, <4>1, NoStep, Zenon
    <3> QED
      BY <3>1, <3>2
  <2>3. r = IF q.ok THEN g ELSE q
    BY <1>3 DEF mp_setobjvar, Then
  <2> HIDE DEF q
  <2>4. Sound(q.mdl) /\ q.mdl.mps[m].sense = s.mps[m].sense
    BY <2>2 DEF Step, Keeps
  <2>5. q.ok => Step(q.mdl, g.mdl, m, X, 0) /\ (g.ok => IsOpt(q.mdl, m))
    BY <2>1, <2>2, <2>4, SetObjVarInternalStep
  <2> HIDE DEF g
  <2>6. q.ok => Step(s, g.mdl, m, X, 0)
    BY <2>2, <2>5, Chain
  <2>7. CASE q.ok
    BY <2>3, <2>4, <2>5, <2>6, <2>7 DEF IsOpt
  <2>8. CASE ~ q.ok
    BY <2>2, <2>3, <2>8
  <2> QED
    BY <2>7, <2>8
<1> QED
  BY <1>1, <1>2, <1>3

\* mp_rm_var: the variable may leave the list and is nobody's when it succeeds.
LEMMA RmVarStep ==
  ASSUME NEW s, Sound(s), NEW m \in Mps, NEW v \in Vars, v # s.mps[m].objvar,
         NEW r, r = mp_rm_var(s, m, v)
  PROVE  Step(s, r.mdl, m, {v}, 0) /\ (r.ok => r.mdl.vars[v].mp = NA)
<1> DEFINE x == [s.vars[v] EXCEPT !.mp = NA]
           y == [s.mps[m] EXCEPT !.vars = @ \ {v}]
           t == WithMp(s, m, y)
<1>1. s \in Mdls /\ s.vars[v] \in VarMetas /\ s.mps[m] \in MpRecs
  BY Records, Owners
<1>2. CASE s.vars[v].mp # m
  <2>1. r.mdl = s /\ r.ok = FALSE
    BY <1>2 DEF mp_rm_var, Error
  <2> QED
    BY <2>1, NoStep
<1>3. CASE s.vars[v].mp = m
  <2>1. x \in VarMetas /\ x.mp = NA
    BY <1>1 DEF VarMetas
  <2>2. y \in MpRecs /\ y.vars = s.mps[m].vars \ {v} /\ y.objvar = s.mps[m].objvar
    BY <1>1 DEF MpRecs
  <2>3. Step(s, t, m, {v}, 0)
    BY Unlist, Zenon
  <2>4. /\ Sound(t) /\ t \in Mdls /\ t.vars = s.vars
        /\ \A k \in Mps : t.mps[k] = IF k = m THEN y ELSE s.mps[k]
    BY <1>1, <2>2, <2>3, WithMpFields DEF Step, Sound
  <2>5. CASE v \notin s.mps[m].vars
    <3>1. r.mdl = WithVar(s, v, x) /\ r.ok = FALSE
      BY <1>1, <1>3, <2>5 DEF mp_rm_var, Error, WithVar, Mdls
    <3>2. \A k \in Mps : ~ (s.mps[k].alive /\ (v \in s.mps[k].vars \/ v = s.mps[k].objvar))
      BY <1>3, <2>5, Owners
    <3> HIDE DEF x
    <3>3. Step(s, WithVar(s, v, x), m, {v}, 0)
      BY <2>1, <3>2, VarStep
    <3> QED
      BY <3>1, <3>3
  <2>6. CASE v \in s.mps[m].vars
    <3>1. r.mdl = WithVar(t, v, x)
      BY <1>1, <1>3, <2>6, Zenon DEF mp_rm_var, OK, WithVar, WithMp, Mdls
    <3> HIDE DEF x, y, t
    <3>2. \A k \in Mps : ~ (t.mps[k].alive /\ (v \in t.mps[k].vars \/ v = t.mps[k].objvar))
      BY <1>3, <2>2, <2>4, Owners
    <3>3. Step(t, WithVar(t, v, x), m, {v}, 0)
      BY <2>1, <2>4, <3>2, VarStep
    <3>4. WithVar(t, v, x).vars[v] = x
      BY <2>4, WithVarFields
    <3> QED
      BY <2>1, <2>3, <3>1, <3>3, <3>4, Chain
  <2> QED
    BY <2>5, <2>6
<1> QED
  BY <1>2, <1>3

-----------------------------------------------------------------------------
(***************************************************************************)
(* Finalization.                                                           *)
(***************************************************************************)

\* mp_finalize ends with this: the MP is finalized.
Finalized(s, m) == WithMp(s, m, [s.mps[m] EXCEPT !.finalized = TRUE])

\* What changes in an MP that is finalized does not concern its lists.
LEMMA FinalizedStep ==
  ASSUME NEW s, Sound(s), NEW m \in Mps, NEW X
  PROVE  /\ Step(s, Finalized(s, m), m, X, 0)
         /\ [s EXCEPT !.mps[m].finalized = TRUE] = Finalized(s, m)
         /\ Finalized(s, m).mps[m] = [s.mps[m] EXCEPT !.finalized = TRUE]
<1> DEFINE y == [s.mps[m] EXCEPT !.finalized = TRUE]
<1>1. s \in Mdls /\ s.mps[m] \in MpRecs
  BY Records, Owners
<1>2. [s EXCEPT !.mps[m].finalized = TRUE] = Finalized(s, m)
  BY <1>1 DEF Finalized, WithMp, Mdls
<1>0. y \in MpRecs
  BY <1>1, Zenon DEF MpRecs
<1>3. /\ y.objequ = s.mps[m].objequ
      /\ y.vars = s.mps[m].vars /\ y.equs = s.mps[m].equs
      /\ y.alive = s.mps[m].alive /\ y.sense = s.mps[m].sense
      /\ y.objvar = s.mps[m].objvar
      /\ y.num_cons <= s.mps[m].num_cons + 0 /\ y.num_zeros <= s.mps[m].num_zeros + 0
  BY <1>1 DEF MpRecs
<1> HIDE DEF y
<1>4. Relists(s, m, y, X, 0)
  BY <1>3 DEF Relists
<1>5. Step(s, WithMp(s, m, y), m, X, 0) /\ WithMp(s, m, y).mps[m] = y
  BY <1>0, <1>1, <1>3, <1>4, ListStep, WithMpFields
<1> QED
  BY <1>2, <1>5 DEF Finalized, y

\* mp_identify_objequ: the former objective equation may leave the list.
LEMMA IdentifyStep ==
  ASSUME NEW s, Sound(s), NEW m \in Mps, s.mps[m].objvar \in Vars,
         s.column[s.mps[m].objvar] # <<>>,
         NEW X, s.mps[m].objequ \in X, NEW r, r = mp_identify_objequ(s, m)
  PROVE  Step(s, r.mdl, m, X, 0)
<1> DEFINE col == s.column[s.mps[m].objvar]
           good(i) == s.equs[col[i].ei].mp = m /\ ~ col[i].nl
           found == good(1) /\ (Len(col) = 1 \/ ~ good(2))
           last == IF good(1) /\ Len(col) > 1 THEN 2 ELSE 1
           e == col[1].ei
           x == [s.equs[e] EXCEPT !.object = "definedmapping", !.cone = "none"]
           t == WithEqu(s, e, x)
           q == mp_setobjequ_internal(t, m, col[last].ei)
<1>1. s \in Mdls
  BY Owners
<1>2. col \in Seq(Entries) /\ Len(col) \in Nat /\ Len(col) # 0
  BY <1>1, Records
<1>3. 1 \in DOMAIN col /\ last \in DOMAIN col
  <2> HIDE DEF col, good
  <2> QED
    BY <1>2
<1>4. \A i \in DOMAIN col : col[i].ei \in Equs /\ s.equs[col[i].ei].active
  BY <1>1, ColumnEntries, Zenon DEF Sound, ColumnsActive
<1>5. e \in Equs /\ s.equs[e] \in EquMetas /\ s.equs[e].active
  BY <1>1, <1>3, <1>4, Records, Zenon
<1>6. e # NA
  BY <1>5, Owners, Zenon
<1>7. r = q \/ r = OK(s)
  <2>1. t = [s EXCEPT !.equs[e].object = "definedmapping", !.equs[e].cone = "none"]
    BY <1>1, Zenon DEF WithEqu, Mdls
  <2> HIDE DEF t
  <2>2. CASE ~ found
    BY <2>2, Zenon DEF mp_identify_objequ
  <2>3. CASE found
    BY <1>6, <2>1, <2>3, Zenon DEF mp_identify_objequ
  <2> QED
    BY <2>2, <2>3, Zenon
<1>8. CASE r = OK(s)
  <2>1. r.mdl = s
    BY <1>8 DEF OK
  <2> QED
    BY <2>1, NoStep
<1>9. CASE r = q
  <2>1. /\ x \in EquMetas /\ x.mp = s.equs[e].mp /\ x.active = s.equs[e].active
        /\ x.object = "definedmapping" /\ x.role = s.equs[e].role
    BY <1>5, Zenon DEF EquMetas, Objects, Cones
  <2>2. col[last].ei \in Equs /\ s.equs[col[last].ei].active
    BY <1>3, <1>4, Zenon
  <2> DEFINE f == col[last].ei
  <2> HIDE DEF e, x, f
  <2>3. Marks(s.equs[e], x)
    BY <1>5, <2>1, Owners DEF Marks
  <2>4. Step(s, t, m, X, 0)
    BY <1>5, <2>1, <2>3, SamePlace, Zenon
  <2>5. Sound(t) /\ t.mps = s.mps /\ (\A k \in Equs : t.equs[k] = IF k = e THEN x ELSE s.equs[k])
    BY <1>1, <1>5, <2>1, <2>4, WithEquFields DEF Step
  <2>6. f \in Equs /\ t.equs[f].active
    BY <1>5, <2>1, <2>2, <2>5, Zenon DEF f
  <2> HIDE DEF t, q
  <2>7. q = mp_setobjequ_internal(t, m, f)
    BY DEF q, f
  <2>8. Step(t, q.mdl, m, X, 0)
    BY <2>5, <2>6, <2>7, SetObjEquInternalStep
  <2> QED
    BY <1>9, <2>4, <2>8, Chain
<1> QED
  BY <1>7, <1>8, <1>9, Zenon

\* mp_finalize: the lists and the counts of a VI stay as they are.
LEMMA FinalizeStep ==
  ASSUME NEW s, Sound(s), NEW m \in Mps, NEW resolved,
         s.mps[m].objvar # NA => s.column[s.mps[m].objvar] # <<>>,
         NEW X, s.mps[m].objequ \in X, NEW r, r = mp_finalize(s, m, resolved)
  PROVE  /\ Step(s, r.mdl, m, X, 0)
         /\ IsOpt(s, m) \/ r.mdl.mps[m] = s.mps[m]
              \/ r.mdl.mps[m] = [s.mps[m] EXCEPT !.finalized = TRUE]
<1> DEFINE q == mp_identify_objequ(s, m)
           Outcome(t) == r = OK(t) \/ r = Error(t) \/ r = OK([t EXCEPT !.mps[m].finalized = TRUE])
<1>1. s.mps[m].objvar \in Vars \cup {NA}
  BY Records, Owners
<1>2. \A t : Sound(t) /\ Outcome(t) => r.mdl = t \/ r.mdl = Finalized(t, m)
  <2> SUFFICES ASSUME NEW t, Sound(t), Outcome(t) PROVE r.mdl = t \/ r.mdl = Finalized(t, m)
    OBVIOUS
  <2>1. [t EXCEPT !.mps[m].finalized = TRUE] = Finalized(t, m)
    BY FinalizedStep, Zenon
  <2>2. r = OK(t) => r.mdl = t
    BY DEF OK
  <2>3. r = Error(t) => r.mdl = t
    BY DEF Error
  <2>4. r = OK(Finalized(t, m)) => r.mdl = Finalized(t, m)
    BY DEF OK
  <2> QED
    BY <2>1, <2>2, <2>3, <2>4, Zenon
<1>3. \A t : Sound(t) /\ Outcome(t) /\ Step(s, t, m, X, 0) => Step(s, r.mdl, m, X, 0)
  <2> SUFFICES ASSUME NEW t, Sound(t), Outcome(t), Step(s, t, m, X, 0)
               PROVE  Step(s, r.mdl, m, X, 0)
    OBVIOUS
  <2>1. r.mdl = t \/ r.mdl = Finalized(t, m)
    BY <1>2, Zenon
  <2>2. Step(t, Finalized(t, m), m, X, 0)
    BY FinalizedStep, Zenon
  <2> HIDE DEF Outcome
  <2> QED
    BY <2>1, <2>2, Chain
<1>4. \/ Outcome(s)
      \/ IsOpt(s, m) /\ s.mps[m].objvar # NA /\ (IF q.ok THEN Outcome(q.mdl) ELSE r = q)
  BY DEF mp_finalize, Then
<1> HIDE DEF q, Outcome
<1>5. CASE Outcome(s)
  <2>1. r.mdl = s \/ r.mdl = Finalized(s, m)
    BY <1>2, <1>5
  <2>2. Finalized(s, m).mps[m] = [s.mps[m] EXCEPT !.finalized = TRUE]
    BY FinalizedStep
  <2>3. Step(s, r.mdl, m, X, 0)
    BY <1>3, <1>5, NoStep
  <2> QED
    BY <2>1, <2>2, <2>3
<1>6. CASE IsOpt(s, m) /\ s.mps[m].objvar # NA /\ (IF q.ok THEN Outcome(q.mdl) ELSE r = q)
  <2>1. Step(s, q.mdl, m, X, 0)
    BY <1>1, <1>6, IdentifyStep DEF q
  <2>2. Sound(q.mdl)
    BY <2>1 DEF Step
  <2> QED
    BY <1>3, <1>6, <2>1, <2>2
<1> QED
  BY <1>4, <1>5, <1>6

-----------------------------------------------------------------------------
(***************************************************************************)
(* Editing equations.                                                      *)
(***************************************************************************)

\* Without leaves entries of the column, and none of the equation.
LEMMA WithoutProperties ==
  ASSUME NEW col \in Seq(Entries), NEW e
  PROVE  /\ Without(col, e) \in Seq(Entries)
         /\ \A i \in DOMAIN Without(col, e) :
               /\ Without(col, e)[i].ei # e
               /\ \E j \in DOMAIN col : Without(col, e)[i] = col[j]
<1> DEFINE l == Len(col)
           K == {c \in Entries : c.ei # e /\ \E j \in DOMAIN col : c = col[j]}
           Fix(h) == h = [k \in 0..l |-> IF k = 0 THEN <<>>
                                         ELSE IF col[k].ei # e THEN Append(h[k - 1], col[k])
                                         ELSE h[k - 1]]
           upto == CHOOSE h : Fix(h)
<1> HIDE DEF Entries
<1>0. l \in Nat /\ DOMAIN col = 1..l /\ \A k \in 1..l : col[k] \in Entries
  OBVIOUS
<1>1. \A k \in 1..l : col[k].ei # e => col[k] \in K
  BY <1>0
<1>2. Without(col, e) = upto[l]
  BY DEF Without
<1>3. \A c \in K : c \in Entries /\ c.ei # e /\ \E j \in DOMAIN col : c = col[j]
  OBVIOUS
<1> HIDE DEF K
<1>4. \E h : Fix(h)
  <2> DEFINE step(x, n) == IF n < l /\ col[n + 1].ei # e THEN Append(x, col[n + 1]) ELSE x
  <2>1. \A n \in Nat, x \in Seq(K) : step(x, n) \in Seq(K)
    <3> SUFFICES ASSUME NEW n \in Nat, NEW x \in Seq(K) PROVE step(x, n) \in Seq(K)
      OBVIOUS
    <3>1. CASE n < l /\ col[n + 1].ei # e
      <4>1. n + 1 \in 1..l
        BY <1>0, <3>1
      <4>2. col[n + 1] \in K
        BY <1>1, <3>1, <4>1
      <4> QED
        BY <3>1, <4>2
    <3>2. CASE ~ (n < l /\ col[n + 1].ei # e)
      BY <3>2
    <3> QED
      BY <3>1, <3>2
  <2>2. \A n \in 0..(l - 1), x \in Seq(K) :
           step(x, n) = IF col[n + 1].ei # e THEN Append(x, col[n + 1]) ELSE x
    BY <1>0
  <2> HIDE DEF step
  <2> DEFINE G == [n \in Nat |-> [x \in Seq(K) |-> step(x, n)]]
  <2>3. G \in [Nat -> [Seq(K) -> Seq(K)]] /\ <<>> \in Seq(K)
    BY <2>1
  <2>4. \A n \in Nat, x \in Seq(K) : G[n][x] = step(x, n)
    OBVIOUS
  <2> HIDE DEF G
  <2>5. PICK f : AP!Iterates(f, Seq(K), <<>>, G)
    BY <2>3, AP!RecursiveFunction, Zenon
  <2>6. /\ f \in [Nat -> Seq(K)] /\ f[0] = <<>>
        /\ \A n \in Nat : f[n + 1] = G[n][f[n]]
    BY <2>5 DEF AP!Iterates
  <2> DEFINE h == [k \in 0..l |-> f[k]]
  <2>7. ASSUME NEW k \in 0..l, k # 0
        PROVE  h[k] = IF col[k].ei # e THEN Append(h[k - 1], col[k]) ELSE h[k - 1]
    <3>1. k - 1 \in Nat /\ (k - 1) + 1 = k /\ k - 1 \in 0..l /\ k - 1 \in 0..(l - 1)
      BY <2>7, <1>0
    <3>2. f[k] = G[k - 1][f[k - 1]] /\ f[k - 1] \in Seq(K)
      BY <3>1, <2>6, Zenon
    <3>3. f[k] = IF col[k].ei # e THEN Append(f[k - 1], col[k]) ELSE f[k - 1]
      BY <3>1, <3>2, <2>2, <2>4, Zenon
    <3> QED
      BY <3>1, <3>3
  <2>8. h[0] = <<>>
    BY <2>6, <1>0
  <2>9. Fix(h)
    BY <2>7, <2>8
  <2> QED
    BY <2>9, Zenon
<1>5. Fix(upto)
  BY <1>4, Zenon
<1> HIDE DEF upto
<1>6. upto[0] \in Seq(K)
  <2>1. upto[0] = <<>>
    BY <1>5, <1>0
  <2> QED
    BY <2>1
<1>7. ASSUME NEW n \in Nat, n + 1 <= l, upto[n] \in Seq(K)
      PROVE  upto[n + 1] \in Seq(K)
  <2>1. n + 1 \in 0..l /\ n + 1 # 0 /\ (n + 1) - 1 = n /\ n + 1 \in 1..l
    BY <1>0, <1>7
  <2>2. upto[n + 1] = IF n + 1 = 0 THEN <<>>
                      ELSE IF col[n + 1].ei # e THEN Append(upto[(n + 1) - 1], col[n + 1])
                      ELSE upto[(n + 1) - 1]
    BY <1>5, <2>1, Zenon
  <2>3. upto[n + 1] = IF col[n + 1].ei # e THEN Append(upto[n], col[n + 1]) ELSE upto[n]
    BY <2>1, <2>2
  <2>4. CASE col[n + 1].ei # e
    <3>1. col[n + 1] \in K
      BY <1>1, <2>1, <2>4
    <3> QED
      BY <1>7, <2>3, <2>4, <3>1
  <2>5. CASE ~ (col[n + 1].ei # e)
    BY <1>7, <2>3, <2>5
  <2> QED
    BY <2>4, <2>5
<1> DEFINE T == {n \in Nat : n <= l => upto[n] \in Seq(K)}
<1>8. T = Nat
  <2>1. 0 \in T
    BY <1>6
  <2>2. \A n \in T : n + 1 \in T
    BY <1>0, <1>7
  <2>3. T \subseteq Nat
    OBVIOUS
  <2> HIDE DEF T
  <2> QED
    BY <2>1, <2>2, <2>3, AP!NatSetInduction, Zenon
<1>9. Without(col, e) \in Seq(K)
  BY <1>0, <1>2, <1>8
<1>10. K \subseteq Entries
  BY <1>3
<1>11. Without(col, e) \in Seq(Entries)
  BY <1>9, <1>10
<1>12. \A i \in DOMAIN Without(col, e) : Without(col, e)[i] \in K
  BY <1>9
<1> QED
  BY <1>3, <1>11, <1>12

\* The metadata of a copy before it gets an owner.
Fresh(s, e) == [NoEqu EXCEPT !.active = TRUE, !.object = s.equs[e].object, !.cone = s.equs[e].cone]

\* AddCopy: the copy is in the model and is nobody's, all else stays.
Copied(s, t, e, n) ==
    /\ t.vars = s.vars /\ t.mps = s.mps /\ t.equs[n] = Fresh(s, e) /\ n # e
    /\ \A f \in Equs : f # n => t.equs[f] = s.equs[f]

\* AddCopy: a new equation, and its entries in the columns.
LEMMA AddCopyStep ==
  ASSUME NEW s, Sound(s), NEW e \in Equs, s.equs[e].active, NEW n \in Spare(s), NEW v0,
         NEW m, NEW X
  PROVE  Step(s, AddCopy(s, e, n, v0), m, X, 0) /\ Copied(s, AddCopy(s, e, n, v0), e, n)
<1> DEFINE x == Fresh(s, e)
           entry(v) == CHOOSE i \in DOMAIN s.column[v] : s.column[v][i].ei = e
           c == [v \in Vars |-> IF v # v0 /\ Occurs(s, v, e)
                                THEN Append(s.column[v], [s.column[v][entry(v)] EXCEPT !.ei = n])
                                ELSE s.column[v]]
           t == WithEqu(s, n, x)
           u == WithColumns(t, c)
<1>1. s \in Mdls /\ s.equs[e] \in EquMetas /\ n \in Equs /\ s.equs[n].object = "none"
  BY Records, Owners DEF Spare
<1>2. n # e /\ s.equs[e].object # "none" /\ ~ s.equs[n].active /\ NA \notin Mps
  BY <1>1, Owners
<1>3. /\ x \in EquMetas /\ x.mp = NA /\ x.active /\ x.role = "undefined"
      /\ x.object = s.equs[e].object
  BY <1>1, Zenon DEF EquMetas, Fresh, NoEqu, Objects, Cones
<1>4. AddCopy(s, e, n, v0) = u
  BY <1>1 DEF AddCopy, Fresh, WithEqu, WithColumns, Mdls
<1>5. \A v \in Vars : /\ s.column[v] \in Seq(Entries) /\ c[v] \in Seq(Entries)
                      /\ \A i \in DOMAIN c[v] : c[v][i].ei = n \/ s.equs[c[v][i].ei].active
  <2> SUFFICES ASSUME NEW v \in Vars
               PROVE  /\ s.column[v] \in Seq(Entries) /\ c[v] \in Seq(Entries)
                      /\ \A i \in DOMAIN c[v] : c[v][i].ei = n \/ s.equs[c[v][i].ei].active
    BY Zenon
  <2>1. s.column[v] \in Seq(Entries)
    BY <1>1, Records
  <2>2. \A i \in DOMAIN s.column[v] : s.equs[s.column[v][i].ei].active
    BY DEF Sound, ColumnsActive
  <2>3. CASE v # v0 /\ Occurs(s, v, e)
    <3> DEFINE b == [s.column[v][entry(v)] EXCEPT !.ei = n]
    <3>1. entry(v) \in DOMAIN s.column[v]
      BY <2>3 DEF Occurs
    <3>2. s.column[v][entry(v)] \in Entries
      BY <1>1, <3>1, ColumnEntries, Zenon
    <3>3. b \in Entries /\ b.ei = n
      BY <1>1, <3>2, Zenon DEF Entries
    <3>4. c[v] = Append(s.column[v], b)
      BY <2>3
    <3> HIDE DEF b, c, Entries
    <3> DEFINE col == s.column[v]
    <3>5. col \in Seq(Entries) /\ c[v] = Append(col, b)
      BY <2>1, <3>4
    <3>6. \A i \in DOMAIN col : s.equs[col[i].ei].active
      BY <2>2
    <3> HIDE DEF col
    <3>7. c[v] \in Seq(Entries)
      BY <3>3, <3>5
    <3>8. \A i \in DOMAIN c[v] : c[v][i] = b \/ (i \in DOMAIN col /\ c[v][i] = col[i])
      BY <3>3, <3>5
    <3>9. \A i \in DOMAIN c[v] : c[v][i].ei = n \/ s.equs[c[v][i].ei].active
      BY <3>3, <3>6, <3>8
    <3> QED
      BY <2>1, <3>7, <3>9
  <2>4. CASE ~ (v # v0 /\ Occurs(s, v, e))
    <3>1. c[v] = s.column[v]
      BY <2>4
    <3> HIDE DEF c
    <3> QED
      BY <2>1, <2>2, <3>1
  <2> QED
    BY <2>3, <2>4, Zenon
<1>6. c \in [Vars -> Seq(Entries)]
  BY <1>5, Zenon
<1> HIDE DEF x, c
<1>7. Marks(s.equs[n], x)
  BY <1>1, <1>2, <1>3 DEF Marks
<1>8. \A k \in Mps : ~ (s.mps[k].alive /\ n \in s.mps[k].equs)
  BY <1>1, <1>2, Owners
<1>9. Step(s, t, m, X, 0)
  BY <1>1, <1>3, <1>7, <1>8, EquStep
<1>10. /\ Sound(t) /\ t \in Mdls /\ t.vars = s.vars /\ t.mps = s.mps
       /\ \A f \in Equs : t.equs[f] = IF f = n THEN x ELSE s.equs[f]
  BY <1>1, <1>3, <1>9, WithEquFields, WithTypes DEF Step
<1> HIDE DEF t
<1>11. \A v \in Vars : \A i \in DOMAIN c[v] : t.equs[c[v][i].ei].active
  <2> SUFFICES ASSUME NEW v \in Vars, NEW i \in DOMAIN c[v] PROVE t.equs[c[v][i].ei].active
    OBVIOUS
  <2>1. c[v] \in Seq(Entries) /\ (c[v][i].ei = n \/ s.equs[c[v][i].ei].active)
    BY <1>5
  <2>2. c[v][i] \in Entries
    <3> HIDE DEF Entries
    <3> QED
      BY <2>1
  <2>3. c[v][i].ei \in Equs
    BY <2>2 DEF Entries
  <2> QED
    BY <1>3, <1>10, <2>1, <2>3
<1>12. Step(t, u, m, X, 0)
  BY <1>6, <1>10, <1>11, ColumnStep
<1>13. u.vars = t.vars /\ u.mps = t.mps /\ u.equs = t.equs
  BY <1>10, WithColumnsFields
<1> HIDE DEF u
<1>14. Copied(s, u, e, n)
  BY <1>1, <1>2, <1>10, <1>13 DEF Copied, x
<1> QED
  BY <1>4, <1>9, <1>12, <1>14, Chain

\* rmdl_rm_equ: the equation is out of the model and may leave the list, all else stays.
Removed(s, t, e) ==
    /\ t.vars = s.vars
    /\ \A f \in Equs : t.equs[f] = IF f = e THEN [s.equs[e] EXCEPT !.active = FALSE] ELSE s.equs[f]
    /\ \A k \in Mps : t.mps[k].objequ = s.mps[k].objequ /\ t.mps[k].objvar = s.mps[k].objvar

\* t with n as the copy of e.
WithRes(t, e, n) == WithEqu(t, e, [t.equs[e] EXCEPT !.res = n])

\* rmdl_rm_equ, also with the copy noted in the rosetta afterwards.
LEMMA RmEquStep ==
  ASSUME NEW s, Sound(s), NEW e \in Equs, NEW X, e \in X, NEW r, r = rmdl_rm_equ(s, e)
  PROVE  /\ Step(s, r.mdl, s.equs[e].mp, X, 0) /\ Removed(s, r.mdl, e) /\ r.ok \in BOOLEAN
         /\ s.equs[e].active =>
               \A n \in Equs : Step(s, WithRes(r.mdl, e, n), s.equs[e].mp, X, 0)
<1> DEFINE m == s.equs[e].mp
           x == [s.equs[e] EXCEPT !.active = FALSE]
           c == [v \in Vars |-> Without(s.column[v], e)]
           y == [s.mps[m] EXCEPT !.equs = @ \ {e}]
           a == IF m # NA /\ e \in s.mps[m].equs THEN WithMp(s, m, y) ELSE s
           b == WithColumns(a, c)
<1>1. s \in Mdls /\ s.equs[e] \in EquMetas /\ m \in Mps \cup {NA}
  <2>1. s \in Mdls /\ s.equs[e] \in EquMetas
    BY Records, Owners
  <2> QED
    BY <2>1 DEF EquMetas
<1>2. r.mdl = WithEqu(b, e, x) /\ r.ok \in BOOLEAN
  <2>1. CASE m = NA
    BY <1>1, <2>1, Zenon DEF rmdl_rm_equ, OK, WithEqu, WithColumns, Mdls
  <2>2. CASE m # NA /\ e \notin s.mps[m].equs
    BY <1>1, <2>2, Zenon DEF rmdl_rm_equ, Error, WithEqu, WithColumns, Mdls
  <2>3. CASE m # NA /\ e \in s.mps[m].equs
    BY <1>1, <2>3, Zenon DEF rmdl_rm_equ, OK, WithEqu, WithColumns, WithMp, Mdls
  <2> QED
    BY <2>1, <2>2, <2>3
<1>3. \A v \in Vars : /\ c[v] \in Seq(Entries)
                      /\ \A i \in DOMAIN c[v] : c[v][i].ei # e /\ s.equs[c[v][i].ei].active
  <2> SUFFICES ASSUME NEW v \in Vars
               PROVE  /\ c[v] \in Seq(Entries)
                      /\ \A i \in DOMAIN c[v] : c[v][i].ei # e /\ s.equs[c[v][i].ei].active
    OBVIOUS
  <2>1. s.column[v] \in Seq(Entries)
    BY <1>1, Records
  <2>2. \A i \in DOMAIN s.column[v] : s.equs[s.column[v][i].ei].active
    BY DEF Sound, ColumnsActive
  <2>3. c[v] = Without(s.column[v], e)
    OBVIOUS
  <2> HIDE DEF c
  <2>4. /\ c[v] \in Seq(Entries)
        /\ \A i \in DOMAIN c[v] : /\ c[v][i].ei # e
                                  /\ \E j \in DOMAIN s.column[v] : c[v][i] = s.column[v][j]
    BY <2>1, <2>3, WithoutProperties
  <2> QED
    BY <2>2, <2>4
<1>4. c \in [Vars -> Seq(Entries)]
  BY <1>3
<1>5. /\ Step(s, a, m, X, 0) /\ a.vars = s.vars /\ a.equs = s.equs
      /\ \A k \in Mps : /\ a.mps[k].objequ = s.mps[k].objequ /\ a.mps[k].objvar = s.mps[k].objvar
                        /\ a.mps[k].alive = s.mps[k].alive
                        /\ a.mps[k].equs \subseteq s.mps[k].equs
                        /\ k = m => e \notin a.mps[k].equs
  <2>1. CASE m # NA /\ e \in s.mps[m].equs
    <3>1. a = WithMp(s, m, y) /\ m \in Mps /\ s.mps[m] \in MpRecs
      BY <1>1, <2>1, Records
    <3>2. /\ y.objequ = s.mps[m].objequ /\ y.objvar = s.mps[m].objvar
          /\ y.alive = s.mps[m].alive /\ y.equs = s.mps[m].equs \ {e}
      BY <3>1 DEF MpRecs
    <3>3. Step(s, WithMp(s, m, y), m, X, 0)
      BY <3>1, Unlist, Zenon
    <3> HIDE DEF y, m, a
    <3>4. /\ a.vars = s.vars /\ a.equs = s.equs
          /\ \A k \in Mps : a.mps[k] = IF k = m THEN y ELSE s.mps[k]
      BY <1>1, <3>1, WithMpFields
    <3> QED
      BY <3>1, <3>2, <3>3, <3>4
  <2>2. CASE ~ (m # NA /\ e \in s.mps[m].equs)
    <3>1. a = s
      BY <2>2
    <3>2. Step(s, s, m, X, 0)
      BY NoStep
    <3>3. \A k \in Mps : k = m => e \notin s.mps[k].equs
      BY <2>2, Owners
    <3> HIDE DEF a, m
    <3> QED
      BY <3>1, <3>2, <3>3
  <2> QED
    BY <2>1, <2>2, Zenon
<1> HIDE DEF a, c
<1>6. Sound(a) /\ a \in Mdls
  BY <1>5 DEF Step, Sound
<1>7. Step(a, b, m, X, 0)
  BY <1>3, <1>4, <1>5, <1>6, ColumnStep
<1>8. /\ Step(s, b, m, X, 0) /\ Sound(b) /\ b \in Mdls /\ b.vars = s.vars /\ b.equs = s.equs
      /\ b.mps = a.mps /\ b.column = c
  BY <1>5, <1>6, <1>7, Chain, WithColumnsFields DEF Step, Sound
<1> HIDE DEF b
<1>9. \A k \in Mps : ~ (b.mps[k].alive /\ e \in b.mps[k].equs)
  BY <1>5, <1>8, Owners
<1>10. \A v \in Vars : ~ Occurs(b, v, e)
  BY <1>3, <1>8 DEF Occurs
<1>11. x \in EquMetas /\ Marks(s.equs[e], x)
  <2>1. /\ x \in EquMetas /\ ~ x.active /\ x.mp = s.equs[e].mp /\ x.role = s.equs[e].role
        /\ x.object = s.equs[e].object /\ x.res = s.equs[e].res
    BY <1>1, Zenon DEF EquMetas
  <2> HIDE DEF x
  <2> QED
    BY <2>1, Owners DEF Marks
<1>12. Step(b, WithEqu(b, e, x), m, X, 0)
  BY <1>8, <1>9, <1>10, <1>11, EquStep
<1>13. Step(s, r.mdl, m, X, 0)
  BY <1>2, <1>8, <1>12, Chain
<1>14. Removed(s, r.mdl, e)
  <2>1. /\ r.mdl.vars = b.vars /\ r.mdl.mps = b.mps
        /\ \A f \in Equs : r.mdl.equs[f] = IF f = e THEN x ELSE b.equs[f]
    BY <1>2, <1>8, <1>11, WithEquFields
  <2>2. \A f \in Equs : r.mdl.equs[f] = IF f = e THEN x ELSE s.equs[f]
    BY <1>8, <2>1, Zenon
  <2>3. \A k \in Mps : r.mdl.mps[k].objequ = s.mps[k].objequ /\ r.mdl.mps[k].objvar = s.mps[k].objvar
    BY <1>5, <1>8, <2>1
  <2> QED
    BY <1>8, <2>1, <2>2, <2>3, Zenon DEF Removed
<1>15. ASSUME s.equs[e].active, NEW n \in Equs
       PROVE  Step(s, WithRes(r.mdl, e, n), m, X, 0)
  <2> DEFINE z == [x EXCEPT !.res = n]
  <2>1. /\ z \in EquMetas /\ ~ z.active /\ z.mp = s.equs[e].mp /\ z.role = s.equs[e].role
        /\ z.object = s.equs[e].object
    BY <1>1, Zenon DEF EquMetas
  <2>2. r.mdl.equs[e] = x
    BY <1>2, <1>8, <1>11, WithEquFields
  <2>3. WithRes(r.mdl, e, n) = WithEqu(WithEqu(b, e, x), e, z)
    BY <1>2, <2>2, Zenon DEF WithRes
  <2> HIDE DEF x, z, m
  <2>4. WithEqu(WithEqu(b, e, x), e, z) = WithEqu(b, e, z)
    BY <1>8, Zenon DEF WithEqu, Mdls
  <2>5. Marks(s.equs[e], z)
    BY <1>15, <2>1, Owners DEF Marks
  <2>6. Step(b, WithEqu(b, e, z), m, X, 0)
    BY <1>8, <1>9, <1>10, <2>1, <2>5, EquStep
  <2> QED
    BY <1>8, <2>3, <2>4, <2>6, Chain
<1> QED
  BY <1>2, <1>13, <1>14, <1>15, Zenon

\* When a copy takes the place of an equation: the source is out of the model and leads to the
\* copy, and the copy is in the list of the MP of the source.
Replaced(s, t, e, n) ==
    /\ ~ t.equs[e].active /\ t.equs[e].res = n
    /\ s.equs[e].mp # NA => n \in t.mps[s.equs[e].mp].equs

\* The state of a copying call after rmdl_rm_equ, with the copy noted.
Noted(s, u, e, n) ==
    /\ u.equs[n] = Fresh(s, e) /\ n # e /\ n \in Equs
    /\ u.equs[e] = [s.equs[e] EXCEPT !.active = FALSE, !.res = n]
    /\ \A k \in Mps : u.mps[k].objequ = s.mps[k].objequ /\ u.mps[k].objvar = s.mps[k].objvar

Copying(s, q, e, n, X) ==
    /\ Step(s, q.mdl, s.equs[e].mp, X, 0) /\ q.ok \in BOOLEAN
    /\ Step(s, WithRes(q.mdl, e, n), s.equs[e].mp, X, 0)
    /\ q.mdl.equs[e].mp = s.equs[e].mp
    /\ WithRes(q.mdl, e, n) = [q.mdl EXCEPT !.equs[e].res = n]
    /\ Noted(s, WithRes(q.mdl, e, n), e, n)

\* A copying call has got this far.
LEMMA CopyOut ==
  ASSUME NEW s, Sound(s), NEW e \in Equs, s.equs[e].active, NEW n \in Spare(s), NEW v0,
         NEW X, e \in X, NEW q, q = rmdl_rm_equ(AddCopy(s, e, n, v0), e)
  PROVE  Copying(s, q, e, n, X)
<1> DEFINE m == s.equs[e].mp
           a == AddCopy(s, e, n, v0)
           u == WithRes(q.mdl, e, n)
<1>1. Step(s, a, m, X, 0) /\ Copied(s, a, e, n)
  BY AddCopyStep
<1>2. Sound(a) /\ a.equs[e] = s.equs[e] /\ a.equs[n] = Fresh(s, e) /\ a.mps = s.mps /\ n # e
  BY <1>1 DEF Step, Copied
<1>3. q = rmdl_rm_equ(a, e) /\ n \in Equs /\ s.equs[e] \in EquMetas
  BY Owners, Records DEF Spare
<1> HIDE DEF a, m
<1>4. /\ Step(a, q.mdl, a.equs[e].mp, X, 0) /\ Removed(a, q.mdl, e) /\ q.ok \in BOOLEAN
      /\ Step(a, u, a.equs[e].mp, X, 0)
  BY <1>2, <1>3, RmEquStep
<1>5. Step(a, q.mdl, m, X, 0) /\ Step(a, u, m, X, 0)
  BY <1>2, <1>4 DEF m
<1>6. Step(s, q.mdl, m, X, 0) /\ Step(s, u, m, X, 0)
  BY <1>1, <1>5, Chain
<1>7. q.mdl \in Mdls
  BY <1>6 DEF Step, Sound
<1>8. q.mdl.equs[e] = [s.equs[e] EXCEPT !.active = FALSE] /\ q.mdl.equs[n] = Fresh(s, e)
  BY <1>2, <1>3, <1>4, Zenon DEF Removed
<1>9. /\ q.mdl.equs[e].mp = s.equs[e].mp
      /\ [q.mdl.equs[e] EXCEPT !.res = n] = [s.equs[e] EXCEPT !.active = FALSE, !.res = n]
  BY <1>3, <1>8 DEF EquMetas
<1>10. u = [q.mdl EXCEPT !.equs[e].res = n]
  BY <1>7 DEF WithRes, WithEqu, Mdls
<1>11. /\ u.mps = q.mdl.mps
       /\ \A f \in Equs : u.equs[f] = IF f = e THEN [q.mdl.equs[e] EXCEPT !.res = n]
                                      ELSE q.mdl.equs[f]
  BY <1>7, WithEquFields DEF WithRes
<1> HIDE DEF u
<1>12. u.equs[n] = Fresh(s, e) /\ u.equs[e] = [s.equs[e] EXCEPT !.active = FALSE, !.res = n]
  BY <1>2, <1>3, <1>8, <1>9, <1>11
<1>13. \A k \in Mps : u.mps[k].objequ = s.mps[k].objequ /\ u.mps[k].objvar = s.mps[k].objvar
  BY <1>2, <1>4, <1>11 DEF Removed
<1>14. Noted(s, u, e, n)
  BY <1>2, <1>3, <1>12, <1>13 DEF Noted
<1> QED
  BY <1>4, <1>6, <1>9, <1>10, <1>14 DEF Copying, m, u

\* What is noted stays so.
LEMMA NotedStays ==
  ASSUME NEW s, Sound(s), NEW e \in Equs, s.equs[e].active, NEW n, NEW u, Noted(s, u, e, n),
         NEW t, NEW m, NEW X, NEW d, Step(u, t, m, X, d)
  PROVE  ~ t.equs[e].active /\ t.equs[e].res = n
<1>1. s.equs[e] \in EquMetas /\ s.equs[e].object # "none"
  BY Owners, Records
<1>2. ~ u.equs[e].active /\ u.equs[e].res = n /\ u.equs[e].object # "none"
  BY <1>1 DEF Noted, EquMetas
<1>3. Keeps(u, t, m, X, d)
  BY DEF Step
<1> QED
  BY <1>2, <1>3 DEF Keeps

\* rmdl_dup_equ.
LEMMA DupStep ==
  ASSUME NEW s, Sound(s), NEW e \in Equs, s.equs[e].active, NEW n \in Spare(s),
         NEW r, r = rmdl_dup_equ(s, e, n)
  PROVE  /\ Step(s, r.mdl, s.equs[e].mp, {e}, 1)
         /\ r.ok => Replaced(s, r.mdl, e, n)
<1> DEFINE m == s.equs[e].mp
           q == rmdl_rm_equ(AddCopy(s, e, n, NA), e)
           u == WithRes(q.mdl, e, n)
<1>1. /\ Step(s, q.mdl, m, {e}, 0) /\ q.ok \in BOOLEAN
      /\ Step(s, u, m, {e}, 0) /\ q.mdl.equs[e].mp = m
      /\ u = [q.mdl EXCEPT !.equs[e].res = n] /\ Noted(s, u, e, n)
  <2>1. e \in {e}
    OBVIOUS
  <2> HIDE DEF q
  <2>2. q = rmdl_rm_equ(AddCopy(s, e, n, NA), e)
    BY DEF q
  <2>3. Copying(s, q, e, n, {e})
    BY <2>1, <2>2, CopyOut
  <2> QED
    BY <2>3 DEF Copying
<1>2. r = IF ~ q.ok THEN q ELSE IF m = NA THEN OK(u)
          ELSE IF u.mps[m].objequ = e THEN mp_setobjequ(u, m, n) ELSE mp_addconstraint(u, m, n)
  BY <1>1 DEF rmdl_dup_equ, Then
<1>3. s.equs[e] \in EquMetas /\ m \in Mps \cup {NA}
  <2>1. s.equs[e] \in EquMetas
    BY Owners, Records
  <2> QED
    BY <2>1 DEF EquMetas
<1>4. Sound(u) /\ u.equs[n].active /\ n \in Equs
  BY <1>1, Zenon DEF Step, Noted, Fresh, NoEqu
<1>5. \A t : Step(u, t, m, {e}, 0) \/ Step(u, t, m, {e}, 1) => ~ t.equs[e].active /\ t.equs[e].res = n
  BY <1>1, NotedStays
<1> HIDE DEF q, u
<1>6. CASE ~ q.ok
  BY <1>1, <1>2, <1>6, Wider
<1>7. CASE q.ok /\ m = NA
  <2>1. r.mdl = u
    BY <1>2, <1>7 DEF OK
  <2>2. Step(u, u, m, {e}, 0)
    BY <1>4, NoStep
  <2>3. Step(s, u, m, {e}, 1)
    BY <1>1, Wider
  <2> QED
    BY <1>5, <1>7, <2>1, <2>2, <2>3 DEF Replaced
<1>8. CASE q.ok /\ m # NA /\ u.mps[m].objequ = e
  <2>1. r = mp_setobjequ(u, m, n) /\ m \in Mps
    BY <1>2, <1>3, <1>8
  <2>2. u.mps[m].objequ \in {e}
    BY <1>8
  <2> HIDE DEF m
  <2>3. Step(u, r.mdl, m, {e}, 0) /\ (r.ok => n \in r.mdl.mps[m].equs)
    BY <1>4, <2>1, <2>2, SetObjEquStep
  <2>4. Step(s, r.mdl, m, {e}, 0)
    BY <1>1, <2>3, Chain
  <2>5. Step(s, r.mdl, m, {e}, 1)
    BY <2>4, Wider
  <2> QED
    BY <1>5, <2>3, <2>5 DEF Replaced, m
<1>9. CASE q.ok /\ m # NA /\ u.mps[m].objequ # e
  <2>1. r = mp_addconstraint(u, m, n) /\ m \in Mps
    BY <1>2, <1>3, <1>9
  <2> HIDE DEF m
  <2>2. /\ Step(u, r.mdl, m, {e}, 1)
        /\ r.ok => ConstraintListed(u, r.mdl, m, n)
    BY <1>4, <2>1, AddConstraintStep
  <2>3. u.mps[m] \in MpRecs
    BY <1>4, <2>1, Owners, Records
  <2>4. r.ok => n \in r.mdl.mps[m].equs
    BY <2>2, <2>3, Zenon DEF MpRecs, ConstraintListed
  <2>5. Step(s, r.mdl, m, {e}, 1)
    BY <1>1, <2>2, Chain
  <2> QED
    BY <1>5, <2>2, <2>4, <2>5 DEF Replaced, m
<1> QED
  BY <1>1, <1>6, <1>7, <1>8, <1>9

\* A copy may take the role and the owner of its source.
LEMMA MetaStep ==
  ASSUME NEW s, Sound(s), NEW n \in Equs, s.equs[n].mp = NA, s.equs[n].active,
         s.equs[n].role = "undefined", NEW x \in EquMetas, x.active,
         x.object = s.equs[n].object, x.mp = NA => x.role \in {"undefined", "objective"},
         NEW m, NEW X
  PROVE  Step(s, WithEqu(s, n, x), m, X, 0)
<1>1. Marks(s.equs[n], x)
  BY Owners DEF Marks
<1>2. \A k \in Mps : ~ (s.mps[k].alive /\ n \in s.mps[k].equs)
  BY Owners
<1> QED
  BY <1>1, <1>2, EquStep

\* The metadata of the copy n in the state u: those of the source, and with no owner yet.
Taken(u, e, n) == [u.equs[n] EXCEPT !.role = u.equs[e].role, !.dual = u.equs[e].dual,
                                    !.mp = u.equs[e].mp]
NotYet(u, e, n) == [Taken(u, e, n) EXCEPT !.mp = NA]

\* A copy that takes the metadata of its source.
LEMMA CopyMetaStep ==
  ASSUME NEW s, Sound(s), NEW e \in Equs, NEW n \in Equs, n # e,
         s.equs[n].mp = NA, s.equs[n].active, s.equs[n].role = "undefined", NEW m, NEW X
  PROVE  /\ CopyMeta(s, e, n) = WithEqu(s, n, Taken(s, e, n))
         /\ [CopyMeta(s, e, n) EXCEPT !.equs[n].mp = NA] = WithEqu(s, n, NotYet(s, e, n))
         /\ Taken(s, e, n) \in EquMetas /\ NotYet(s, e, n) \in EquMetas
         /\ Taken(s, e, n).role = s.equs[e].role /\ NotYet(s, e, n).role = s.equs[e].role
         /\ Taken(s, e, n).mp = s.equs[e].mp /\ NotYet(s, e, n).mp = NA
         /\ Taken(s, e, n).active /\ NotYet(s, e, n).active
         /\ Step(s, WithEqu(s, n, Taken(s, e, n)), m, X, 0)
         /\ s.equs[e].role \in {"undefined", "objective"} =>
              Step(s, WithEqu(s, n, NotYet(s, e, n)), m, X, 0)
<1> DEFINE x == Taken(s, e, n)
           y == NotYet(s, e, n)
<1>1. s \in Mdls /\ s.equs[e] \in EquMetas /\ s.equs[n] \in EquMetas
  BY Records, Owners
<1>2. /\ x \in EquMetas /\ x.role = s.equs[e].role /\ x.mp = s.equs[e].mp
      /\ x.active = s.equs[n].active /\ x.object = s.equs[n].object
  BY <1>1, Zenon DEF EquMetas, Taken
<1>3. /\ y \in EquMetas /\ y.role = s.equs[e].role /\ y.mp = NA
      /\ y.active = s.equs[n].active /\ y.object = s.equs[n].object
  BY <1>2, Zenon DEF EquMetas, NotYet
<1>4. CopyMeta(s, e, n) = WithEqu(s, n, x)
  BY <1>1, Zenon DEF CopyMeta, WithEqu, Mdls, Taken
<1>5. [CopyMeta(s, e, n) EXCEPT !.equs[n].mp = NA] = WithEqu(s, n, y)
  <2> HIDE DEF x
  <2>1. WithEqu(s, n, x) \in Mdls /\ WithEqu(s, n, x).equs[n] = x
    BY <1>1, <1>2, WithEquFields, WithTypes
  <2>2. y = [x EXCEPT !.mp = NA]
    BY DEF x, NotYet
  <2>3. [WithEqu(s, n, x) EXCEPT !.equs[n].mp = NA] = WithEqu(WithEqu(s, n, x), n, y)
    BY <2>1, <2>2, Zenon DEF WithEqu, Mdls
  <2>4. WithEqu(WithEqu(s, n, x), n, y) = WithEqu(s, n, y)
    BY <1>1, Zenon DEF WithEqu, Mdls
  <2> QED
    BY <1>4, <2>3, <2>4
<1> HIDE DEF x, y
<1>6. Step(s, WithEqu(s, n, x), m, X, 0)
  <2>1. x.mp = NA => x.role \in {"undefined", "objective"}
    <3>1. s.equs[e].mp = NA => s.equs[e].role \in {"undefined", "objective"}
      BY DEF Sound, UnownedRoles
    <3>2. x.mp = s.equs[e].mp /\ x.role = s.equs[e].role
      BY <1>2
    <3> QED
      BY <3>1, <3>2
  <2>2. x.active
    BY <1>2
  <2> QED
    BY <1>2, <2>1, <2>2, MetaStep
<1>7. s.equs[e].role \in {"undefined", "objective"} => Step(s, WithEqu(s, n, y), m, X, 0)
  BY <1>3, MetaStep, Zenon
<1> QED
  BY <1>2, <1>3, <1>4, <1>5, <1>6, <1>7 DEF x, y

\* Listing a copy that m owns, and counting it when it is a constraint of a VI.
Enlisted(s, m, n, d) ==
    WithMp(s, m, [s.mps[m] EXCEPT !.equs = @ \cup {n}, !.num_cons = @ + d])

\* It is a step.
LEMMA Enlist ==
  ASSUME NEW s, Sound(s), NEW m \in Mps, NEW n \in Equs, s.equs[n].mp = m, s.equs[n].active,
         NEW d \in {0, 1}, NEW X
  PROVE  /\ Step(s, Enlisted(s, m, n, d), m, X, d)
         /\ n \in Enlisted(s, m, n, d).mps[m].equs
         /\ Enlisted(s, m, n, d).mps[m].objvar = s.mps[m].objvar
<1> DEFINE x == [s.mps[m] EXCEPT !.equs = @ \cup {n}, !.num_cons = @ + d]
<1>1. s \in Mdls /\ s.mps[m] \in MpRecs
  BY Records, Owners
<1>2. x \in MpRecs
  <2>1. s.mps[m].num_cons + d \in Nat /\ s.mps[m].equs \cup {n} \in SUBSET Equs
    BY <1>1, Records
  <2> QED
    BY <1>1, <2>1, Zenon DEF MpRecs
<1>3. /\ x.objequ = s.mps[m].objequ /\ x.objvar = s.mps[m].objvar
      /\ x.vars = s.mps[m].vars /\ x.equs = s.mps[m].equs \cup {n}
      /\ x.alive = s.mps[m].alive /\ x.sense = s.mps[m].sense
      /\ x.num_cons <= s.mps[m].num_cons + d /\ x.num_zeros <= s.mps[m].num_zeros + d
  BY <1>1 DEF MpRecs
<1> HIDE DEF x
<1>4. Relists(s, m, x, X, d)
  BY <1>3 DEF Relists
<1>5. Step(s, WithMp(s, m, x), m, X, d) /\ WithMp(s, m, x).mps[m] = x
  BY <1>1, <1>2, <1>4, ListStep, WithMpFields
<1> QED
  BY <1>3, <1>5, Zenon DEF Enlisted, x

\* mp_addconstraint for a constraint that is nobody's yet.
LEMMA AddNewConstraint ==
  ASSUME NEW s \in Mdls, NEW m \in Mps, NEW n \in Equs, s.equs[n].mp = NA,
         s.equs[n].role = "constraint"
  PROVE  mp_addconstraint(s, m, n)
           = OK(WithMp(WithEqu(s, n, [s.equs[n] EXCEPT !.mp = m]), m,
                       [s.mps[m] EXCEPT !.equs = @ \cup {n},
                                        !.num_cons = IF IsVi(s, m) THEN @ + 1 ELSE @]))
<1> DEFINE x == [s.equs[n] EXCEPT !.mp = m]
           y == [s.mps[m] EXCEPT !.equs = @ \cup {n}]
           t == WithEqu(s, n, x)
           g == WithMp(t, m, y)
           z == [y EXCEPT !.num_cons = IF IsVi(s, m) THEN @ + 1 ELSE @]
<1>1. s.equs[n] \in EquMetas /\ s.mps[m] \in MpRecs
  BY Records
<1>2. x \in EquMetas /\ x.role = "constraint" /\ [x EXCEPT !.role = "constraint"] = x
  BY <1>1, Zenon DEF EquMetas
<1>3. /\ y \in MpRecs /\ y.sense = s.mps[m].sense
      /\ z = [s.mps[m] EXCEPT !.equs = @ \cup {n},
                              !.num_cons = IF IsVi(s, m) THEN @ + 1 ELSE @]
  BY <1>1 DEF MpRecs
<1>4. mp_addequchk(s, m, n) = OK(g)
  BY DEF mp_addequchk, WithEqu, WithMp, Mdls
<1> HIDE DEF x, y, z
<1>5. /\ t \in Mdls /\ t.equs[n] = x /\ t.mps = s.mps
      /\ g \in Mdls /\ g.equs = t.equs /\ g.mps[m] = y
  BY <1>2, <1>3, WithEquFields, WithMpFields, WithTypes
<1>6. IsVi(g, m) <=> IsVi(s, m)
  BY <1>3, <1>5 DEF IsVi
<1> HIDE DEF g
<1>7. mp_addconstraint(s, m, n)
        = OK([g EXCEPT !.equs[n].role = IF @ = "undefined" THEN "constraint" ELSE @,
                       !.mps[m].num_cons = IF IsVi(g, m) THEN @ + 1 ELSE @])
  BY <1>4 DEF mp_addconstraint, Then, OK
<1>8. [g EXCEPT !.equs[n].role = IF @ = "undefined" THEN "constraint" ELSE @] = g
  <2>1. [g EXCEPT !.equs[n].role = IF @ = "undefined" THEN "constraint" ELSE @]
          = WithEqu(g, n, [x EXCEPT !.role = "constraint"])
    BY <1>2, <1>5, Zenon DEF WithEqu, Mdls
  <2>2. WithEqu(g, n, x) = g
    BY <1>5 DEF WithEqu, Mdls
  <2> QED
    BY <1>2, <2>1, <2>2
<1>9. [g EXCEPT !.equs[n].role = IF @ = "undefined" THEN "constraint" ELSE @,
                !.mps[m].num_cons = IF IsVi(g, m) THEN @ + 1 ELSE @]
        = [g EXCEPT !.mps[m].num_cons = IF IsVi(g, m) THEN @ + 1 ELSE @]
  BY <1>8, Zenon
<1>10. [g EXCEPT !.mps[m].num_cons = IF IsVi(g, m) THEN @ + 1 ELSE @] = WithMp(g, m, z)
  BY <1>5, <1>6, Zenon DEF WithMp, Mdls, z
<1>11. WithMp(g, m, z) = WithMp(t, m, z)
  BY <1>5, Zenon DEF WithMp, Mdls, g
<1> QED
  BY <1>3, <1>7, <1>9, <1>10, <1>11 DEF x

\* rmdl_equ_dup_except: the objective equation of the MP may leave the list too.
LEMMA DupExceptStep ==
  ASSUME NEW s, Sound(s), NEW e \in Equs, s.equs[e].active, NEW n \in Spare(s), NEW v0,
         NEW X, e \in X, \A k \in Mps : s.equs[e].mp = k => s.mps[k].objequ \in X,
         NEW r, r = rmdl_equ_dup_except(s, e, n, v0)
  PROVE  /\ Step(s, r.mdl, s.equs[e].mp, X, 1)
         /\ r.ok => /\ Replaced(s, r.mdl, e, n)
                    /\ \A k \in Mps : r.mdl.mps[k].objvar = s.mps[k].objvar
<1> DEFINE m == s.equs[e].mp
           q == rmdl_rm_equ(AddCopy(s, e, n, v0), e)
           u == WithRes(q.mdl, e, n)
           c == WithEqu(u, n, Taken(u, e, n))
           w == WithEqu(u, n, NotYet(u, e, n))
<1>1. /\ Step(s, q.mdl, m, X, 0) /\ q.ok \in BOOLEAN
      /\ Step(s, u, m, X, 0) /\ q.mdl.equs[e].mp = m
      /\ u = [q.mdl EXCEPT !.equs[e].res = n] /\ Noted(s, u, e, n)
  <2> HIDE DEF q
  <2>1. q = rmdl_rm_equ(AddCopy(s, e, n, v0), e)
    BY DEF q
  <2>2. Copying(s, q, e, n, X)
    BY <2>1, CopyOut
  <2> QED
    BY <2>2 DEF Copying
<1>2. s.equs[e] \in EquMetas /\ m \in Mps \cup {NA}
  <2>1. s.equs[e] \in EquMetas
    BY Owners, Records
  <2> QED
    BY <2>1 DEF EquMetas
<1>3. /\ Sound(u) /\ u \in Mdls /\ n \in Equs /\ n # e /\ u.equs[n].mp = NA /\ u.equs[n].active
      /\ u.equs[n].role = "undefined"
  <2> HIDE DEF u
  <2>1. Sound(u) /\ u \in Mdls
    BY <1>1 DEF Step, Sound
  <2>2. n \in Equs /\ n # e /\ u.equs[n] = Fresh(s, e)
    BY <1>1 DEF Noted
  <2> QED
    BY <2>1, <2>2 DEF Fresh, NoEqu
<1>4. u.equs[e].mp = m /\ u.equs[e].role = s.equs[e].role
  BY <1>1, <1>2, Zenon DEF Noted, EquMetas
<1> HIDE DEF u
<1>5. /\ CopyMeta(u, e, n) = c /\ [CopyMeta(u, e, n) EXCEPT !.equs[n].mp = NA] = w
      /\ Taken(u, e, n) \in EquMetas /\ NotYet(u, e, n) \in EquMetas
      /\ Taken(u, e, n).role = s.equs[e].role /\ NotYet(u, e, n).role = s.equs[e].role
      /\ Taken(u, e, n).mp = m /\ NotYet(u, e, n).mp = NA
      /\ Taken(u, e, n).active /\ NotYet(u, e, n).active
  BY <1>3, <1>4, CopyMetaStep
<1>6. Step(u, c, m, X, 0)
  BY <1>3, CopyMetaStep
<1>7. s.equs[e].role \in {"undefined", "objective"} => Step(u, w, m, X, 0)
  BY <1>3, <1>4, CopyMetaStep
<1>8. /\ c \in Mdls /\ c.equs[n] = Taken(u, e, n) /\ c.mps = u.mps /\ c.vars = u.vars
      /\ w \in Mdls /\ w.equs[n] = NotYet(u, e, n) /\ w.mps = u.mps
  BY <1>3, <1>5, WithEquFields, WithTypes
<1>9. ASSUME NEW t, Step(u, t, m, X, 1),
             m # NA => n \in t.mps[m].equs /\ t.mps[m].objvar = u.mps[m].objvar
      PROVE  /\ Step(s, t, m, X, 1) /\ Replaced(s, t, e, n)
             /\ \A k \in Mps : t.mps[k].objvar = s.mps[k].objvar
  <2>1. ~ t.equs[e].active /\ t.equs[e].res = n
    BY <1>1, <1>9, NotedStays
  <2>2. Replaced(s, t, e, n)
    BY <1>9, <2>1 DEF Replaced
  <2>3. \A k \in Mps : u.mps[k].objvar = s.mps[k].objvar
    BY <1>1 DEF Noted
  <2>4. \A k \in Mps : k # m => t.mps[k] = u.mps[k]
    BY <1>9 DEF Step, Keeps
  <2>5. \A k \in Mps : t.mps[k].objvar = s.mps[k].objvar
    BY <1>2, <1>9, <2>3, <2>4, Owners
  <2>6. Step(s, t, m, X, 1)
    BY <1>1, <1>9, Chain
  <2> QED
    BY <2>2, <2>5, <2>6
<1>10. r = IF ~ q.ok THEN q
           ELSE IF m = NA THEN OK(c)
           ELSE IF s.equs[e].role = "objective" THEN mp_setobjequ(w, m, n)
           ELSE IF s.equs[e].role = "vifunction" THEN OK([c EXCEPT !.mps[m].equs = @ \cup {n}])
           ELSE IF s.equs[e].role = "constraint" THEN mp_addconstraint(w, m, n)
           ELSE Error(w)
  <2>1. c.equs[n].role = s.equs[e].role
    BY <1>5, <1>8
  <2> HIDE DEF c, w
  <2>2. q.ok => r = CASE m = NA -> OK(c)
                    [] m # NA /\ c.equs[n].role = "objective" -> mp_setobjequ(w, m, n)
                    [] m # NA /\ c.equs[n].role = "vifunction" -> OK([c EXCEPT !.mps[m].equs = @ \cup {n}])
                    [] m # NA /\ c.equs[n].role = "constraint" -> mp_addconstraint(w, m, n)
                    [] OTHER -> Error(w)
    BY <1>1, <1>5, Zenon DEF rmdl_equ_dup_except, Then
  <2>3. ~ q.ok => r = q
    BY DEF rmdl_equ_dup_except, Then
  <2> QED
    BY <2>1, <2>2, <2>3
<1> HIDE DEF q
<1>11. CASE ~ q.ok
  <2>1. r = q
    BY <1>10, <1>11
  <2> QED
    BY <1>1, <1>11, <2>1, Wider
<1>12. CASE q.ok /\ m = NA
  <2>1. r.mdl = c
    BY <1>10, <1>12 DEF OK
  <2> HIDE DEF c, w, m
  <2>2. Step(u, c, m, X, 1)
    BY <1>3, <1>6, Wider
  <2>3. /\ Step(s, c, m, X, 1) /\ Replaced(s, c, e, n)
        /\ \A k \in Mps : c.mps[k].objvar = s.mps[k].objvar
    BY <1>9, <1>12, <2>2
  <2> QED
    BY <2>1, <2>3 DEF m
<1>13. CASE q.ok /\ m # NA /\ s.equs[e].role = "objective"
  <2>1. r = mp_setobjequ(w, m, n) /\ m \in Mps
    BY <1>2, <1>10, <1>13
  <2>2. Step(u, w, m, X, 0) /\ Sound(w)
    BY <1>7, <1>13 DEF Step
  <2>3. w.mps[m].objequ \in X
    <3>1. u.mps[m].objequ = s.mps[m].objequ
      BY <1>1, <2>1 DEF Noted
    <3> QED
      BY <1>8, <2>1, <3>1
  <2>4. w.equs[n].active /\ w.mps[m].objvar = u.mps[m].objvar
    BY <1>5, <1>8
  <2> HIDE DEF c, w, m
  <2>5. /\ Step(w, r.mdl, m, X, 0)
        /\ r.ok => n \in r.mdl.mps[m].equs /\ r.mdl.mps[m].objvar = w.mps[m].objvar
    BY <1>3, <2>1, <2>2, <2>3, <2>4, SetObjEquStep
  <2>6. Step(u, r.mdl, m, X, 0)
    BY <1>3, <2>2, <2>5, Chain
  <2>7. Step(u, r.mdl, m, X, 1)
    BY <1>3, <2>6, Wider
  <2>8. Step(s, r.mdl, m, X, 1)
    BY <1>1, <2>7, Chain
  <2>9. r.ok => /\ Replaced(s, r.mdl, e, n)
                /\ \A k \in Mps : r.mdl.mps[k].objvar = s.mps[k].objvar
    BY <1>9, <2>4, <2>5, <2>7
  <2> QED
    BY <2>8, <2>9 DEF m
<1>14. CASE q.ok /\ m # NA /\ s.equs[e].role = "vifunction"
  <2> DEFINE y == [c.mps[m] EXCEPT !.equs = @ \cup {n}, !.num_cons = @ + 0]
             t == Enlisted(c, m, n, 0)
  <2>1. r = OK([c EXCEPT !.mps[m].equs = @ \cup {n}]) /\ m \in Mps
    BY <1>2, <1>10, <1>14
  <2>2. Sound(c) /\ c.equs[n].mp = m /\ c.equs[n].active /\ c.mps[m] \in MpRecs
    BY <1>5, <1>6, <1>8, <2>1, Records DEF Step
  <2> HIDE DEF c, m
  <2>3. Step(c, t, m, X, 0) /\ n \in t.mps[m].equs /\ t.mps[m].objvar = c.mps[m].objvar
    BY <1>3, <2>1, <2>2, Enlist, Zenon
  <2>4. y = [c.mps[m] EXCEPT !.equs = @ \cup {n}]
    <3>1. c.mps[m].num_cons + 0 = c.mps[m].num_cons
      BY <2>2 DEF MpRecs
    <3>2. [[c.mps[m] EXCEPT !.equs = @ \cup {n}] EXCEPT !.num_cons = c.mps[m].num_cons]
            = [c.mps[m] EXCEPT !.equs = @ \cup {n}]
      BY <2>2, Zenon DEF MpRecs
    <3> QED
      BY <3>1, <3>2, Zenon
  <2>5. t = [c EXCEPT !.mps[m].equs = @ \cup {n}]
    <3>1. t = WithMp(c, m, y)
      BY DEF Enlisted
    <3> HIDE DEF y, t
    <3> QED
      BY <1>8, <2>4, <3>1 DEF WithMp, Mdls
  <2> HIDE DEF t
  <2>6. r.mdl = t
    BY <2>1, <2>5 DEF OK
  <2>7. Step(u, t, m, X, 0)
    BY <1>3, <1>6, <2>3, Chain
  <2>8. Step(u, t, m, X, 1)
    BY <1>3, <2>7, Wider
  <2>9. /\ Step(s, t, m, X, 1) /\ Replaced(s, t, e, n)
        /\ \A k \in Mps : t.mps[k].objvar = s.mps[k].objvar
    BY <1>8, <1>9, <2>3, <2>8
  <2> QED
    BY <2>6, <2>9 DEF m
<1>15. CASE q.ok /\ m # NA /\ s.equs[e].role = "constraint"
  <2> DEFINE d == IF IsVi(w, m) THEN 1 ELSE 0
             y == [c.mps[m] EXCEPT !.equs = @ \cup {n}, !.num_cons = @ + d]
             t == Enlisted(c, m, n, d)
             x == [NotYet(u, e, n) EXCEPT !.mp = m]
  <2>1. r = mp_addconstraint(w, m, n) /\ m \in Mps
    BY <1>2, <1>10, <1>15
  <2>2. Sound(c) /\ c.equs[n].mp = m /\ c.equs[n].active /\ c.mps[m] \in MpRecs
    BY <1>5, <1>6, <1>8, <2>1, Records DEF Step
  <2>3. d \in {0, 1}
    OBVIOUS
  <2>4. WithEqu(w, n, x) = c
    <3>1. u.equs[n] \in EquMetas
      BY <1>3, Records
    <3>2. x = Taken(u, e, n)
      BY <1>5, Zenon DEF NotYet, EquMetas
    <3> HIDE DEF x
    <3>3. WithEqu(w, n, x) = WithEqu(u, n, x)
      BY <1>3, Zenon DEF WithEqu, Mdls
    <3> QED
      BY <3>2, <3>3
  <2>5. r = OK(WithMp(c, m, [w.mps[m] EXCEPT !.equs = @ \cup {n},
                                            !.num_cons = IF IsVi(w, m) THEN @ + 1 ELSE @]))
    <3>1. w \in Mdls /\ w.equs[n].mp = NA /\ w.equs[n].role = "constraint"
      BY <1>5, <1>8, <1>15
    <3>2. w.equs[n] = NotYet(u, e, n)
      BY <1>8
    <3> HIDE DEF w, c, m
    <3> QED
      BY <1>3, <2>1, <2>4, <3>1, <3>2, AddNewConstraint, Zenon
  <2>6. y = [w.mps[m] EXCEPT !.equs = @ \cup {n},
                             !.num_cons = IF IsVi(w, m) THEN @ + 1 ELSE @]
    <3>1. w.mps[m] = c.mps[m] /\ c.mps[m] \in MpRecs
      BY <1>8, <2>2
    <3> HIDE DEF w, c, m
    <3>2. c.mps[m].num_cons \in Nat
      BY <3>1 DEF MpRecs
    <3>3. c.mps[m].num_cons + d = IF IsVi(w, m) THEN c.mps[m].num_cons + 1 ELSE c.mps[m].num_cons
      BY <3>2
    <3> QED
      BY <3>1, <3>3, Zenon
  <2>0. t = WithMp(c, m, y)
    BY DEF Enlisted
  <2> HIDE DEF c, w, m, d
  <2>7. Step(c, t, m, X, d) /\ n \in t.mps[m].equs /\ t.mps[m].objvar = c.mps[m].objvar
    BY <1>3, <2>1, <2>2, <2>3, Enlist, ZenonT(40)
  <2> HIDE DEF y, t
  <2>8. r.mdl = t
    BY <2>0, <2>5, <2>6 DEF OK
  <2>9. Step(c, t, m, X, 1)
    BY <2>2, <2>3, <2>7, Wider
  <2>10. Step(u, t, m, X, 1)
    BY <1>3, <1>6, <2>9, Chain
  <2>11. /\ Step(s, t, m, X, 1) /\ Replaced(s, t, e, n)
         /\ \A k \in Mps : t.mps[k].objvar = s.mps[k].objvar
    BY <1>8, <1>9, <2>7, <2>10
  <2> QED
    BY <2>8, <2>11 DEF m
<1>16. CASE q.ok /\ m # NA /\ s.equs[e].role \notin {"objective", "vifunction", "constraint"}
  <2>1. r = Error(w) /\ s.equs[e].role = "undefined"
    <3>1. s.equs[e].role \in {"undefined", "objective", "vifunction", "constraint"}
      BY <1>2 DEF EquMetas
    <3> QED
      BY <1>10, <1>16, <3>1
  <2>2. r.mdl = w /\ ~ r.ok
    BY <2>1 DEF Error
  <2> HIDE DEF w, m
  <2>3. Step(s, w, m, X, 0)
    BY <1>1, <1>7, <2>1, Chain
  <2>4. Step(s, w, m, X, 1)
    BY <2>3, Wider
  <2> QED
    BY <2>2, <2>4 DEF m
<1> QED
  BY <1>1, <1>11, <1>12, <1>13, <1>14, <1>15, <1>16

\* rmdl_equ_flip.
LEMMA FlipStep ==
  ASSUME NEW s, Sound(s), NEW e \in Equs, s.equs[e].active, NEW n \in Spare(s),
         NEW r, r = rmdl_equ_flip(s, e, n)
  PROVE  /\ Step(s, r.mdl, s.equs[e].mp, {e}, 0)
         /\ r.ok => Replaced(s, r.mdl, e, n)
<1> DEFINE m == s.equs[e].mp
           t == AddCopy(s, e, n, NA)
           z == [t.equs[e] EXCEPT !.res = n]
           u == WithRes(t, e, n)
           c == WithEqu(u, n, Taken(u, e, n))
           w == WithEqu(u, n, NotYet(u, e, n))
           g == Enlisted(c, m, n, 0)
<1>1. s.equs[e] \in EquMetas /\ m \in Mps \cup {NA} /\ n \in Equs
  <2>1. s.equs[e] \in EquMetas /\ n \in Equs
    BY Owners, Records DEF Spare
  <2> QED
    BY <2>1 DEF EquMetas
<1>2. Step(s, t, m, {e}, 0) /\ Copied(s, t, e, n)
  BY AddCopyStep
<1>3. /\ Sound(t) /\ t \in Mdls /\ t.equs[e] = s.equs[e] /\ t.equs[n] = Fresh(s, e) /\ n # e
      /\ t.mps = s.mps
  BY <1>2 DEF Step, Sound, Copied
<1>4. r = IF s.equs[e].cone = "none" THEN Error(t)
          ELSE Then(IF m = NA THEN OK(CopyMeta([t EXCEPT !.equs[e].res = n], e, n))
                    ELSE mp_addequ([CopyMeta([t EXCEPT !.equs[e].res = n], e, n)
                                      EXCEPT !.equs[n].mp = NA], m, n),
                    LAMBDA a : rmdl_rm_equ(a, e))
  BY DEF rmdl_equ_flip
<1> HIDE DEF t, m
<1>5. u = [t EXCEPT !.equs[e].res = n]
  BY <1>3 DEF WithRes, WithEqu, Mdls
<1>6. /\ z \in EquMetas /\ z.mp = m /\ z.active = s.equs[e].active /\ z.role = s.equs[e].role
      /\ z.object = s.equs[e].object /\ z.res = n
  BY <1>1, <1>3, Zenon DEF EquMetas, m
<1>7. u = WithEqu(t, e, z)
  BY DEF WithRes
<1> HIDE DEF z, u
<1>8. Step(t, u, m, {e}, 0)
  <2>1. Marks(t.equs[e], z)
    BY <1>3, <1>6, Owners DEF Marks, m
  <2> QED
    BY <1>3, <1>6, <1>7, <2>1, SamePlace, Zenon DEF m
<1>9. Step(s, u, m, {e}, 0) /\ Sound(u) /\ u \in Mdls
  BY <1>2, <1>8, Chain DEF Step, Sound
<1>10. u.equs[e] = z /\ u.equs[n] = Fresh(s, e) /\ u.mps = s.mps
  BY <1>1, <1>3, <1>6, <1>7, WithEquFields
<1>11. u.equs[n].mp = NA /\ u.equs[n].active /\ u.equs[n].role = "undefined" /\ u.equs[n] \in EquMetas
  BY <1>1, <1>9, <1>10, Records DEF Fresh, NoEqu
<1>12. /\ CopyMeta(u, e, n) = c /\ [CopyMeta(u, e, n) EXCEPT !.equs[n].mp = NA] = w
       /\ Taken(u, e, n) \in EquMetas /\ NotYet(u, e, n) \in EquMetas
       /\ Taken(u, e, n).mp = m /\ NotYet(u, e, n).mp = NA
       /\ Taken(u, e, n).active
  BY <1>1, <1>3, <1>6, <1>9, <1>10, <1>11, CopyMetaStep, SMTT(30)
<1>13. Step(u, c, m, {e}, 0)
  BY <1>1, <1>3, <1>9, <1>11, CopyMetaStep
<1>14. Step(s, c, m, {e}, 0) /\ Sound(c)
  BY <1>9, <1>13, Chain DEF Step
<1>15. /\ c \in Mdls /\ c.equs[n] = Taken(u, e, n) /\ c.mps = u.mps /\ c.equs[e] = z
       /\ w \in Mdls /\ w.equs[n] = NotYet(u, e, n) /\ w.mps = u.mps
  BY <1>1, <1>3, <1>9, <1>10, <1>12, WithEquFields, WithTypes, SMTT(30)
<1>16. ASSUME NEW a, Sound(a), Step(s, a, m, {e}, 0), a.equs[e] = z, m # NA => n \in a.mps[m].equs,
              r = rmdl_rm_equ(a, e)
       PROVE  Step(s, r.mdl, m, {e}, 0) /\ Replaced(s, r.mdl, e, n)
  <2>1. e \in {e}
    OBVIOUS
  <2>2. Step(a, r.mdl, a.equs[e].mp, {e}, 0) /\ Removed(a, r.mdl, e)
    BY <1>16, <2>1, RmEquStep
  <2>3. Step(a, r.mdl, m, {e}, 0)
    BY <1>6, <1>16, <2>2
  <2>4. Step(s, r.mdl, m, {e}, 0)
    BY <1>16, <2>3, Chain
  <2>5. r.mdl.equs[e] = [z EXCEPT !.active = FALSE]
    BY <1>16, <2>2, Zenon DEF Removed
  <2>6. ~ r.mdl.equs[e].active /\ r.mdl.equs[e].res = n
    BY <1>6, <2>5 DEF EquMetas
  <2>7. m # NA => n \in r.mdl.mps[m].equs
    BY <1>1, <1>3, <1>16, <2>3 DEF Step, Keeps, m
  <2> QED
    BY <2>4, <2>6, <2>7 DEF Replaced, m
<1>17. CASE s.equs[e].cone = "none"
  <2>1. r.mdl = t /\ ~ r.ok
    BY <1>4, <1>17 DEF Error
  <2> QED
    BY <1>2, <2>1 DEF m
<1>18. CASE s.equs[e].cone # "none" /\ m = NA
  <2>1. r = rmdl_rm_equ(c, e)
    <3> HIDE DEF c
    <3> QED
      BY <1>4, <1>5, <1>12, <1>18 DEF Then, OK
  <2> HIDE DEF c
  <2> QED
    BY <1>14, <1>15, <1>16, <1>18, <2>1 DEF m
<1>19. CASE s.equs[e].cone # "none" /\ m # NA
  <2> DEFINE q == mp_addequ(w, m, n)
             x == [NotYet(u, e, n) EXCEPT !.mp = m]
             y == [w.mps[m] EXCEPT !.equs = @ \cup {n}]
  <2>1. m \in Mps
    BY <1>1, <1>19
  <2>2. r = IF q.ok THEN rmdl_rm_equ(q.mdl, e) ELSE q
    <3> HIDE DEF c, w
    <3> QED
      BY <1>4, <1>5, <1>12, <1>19, Zenon DEF Then
  <2>3. WithEqu(w, n, x) = c
    <3>1. x = Taken(u, e, n)
      BY <1>11, <1>12, Zenon DEF NotYet, EquMetas
    <3> HIDE DEF x
    <3>2. WithEqu(w, n, x) = WithEqu(u, n, x)
      BY <1>9, Zenon DEF WithEqu, Mdls
    <3> QED
      BY <3>1, <3>2
  <2>4. mp_addequchk(w, m, n) = OK(WithMp(c, m, y))
    <3>1. w.equs[n].mp = NA /\ w \in Mdls /\ w.equs[n] = NotYet(u, e, n)
      BY <1>12, <1>15
    <3> HIDE DEF w, c
    <3>2. mp_addequchk(w, m, n) = OK(WithMp(WithEqu(w, n, [w.equs[n] EXCEPT !.mp = m]), m, y))
      BY <3>1 DEF mp_addequchk, WithEqu, WithMp, Mdls
    <3> QED
      BY <2>3, <3>1, <3>2
  <2>5. WithMp(c, m, y) = g
    <3>1. w.mps[m] = c.mps[m] /\ c.mps[m] \in MpRecs
      BY <1>15, <2>1, Records
    <3> HIDE DEF w, c
    <3>2. c.mps[m].num_cons + 0 = c.mps[m].num_cons
      BY <3>1 DEF MpRecs
    <3>3. [[c.mps[m] EXCEPT !.equs = @ \cup {n}] EXCEPT !.num_cons = c.mps[m].num_cons]
            = [c.mps[m] EXCEPT !.equs = @ \cup {n}]
      BY <3>1, Zenon DEF MpRecs
    <3> QED
      BY <3>1, <3>2, <3>3, Zenon DEF Enlisted
  <2>6. q.mdl = g /\ q.ok \in BOOLEAN
    <3> HIDE DEF g, w, c
    <3>1. OK(g).ok = TRUE /\ OK(g).mdl = g
      BY DEF OK
    <3>2. mp_addequchk(w, m, n) = OK(g)
      BY <2>4, <2>5
    <3>3. q = IF OK(g).ok
              THEN IF OK(g).mdl.equs[n].role = "undefined" THEN Error(OK(g).mdl) ELSE OK(OK(g).mdl)
              ELSE OK(g)
      BY <3>2 DEF mp_addequ, Then
    <3>4. q = OK(g) \/ q = Error(g)
      BY <3>1, <3>3
    <3> HIDE DEF q
    <3>5. Error(g).ok = FALSE /\ Error(g).mdl = g
      BY DEF Error
    <3> QED
      BY <3>1, <3>4, <3>5, Zenon
  <2>7. c.equs[n].mp = m /\ c.equs[n].active
    BY <1>12, <1>15
  <2>8. g.equs = c.equs
    <3>1. c.mps[m] \in MpRecs
      BY <1>15, <2>1, Records
    <3> HIDE DEF c
    <3> QED
      BY <1>15, <2>1, WithMpFields DEF Enlisted
  <2> HIDE DEF c, q, w
  <2>9. Step(c, g, m, {e}, 0) /\ n \in g.mps[m].equs
    BY <1>1, <1>14, <2>1, <2>7, Enlist
  <2> HIDE DEF g
  <2>10. Step(s, g, m, {e}, 0) /\ Sound(g) /\ g.equs[e] = z
    BY <1>14, <1>15, <2>8, <2>9, Chain DEF Step
  <2>11. CASE q.ok
    BY <1>16, <2>2, <2>6, <2>9, <2>10, <2>11, Zenon DEF m
  <2>12. CASE ~ q.ok
    BY <2>2, <2>6, <2>10, <2>12 DEF m
  <2> QED
    BY <2>6, <2>11, <2>12
<1> QED
  BY <1>17, <1>18, <1>19

AsMapping(s, n) == [s EXCEPT !.equs[n].object = "mapping"]

\* An equation of the model that becomes a mapping.
LEMMA MappingStep ==
  ASSUME NEW s, Sound(s), NEW n \in Equs, s.equs[n].active, NEW m, NEW X
  PROVE  Step(s, AsMapping(s, n), m, X, 0) /\ AsMapping(s, n).mps = s.mps
<1> DEFINE x == [s.equs[n] EXCEPT !.object = "mapping"]
<1>1. s \in Mdls /\ s.equs[n] \in EquMetas
  BY Records, Owners
<1>2. AsMapping(s, n) = WithEqu(s, n, x)
  BY <1>1 DEF AsMapping, WithEqu, Mdls
<1>3. /\ x \in EquMetas /\ x.mp = s.equs[n].mp /\ x.active = s.equs[n].active
      /\ x.object = "mapping" /\ x.role = s.equs[n].role
  BY <1>1, Zenon DEF EquMetas, Objects
<1> HIDE DEF x
<1>4. Marks(s.equs[n], x)
  BY <1>3, Owners DEF Marks
<1>5. Step(s, WithEqu(s, n, x), m, X, 0)
  BY <1>1, <1>3, <1>4, SamePlace, Zenon
<1>6. WithEqu(s, n, x).mps = s.mps
  BY <1>1, WithEquFields
<1> QED
  BY <1>2, <1>5, <1>6 DEF x

\* The objective equation of m is copied and the copy becomes a mapping.
LEMMA CopyObjective ==
  ASSUME NEW s, Sound(s), NEW m \in Mps, s.mps[m].alive, s.mps[m].objequ \in Equs,
         s.equs[s.mps[m].objequ].active, s.equs[s.mps[m].objequ].mp = m,
         NEW n \in Spare(s), NEW X, s.mps[m].objequ \in X,
         NEW q, q = rmdl_equ_dup_except(s, s.mps[m].objequ, n, s.mps[m].objvar),
         NEW u, u = AsMapping(q.mdl, n)
  PROVE  /\ Step(s, q.mdl, m, X, 1)
         /\ q.ok => Step(s, u, m, X, 1) /\ u.mps[m].objvar = s.mps[m].objvar
<1> DEFINE e == s.mps[m].objequ
<1>1. \A k \in Mps : s.equs[e].mp = k => s.mps[k].objequ \in X
  OBVIOUS
<1>2. /\ e \in Equs /\ s.equs[e].active /\ s.equs[e].mp = m /\ e \in X
      /\ q = rmdl_equ_dup_except(s, e, n, s.mps[m].objvar) /\ n \in Equs
  BY DEF Spare
<1> HIDE DEF e
<1>3. /\ Step(s, q.mdl, s.equs[e].mp, X, 1)
      /\ q.ok => /\ Replaced(s, q.mdl, e, n)
                 /\ \A k \in Mps : q.mdl.mps[k].objvar = s.mps[k].objvar
  BY <1>1, <1>2, DupExceptStep
<1>4. Step(s, q.mdl, m, X, 1) /\ Sound(q.mdl) /\ q.mdl.mps[m].alive
  BY <1>2, <1>3, Zenon DEF Step, Keeps
<1>5. ASSUME q.ok PROVE Step(s, u, m, X, 1) /\ u.mps[m].objvar = s.mps[m].objvar
  <2>1. n \in q.mdl.mps[m].equs
    BY <1>2, <1>3, <1>5, Owners DEF Replaced
  <2>2. q.mdl.equs[n].active
    BY <1>2, <1>4, <2>1, Owners
  <2>3. Step(q.mdl, u, m, X, 0) /\ u.mps = q.mdl.mps
    BY <1>2, <1>4, <2>2, MappingStep
  <2>4. Step(s, u, m, X, 1)
    BY <1>4, <2>3, Chain
  <2> QED
    BY <1>3, <1>5, <2>3, <2>4, Zenon
<1> QED
  BY <1>4, <1>5

\* rmdl_mp_objequ2objfun: the objective equation and variable may leave the lists.
LEMMA ObjFunStep ==
  ASSUME NEW s, Sound(s), NEW m \in Mps, s.mps[m].alive, s.mps[m].objequ \in Equs,
         s.equs[s.mps[m].objequ].active, s.equs[s.mps[m].objequ].mp = m,
         NEW n \in Spare(s), NEW r, r = rmdl_mp_objequ2objfun(s, m, n)
  PROVE  Step(s, r.mdl, m, {s.mps[m].objequ, s.mps[m].objvar}, 1)
<1> DEFINE X == {s.mps[m].objequ, s.mps[m].objvar}
           q == rmdl_equ_dup_except(s, s.mps[m].objequ, n, s.mps[m].objvar)
           u == AsMapping(q.mdl, n)
           g == mp_setobjvar(u, m, NA)
<1>1. s.mps[m].objequ \in X /\ s.mps[m].objvar \in X
  OBVIOUS
<1>2. r = IF q.ok THEN g ELSE q
  BY DEF rmdl_mp_objequ2objfun, Then, AsMapping
<1> HIDE DEF X, q
<1>3. /\ Step(s, q.mdl, m, X, 1)
      /\ q.ok => Step(s, u, m, X, 1) /\ u.mps[m].objvar = s.mps[m].objvar
  <2>1. /\ q = rmdl_equ_dup_except(s, s.mps[m].objequ, n, s.mps[m].objvar)
        /\ u = AsMapping(q.mdl, n)
    BY DEF q
  <2> HIDE DEF g, u
  <2> QED
    BY <1>1, <2>1, CopyObjective
<1> HIDE DEF u
<1>4. CASE q.ok
  <2>1. u.mps[m].objvar \in X /\ Sound(u)
    BY <1>1, <1>3, <1>4 DEF Step
  <2>2. Step(u, g.mdl, m, X, 0)
    BY <2>1, SetObjVarStep
  <2>3. Step(s, g.mdl, m, X, 1)
    BY <1>3, <1>4, <2>2, Chain
  <2> QED
    BY <1>2, <1>4, <2>3 DEF X
<1>5. CASE ~ q.ok
  BY <1>2, <1>3, <1>5 DEF X
<1> QED
  BY <1>4, <1>5

\* rmdl_equ_defmap2map: so they may here.
LEMMA DefMapStep ==
  ASSUME NEW s, Sound(s), NEW m \in Mps, s.mps[m].alive, s.mps[m].objequ \in Equs,
         s.equs[s.mps[m].objequ].active, s.equs[s.mps[m].objequ].mp = m,
         NEW n \in Spare(s), NEW r, r = rmdl_equ_defmap2map(s, m, n)
  PROVE  Step(s, r.mdl, m, {s.mps[m].objequ, s.mps[m].objvar}, 1)
<1> DEFINE X == {s.mps[m].objequ, s.mps[m].objvar}
           v == s.mps[m].objvar
           q == rmdl_equ_dup_except(s, s.mps[m].objequ, n, s.mps[m].objvar)
           u == AsMapping(q.mdl, n)
           y == [u.mps[m] EXCEPT !.vars = @ \ {v}, !.objvar = NA]
<1>1. s.mps[m].objequ \in X /\ v \in X
  OBVIOUS
<1>2. /\ ~ q.ok => r = q
      /\ q.ok => r = IF v \notin u.mps[m].vars THEN Error(u)
                     ELSE OK([u EXCEPT !.mps[m].vars = @ \ {v}, !.mps[m].objvar = NA])
  <2>1. ASSUME ~ q.ok PROVE r = q
    BY <2>1 DEF rmdl_equ_defmap2map, Then, AsMapping
  <2>2. ASSUME q.ok
        PROVE  r = IF v \notin u.mps[m].vars THEN Error(u)
                   ELSE OK([u EXCEPT !.mps[m].vars = @ \ {v}, !.mps[m].objvar = NA])
    BY <2>2, Zenon DEF rmdl_equ_defmap2map, Then, AsMapping
  <2> QED
    BY <2>1, <2>2, Zenon
<1> HIDE DEF X, q
<1>3. /\ Step(s, q.mdl, m, X, 1)
      /\ q.ok => Step(s, u, m, X, 1)
  <2>1. /\ q = rmdl_equ_dup_except(s, s.mps[m].objequ, n, s.mps[m].objvar)
        /\ u = AsMapping(q.mdl, n)
    BY DEF q
  <2> HIDE DEF u, v, y
  <2> QED
    BY <1>1, <2>1, CopyObjective
<1> HIDE DEF u, v
<1>4. CASE ~ q.ok
  BY <1>2, <1>3, <1>4 DEF X
<1>5. CASE q.ok /\ v \notin u.mps[m].vars
  <2>1. r.mdl = u
    BY <1>2, <1>5 DEF Error
  <2> QED
    BY <1>3, <1>5, <2>1 DEF X
<1>6. CASE q.ok /\ v \in u.mps[m].vars
  <2>1. Sound(u) /\ u \in Mdls /\ u.mps[m] \in MpRecs
    BY <1>3, <1>6, Owners, Records DEF Step
  <2>2. r.mdl = WithMp(u, m, y)
    <3>1. r.mdl = [u EXCEPT !.mps[m].vars = @ \ {v}, !.mps[m].objvar = NA]
      BY <1>2, <1>6 DEF OK
    <3>2. DOMAIN u.mps = Mps /\ u = [vars |-> u.vars, equs |-> u.equs, mps |-> u.mps,
                                    column |-> u.column]
      BY <2>1 DEF Mdls
    <3>3. [u EXCEPT !.mps[m].vars = @ \ {v}, !.mps[m].objvar = NA]
            = [u EXCEPT !.mps[m] = y]
      BY <2>1, <3>2, Zenon DEF Mdls, MpRecs
    <3>4. [u EXCEPT !.mps[m] = y] = WithMp(u, m, y)
      BY <3>2 DEF WithMp
    <3> QED
      BY <3>1, <3>3, <3>4
  <2>3. y \in MpRecs
    BY <2>1, Zenon DEF MpRecs
  <2>4. /\ y.objequ = u.mps[m].objequ
        /\ y.vars = u.mps[m].vars \ {v} /\ y.equs = u.mps[m].equs
        /\ y.alive = u.mps[m].alive /\ y.sense = u.mps[m].sense
        /\ y.objvar = NA
        /\ y.num_cons <= u.mps[m].num_cons + 0 /\ y.num_zeros <= u.mps[m].num_zeros + 0
    BY <2>1 DEF MpRecs
  <2> HIDE DEF y
  <2>5. Relists(u, m, y, X, 0)
    BY <1>1, <2>4 DEF Relists
  <2>6. Step(u, r.mdl, m, X, 0)
    BY <2>1, <2>2, <2>3, <2>5, ListStep
  <2>7. Step(s, r.mdl, m, X, 1)
    BY <1>3, <1>6, <2>6, Chain
  <2> QED
    BY <2>7 DEF X
<1> QED
  BY <1>4, <1>5, <1>6

\* mp_ensure_obequ: it fails in a VI; the objective variable may leave the list.
LEMMA EnsureStep ==
  ASSUME NEW s, Sound(s), NEW m \in Mps, NEW n \in Spare(s), NEW r, r = mp_ensure_obequ(s, m, n)
  PROVE  /\ Step(s, r.mdl, m, {s.mps[m].objequ, s.mps[m].objvar}, 0)
         /\ r.ok => IsOpt(s, m)
<1> DEFINE X == {s.mps[m].objequ, s.mps[m].objvar}
           x == [NoEqu EXCEPT !.active = TRUE, !.object = "mapping"]
           t == WithEqu(s, n, x)
           q == ClearObjVar(t, m)
           g == mp_setobjequ(q.mdl, m, n)
<1>1. s.mps[m].objequ \in X /\ s.mps[m].objvar \in X
  OBVIOUS
<1>2. s \in Mdls /\ n \in Equs /\ s.equs[n] \in EquMetas /\ s.equs[n].object = "none"
  BY Owners, Records DEF Spare
<1>3. CASE ~ IsOpt(s, m)
  <2>1. r.mdl = s /\ r.ok = FALSE
    BY <1>3, Zenon DEF mp_ensure_obequ, Error
  <2> QED
    BY <2>1, NoStep
<1>4. CASE IsOpt(s, m) /\ s.mps[m].objequ # NA
  <2>1. r.mdl = s
    BY <1>4, Zenon DEF mp_ensure_obequ, OK
  <2> QED
    BY <1>4, <2>1, NoStep
<1>5. CASE IsOpt(s, m) /\ s.mps[m].objequ = NA
  <2>1. t = [s EXCEPT !.equs[n] = x]
    BY <1>2 DEF WithEqu, Mdls
  <2> HIDE DEF X
  <2>2. r.mdl = IF q.ok THEN g.mdl ELSE q.mdl
    <3>1. mp_setobjvar(t, m, NA) = q
      BY DEF mp_setobjvar
    <3> HIDE DEF t, q, g
    <3>2. r = IF ~ q.ok THEN q ELSE IF ~ g.ok THEN g
              ELSE IF s.mps[m].objvar = NA THEN OK(g.mdl) ELSE Error(g.mdl)
      BY <1>5, <2>1, <3>1 DEF mp_ensure_obequ, Then, g
    <3>3. OK(g.mdl).mdl = g.mdl /\ Error(g.mdl).mdl = g.mdl
      BY DEF OK, Error
    <3> QED
      BY <3>2, <3>3
  <2>3. /\ x \in EquMetas /\ x.mp = NA /\ x.active /\ x.role = "undefined" /\ x.object = "mapping"
    BY Zenon DEF EquMetas, NoEqu, Objects, Cones
  <2> HIDE DEF x
  <2>4. Marks(s.equs[n], x)
    BY <1>2, <2>3 DEF Marks
  <2>5. \A k \in Mps : ~ (s.mps[k].alive /\ n \in s.mps[k].equs)
    BY <1>2, Owners
  <2>6. Step(s, t, m, X, 0)
    BY <1>2, <2>3, <2>4, <2>5, EquStep
  <2>7. Sound(t) /\ t.mps = s.mps /\ t.equs[n] = x
    BY <1>2, <2>3, <2>6, WithEquFields DEF Step
  <2> HIDE DEF t
  <2>8. t.mps[m].objvar \in X
    BY <1>1, <2>7
  <2>9. /\ Step(t, q.mdl, m, X, 0) /\ q.mdl.equs = t.equs
        /\ q.mdl.mps[m].objequ = t.mps[m].objequ
    BY <2>7, <2>8, ClearObjVarStep
  <2> HIDE DEF q
  <2>10. /\ Step(s, q.mdl, m, X, 0) /\ Sound(q.mdl) /\ q.mdl.equs[n].active
         /\ q.mdl.mps[m].objequ \in X
    BY <1>1, <2>3, <2>6, <2>7, <2>9, Chain DEF Step
  <2>11. Step(q.mdl, g.mdl, m, X, 0)
    BY <1>2, <2>10, SetObjEquStep
  <2>12. Step(s, g.mdl, m, X, 0)
    BY <2>10, <2>11, Chain
  <2> QED
    BY <1>5, <2>2, <2>10, <2>12 DEF X
<1> QED
  BY <1>3, <1>4, <1>5

-----------------------------------------------------------------------------
(***************************************************************************)
(* The contraction.                                                        *)
(***************************************************************************)

\* What the contraction of c into m comes to: m lists what c listed but for its objective,
\* c is not in use, and nothing else is disturbed.
Contracts(s, t, m, c) ==
    /\ Sound(t) /\ ~ t.mps[c].alive
    /\ \A k \in Mps : k \notin {m, c} => t.mps[k] = s.mps[k]
    /\ \A k \in Mps : /\ t.mps[k].sense = s.mps[k].sense
                      /\ k # c => t.mps[k].alive = s.mps[k].alive
                      /\ t.mps[k].num_cons = s.mps[k].num_cons
                      /\ t.mps[k].num_zeros = s.mps[k].num_zeros
    /\ s.mps[m].vars \subseteq t.mps[m].vars /\ s.mps[m].equs \subseteq t.mps[m].equs
    /\ s.mps[c].vars \subseteq t.mps[m].vars \cup {s.mps[c].objvar}
    /\ s.mps[c].equs \subseteq t.mps[m].equs \cup {s.mps[c].objequ}
    /\ \A e \in Equs : s.equs[e].object # "none" /\ s.equs[e].role = "objective" =>
          t.equs[e].role = "objective"

\* The model after the claim, with c out of use.
Claimed(s, m, c) == [mp_claimequvar_from_mp(s, m, c) EXCEPT !.mps[c].alive = FALSE]

\* Its fields: the equations and variables of c but for its objective are those of m, and the
\* objective of c is nobody's.
IsClaim(s, g, m, c) ==
    LET es == s.mps[c].equs \ {s.mps[c].objequ}
        vs == s.mps[c].vars \ {s.mps[c].objvar}
    IN  /\ g \in Mdls /\ g.column = s.column
        /\ \A k \in Mps : g.mps[k] =
              IF k = m THEN [s.mps[m] EXCEPT !.equs = @ \cup es, !.vars = @ \cup vs]
              ELSE IF k = c THEN [s.mps[c] EXCEPT !.alive = FALSE]
              ELSE s.mps[k]
        /\ \A e \in Equs : g.equs[e] = IF e \in es THEN [s.equs[e] EXCEPT !.mp = m]
                                       ELSE IF e = s.mps[c].objequ
                                            THEN [s.equs[e] EXCEPT !.mp = NA]
                                       ELSE s.equs[e]
        /\ \A v \in Vars : g.vars[v] = IF v \in vs THEN [s.vars[v] EXCEPT !.mp = m]
                                       ELSE IF v = s.mps[c].objvar
                                            THEN [s.vars[v] EXCEPT !.mp = NA]
                                       ELSE s.vars[v]

\* The claim has these fields.
LEMMA ClaimedFields ==
  ASSUME NEW s \in Mdls, NEW m \in Mps, NEW c \in Mps, m # c
  PROVE  /\ IsClaim(s, Claimed(s, m, c), m, c)
         /\ \E V, E, M : mp_claimequvar_from_mp(s, m, c) =
                           [vars |-> V, equs |-> E, mps |-> M, column |-> s.column]
<1> DEFINE es == s.mps[c].equs \ {s.mps[c].objequ}
           vs == s.mps[c].vars \ {s.mps[c].objvar}
           g == Claimed(s, m, c)
           equ(e) == IF e \in es THEN [s.equs[e] EXCEPT !.mp = m]
                     ELSE IF e = s.mps[c].objequ THEN [s.equs[e] EXCEPT !.mp = NA]
                     ELSE s.equs[e]
           var(v) == IF v \in vs THEN [s.vars[v] EXCEPT !.mp = m]
                     ELSE IF v = s.mps[c].objvar THEN [s.vars[v] EXCEPT !.mp = NA]
                     ELSE s.vars[v]
           x == [s.mps[m] EXCEPT !.equs = @ \cup es, !.vars = @ \cup vs]
           y == [s.mps[c] EXCEPT !.alive = FALSE]
<1>1. /\ s.mps[m] \in MpRecs /\ s.mps[c] \in MpRecs /\ DOMAIN s.mps = Mps
      /\ \A e \in Equs : s.equs[e] \in EquMetas
      /\ \A v \in Vars : s.vars[v] \in VarMetas
  BY Records
<1>2. x \in MpRecs /\ y \in MpRecs
  BY <1>1, Zenon DEF MpRecs
<1>3. \A e \in Equs : equ(e) \in EquMetas
  BY <1>1 DEF EquMetas
<1>4. \A v \in Vars : var(v) \in VarMetas
  BY <1>1 DEF VarMetas
<1>5. s = [vars |-> s.vars, equs |-> s.equs, mps |-> s.mps, column |-> s.column]
  BY DEF Mdls
<1>6. mp_claimequvar_from_mp(s, m, c) =
         [vars |-> [v \in Vars |-> var(v)], equs |-> [e \in Equs |-> equ(e)],
          mps |-> [s.mps EXCEPT ![m] = x], column |-> s.column]
  <2> DEFINE E == [e \in Equs |-> equ(e)]
             V == [v \in Vars |-> var(v)]
  <2>1. mp_claimequvar_from_mp(s, m, c)
          = [s EXCEPT !.mps[m].equs = @ \cup es, !.mps[m].vars = @ \cup vs, !.equs = E, !.vars = V]
    BY Zenon DEF mp_claimequvar_from_mp
  <2> HIDE DEF E, V, es, vs
  <2>2. [s.mps EXCEPT ![m].equs = @ \cup es, ![m].vars = @ \cup vs] = [s.mps EXCEPT ![m] = x]
    BY <1>1, Zenon DEF MpRecs
  <2>3. [s EXCEPT !.mps[m].equs = @ \cup es, !.mps[m].vars = @ \cup vs, !.equs = E, !.vars = V]
          = [vars |-> V, equs |-> E,
             mps |-> [s.mps EXCEPT ![m].equs = @ \cup es, ![m].vars = @ \cup vs],
             column |-> s.column]
    <3> DEFINE A == s.mps[m].equs \cup es
               B == s.mps[m].vars \cup vs
    <3>1. [s EXCEPT !.mps[m].equs = A, !.mps[m].vars = B, !.equs = E, !.vars = V]
            = [[s EXCEPT !.mps[m].equs = A, !.mps[m].vars = B] EXCEPT !.equs = E, !.vars = V]
      BY <1>5
    <3>2. [s EXCEPT !.mps[m].equs = A, !.mps[m].vars = B]
            = [s EXCEPT !.mps = [@ EXCEPT ![m].equs = A, ![m].vars = B]]
      BY <1>5, Zenon
    <3> HIDE DEF A, B
    <3>3. [[s EXCEPT !.mps = [@ EXCEPT ![m].equs = A, ![m].vars = B]] EXCEPT !.equs = E, !.vars = V]
            = [vars |-> V, equs |-> E, mps |-> [s.mps EXCEPT ![m].equs = A, ![m].vars = B],
               column |-> s.column]
      <4> DEFINE M == [s.mps EXCEPT ![m].equs = A, ![m].vars = B]
                 a == s.vars
                 b == s.equs
                 d == s.mps
                 k == s.column
      <4>1. s = [vars |-> a, equs |-> b, mps |-> d, column |-> k]
        BY <1>5
      <4> HIDE DEF M, a, b, d, k
      <4>2. [[s EXCEPT !.mps = M] EXCEPT !.equs = E, !.vars = V]
              = [vars |-> V, equs |-> E, mps |-> M, column |-> k]
        <5> DEFINE s1 == [s EXCEPT !.mps = M]
                   s2 == [s1 EXCEPT !.equs = E]
        <5>1. s1 = [vars |-> a, equs |-> b, mps |-> M, column |-> k]
          BY <4>1
        <5> HIDE DEF s1
        <5>2. s2 = [vars |-> a, equs |-> E, mps |-> M, column |-> k]
          BY <5>1
        <5> HIDE DEF s2
        <5>3. [s2 EXCEPT !.vars = V] = [vars |-> V, equs |-> E, mps |-> M, column |-> k]
          BY <5>2
        <5>4. [[s EXCEPT !.mps = M] EXCEPT !.equs = E, !.vars = V] = [s2 EXCEPT !.vars = V]
          BY DEF s1, s2
        <5> QED
          BY <5>3, <5>4
      <4> QED
        BY <4>2 DEF M, k
    <3> QED
      BY <3>1, <3>2, <3>3, Zenon DEF A, B
  <2> QED
    BY <2>1, <2>2, <2>3, Zenon DEF E, V
<1> HIDE DEF equ, var, x
<1>7. g = [vars |-> [v \in Vars |-> var(v)], equs |-> [e \in Equs |-> equ(e)],
           mps |-> [[s.mps EXCEPT ![m] = x] EXCEPT ![c] = y], column |-> s.column]
  <2> DEFINE E == [e \in Equs |-> equ(e)]
             V == [v \in Vars |-> var(v)]
             M == [s.mps EXCEPT ![m] = x]
  <2>1. g = [[vars |-> V, equs |-> E, mps |-> M, column |-> s.column] EXCEPT !.mps[c].alive = FALSE]
    BY <1>6 DEF Claimed
  <2>2. M[c] = s.mps[c] /\ DOMAIN M = Mps
    BY <1>1
  <2> HIDE DEF E, V, M
  <2>3. g = [vars |-> V, equs |-> E, mps |-> [M EXCEPT ![c] = y], column |-> s.column]
    BY <1>1, <2>1, <2>2, Zenon
  <2> QED
    BY <2>3 DEF E, V, M
<1> HIDE DEF g, y
<1>8. /\ g \in Mdls /\ g.column = s.column
      /\ \A e \in Equs : g.equs[e] = equ(e)
      /\ \A v \in Vars : g.vars[v] = var(v)
  <2>1. s.column \in [Vars -> Seq(Entries)] /\ s.mps \in [Mps -> MpRecs]
    BY Records
  <2>2. [[s.mps EXCEPT ![m] = x] EXCEPT ![c] = y] \in [Mps -> MpRecs]
    BY <1>2, <2>1
  <2> QED
    BY <1>3, <1>4, <1>7, <2>1, <2>2, Zenon DEF Mdls
<1>9. \A k \in Mps : g.mps[k] = IF k = m THEN x ELSE IF k = c THEN y ELSE s.mps[k]
  BY <1>1, <1>7
<1>10. IsClaim(s, g, m, c)
  BY <1>8, <1>9, Zenon DEF IsClaim, equ, var, x, y
<1> QED
  BY <1>6, <1>10, Zenon DEF g

\* The claim is sound and contracts c into m.
LEMMA ClaimStep ==
  ASSUME NEW s, Sound(s), NEW m \in Mps, NEW c \in Mps, m # c, s.mps[c].alive,
         s.mps[c].objequ # NA => s.equs[s.mps[c].objequ].mp = c
  PROVE  Contracts(s, Claimed(s, m, c), m, c)
<1> DEFINE es == s.mps[c].equs \ {s.mps[c].objequ}
           vs == s.mps[c].vars \ {s.mps[c].objvar}
           g == Claimed(s, m, c)
           x == [s.mps[m] EXCEPT !.equs = @ \cup es, !.vars = @ \cup vs]
           y == [s.mps[c] EXCEPT !.alive = FALSE]
<1>1. s \in Mdls /\ s.mps[m] \in MpRecs /\ s.mps[c] \in MpRecs
  BY Owners, Records
<1>2. /\ g \in Mdls /\ g.column = s.column
      /\ \A k \in Mps : g.mps[k] = IF k = m THEN x ELSE IF k = c THEN y ELSE s.mps[k]
      /\ \A e \in Equs : g.equs[e] = IF e \in es THEN [s.equs[e] EXCEPT !.mp = m]
                                     ELSE IF e = s.mps[c].objequ THEN [s.equs[e] EXCEPT !.mp = NA]
                                     ELSE s.equs[e]
      /\ \A v \in Vars : g.vars[v] = IF v \in vs THEN [s.vars[v] EXCEPT !.mp = m]
                                     ELSE IF v = s.mps[c].objvar THEN [s.vars[v] EXCEPT !.mp = NA]
                                     ELSE s.vars[v]
  <2>1. IsClaim(s, g, m, c)
    BY <1>1, ClaimedFields
  <2> HIDE DEF g
  <2> QED
    BY <2>1, Zenon DEF IsClaim
<1>3. /\ x.vars = s.mps[m].vars \cup vs /\ x.equs = s.mps[m].equs \cup es
      /\ x.sense = s.mps[m].sense /\ x.alive = s.mps[m].alive
      /\ x.objvar = s.mps[m].objvar /\ x.objequ = s.mps[m].objequ
      /\ x.num_cons = s.mps[m].num_cons /\ x.num_zeros = s.mps[m].num_zeros
  BY <1>1 DEF MpRecs
<1>4. /\ ~ y.alive /\ y.sense = s.mps[c].sense /\ y.objequ = s.mps[c].objequ
      /\ y.num_cons = s.mps[c].num_cons /\ y.num_zeros = s.mps[c].num_zeros
  BY <1>1 DEF MpRecs
<1>5. \A e \in Equs : /\ g.equs[e].active = s.equs[e].active
                      /\ g.equs[e].object = s.equs[e].object
                      /\ g.equs[e].role = s.equs[e].role
                      /\ g.equs[e].mp = IF e \in es THEN m
                                        ELSE IF e = s.mps[c].objequ THEN NA ELSE s.equs[e].mp
  <2> SUFFICES ASSUME NEW e \in Equs
               PROVE  /\ g.equs[e].active = s.equs[e].active
                      /\ g.equs[e].object = s.equs[e].object
                      /\ g.equs[e].role = s.equs[e].role
                      /\ g.equs[e].mp = IF e \in es THEN m
                                        ELSE IF e = s.mps[c].objequ THEN NA ELSE s.equs[e].mp
    OBVIOUS
  <2>1. s.equs[e] \in EquMetas
    BY <1>1, Records
  <2>2. \A z : LET a == [s.equs[e] EXCEPT !.mp = z] IN
          /\ a.active = s.equs[e].active /\ a.object = s.equs[e].object
          /\ a.role = s.equs[e].role /\ a.mp = z
    BY <2>1 DEF EquMetas
  <2>3. g.equs[e] = IF e \in es THEN [s.equs[e] EXCEPT !.mp = m]
                    ELSE IF e = s.mps[c].objequ THEN [s.equs[e] EXCEPT !.mp = NA] ELSE s.equs[e]
    BY <1>2
  <2> HIDE DEF es, g
  <2> QED
    BY <2>2, <2>3
<1>6. \A v \in Vars : g.vars[v].mp = IF v \in vs THEN m
                                     ELSE IF v = s.mps[c].objvar THEN NA ELSE s.vars[v].mp
  <2> SUFFICES ASSUME NEW v \in Vars
               PROVE  g.vars[v].mp = IF v \in vs THEN m
                                     ELSE IF v = s.mps[c].objvar THEN NA ELSE s.vars[v].mp
    OBVIOUS
  <2>1. s.vars[v] \in VarMetas
    BY <1>1, Records
  <2>2. \A z : [s.vars[v] EXCEPT !.mp = z].mp = z
    BY <2>1 DEF VarMetas
  <2>3. g.vars[v] = IF v \in vs THEN [s.vars[v] EXCEPT !.mp = m]
                    ELSE IF v = s.mps[c].objvar THEN [s.vars[v] EXCEPT !.mp = NA] ELSE s.vars[v]
    BY <1>2
  <2> HIDE DEF vs, g
  <2> QED
    BY <2>2, <2>3
<1>7. \A k \in Mps : /\ s.mps[k].vars \subseteq Vars /\ s.mps[k].equs \subseteq Equs
                     /\ s.mps[k].objvar \in Vars \cup {NA} /\ s.mps[k].objequ \in Equs \cup {NA}
  BY <1>1, Records
<1>8. /\ \A v \in vs : v \in Vars /\ s.vars[v].mp = c
      /\ \A e \in es : e \in Equs /\ s.equs[e].mp = c /\ s.equs[e].active
      /\ s.mps[c].objvar # NA => s.vars[s.mps[c].objvar].mp = c
  BY <1>7, Owners
<1>9. NA \notin Vars /\ NA \notin Equs /\ NA \notin Mps
  BY Owners
<1> HIDE DEF es, vs, x, y, g
<1>10. Sound(g)
  <2>1. Occupied(g)
    BY <1>5 DEF Sound, Occupied
  <2>2. ColumnsActive(g)
    <3>1. \A v \in Vars : \A i \in DOMAIN s.column[v] : s.column[v][i].ei \in Equs
      BY <1>1, ColumnEntries
    <3> QED
      BY <1>2, <1>5, <3>1 DEF Sound, ColumnsActive
  <2>3. VarsOwned(g)
    <3> SUFFICES ASSUME NEW k \in Mps, g.mps[k].alive
                 PROVE  /\ \A v \in g.mps[k].vars : g.vars[v].mp = k
                        /\ g.mps[k].objvar # NA => g.vars[g.mps[k].objvar].mp = k
      BY DEF VarsOwned
    <3>1. k # c /\ s.mps[k].alive /\ g.mps[k].objvar = s.mps[k].objvar
      BY <1>2, <1>3, <1>4
    <3>2. \A v \in Vars : s.vars[v].mp = k => g.vars[v].mp = k
      BY <1>6, <1>8, <1>9, <3>1
    <3>3. \A v \in vs : g.vars[v].mp = m
      BY <1>6, <1>8
    <3>4. \A v \in s.mps[k].vars : g.vars[v].mp = k
      BY <1>7, <3>1, <3>2, Owners
    <3>5. \A v \in g.mps[k].vars : v \in s.mps[k].vars \/ (k = m /\ v \in vs)
      BY <1>2, <1>3, <3>1
    <3>6. s.mps[k].objvar # NA => g.vars[s.mps[k].objvar].mp = k
      BY <1>7, <3>1, <3>2, Owners
    <3> QED
      BY <3>1, <3>3, <3>4, <3>5, <3>6
  <2>4. EqusOwned(g)
    <3> SUFFICES ASSUME NEW k \in Mps, g.mps[k].alive, NEW e \in g.mps[k].equs
                 PROVE  g.equs[e].mp = k /\ g.equs[e].active
      BY DEF EqusOwned
    <3>1. k # c /\ s.mps[k].alive
      BY <1>2, <1>3, <1>4
    <3>2. e \in s.mps[k].equs \/ (k = m /\ e \in es)
      BY <1>2, <1>3, <3>1
    <3>3. CASE e \in s.mps[k].equs
      <4>1. e \in Equs /\ s.equs[e].mp = k /\ s.equs[e].active
        BY <1>7, <3>1, <3>3, Owners
      <4> QED
        BY <1>5, <1>8, <1>9, <3>1, <4>1
    <3>4. CASE k = m /\ e \in es
      BY <1>5, <1>8, <3>4
    <3> QED
      BY <3>2, <3>3, <3>4
  <2>5. UnownedRoles(g)
    <3> SUFFICES ASSUME NEW e \in Equs, g.equs[e].mp = NA
                 PROVE  s.equs[e].role \in {"undefined", "objective"}
      BY <1>5 DEF UnownedRoles
    <3>1. CASE e = s.mps[c].objequ
      BY <1>9, <3>1 DEF Sound, ObjequsMarked
    <3>2. CASE e # s.mps[c].objequ
      BY <1>5, <1>9, <3>2, Owners
    <3> QED
      BY <3>1, <3>2
  <2>6. ObjequsMarked(g)
    <3>1. \A k \in Mps : g.mps[k].objequ = s.mps[k].objequ
      BY <1>2, <1>3, <1>4
    <3> QED
      BY <1>5, <1>7, <3>1 DEF Sound, ObjequsMarked
  <2> QED
    BY <1>2, <2>1, <2>2, <2>3, <2>4, <2>5, <2>6 DEF Sound
<1>11. /\ s.mps[c].vars \subseteq g.mps[m].vars \cup {s.mps[c].objvar}
       /\ s.mps[c].equs \subseteq g.mps[m].equs \cup {s.mps[c].objequ}
       /\ s.mps[m].vars \subseteq g.mps[m].vars /\ s.mps[m].equs \subseteq g.mps[m].equs
  BY <1>2, <1>3 DEF es, vs
<1>12. /\ ~ g.mps[c].alive
       /\ \A k \in Mps : k \notin {m, c} => g.mps[k] = s.mps[k]
  BY <1>2, <1>4
<1>13. \A k \in Mps : /\ g.mps[k].sense = s.mps[k].sense
                      /\ k # c => g.mps[k].alive = s.mps[k].alive
                      /\ g.mps[k].num_cons = s.mps[k].num_cons
                      /\ g.mps[k].num_zeros = s.mps[k].num_zeros
  BY <1>2, <1>3, <1>4
<1>14. Contracts(s, g, m, c)
  BY <1>5, <1>10, <1>11, <1>12, <1>13 DEF Contracts
<1> QED
  BY <1>14 DEF g

\* A step of nobody after it changes no MP.
LEMMA ContractsOn ==
  ASSUME NEW s, NEW g, NEW t, NEW m \in Mps, NEW c \in Mps, NEW X, s \in Mdls,
         Contracts(s, g, m, c), Step(g, t, NA, X, 0),
         \A e \in Equs : g.equs[e].object = s.equs[e].object
  PROVE  Contracts(s, t, m, c)
<1>1. Sound(t) /\ Keeps(g, t, NA, X, 0)
  BY DEF Step
<1>2. NA \notin Mps
  BY MathPrgmAssumption
<1>3. \A k \in Mps : t.mps[k] = g.mps[k]
  BY <1>1, <1>2 DEF Keeps
<1>4. \A e \in Equs : g.equs[e].object # "none" /\ g.equs[e].role = "objective" =>
         t.equs[e].role = "objective"
  BY <1>1 DEF Keeps
<1> QED
  BY <1>1, <1>3, <1>4 DEF Contracts

\* A model of four parts, and the updates of one of them.
Model(V, E, M, C) == [vars |-> V, equs |-> E, mps |-> M, column |-> C]
Freed(M, c) == [M EXCEPT ![c] = [M[c] EXCEPT !.alive = FALSE]]
Gone(E, e) == [E EXCEPT ![e] = [E[e] EXCEPT !.active = FALSE]]

FreeMp(t, c) == [t EXCEPT !.mps[c].alive = FALSE]
LeaveModel(t, e, C) == [t EXCEPT !.equs[e].active = FALSE, !.column = C]

\* An MP out of use.
LEMMA UpdateMp ==
  ASSUME NEW V, NEW E, NEW M, NEW K, NEW c
  PROVE  FreeMp(Model(V, E, M, K), c) = Model(V, E, Freed(M, c), K)
<1> DEFINE x == [M[c] EXCEPT !.alive = FALSE]
<1>1. FreeMp(Model(V, E, M, K), c)
        = [Model(V, E, M, K) EXCEPT !.mps = [M EXCEPT ![c] = x]]
  BY DEF Model, FreeMp
<1> HIDE DEF x
<1>2. [Model(V, E, M, K) EXCEPT !.mps = [M EXCEPT ![c] = x]]
        = Model(V, E, [M EXCEPT ![c] = x], K)
  BY DEF Model
<1> QED
  BY <1>1, <1>2 DEF x, Freed

\* An equation out of the model.
LEMMA UpdateEqu ==
  ASSUME NEW V, NEW E, NEW M, NEW K, NEW e, NEW C
  PROVE  LeaveModel(Model(V, E, M, K), e, C) = Model(V, Gone(E, e), M, C)
<1> DEFINE x == [E[e] EXCEPT !.active = FALSE]
           w == [Model(V, E, M, K) EXCEPT !.equs[e].active = FALSE]
<1>1. w = [Model(V, E, M, K) EXCEPT !.equs = [E EXCEPT ![e] = x]]
  BY DEF Model
<1>2. LeaveModel(Model(V, E, M, K), e, C) = [w EXCEPT !.column = C]
  BY DEF Model, LeaveModel
<1> HIDE DEF x, w
<1>3. [Model(V, E, M, K) EXCEPT !.equs = [E EXCEPT ![e] = x]]
        = Model(V, [E EXCEPT ![e] = x], M, K)
  BY DEF Model
<1>4. w = Model(V, [E EXCEPT ![e] = x], M, K)
  BY <1>1, <1>3
<1>5. [w EXCEPT !.column = C] = Model(V, [E EXCEPT ![e] = x], M, C)
  BY <1>4 DEF Model
<1> QED
  BY <1>2, <1>5 DEF x, Gone

\* The whole contraction comes to the claim and then the removal of the objective equation of c,
\* which is nobody's by then.
ContractsInOrder(s, f, m, c) ==
    LET g == Claimed(s, m, c)
        e == s.mps[c].objequ
    IN  /\ Contracts(s, g, m, c) /\ IsClaim(s, g, m, c)
        /\ \/ f = g
           \/ /\ e \in Equs /\ g.equs[e].mp = NA
              /\ rmdl_rm_equ(g, e).ok /\ f = rmdl_rm_equ(g, e).mdl

\* It does.
LEMMA ContractOrder ==
  ASSUME NEW s, Sound(s), NEW m \in Mps, NEW c \in Mps, m # c, s.mps[c].alive,
         s.mps[c].objequ # NA => s.equs[s.mps[c].objequ].mp = c,
         NEW t, t = mp_claimequvar_from_mp(s, m, c),
         NEW e, e = s.mps[c].objequ,
         NEW r, r = IF e \in {f \in Equs : s.equs[f].active} THEN rmdl_rm_equ(t, e) ELSE OK(t)
  PROVE  ContractsInOrder(s, [r EXCEPT !.mdl.mps[c].alive = FALSE].mdl, m, c)
<1> DEFINE g == Claimed(s, m, c)
           f == [r EXCEPT !.mdl.mps[c].alive = FALSE].mdl
<1>1. Contracts(s, g, m, c)
  BY ClaimStep
<1>2. s \in Mdls
  BY Owners
<1>3. IsClaim(s, g, m, c)
  BY <1>2, ClaimedFields
<1>4. g = FreeMp(t, c)
  BY DEF Claimed, FreeMp
<1>5. PICK V, E, M : t = Model(V, E, M, s.column)
  BY <1>2, ClaimedFields DEF Model
<1>6. \A u : r = OK(u) => f = FreeMp(u, c)
  <2> SUFFICES ASSUME NEW u, r = OK(u) PROVE f = FreeMp(u, c)
    OBVIOUS
  <2>1. r.mdl = u /\ "mdl" \in DOMAIN r
    BY DEF OK
  <2>2. f = FreeMp(r.mdl, c)
    BY <2>1 DEF FreeMp
  <2> HIDE DEF f
  <2> QED
    BY <2>1, <2>2
<1>7. CASE ~ (e \in Equs /\ s.equs[e].active)
  <2>1. r = OK(t)
    BY <1>7
  <2>2. f = g
    BY <1>4, <1>6, <2>1
  <2> QED
    BY <1>1, <1>3, <2>2, Zenon DEF ContractsInOrder
<1>8. CASE e \in Equs /\ s.equs[e].active
  <2> DEFINE q == rmdl_rm_equ(g, e)
             C == [v \in Vars |-> Without(s.column[v], e)]
  <2>1. r = rmdl_rm_equ(t, e)
    BY <1>8
  <2>2. g.equs[e].mp = NA
    <3>1. s.equs[e] \in EquMetas
      BY <1>2, <1>8, Records
    <3>2. g.equs[e] = [s.equs[e] EXCEPT !.mp = NA]
      BY <1>3, <1>8, Zenon DEF IsClaim
    <3> QED
      BY <3>1, <3>2 DEF EquMetas
  <2> HIDE DEF g
  <2>3. f = q.mdl /\ q.ok
    <3> DEFINE N == Freed(M, c)
               F == Gone(E, e)
    <3>1. g = Model(V, E, N, s.column)
      BY <1>4, <1>5, UpdateMp
    <3>2. t.equs[e].mp = NA /\ t.column = s.column /\ g.column = s.column
      BY <1>5, <2>2, <3>1 DEF Model
    <3> HIDE DEF N, F
    <3>3. rmdl_rm_equ(t, e) = OK(Model(V, F, M, C))
      <4>1. rmdl_rm_equ(t, e) = OK(LeaveModel(t, e, C))
        BY <3>2 DEF rmdl_rm_equ, LeaveModel
      <4> HIDE DEF C
      <4> QED
        BY <1>5, <4>1, UpdateEqu DEF F
    <3>4. q = OK(Model(V, F, N, C))
      <4>1. rmdl_rm_equ(g, e) = OK(LeaveModel(g, e, C))
        BY <2>2, <3>2 DEF rmdl_rm_equ, LeaveModel
      <4> HIDE DEF C
      <4> QED
        BY <3>1, <4>1, UpdateEqu DEF F
    <3> HIDE DEF C
    <3>5. f = FreeMp(Model(V, F, M, C), c)
      BY <1>6, <2>1, <3>3
    <3> HIDE DEF q, f
    <3>6. f = Model(V, F, N, C)
      BY <3>5, UpdateMp DEF N
    <3>7. \A u : OK(u).mdl = u /\ OK(u).ok
      BY DEF OK
    <3> QED
      BY <3>4, <3>6, <3>7
  <2> HIDE DEF q, f
  <2>4. /\ f = Claimed(s, m, c) \/ (/\ e \in Equs /\ g.equs[e].mp = NA
                                    /\ rmdl_rm_equ(g, e).ok /\ f = rmdl_rm_equ(g, e).mdl)
    BY <1>8, <2>2, <2>3 DEF q
  <2>5. ContractsInOrder(s, f, m, c)
    BY <1>1, <1>3, <2>4 DEF ContractsInOrder, g
  <2> QED
    BY <2>5, Zenon DEF f
<1> HIDE DEF f
<1> QED
  BY <1>7, <1>8

\* So it is a contraction.
LEMMA ContractStep ==
  ASSUME NEW s, Sound(s), NEW m \in Mps, NEW c \in Mps, NEW f, ContractsInOrder(s, f, m, c)
  PROVE  Contracts(s, f, m, c)
<1> DEFINE g == Claimed(s, m, c)
           e == s.mps[c].objequ
           q == rmdl_rm_equ(g, e)
<1>1. Contracts(s, g, m, c) /\ IsClaim(s, g, m, c)
  BY DEF ContractsInOrder
<1>2. CASE f = g
  BY <1>1, <1>2
<1>3. CASE e \in Equs /\ g.equs[e].mp = NA /\ f = q.mdl
  <2> HIDE DEF g, e
  <2>1. Sound(g) /\ e \in {e}
    BY <1>1 DEF Contracts
  <2>2. Step(g, q.mdl, NA, {e}, 0)
    BY <1>3, <2>1, RmEquStep
  <2>3. \A h \in Equs : g.equs[h].object = s.equs[h].object
    <3> SUFFICES ASSUME NEW h \in Equs PROVE g.equs[h].object = s.equs[h].object
      OBVIOUS
    <3>1. s.equs[h] \in EquMetas
      BY Owners, Records
    <3>2. \A z : [s.equs[h] EXCEPT !.mp = z].object = s.equs[h].object
      BY <3>1 DEF EquMetas
    <3>3. \/ g.equs[h] = [s.equs[h] EXCEPT !.mp = m]
          \/ g.equs[h] = [s.equs[h] EXCEPT !.mp = NA]
          \/ g.equs[h] = s.equs[h]
      BY <1>1 DEF IsClaim
    <3>4. g.equs[h].object \in {[s.equs[h] EXCEPT !.mp = m].object,
                                [s.equs[h] EXCEPT !.mp = NA].object, s.equs[h].object}
      BY <3>3, Zenon
    <3> QED
      BY <3>2, <3>4
  <2>4. s \in Mdls
    BY Owners
  <2> QED
    BY <1>1, <1>3, <2>2, <2>3, <2>4, ContractsOn
<1> QED
  BY <1>2, <1>3 DEF ContractsInOrder

-----------------------------------------------------------------------------
(***************************************************************************)
(* The inductive invariant, and what a call may do.                        *)
(***************************************************************************)

\* The counters of a VI are bounded by a number of calls.
Bounded(s, n) == \A m \in Mps : s.mps[m].num_cons <= n /\ s.mps[m].num_zeros <= n

\* The account of a VI, and the VIs that must have it.
Balanced(x) == Cardinality(x.vars) + x.num_cons = Cardinality(x.equs) + x.num_zeros
HasObjective(s, m) == \E e \in s.mps[m].equs : s.equs[e].role = "objective"
Counted(s, ed) ==
    \A m \in Mps :
        /\ s.mps[m].alive /\ IsVi(s, m) /\ <<m, "equ">> \notin ed /\ <<m, "var">> \notin ed
        /\ ~ HasObjective(s, m)
        => Balanced(s.mps[m])

Whats == {"equ", "obj", "var", "mp"}
IInv ==
    /\ Sound(mdl) /\ Bounded(mdl, calls)
    /\ calls \in 0 .. MaxCalls /\ failures \in 0 .. MaxFailures
    /\ edited \subseteq Mps \X Whats
    /\ failures = 0 => Counted(mdl, edited)

\* The lists lose x for a good reason.
Accounted(s, t, x) ==
    x \in Listed(s) \ Listed(t) =>
        \/ \E m \in Mps : x \in {s.mps[m].objequ, s.mps[m].objvar}
        \/ x \in Vars /\ t.vars[x].mp = NA
        \/ x \in Equs /\ ~ t.equs[x].active
           /\ (t.equs[x].res = s.equs[x].res \/ t.equs[x].res \in Listed(t))

\* The result r of a call that edits eds is one of a sound call.
Good(r, eds) ==
    /\ Sound(r.mdl) /\ Bounded(r.mdl, calls + 1) /\ eds \subseteq Mps \X Whats
    /\ r.ok /\ failures = 0 => Counted(r.mdl, edited \cup eds)
    /\ r.ok => \A x : Accounted(mdl, r.mdl, x)

\* The account of the VI m from s to t.
ViKept(s, t, m, eds) ==
    s.mps[m].alive /\ IsVi(s, m) /\ <<m, "equ">> \notin eds /\ <<m, "var">> \notin eds =>
        /\ s.mps[m].equs \subseteq t.mps[m].equs
        /\ Balanced(s.mps[m]) => Balanced(t.mps[m]) \/ HasObjective(t, m)

\* A sound call keeps the invariant and accounts for what it loses.
LEMMA GoodCall ==
  ASSUME IInv, NEW r, NEW eds, Good(r, eds), Call(r, eds)
  PROVE  IInv' /\ (failures' = failures => \A x : Accounted(mdl, mdl', x))
<1>1. /\ mdl' = r.mdl /\ calls' = calls + 1 /\ calls < MaxCalls
      /\ edited' = edited \cup eds
      /\ failures' = IF r.ok THEN failures ELSE failures + 1
      /\ r.ok \/ failures < MaxFailures
  BY DEF Call
<1>2. calls \in 0 .. MaxCalls /\ failures \in 0 .. MaxFailures /\ MaxCalls \in Nat /\ MaxFailures \in Nat
  BY MathPrgmAssumption DEF IInv
<1>3. Sound(mdl') /\ Bounded(mdl', calls')
  BY <1>1 DEF Good
<1>4. calls' \in 0 .. MaxCalls /\ failures' \in 0 .. MaxFailures
  BY <1>1, <1>2
<1>5. edited' \subseteq Mps \X Whats
  BY <1>1 DEF Good, IInv
<1>6. failures' = failures \/ failures' = 0 => r.ok
  BY <1>1, <1>2
<1>7. failures' = 0 => Counted(mdl', edited')
  BY <1>1, <1>2, <1>6 DEF Good
<1>8. failures' = failures => \A x : Accounted(mdl, mdl', x)
  BY <1>1, <1>6 DEF Good
<1> QED
  BY <1>3, <1>4, <1>5, <1>7, <1>8 DEF IInv, Sound, Bounded, Counted, Occupied, ColumnsActive,
     VarsOwned, EqusOwned, UnownedRoles, ObjequsMarked, HasObjective, IsVi, Whats

\* A list of s that t has lost elements of has lost elements of X.
LEMMA Lost ==
  ASSUME NEW s, NEW t, NEW m, NEW X, NEW d, Step(s, t, m, X, d), NEW x \in Listed(s) \ Listed(t)
  PROVE  x \in X
<1>1. PICK k \in Mps : s.mps[k].alive /\ x \in s.mps[k].vars \cup s.mps[k].equs
  BY DEF Listed
<1>2. t.mps[k].alive /\ x \notin t.mps[k].vars \cup t.mps[k].equs
  BY <1>1 DEF Listed, Step, Keeps
<1>3. s.mps[k].vars \subseteq t.mps[k].vars \cup X /\ s.mps[k].equs \subseteq t.mps[k].equs \cup X
  BY DEF Step, Keeps
<1> QED
  BY <1>1, <1>2, <1>3

\* An MP that has an objective equation keeps it as long as it keeps its list.
LEMMA KeepsObjective ==
  ASSUME NEW s, Sound(s), NEW t, NEW k \in Mps, s.mps[k].alive,
         s.mps[k].equs \subseteq t.mps[k].equs, HasObjective(s, k),
         \A e \in Equs : s.equs[e].object # "none" /\ s.equs[e].role = "objective" =>
            t.equs[e].role = "objective"
  PROVE  HasObjective(t, k)
<1>1. PICK e \in s.mps[k].equs : s.equs[e].role = "objective"
  BY DEF HasObjective
<1>2. e \in Equs /\ s.equs[e].object # "none"
  <2>1. s.mps[k].equs \subseteq Equs
    BY Owners, Records
  <2> QED
    BY <2>1, Owners
<1> QED
  BY <1>1, <1>2 DEF HasObjective

\* What a step keeps of the other MPs, with what is said of m, makes a sound call.
LEMMA StepGood ==
  ASSUME IInv, NEW r, NEW m, NEW X, NEW eds, Step(mdl, r.mdl, m, X, 1),
         eds \subseteq Mps \X Whats,
         r.ok /\ m \in Mps => ViKept(mdl, r.mdl, m, eds),
         r.ok => \A x \in X : Accounted(mdl, r.mdl, x)
  PROVE  Good(r, eds)
<1>1. /\ Sound(mdl) /\ Bounded(mdl, calls) /\ calls \in Nat
      /\ failures = 0 => Counted(mdl, edited)
  BY MathPrgmAssumption DEF IInv
<1>2. Sound(r.mdl) /\ Keeps(mdl, r.mdl, m, X, 1)
  BY DEF Step
<1>3. Bounded(r.mdl, calls + 1)
  <2> SUFFICES ASSUME NEW k \in Mps
               PROVE  r.mdl.mps[k].num_cons <= calls + 1 /\ r.mdl.mps[k].num_zeros <= calls + 1
    BY DEF Bounded
  <2>1. /\ mdl.mps[k].num_cons \in Nat /\ mdl.mps[k].num_zeros \in Nat
        /\ r.mdl.mps[k].num_cons \in Nat /\ r.mdl.mps[k].num_zeros \in Nat
    BY <1>1, <1>2, Owners, Records
  <2>2. /\ r.mdl.mps[k].num_cons <= mdl.mps[k].num_cons + 1
        /\ r.mdl.mps[k].num_zeros <= mdl.mps[k].num_zeros + 1
    BY <1>2 DEF Keeps
  <2>3. mdl.mps[k].num_cons <= calls /\ mdl.mps[k].num_zeros <= calls
    BY <1>1 DEF Bounded
  <2> QED
    BY <1>1, <2>1, <2>2, <2>3
<1>4. ASSUME r.ok, failures = 0 PROVE Counted(r.mdl, edited \cup eds)
  <2> SUFFICES ASSUME NEW k \in Mps, r.mdl.mps[k].alive, IsVi(r.mdl, k),
                      <<k, "equ">> \notin edited \cup eds, <<k, "var">> \notin edited \cup eds,
                      ~ HasObjective(r.mdl, k)
               PROVE  Balanced(r.mdl.mps[k])
    BY DEF Counted
  <2>1. mdl.mps[k].alive /\ IsVi(mdl, k)
    BY <1>2 DEF Keeps, IsVi
  <2>2. \A e \in Equs : mdl.equs[e].object # "none" /\ mdl.equs[e].role = "objective" =>
           r.mdl.equs[e].role = "objective"
    BY <1>2 DEF Keeps
  <2>3. mdl.mps[k].equs \subseteq r.mdl.mps[k].equs
    BY <1>2, <1>4, <2>1 DEF Keeps, ViKept
  <2>4. Balanced(mdl.mps[k])
    BY <1>1, <1>4, <2>1, <2>2, <2>3, KeepsObjective DEF Counted
  <2> QED
    BY <1>2, <1>4, <2>1, <2>4 DEF Keeps, ViKept
<1>5. ASSUME r.ok, NEW x PROVE Accounted(mdl, r.mdl, x)
  <2>1. x \in Listed(mdl) \ Listed(r.mdl) => x \in X
    BY Lost
  <2> QED
    BY <1>5, <2>1 DEF Accounted
<1> QED
  BY <1>2, <1>3, <1>4, <1>5 DEF Good

\* A contraction is a sound call.
LEMMA ContractGood ==
  ASSUME IInv, NEW r, NEW m \in Mps, NEW c \in Mps, m # c, Contracts(mdl, r.mdl, m, c),
         IsOpt(mdl, m), mdl.mps[m].alive
  PROVE  Good(r, {<<c, "mp">>})
<1> DEFINE t == r.mdl
           eds == {<<c, "mp">>}
<1>1. /\ Sound(mdl) /\ Bounded(mdl, calls) /\ calls \in Nat
      /\ failures = 0 => Counted(mdl, edited)
  BY MathPrgmAssumption DEF IInv
<1>2. Sound(t) /\ ~ t.mps[c].alive
  BY DEF Contracts
<1>3. \A k \in Mps : /\ t.mps[k].sense = mdl.mps[k].sense
                     /\ k # c => t.mps[k].alive = mdl.mps[k].alive
                     /\ t.mps[k].num_cons = mdl.mps[k].num_cons
                     /\ t.mps[k].num_zeros = mdl.mps[k].num_zeros
                     /\ k \notin {m, c} => t.mps[k] = mdl.mps[k]
  BY DEF Contracts
<1> HIDE DEF t
<1>4. Bounded(t, calls + 1)
  <2>1. \A k \in Mps : mdl.mps[k].num_cons \in Nat /\ mdl.mps[k].num_zeros \in Nat
    BY <1>1, Owners, Records
  <2> QED
    BY <1>1, <1>3, <2>1 DEF Bounded
<1>5. ASSUME failures = 0 PROVE Counted(t, edited \cup eds)
  <2> SUFFICES ASSUME NEW k \in Mps, t.mps[k].alive, IsVi(t, k),
                      <<k, "equ">> \notin edited, <<k, "var">> \notin edited, ~ HasObjective(t, k)
               PROVE  Balanced(t.mps[k])
    BY DEF Counted
  <2>1. k # c /\ k # m /\ t.mps[k] = mdl.mps[k]
    BY <1>2, <1>3 DEF IsOpt, IsVi
  <2>2. mdl.mps[k].alive /\ IsVi(mdl, k)
    BY <2>1 DEF IsVi
  <2>3. \A e \in Equs : mdl.equs[e].object # "none" /\ mdl.equs[e].role = "objective" =>
           t.equs[e].role = "objective"
    BY DEF Contracts, t
  <2>4. ~ HasObjective(mdl, k)
    BY <1>1, <2>1, <2>2, <2>3, KeepsObjective
  <2> QED
    BY <1>1, <1>5, <2>1, <2>2, <2>4 DEF Counted
<1>6. ASSUME NEW x PROVE Accounted(mdl, t, x)
  <2> SUFFICES ASSUME x \in Listed(mdl), x \notin Listed(t)
               PROVE  \E k \in Mps : x \in {mdl.mps[k].objequ, mdl.mps[k].objvar}
    BY DEF Accounted
  <2>1. PICK k \in Mps : mdl.mps[k].alive /\ x \in mdl.mps[k].vars \cup mdl.mps[k].equs
    BY DEF Listed
  <2>2. t.mps[m].alive /\ x \notin t.mps[m].vars /\ x \notin t.mps[m].equs
    BY <1>3 DEF Listed
  <2>3. k = c
    <3>1. k # m
      BY <2>1, <2>2 DEF Contracts, t
    <3>2. k # c => t.mps[k] = mdl.mps[k]
      BY <1>3, <3>1
    <3> QED
      BY <2>1, <3>2 DEF Listed
  <2>4. x \in {mdl.mps[c].objequ, mdl.mps[c].objvar}
    BY <2>1, <2>2, <2>3 DEF Contracts, t
  <2> QED
    BY <2>4
<1>7. eds \subseteq Mps \X Whats
  BY DEF Whats
<1> QED
  BY <1>2, <1>4, <1>5, <1>6, <1>7 DEF Good, t

\* What no MP owns is in no list, so that a list with it is longer by one.
LEMMA LongerLists ==
  ASSUME NEW s, Sound(s), NEW m \in Mps, s.mps[m].alive
  PROVE  /\ Cardinality(s.mps[m].vars) \in Nat /\ Cardinality(s.mps[m].equs) \in Nat
         /\ \A v \in Vars : s.vars[v].mp = NA =>
               Cardinality(s.mps[m].vars \cup {v}) = Cardinality(s.mps[m].vars) + 1
         /\ \A e \in Equs : s.equs[e].mp = NA =>
               Cardinality(s.mps[m].equs \cup {e}) = Cardinality(s.mps[m].equs) + 1
<1>1. s.mps[m].vars \subseteq Vars /\ s.mps[m].equs \subseteq Equs
  BY Owners, Records
<1>2. IsFiniteSet(s.mps[m].vars) /\ IsFiniteSet(s.mps[m].equs)
  BY <1>1, MathPrgmAssumption, FS_Subset
<1>3. \A v \in Vars : s.vars[v].mp = NA => v \notin s.mps[m].vars
  BY Owners
<1>4. \A e \in Equs : s.equs[e].mp = NA => e \notin s.mps[m].equs
  BY Owners
<1> QED
  BY <1>2, <1>3, <1>4, FS_CardinalityType, FS_AddElement

\* An added constraint is counted in a VI.
LEMMA ConstraintKept ==
  ASSUME NEW s, Sound(s), NEW t, NEW m \in Mps, NEW e \in Equs, ConstraintListed(s, t, m, e)
  PROVE  ViKept(s, t, m, {})
<1> SUFFICES ASSUME s.mps[m].alive, IsVi(s, m)
             PROVE  /\ s.mps[m].equs \subseteq t.mps[m].equs
                    /\ Balanced(s.mps[m]) => Balanced(t.mps[m])
  BY DEF ViKept
<1>1. s.mps[m] \in MpRecs /\ s.mps[m].num_cons \in Nat /\ s.mps[m].num_zeros \in Nat
  BY Owners, Records
<1>2. t.mps[m] = [s.mps[m] EXCEPT !.equs = @ \cup {e}, !.num_cons = @ + 1]
  BY DEF ConstraintListed
<1>3. /\ t.mps[m].vars = s.mps[m].vars /\ t.mps[m].equs = s.mps[m].equs \cup {e}
      /\ t.mps[m].num_cons = s.mps[m].num_cons + 1 /\ t.mps[m].num_zeros = s.mps[m].num_zeros
  BY <1>1, <1>2 DEF MpRecs
<1>4. /\ Cardinality(s.mps[m].vars) \in Nat /\ Cardinality(s.mps[m].equs) \in Nat
      /\ Cardinality(s.mps[m].equs \cup {e}) = Cardinality(s.mps[m].equs) + 1
  BY LongerLists DEF ConstraintListed
<1> QED
  BY <1>1, <1>3, <1>4 DEF Balanced

\* An added pair is one variable and one equation, or one variable and one zero.
LEMMA PairKept ==
  ASSUME NEW s, Sound(s), NEW t, NEW m \in Mps, NEW v \in Vars, NEW e \in Equs \cup {NA},
         PairListed(s, t, m, v, e)
  PROVE  ViKept(s, t, m, {})
<1> SUFFICES ASSUME s.mps[m].alive
             PROVE  /\ s.mps[m].equs \subseteq t.mps[m].equs
                    /\ Balanced(s.mps[m]) => Balanced(t.mps[m])
  BY DEF ViKept
<1>1. s.mps[m] \in MpRecs /\ s.mps[m].num_cons \in Nat /\ s.mps[m].num_zeros \in Nat
  BY Owners, Records
<1>2. /\ Cardinality(s.mps[m].vars) \in Nat /\ Cardinality(s.mps[m].equs) \in Nat
      /\ Cardinality(s.mps[m].vars \cup {v}) = Cardinality(s.mps[m].vars) + 1
      /\ e # NA => Cardinality(s.mps[m].equs \cup {e}) = Cardinality(s.mps[m].equs) + 1
  BY LongerLists DEF PairListed
<1>3. CASE e = NA
  <2>1. t.mps[m] = [s.mps[m] EXCEPT !.vars = @ \cup {v}, !.num_zeros = @ + 1]
    BY <1>3 DEF PairListed
  <2>2. /\ t.mps[m].vars = s.mps[m].vars \cup {v} /\ t.mps[m].equs = s.mps[m].equs
        /\ t.mps[m].num_cons = s.mps[m].num_cons /\ t.mps[m].num_zeros = s.mps[m].num_zeros + 1
    BY <1>1, <2>1 DEF MpRecs
  <2> QED
    BY <1>1, <1>2, <2>2 DEF Balanced
<1>4. CASE e # NA
  <2>1. t.mps[m] = [s.mps[m] EXCEPT !.vars = @ \cup {v}, !.equs = @ \cup {e}]
    BY <1>4 DEF PairListed
  <2>2. /\ t.mps[m].vars = s.mps[m].vars \cup {v} /\ t.mps[m].equs = s.mps[m].equs \cup {e}
        /\ t.mps[m].num_cons = s.mps[m].num_cons /\ t.mps[m].num_zeros = s.mps[m].num_zeros
    BY <1>1, <2>1 DEF MpRecs
  <2> QED
    BY <1>1, <1>2, <1>4, <2>2 DEF Balanced
<1> QED
  BY <1>3, <1>4

\* What a step of the invariant does.
Effect == IInv' /\ (failures' = failures => \A x : Accounted(mdl, mdl', x))

\* A call on an MP m that loses at most the objective of m.
LEMMA CallGood ==
  ASSUME IInv, NEW r, NEW m \in Mps, NEW X, NEW eds, NEW d \in {0, 1}, Step(mdl, r.mdl, m, X, d),
         X \subseteq {mdl.mps[m].objequ, mdl.mps[m].objvar}, eds \subseteq Mps \X Whats,
         r.ok => ViKept(mdl, r.mdl, m, eds), Call(r, eds)
  PROVE  Effect
<1>1. Sound(mdl)
  BY DEF IInv
<1>2. Step(mdl, r.mdl, m, X, 1)
  BY <1>1, Wider
<1>3. \A x \in X : Accounted(mdl, r.mdl, x)
  BY DEF Accounted
<1>4. Good(r, eds)
  BY <1>2, <1>3, StepGood
<1> QED
  BY <1>4, GoodCall DEF Effect

\* AddVar, AddConstraint, AddEqu and AddViPair.
LEMMA AddGood ==
  ASSUME IInv, NEW m \in Alive
  PROVE  /\ \A v \in Vars : AddVar(m, v) \/ AddViPair(m, NA, v) => Effect
         /\ \A e \in Active : AddConstraint(m, e) \/ AddEqu(m, e) => Effect
         /\ \A e \in Active, v \in Vars : AddViPair(m, e, v) => Effect
<1>1. Sound(mdl) /\ m \in Mps /\ mdl.mps[m].alive
  BY DEF IInv, Alive
<1>2. {} \subseteq {mdl.mps[m].objequ, mdl.mps[m].objvar} /\ {} \subseteq Mps \X Whats
  OBVIOUS
<1>3. ASSUME NEW v \in Vars, AddVar(m, v) PROVE Effect
  <2> DEFINE r == mp_addvar(mdl, m, v)
  <2>1. Step(mdl, r.mdl, m, {}, 0)
    BY <1>1, AddVarStep
  <2>2. ViKept(mdl, r.mdl, m, {}) /\ Call(r, {})
    BY <1>3 DEF AddVar, ViKept, IsOpt, IsVi
  <2> HIDE DEF r
  <2> QED
    BY <1>1, <1>2, <2>1, <2>2, CallGood, Zenon
<1>4. ASSUME NEW v \in Vars, AddViPair(m, NA, v) PROVE Effect
  <2> DEFINE r == mp_addvipair(mdl, m, NA, v)
  <2>1. Step(mdl, r.mdl, m, {}, 1) /\ (r.ok => PairListed(mdl, r.mdl, m, v, NA))
    BY <1>1, AddZeroStep
  <2>2. Call(r, {})
    BY <1>4 DEF AddViPair
  <2> HIDE DEF r
  <2>3. r.ok => ViKept(mdl, r.mdl, m, {})
    BY <1>1, <2>1, PairKept
  <2> QED
    BY <1>1, <1>2, <2>1, <2>2, <2>3, CallGood
<1>5. ASSUME NEW e \in Active, AddConstraint(m, e) PROVE Effect
  <2> DEFINE r == mp_addconstraint(mdl, m, e)
  <2>1. Step(mdl, r.mdl, m, {}, 1) /\ (r.ok => ConstraintListed(mdl, r.mdl, m, e))
    BY <1>1, AddConstraintStep DEF Active
  <2>2. Call(r, {}) /\ e \in Equs
    BY <1>5 DEF AddConstraint, Active
  <2> HIDE DEF r
  <2>3. r.ok => ViKept(mdl, r.mdl, m, {})
    BY <1>1, <2>1, <2>2, ConstraintKept
  <2> QED
    BY <1>1, <1>2, <2>1, <2>2, <2>3, CallGood
<1>6. ASSUME NEW e \in Active, AddEqu(m, e) PROVE Effect
  <2> DEFINE r == mp_addequ(mdl, m, e)
  <2>1. /\ Step(mdl, r.mdl, m, {}, 0)
        /\ r.ok => /\ r.mdl.equs[e].role = "objective"
                   /\ r.mdl.mps[m] = [mdl.mps[m] EXCEPT !.equs = @ \cup {e}]
    BY <1>1, AddEquStep DEF Active
  <2>2. Call(r, {}) /\ e \in Equs
    BY <1>6 DEF AddEqu, Active
  <2>3. mdl.mps[m] \in MpRecs
    BY <1>1, Owners, Records
  <2> HIDE DEF r
  <2>4. r.ok => r.mdl.mps[m].equs = mdl.mps[m].equs \cup {e}
    BY <2>1, <2>3 DEF MpRecs
  <2>5. r.ok => ViKept(mdl, r.mdl, m, {})
    BY <2>1, <2>4 DEF ViKept, HasObjective
  <2> QED
    BY <1>1, <1>2, <2>1, <2>2, <2>5, CallGood
<1>7. ASSUME NEW e \in Active, NEW v \in Vars, AddViPair(m, e, v) PROVE Effect
  <2> DEFINE r == mp_addvipair(mdl, m, e, v)
  <2>1. Step(mdl, r.mdl, m, {}, 1) /\ (r.ok => PairListed(mdl, r.mdl, m, v, e))
    BY <1>1, AddPairStep DEF Active
  <2>2. Call(r, {}) /\ e \in Equs
    BY <1>7 DEF AddViPair, Active
  <2> HIDE DEF r
  <2>3. r.ok => ViKept(mdl, r.mdl, m, {})
    BY <1>1, <2>1, <2>2, PairKept
  <2> QED
    BY <1>1, <1>2, <2>1, <2>2, <2>3, CallGood
<1> HIDE DEF Effect
<1> QED
  BY <1>3, <1>4, <1>5, <1>6, <1>7

\* The objective of m: SetObjEqu, SetObjVar and EnsureObjEqu.
LEMMA ObjectiveGood ==
  ASSUME IInv, NEW m \in Alive
  PROVE  /\ \A e \in Active : SetObjEqu(m, e) => Effect
         /\ \A v \in Vars \cup {NA} : SetObjVar(m, v) => Effect
         /\ EnsureObjEqu(m) => Effect
<1> DEFINE X == {mdl.mps[m].objequ, mdl.mps[m].objvar}
<1>1. Sound(mdl) /\ m \in Mps /\ mdl.mps[m].alive
  BY DEF IInv, Alive
<1>2. X \subseteq {mdl.mps[m].objequ, mdl.mps[m].objvar} /\ {} \subseteq Mps \X Whats
  OBVIOUS
<1>3. mdl.mps[m].objequ \in X /\ mdl.mps[m].objvar \in X
  OBVIOUS
<1>4. ASSUME IsOpt(mdl, m), NEW t PROVE ViKept(mdl, t, m, {})
  BY <1>4 DEF ViKept, IsOpt, IsVi
<1> HIDE DEF X
<1>5. ASSUME NEW e \in Active, SetObjEqu(m, e) PROVE Effect
  <2> DEFINE r == mp_setobjequ(mdl, m, e)
  <2>1. Step(mdl, r.mdl, m, X, 0) /\ (r.ok => IsOpt(mdl, m))
    BY <1>1, <1>3, SetObjEquStep DEF Active
  <2>2. Call(r, {})
    BY <1>5 DEF SetObjEqu
  <2> HIDE DEF r
  <2> QED
    BY <1>1, <1>2, <1>4, <2>1, <2>2, CallGood, Zenon
<1>6. ASSUME NEW v \in Vars \cup {NA}, SetObjVar(m, v) PROVE Effect
  <2> DEFINE r == mp_setobjvar(mdl, m, v)
  <2>1. Step(mdl, r.mdl, m, X, 0) /\ (r.ok => IsOpt(mdl, m))
    BY <1>1, <1>3, SetObjVarStep
  <2>2. Call(r, {})
    BY <1>6 DEF SetObjVar
  <2> HIDE DEF r
  <2> QED
    BY <1>1, <1>2, <1>4, <2>1, <2>2, CallGood
<1>7. ASSUME EnsureObjEqu(m) PROVE Effect
  <2>1. PICK n \in Spare(mdl) : Call(mp_ensure_obequ(mdl, m, n), {})
    BY <1>7 DEF EnsureObjEqu
  <2> DEFINE r == mp_ensure_obequ(mdl, m, n)
  <2>2. Step(mdl, r.mdl, m, X, 0) /\ (r.ok => IsOpt(mdl, m))
    BY <1>1, EnsureStep, Zenon DEF X
  <2>3. Call(r, {})
    BY <2>1
  <2> HIDE DEF r
  <2> QED
    BY <1>1, <1>2, <1>4, <2>2, <2>3, CallGood, Zenon
<1> HIDE DEF Effect
<1> QED
  BY <1>5, <1>6, <1>7

\* RmVar.
LEMMA RmVarGood ==
  ASSUME IInv, NEW m \in Alive, NEW v \in Vars, RmVar(m, v)
  PROVE  Effect
<1> DEFINE r == mp_rm_var(mdl, m, v)
           eds == {<<m, "var">>}
           X == {v}
<1>1. Sound(mdl) /\ m \in Mps
  BY DEF IInv, Alive
<1>2. Call(r, eds) /\ v # mdl.mps[m].objvar
  BY DEF RmVar
<1>3. Step(mdl, r.mdl, m, X, 0) /\ (r.ok => r.mdl.vars[v].mp = NA)
  BY <1>1, <1>2, RmVarStep
<1> HIDE DEF r
<1>4. Step(mdl, r.mdl, m, X, 1)
  BY <1>1, <1>3, Wider
<1>5. r.ok => \A x \in X : Accounted(mdl, r.mdl, x)
  BY <1>3 DEF Accounted
<1>6. ViKept(mdl, r.mdl, m, eds) /\ eds \subseteq Mps \X Whats
  BY <1>1 DEF ViKept, Whats
<1> HIDE DEF eds, X
<1>7. Good(r, eds)
  BY <1>4, <1>5, <1>6, StepGood, Zenon
<1> QED
  BY <1>2, <1>7, GoodCall DEF Effect

\* Finalize.
LEMMA FinalizeGood ==
  ASSUME IInv, NEW m \in Alive, Finalize(m)
  PROVE  Effect
<1> DEFINE X == {mdl.mps[m].objequ}
<1>1. Sound(mdl) /\ m \in Mps /\ mdl.mps[m].alive
  BY DEF IInv, Alive
<1>2. PICK resolved \in BOOLEAN : Call(mp_finalize(mdl, m, resolved), {})
  BY DEF Finalize
<1>3. mdl.mps[m].objvar # NA => mdl.column[mdl.mps[m].objvar] # <<>>
  BY DEF Finalize
<1> DEFINE r == mp_finalize(mdl, m, resolved)
<1>4. /\ Step(mdl, r.mdl, m, X, 0)
      /\ IsOpt(mdl, m) \/ r.mdl.mps[m] = mdl.mps[m]
           \/ r.mdl.mps[m] = [mdl.mps[m] EXCEPT !.finalized = TRUE]
  BY <1>1, <1>3, FinalizeStep
<1>5. Call(r, {})
  BY <1>2
<1> HIDE DEF r
<1>6. ViKept(mdl, r.mdl, m, {})
  <2> SUFFICES ASSUME IsVi(mdl, m)
               PROVE  /\ mdl.mps[m].equs \subseteq r.mdl.mps[m].equs
                      /\ Balanced(mdl.mps[m]) => Balanced(r.mdl.mps[m])
    BY DEF ViKept
  <2>1. mdl.mps[m] \in MpRecs
    BY <1>1, Owners, Records
  <2>2. /\ r.mdl.mps[m].vars = mdl.mps[m].vars /\ r.mdl.mps[m].equs = mdl.mps[m].equs
        /\ r.mdl.mps[m].num_cons = mdl.mps[m].num_cons
        /\ r.mdl.mps[m].num_zeros = mdl.mps[m].num_zeros
    BY <1>4, <2>1 DEF MpRecs, IsOpt, IsVi
  <2> QED
    BY <2>2 DEF Balanced
<1>7. X \subseteq {mdl.mps[m].objequ, mdl.mps[m].objvar} /\ {} \subseteq Mps \X Whats
  OBVIOUS
<1> QED
  BY <1>1, <1>4, <1>5, <1>6, <1>7, CallGood

\* The functions and the equations that define their objective variable: ObjEqu2ObjFun and
\* DefMap2Map.
LEMMA DefinedGood ==
  ASSUME IInv, NEW m \in Alive
  PROVE  (ObjEqu2ObjFun(m) => Effect) /\ (DefMap2Map(m) => Effect)
<1> DEFINE X == {mdl.mps[m].objequ, mdl.mps[m].objvar}
           eds == {<<m, "equ">>}
<1>1. Sound(mdl) /\ m \in Mps /\ mdl.mps[m].alive
  BY DEF IInv, Alive
<1>2. X \subseteq {mdl.mps[m].objequ, mdl.mps[m].objvar} /\ eds \subseteq Mps \X Whats
  BY <1>1 DEF Whats
<1>3. \A t : ViKept(mdl, t, m, eds)
  BY DEF ViKept
<1>4. ASSUME Defined(m)
      PROVE  /\ mdl.mps[m].objequ \in Equs /\ mdl.equs[mdl.mps[m].objequ].active
             /\ mdl.equs[mdl.mps[m].objequ].mp = m
  BY <1>4 DEF Defined, Editable, Active
<1>5. ASSUME ObjEqu2ObjFun(m) PROVE Effect
  <2>1. PICK n \in Spare(mdl) : Defined(m) /\ Call(rmdl_mp_objequ2objfun(mdl, m, n), eds)
    BY <1>5 DEF ObjEqu2ObjFun
  <2> DEFINE r == rmdl_mp_objequ2objfun(mdl, m, n)
  <2>2. Step(mdl, r.mdl, m, X, 1)
    BY <1>1, <1>4, <2>1, ObjFunStep
  <2>3. Call(r, eds)
    BY <2>1
  <2> HIDE DEF r, X, eds
  <2> QED
    BY <1>1, <1>2, <1>3, <2>2, <2>3, CallGood
<1>6. ASSUME DefMap2Map(m) PROVE Effect
  <2>1. PICK n \in Spare(mdl) : Defined(m) /\ Call(rmdl_equ_defmap2map(mdl, m, n), eds)
    BY <1>6 DEF DefMap2Map
  <2> DEFINE r == rmdl_equ_defmap2map(mdl, m, n)
  <2>2. Step(mdl, r.mdl, m, X, 1)
    BY <1>1, <1>4, <2>1, DefMapStep
  <2>3. Call(r, eds)
    BY <2>1
  <2> HIDE DEF r, X, eds
  <2> QED
    BY <1>1, <1>2, <1>3, <2>2, <2>3, CallGood
<1> HIDE DEF Effect
<1> QED
  BY <1>5, <1>6

\* Contract.
LEMMA ContractionGood ==
  ASSUME IInv, NEW m \in Alive, NEW c \in Alive, Contract(m, c)
  PROVE  Effect
<1> DEFINE t == mp_claimequvar_from_mp(mdl, m, c)
           e == mdl.mps[c].objequ
           q == IF e \in Active THEN rmdl_rm_equ(t, e) ELSE OK(t)
           r == [q EXCEPT !.mdl.mps[c].alive = FALSE]
           eds == {<<c, "mp">>}
<1>1. Sound(mdl) /\ m \in Mps /\ mdl.mps[m].alive /\ c \in Mps /\ mdl.mps[c].alive
  BY DEF IInv, Alive
<1>2. /\ m # c /\ IsOpt(mdl, m) /\ (e # NA => mdl.equs[e].mp = c)
      /\ Call(r, eds)
  BY DEF Contract
<1>3. ContractsInOrder(mdl, r.mdl, m, c)
  BY <1>1, <1>2, ContractOrder, Zenon DEF Active
<1> HIDE DEF r
<1>4. Contracts(mdl, r.mdl, m, c)
  BY <1>1, <1>3, ContractStep
<1>5. Good(r, eds)
  BY <1>1, <1>2, <1>4, ContractGood
<1> QED
  BY <1>2, <1>5, GoodCall DEF Effect

\* The equation that was replaced has its copy where it was.
LEMMA ReplacedAccounted ==
  ASSUME IInv, NEW e \in Equs, NEW n, NEW t, NEW m, NEW X, NEW d, Step(mdl, t, m, X, d),
         Replaced(mdl, t, e, n)
  PROVE  Accounted(mdl, t, e)
<1> SUFFICES ASSUME e \in Listed(mdl) PROVE t.equs[e].res \in Listed(t) /\ ~ t.equs[e].active
  BY DEF Accounted
<1>1. Sound(mdl)
  BY DEF IInv
<1>2. PICK k \in Mps : mdl.mps[k].alive /\ e \in mdl.mps[k].vars \cup mdl.mps[k].equs
  BY DEF Listed
<1>3. e \in mdl.mps[k].equs
  <2>1. mdl.mps[k].vars \subseteq Vars /\ Vars \cap Equs = {}
    BY <1>1, Owners, Records, MathPrgmAssumption
  <2> QED
    BY <1>2, <2>1
<1>4. mdl.equs[e].mp = k /\ k # NA
  BY <1>1, <1>2, <1>3, Owners
<1>5. t.mps[k].alive
  BY <1>2 DEF Step, Keeps
<1>6. n \in t.mps[k].equs
  BY <1>4 DEF Replaced
<1>7. n \in Listed(t)
  BY <1>5, <1>6 DEF Listed
<1> QED
  BY <1>7 DEF Replaced

\* A call on an equation that notes its MP.
LEMMA EquCallGood ==
  ASSUME IInv, NEW e \in Editable, NEW r, NEW X, NEW eds, NEW d \in {0, 1},
         Step(mdl, r.mdl, mdl.equs[e].mp, X, d),
         Owner(e, "equ") \subseteq eds, eds \subseteq Owner(e, "equ") \cup Owner(e, "obj"),
         r.ok => \A x \in X : Accounted(mdl, r.mdl, x), Call(r, eds)
  PROVE  Effect
<1> DEFINE m == mdl.equs[e].mp
<1>1. Sound(mdl) /\ m \in Mps \cup {NA} /\ NA \notin Mps
  BY Owners DEF IInv, Editable, Alive
<1>2. Step(mdl, r.mdl, m, X, 1)
  BY <1>1, Wider
<1>3. eds \subseteq Mps \X Whats
  BY <1>1 DEF Owner, Whats
<1>4. m \in Mps => <<m, "equ">> \in eds
  BY <1>1 DEF Owner
<1>5. m \in Mps => ViKept(mdl, r.mdl, m, eds)
  BY <1>4 DEF ViKept
<1> HIDE DEF m
<1>6. Good(r, eds)
  BY <1>2, <1>3, <1>5, StepGood, Zenon
<1> QED
  BY <1>6, GoodCall DEF Effect

\* RmEqu, Dup, DupExcept and Flip.
LEMMA EquGood ==
  ASSUME IInv, NEW e \in Editable
  PROVE  /\ RmEqu(e) => Effect
         /\ Dup(e) => Effect
         /\ \A v \in Vars : DupExcept(e, v) => Effect
         /\ Flip(e) => Effect
<1> DEFINE m == mdl.equs[e].mp
           eds == Owner(e, "equ")
<1>1. Sound(mdl) /\ e \in Equs /\ mdl.equs[e].active /\ m \in Mps \cup {NA} /\ NA \notin Mps
  BY Owners DEF IInv, Editable, Active, Alive
<1>2. eds \subseteq eds /\ eds \subseteq eds \cup Owner(e, "obj")
  OBVIOUS
<1>3. ASSUME RmEqu(e) PROVE Effect
  <2> DEFINE r == rmdl_rm_equ(mdl, e)
  <2>1. Step(mdl, r.mdl, m, {e}, 0) /\ Removed(mdl, r.mdl, e)
    BY <1>1, RmEquStep
  <2>2. Call(r, eds)
    BY <1>3 DEF RmEqu
  <2> HIDE DEF r
  <2>3. r.mdl.equs[e] = [mdl.equs[e] EXCEPT !.active = FALSE] /\ mdl.equs[e] \in EquMetas
    BY <1>1, <2>1, Owners, Records, Zenon DEF Removed
  <2>4. ~ r.mdl.equs[e].active /\ r.mdl.equs[e].res = mdl.equs[e].res
    BY <2>3 DEF EquMetas
  <2>5. \A x \in {e} : Accounted(mdl, r.mdl, x)
    BY <1>1, <2>4 DEF Accounted
  <2> HIDE DEF eds
  <2> QED
    BY <1>2, <2>1, <2>2, <2>5, EquCallGood DEF eds
<1>4. ASSUME Dup(e) PROVE Effect
  <2>1. PICK n \in Spare(mdl) : Call(rmdl_dup_equ(mdl, e, n), eds)
    BY <1>4 DEF Dup
  <2> DEFINE r == rmdl_dup_equ(mdl, e, n)
  <2>2. Step(mdl, r.mdl, m, {e}, 1) /\ (r.ok => Replaced(mdl, r.mdl, e, n))
    BY <1>1, DupStep, Zenon
  <2>3. Call(r, eds)
    BY <2>1
  <2> HIDE DEF r
  <2>4. r.ok => \A x \in {e} : Accounted(mdl, r.mdl, x)
    BY <1>1, <2>2, ReplacedAccounted
  <2> QED
    BY <1>2, <2>2, <2>3, <2>4, EquCallGood
<1>5. ASSUME NEW v \in Vars, DupExcept(e, v) PROVE Effect
  <2>1. PICK n \in Spare(mdl) : Call(rmdl_equ_dup_except(mdl, e, n, v), eds)
    BY <1>5 DEF DupExcept
  <2> DEFINE r == rmdl_equ_dup_except(mdl, e, n, v)
             X == {e} \cup {mdl.mps[k].objequ : k \in {k \in Mps : k = m}}
  <2>2. e \in X /\ \A k \in Mps : m = k => mdl.mps[k].objequ \in X
    OBVIOUS
  <2>3. \A x \in X : x = e \/ \E k \in Mps : x = mdl.mps[k].objequ
    OBVIOUS
  <2> HIDE DEF X
  <2>4. Step(mdl, r.mdl, m, X, 1) /\ (r.ok => Replaced(mdl, r.mdl, e, n))
    BY <1>1, <2>2, DupExceptStep
  <2>5. Call(r, eds)
    BY <2>1
  <2> HIDE DEF r
  <2>6. r.ok => Accounted(mdl, r.mdl, e)
    BY <1>1, <2>4, ReplacedAccounted
  <2>7. \A x : (\E k \in Mps : x = mdl.mps[k].objequ) => Accounted(mdl, r.mdl, x)
    BY DEF Accounted
  <2>8. r.ok => \A x \in X : Accounted(mdl, r.mdl, x)
    BY <2>3, <2>6, <2>7
  <2> QED
    BY <1>2, <2>4, <2>5, <2>8, EquCallGood
<1>6. ASSUME Flip(e) PROVE Effect
  <2> DEFINE eds2 == eds \cup FlippedObj(e)
  <2>1. PICK n \in Spare(mdl) : Call(rmdl_equ_flip(mdl, e, n), eds2)
    BY <1>6 DEF Flip
  <2> DEFINE r == rmdl_equ_flip(mdl, e, n)
  <2>2. Step(mdl, r.mdl, m, {e}, 0) /\ (r.ok => Replaced(mdl, r.mdl, e, n))
    BY <1>1, FlipStep
  <2>3. Call(r, eds2) /\ eds \subseteq eds2 /\ eds2 \subseteq eds \cup Owner(e, "obj")
    BY <2>1 DEF FlippedObj
  <2> HIDE DEF r, eds2
  <2>4. r.ok => \A x \in {e} : Accounted(mdl, r.mdl, x)
    BY <1>1, <2>2, ReplacedAccounted
  <2> QED
    BY <2>2, <2>3, <2>4, EquCallGood
<1> HIDE DEF Effect
<1> QED
  BY <1>3, <1>4, <1>5, <1>6

-----------------------------------------------------------------------------
(***************************************************************************)
(* The theorems.                                                           *)
(***************************************************************************)

\* The initial models are sound.
LEMMA InitInv == Init => IInv
<1> SUFFICES ASSUME Init PROVE IInv
  OBVIOUS
<1>1. PICK k \in Kinds :
         mdl = [vars |-> [v \in Vars |-> NoVar],
                equs |-> [e \in Equs |-> IF e \in DOMAIN StartEqu
                                         THEN [NoEqu EXCEPT !.active = TRUE,
                                                            !.object = StartEqu[e].object,
                                                            !.cone = StartEqu[e].cone]
                                         ELSE NoEqu],
                mps |-> [m \in Mps |-> Mp(k[m])],
                column |-> StartColumn]
  BY Zenon DEF Init
<1>2. /\ calls = 0 /\ failures = 0 /\ edited = {}
      /\ MaxCalls \in Nat /\ MaxFailures \in Nat /\ k \in [Mps -> Senses]
      /\ DOMAIN StartEqu \subseteq Equs
      /\ \A e \in DOMAIN StartEqu : StartEqu[e] \in [object : Objects, cone : Cones]
  BY MathPrgmAssumption, Zenon DEF Init
<1>3. \A v \in Vars : mdl.vars[v] = NoVar
  BY <1>1, Zenon
<1>4. \A e \in Equs : mdl.equs[e] = IF e \in DOMAIN StartEqu
                                    THEN [NoEqu EXCEPT !.active = TRUE,
                                                       !.object = StartEqu[e].object,
                                                       !.cone = StartEqu[e].cone]
                                    ELSE NoEqu
  BY <1>1, Zenon
<1>5. \A m \in Mps : mdl.mps[m] = Mp(k[m])
  BY <1>1, Zenon
<1>6. \A e \in Equs : /\ mdl.equs[e] \in EquMetas /\ mdl.equs[e].mp = NA
                      /\ mdl.equs[e].role = "undefined"
                      /\ mdl.equs[e].active <=> e \in DOMAIN StartEqu
                      /\ mdl.equs[e].active => mdl.equs[e].object # "none"
  <2> SUFFICES ASSUME NEW e \in Equs
               PROVE  /\ mdl.equs[e] \in EquMetas /\ mdl.equs[e].mp = NA
                      /\ mdl.equs[e].role = "undefined"
                      /\ mdl.equs[e].active <=> e \in DOMAIN StartEqu
                      /\ mdl.equs[e].active => mdl.equs[e].object # "none"
    OBVIOUS
  <2>1. CASE e \in DOMAIN StartEqu
    <3>1. StartEqu[e].object \in Objects /\ StartEqu[e].cone \in Cones
      BY <1>2, <2>1
    <3>2. mdl.equs[e] = [mp |-> NA, role |-> "undefined", dual |-> NA, active |-> TRUE,
                         object |-> StartEqu[e].object, cone |-> StartEqu[e].cone, res |-> NA]
      BY <1>4, <2>1, Zenon DEF NoEqu
    <3> QED
      BY <2>1, <3>1, <3>2 DEF EquMetas, Objects
  <2>2. CASE e \notin DOMAIN StartEqu
    <3>1. mdl.equs[e] = NoEqu
      BY <1>4, <2>2, Zenon
    <3> QED
      BY <2>2, <3>1 DEF EquMetas, NoEqu, Cones
  <2> QED
    BY <2>1, <2>2
<1>7. NoVar \in VarMetas
  BY DEF NoVar, VarMetas
<1>8. \A m \in Mps : /\ Mp(k[m]) \in MpRecs /\ Mp(k[m]).vars = {} /\ Mp(k[m]).equs = {}
                     /\ Mp(k[m]).objvar = NA /\ Mp(k[m]).objequ = NA
                     /\ Mp(k[m]).num_cons = 0 /\ Mp(k[m]).num_zeros = 0
  BY <1>2 DEF Mp, MpRecs
<1>9. StartColumn \in [Vars -> Seq(Entries)] /\ mdl.column = StartColumn
      /\ \A v \in Vars : \A i \in DOMAIN StartColumn[v] : StartColumn[v][i].ei \in DOMAIN StartEqu
  <2> DEFINE D == [ei : DOMAIN StartEqu, nl : BOOLEAN]
  <2>1. StartColumn \in [Vars -> Seq(D)]
    BY MathPrgmAssumption, Zenon
  <2>2. D \subseteq Entries
    BY <1>2 DEF Entries
  <2> HIDE DEF D
  <2>3. \A v \in Vars : StartColumn[v] \in Seq(Entries)
    BY <2>1, <2>2
  <2>4. \A v \in Vars : \A i \in DOMAIN StartColumn[v] : StartColumn[v][i] \in D
    BY <2>1
  <2> QED
    BY <1>1, <2>1, <2>3, <2>4, Zenon DEF D
<1>10. mdl \in Mdls
  <2>1. [v \in Vars |-> NoVar] \in [Vars -> VarMetas] /\ mdl.vars = [v \in Vars |-> NoVar]
    BY <1>1, <1>7, Zenon
  <2>2. mdl.equs \in [Equs -> EquMetas]
    BY <1>1, <1>6, Zenon
  <2>3. mdl.mps \in [Mps -> MpRecs]
    BY <1>1, <1>8, Zenon
  <2>4. mdl = [vars |-> mdl.vars, equs |-> mdl.equs, mps |-> mdl.mps, column |-> mdl.column]
    BY <1>1, Zenon
  <2> QED
    BY <1>9, <2>1, <2>2, <2>3, <2>4 DEF Mdls
<1>11. Occupied(mdl) /\ UnownedRoles(mdl)
  BY <1>6 DEF Occupied, UnownedRoles
<1>12. ColumnsActive(mdl)
  BY <1>2, <1>6, <1>9 DEF ColumnsActive
<1>13. VarsOwned(mdl) /\ EqusOwned(mdl) /\ ObjequsMarked(mdl)
  BY <1>5, <1>8 DEF VarsOwned, EqusOwned, ObjequsMarked
<1>14. Bounded(mdl, calls) /\ Counted(mdl, edited)
  <2>1. Bounded(mdl, calls)
    BY <1>2, <1>5, <1>8 DEF Bounded
  <2>2. \A m \in Mps : Balanced(mdl.mps[m])
    <3>1. Cardinality({}) \in Nat
      BY FS_EmptySet
    <3> QED
      BY <1>5, <1>8, <3>1, Zenon DEF Balanced
  <2> QED
    BY <2>1, <2>2 DEF Counted
<1> QED
  BY <1>2, <1>10, <1>11, <1>12, <1>13, <1>14 DEF IInv, Sound

\* Every step is one of the calls.
LEMMA NextInv == IInv /\ Next => Effect
<1> SUFFICES ASSUME IInv, Next PROVE Effect
  OBVIOUS
<1>1. ASSUME NEW m \in Alive, OnMp(m) PROVE Effect
  <2>1. CASE Finalize(m)
    BY <2>1, FinalizeGood
  <2>2. CASE EnsureObjEqu(m) \/ SetObjVar(m, NA)
    BY <2>2, ObjectiveGood
  <2>3. CASE ObjEqu2ObjFun(m) \/ DefMap2Map(m)
    BY <2>3, DefinedGood
  <2>4. ASSUME NEW v \in Vars, AddVar(m, v) \/ SetObjVar(m, v) \/ RmVar(m, v) \/ AddViPair(m, NA, v)
        PROVE  Effect
    <3>1. CASE AddVar(m, v) \/ AddViPair(m, NA, v)
      BY <3>1, AddGood
    <3>2. CASE SetObjVar(m, v)
      BY <3>2, ObjectiveGood
    <3>3. CASE RmVar(m, v)
      BY <3>3, RmVarGood
    <3> QED
      BY <2>4, <3>1, <3>2, <3>3
  <2>5. ASSUME NEW e \in Active, AddConstraint(m, e) \/ AddEqu(m, e) \/ SetObjEqu(m, e)
        PROVE  Effect
    <3>1. CASE AddConstraint(m, e) \/ AddEqu(m, e)
      BY <3>1, AddGood
    <3>2. CASE SetObjEqu(m, e)
      BY <3>2, ObjectiveGood
    <3> QED
      BY <2>5, <3>1, <3>2
  <2>6. ASSUME NEW e \in Active, NEW v \in Vars, AddViPair(m, e, v) PROVE Effect
    BY <2>6, AddGood
  <2>7. ASSUME NEW c \in Alive, Contract(m, c) PROVE Effect
    BY <2>7, ContractionGood
  <2> HIDE DEF Effect
  <2> QED
    BY <1>1, <2>1, <2>2, <2>3, <2>4, <2>5, <2>6, <2>7 DEF OnMp
<1>2. ASSUME NEW e \in Editable, RmEqu(e) \/ Dup(e) \/ Flip(e) \/ \E v \in Vars : DupExcept(e, v)
      PROVE  Effect
  BY <1>2, EquGood
<1> HIDE DEF Effect
<1> QED
  BY <1>1, <1>2 DEF Next

\* The inductive invariant holds of every behaviour, for every model, every number of calls and
\* every number of failures.
THEOREM IInvCorrect == Spec => []IInv
<1>1. IInv /\ [Next]_vars => IInv'
  <2> SUFFICES ASSUME IInv, [Next]_vars PROVE IInv'
    OBVIOUS
  <2>1. CASE Next
    BY <2>1, NextInv DEF Effect
  <2>2. CASE UNCHANGED vars
    BY <2>2 DEF vars, IInv, Sound, Bounded, Counted, Occupied, ColumnsActive, VarsOwned, EqusOwned,
       UnownedRoles, ObjequsMarked, HasObjective, IsVi
  <2> QED
    BY <2>1, <2>2
<1> QED
  BY InitInv, <1>1, PTL DEF Spec

\* The invariant says what the run checks.
LEMMA ListsFollow == IInv => ListsExact
<1> SUFFICES ASSUME IInv PROVE ListsExact
  OBVIOUS
<1>1. Sound(mdl) /\ mdl \in Mdls /\ MaxCalls \in Nat /\ calls \in 0 .. MaxCalls
  BY MathPrgmAssumption DEF IInv, Sound
<1>2. mdl.vars \in [Vars -> VarMetas] /\ mdl.equs \in [Equs -> EquMetas] /\ mdl.mps \in [Mps -> MpRecs]
  BY <1>1, Records
<1>3. \A m \in Mps : mdl.mps[m] \in MpRecords
  <2> SUFFICES ASSUME NEW m \in Mps PROVE mdl.mps[m] \in MpRecords
    OBVIOUS
  <2>1. mdl.mps[m] \in MpRecs /\ mdl.mps[m].num_cons \in Nat /\ mdl.mps[m].num_zeros \in Nat
    BY <1>1, Records
  <2>2. mdl.mps[m].num_cons \in 0 .. MaxCalls /\ mdl.mps[m].num_zeros \in 0 .. MaxCalls
    BY <1>1, <2>1 DEF IInv, Bounded
  <2> QED
    BY <2>1, <2>2 DEF MpRecs, MpRecords
<1>4. mdl.mps \in [Mps -> MpRecords]
  BY <1>2, <1>3
<1>5. \A v \in Vars : \A i \in DOMAIN mdl.column[v] : mdl.column[v][i].ei \in Active
  BY <1>1, ColumnEntries DEF Sound, ColumnsActive, Active
<1>6. TypeOK
  BY <1>1, <1>2, <1>4, <1>5 DEF TypeOK, IInv, Whats
<1>7. ListedIsOwned
  <2>1. \A m \in Mps : mdl.mps[m].vars \subseteq Vars /\ mdl.mps[m].equs \subseteq Equs
    BY <1>1, Records
  <2> QED
    BY <1>1, <2>1, Owners DEF ListedIsOwned, Alive, Active
<1>8. ViCounts
  BY DEF IInv, ViCounts, Counted, Alive, HasObjective, Balanced
<1> QED
  BY <1>6, <1>7, <1>8 DEF ListsExact

\* The lists of the MPs, the owners in the metadata and the counts of a VI are one account after
\* any calls, the failed ones included.
THEOREM ListsExactCorrect == Spec => []ListsExact
BY IInvCorrect, ListsFollow, PTL

\* No call that succeeds loses an equation or a variable: what leaves the lists was an objective
\* or was taken out, and an equation that left the model has its copy in a list.
THEOREM NothingLostCorrect == Spec => NothingLost
<1> DEFINE Lose == failures' = failures =>
         \A x \in Listed(mdl) \ Listed(mdl') :
            \/ \E m \in Mps : x \in {mdl.mps[m].objequ, mdl.mps[m].objvar}
            \/ x \in Vars /\ mdl'.vars[x].mp = NA
            \/ x \in Equs /\ ~ mdl'.equs[x].active
               /\ (mdl'.equs[x].res = mdl.equs[x].res \/ mdl'.equs[x].res \in Listed(mdl'))
<1>1. IInv /\ [Next]_vars => [Lose]_vars
  <2> SUFFICES ASSUME IInv, Next PROVE Lose
    OBVIOUS
  <2>1. failures' = failures => \A x : Accounted(mdl, mdl', x)
    BY NextInv DEF Effect
  <2> QED
    BY <2>1 DEF Accounted
<1> QED
  BY IInvCorrect, <1>1, PTL DEF Spec, NothingLost

-----------------------------------------------------------------------------
(***************************************************************************)
(* The rosetta.                                                            *)
(***************************************************************************)

\* n copies lead from e to d, which has none: f goes through them.
Path(s, f, e, d, n) ==
    /\ f[0] = e /\ f[n] = d
    /\ \A k \in Nat : k < n => s.equs[f[k]].res = f[k + 1]
    /\ s.equs[d].res = NA

\* The equations that have a copy; a path goes through each of them once at most.
Sources(s) == {e \in Equs : s.equs[e].res # NA}
Ends(s, e, d) ==
    \E n \in Nat : \E f \in [Nat -> Equs] :
        n <= Cardinality(Sources(s)) /\ Path(s, f, e, d, n)

\* The sources are finitely many.
LEMMA SourcesFinite ==
  ASSUME NEW s
  PROVE  /\ IsFiniteSet(Sources(s)) /\ Cardinality(Sources(s)) \in Nat
         /\ Cardinality(Equs) \in Nat /\ Cardinality(Sources(s)) <= Cardinality(Equs)
<1>1. Sources(s) \subseteq Equs
  BY DEF Sources
<1> HIDE DEF Sources
<1> QED
  BY <1>1, MathPrgmAssumption, FS_Subset, FS_CardinalityType

\* An equation without a copy is the end of its own path.
LEMMA OwnEnd ==
  ASSUME NEW s, NEW e \in Equs, s.equs[e].res = NA
  PROVE  Ends(s, e, e)
<1> DEFINE f == [k \in Nat |-> e]
<1>1. f \in [Nat -> Equs] /\ 0 \in Nat /\ 0 <= Cardinality(Sources(s))
  BY SourcesFinite
<1>2. Path(s, f, e, e, 0)
  BY DEF Path
<1> HIDE DEF f
<1> QED
  BY <1>1, <1>2 DEF Ends

\* The end of a path is what Latest finds.
LEMMA EndIsLatest ==
  ASSUME NEW e \in Equs, NEW d \in Equs, Ends(mdl, e, d)
  PROVE  Latest(e) = d
<1> DEFINE N == Cardinality(Equs)
           Fix(h) == h = [k \in 0 .. N |->
                            IF k = 0 THEN e
                            ELSE IF mdl.equs[h[k-1]].res = NA THEN h[k-1] ELSE mdl.equs[h[k-1]].res]
           g == CHOOSE h : Fix(h)
<1>1. Latest(e) = g[N]
  BY DEF Latest
<1>2. PICK n \in Nat, f \in [Nat -> Equs] : n <= Cardinality(Sources(mdl)) /\ Path(mdl, f, e, d, n)
  BY DEF Ends
<1>3. n <= N /\ N \in Nat
  BY <1>2, SourcesFinite
<1>4. /\ f[0] = e /\ f[n] = d /\ mdl.equs[d].res = NA
      /\ \A k \in Nat : k < n => mdl.equs[f[k]].res = f[k + 1]
  BY <1>2 DEF Path
<1>5. NA \notin Equs
  BY MathPrgmAssumption
<1> HIDE DEF N
<1> DEFINE h == [k \in 0 .. N |-> IF k <= n THEN f[k] ELSE d]
<1>6. Fix(h)
  <2>1. ASSUME NEW k \in 0 .. N, k # 0
        PROVE  h[k] = IF mdl.equs[h[k-1]].res = NA THEN h[k-1] ELSE mdl.equs[h[k-1]].res
    <3>1. k - 1 \in 0 .. N /\ k - 1 \in Nat /\ (k - 1) + 1 = k /\ k \in Nat
      BY <1>3, <2>1
    <3>2. CASE k <= n
      <4>1. k - 1 < n /\ k - 1 <= n
        BY <3>1, <3>2
      <4>2. h[k-1] = f[k-1] /\ h[k] = f[k]
        BY <3>1, <3>2, <4>1
      <4>3. mdl.equs[f[k-1]].res = f[k] /\ f[k] # NA
        BY <1>4, <1>5, <3>1, <4>1
      <4> QED
        BY <4>2, <4>3
    <3>3. CASE ~ (k <= n)
      <4>1. h[k] = d
        BY <3>3
      <4>2. h[k-1] = d
        <5>1. k - 1 <= n => k - 1 = n
          BY <3>1, <3>3
        <5> QED
          BY <1>4, <3>1, <5>1
      <4> QED
        BY <1>4, <4>1, <4>2
    <3> QED
      BY <3>2, <3>3
  <2>2. h[0] = e
    BY <1>3, <1>4
  <2> QED
    BY <2>1, <2>2, Zenon
<1>7. Fix(g)
  BY <1>6, Zenon
<1> HIDE DEF g, h
<1> DEFINE T == {k \in Nat : k <= N => g[k] = h[k]}
<1>8. 0 \in T
  <2>1. g[0] = e /\ h[0] = e
    BY <1>3, <1>6, <1>7
  <2> QED
    BY <2>1
<1>9. ASSUME NEW k \in T PROVE k + 1 \in T
  <2> SUFFICES ASSUME k + 1 <= N PROVE g[k + 1] = h[k + 1]
    OBVIOUS
  <2>1. k \in Nat /\ k + 1 \in 0 .. N /\ k + 1 # 0 /\ (k + 1) - 1 = k /\ k <= N
    BY <1>3
  <2>2. g[k] = h[k]
    BY <1>9, <2>1
  <2>3. g[k + 1] = IF mdl.equs[g[k]].res = NA THEN g[k] ELSE mdl.equs[g[k]].res
    BY <1>7, <2>1
  <2>4. h[k + 1] = IF mdl.equs[h[k]].res = NA THEN h[k] ELSE mdl.equs[h[k]].res
    BY <1>6, <2>1
  <2> QED
    BY <2>2, <2>3, <2>4
<1>10. T = Nat
  <2>1. T \subseteq Nat
    OBVIOUS
  <2> HIDE DEF T
  <2> QED
    BY <1>8, <1>9, <2>1, AP!NatSetInduction, Zenon
<1>11. g[N] = h[N]
  BY <1>3, <1>10
<1>12. h[N] = d
  <2>1. N <= n => N = n
    BY <1>3
  <2> QED
    BY <1>3, <1>4, <2>1 DEF h
<1> QED
  BY <1>1, <1>11, <1>12

\* The paths depend on the rosetta only.
LEMMA SameEnds ==
  ASSUME NEW s, NEW t, \A f \in Equs : t.equs[f].res = s.equs[f].res,
         NEW e \in Equs, NEW d \in Equs, Ends(s, e, d)
  PROVE  Ends(t, e, d)
<1>1. Sources(t) = Sources(s)
  BY DEF Sources
<1>2. PICK n \in Nat, f \in [Nat -> Equs] : n <= Cardinality(Sources(s)) /\ Path(s, f, e, d, n)
  BY DEF Ends
<1>3. \A k \in Nat : f[k] \in Equs
  BY <1>2
<1>4. Path(t, f, e, d, n)
  BY <1>2, <1>3 DEF Path
<1> QED
  BY <1>1, <1>2, <1>4 DEF Ends

\* The path to x goes on to its new copy, the others stay.
LEMMA NewEnds ==
  ASSUME NEW s, NEW t, NEW x \in Equs, NEW y \in Equs, x # y,
         s.equs[x].res = NA, t.equs[x].res = y, t.equs[y].res = NA,
         \A f \in Equs : f # x => t.equs[f].res = s.equs[f].res,
         NEW e \in Equs, NEW d \in Equs, Ends(s, e, d)
  PROVE  Ends(t, e, IF d = x THEN y ELSE d)
<1>1. Cardinality(Sources(t)) = Cardinality(Sources(s)) + 1
  <2>1. Sources(t) = Sources(s) \cup {x} /\ x \notin Sources(s)
    BY MathPrgmAssumption DEF Sources
  <2> HIDE DEF Sources
  <2> QED
    BY <2>1, SourcesFinite, FS_AddElement, Zenon
<1>2. PICK n \in Nat, f \in [Nat -> Equs] : n <= Cardinality(Sources(s)) /\ Path(s, f, e, d, n)
  BY DEF Ends
<1>3. \A k \in Nat : f[k] \in Equs
  BY <1>2
<1>4. /\ f[0] = e /\ f[n] = d /\ s.equs[d].res = NA
      /\ \A k \in Nat : k < n => s.equs[f[k]].res = f[k + 1]
  BY <1>2 DEF Path
<1>5. \A k \in Nat : k < n => f[k] # x
  BY <1>3, <1>4, MathPrgmAssumption
<1>6. \A k \in Nat : k < n => t.equs[f[k]].res = f[k + 1]
  BY <1>3, <1>4, <1>5
<1>7. Cardinality(Sources(s)) \in Nat
  BY SourcesFinite
<1>8. CASE d # x
  <2>1. Path(t, f, e, d, n)
    BY <1>4, <1>6, <1>8 DEF Path
  <2>2. n <= Cardinality(Sources(t))
    BY <1>1, <1>2, <1>7
  <2> QED
    BY <1>8, <2>1, <2>2 DEF Ends
<1>9. CASE d = x
  <2> DEFINE h == [k \in Nat |-> IF k <= n THEN f[k] ELSE y]
  <2>1. h \in [Nat -> Equs]
    BY <1>3
  <2>2. n + 1 \in Nat /\ n + 1 <= Cardinality(Sources(t))
    BY <1>1, <1>2, <1>7
  <2>3. h[0] = e /\ h[n + 1] = y
    BY <1>4, <2>2
  <2>4. \A k \in Nat : k < n + 1 => t.equs[h[k]].res = h[k + 1]
    <3> SUFFICES ASSUME NEW k \in Nat, k < n + 1 PROVE t.equs[h[k]].res = h[k + 1]
      BY Zenon
    <3>1. CASE k < n
      <4>1. h[k] = f[k] /\ h[k + 1] = f[k + 1]
        BY <3>1
      <4> QED
        BY <1>6, <3>1, <4>1
    <3>2. CASE k = n
      <4>1. h[k] = x /\ h[k + 1] = y
        BY <1>4, <1>9, <3>2
      <4> QED
        BY <4>1
    <3> QED
      BY <3>1, <3>2
  <2> HIDE DEF h
  <2>5. Path(t, h, e, y, n + 1)
    BY <2>3, <2>4 DEF Path
  <2> QED
    BY <1>9, <2>1, <2>2, <2>5 DEF Ends
<1> QED
  BY <1>8, <1>9

-----------------------------------------------------------------------------
(***************************************************************************)
(* What holds as long as no call failed.                                   *)
(***************************************************************************)

\* An equation that has a copy is out of the model, and is no spare one.
Retired(s) ==
    \A e \in Equs : s.equs[e].res # NA => ~ s.equs[e].active /\ s.equs[e].object # "none"

\* VI functions are in VIs.
IsFunction(s, e) == s.equs[e].role = "vifunction"
FunctionsOfVis(s) ==
    \A e \in Equs : IsFunction(s, e) => s.equs[e].mp # NA /\ IsVi(s, s.equs[e].mp)

\* A VI function and its variable name each other, by way of the rosetta.
Paired(s, k, e) ==
    LET v == s.equs[e].dual IN
    v \in s.mps[k].vars /\ s.vars[v].dual \in Equs /\ Ends(s, s.vars[v].dual, e)
Pairs(s, ed) ==
    \A k \in Mps : s.mps[k].alive /\ <<k, "var">> \notin ed =>
        \A e \in s.mps[k].equs : IsFunction(s, e) => Paired(s, k, e)

\* An MP without an objective equation lists all it owns, so that the equation that becomes the
\* objective is in the list; and one that it owns stays there.
PlacedAt(s, ed, k) ==
    LET oe == s.mps[k].objequ IN
    /\ oe = NA => \A e \in Equs : s.equs[e].mp = k /\ s.equs[e].active => e \in s.mps[k].equs
    /\ oe # NA /\ s.equs[oe].mp = k /\ <<k, "obj">> \notin ed => oe \in s.mps[k].equs

Linked(s, ed) ==
    /\ Retired(s) /\ FunctionsOfVis(s) /\ Pairs(s, ed)
    /\ \A k \in Mps : s.mps[k].alive => PlacedAt(s, ed, k)

\* Two records of an equation that the links do not tell apart.
SameLinks(x, y) ==
    /\ y.mp = x.mp /\ y.role = x.role /\ y.dual = x.dual /\ y.active = x.active /\ y.res = x.res
    /\ x.object # "none" => y.object # "none"

\* A change of variables and of the state of an MP.
Quiet(s, t, ed) ==
    /\ \A e \in Equs : SameLinks(s.equs[e], t.equs[e])
    /\ \A k \in Mps : /\ t.mps[k].sense = s.mps[k].sense /\ t.mps[k].alive = s.mps[k].alive
                      /\ t.mps[k].equs = s.mps[k].equs /\ t.mps[k].objequ = s.mps[k].objequ
                      /\ IsVi(s, k) /\ <<k, "var">> \notin ed => s.mps[k].vars \subseteq t.mps[k].vars
                      /\ s.mps[k].alive => \A v \in s.mps[k].vars : t.vars[v].dual = s.vars[v].dual

\* An equation is of an MP or of nobody.
LEMMA MpOfEqu ==
  ASSUME NEW s, Sound(s), NEW e \in Equs
  PROVE  s.equs[e].mp \in Mps \cup {NA}
<1>1. s.equs[e] \in EquMetas
  BY Owners, Records
<1> QED
  BY <1>1 DEF EquMetas

\* It keeps the links.
LEMMA QuietLinked ==
  ASSUME NEW s, Sound(s), NEW ed, NEW fd, Linked(s, ed), ed \subseteq fd, NEW t, Quiet(s, t, fd)
  PROVE  Linked(t, fd)
<1>1. \A k \in Mps : s.mps[k].equs \subseteq Equs /\ s.mps[k].objequ \in Equs \cup {NA}
  BY Owners, Records
<1>2. Retired(t)
  BY DEF Linked, Retired, Quiet, SameLinks
<1>3. FunctionsOfVis(t)
  <2> SUFFICES ASSUME NEW e \in Equs, IsFunction(t, e)
               PROVE  t.equs[e].mp # NA /\ IsVi(t, t.equs[e].mp)
    BY DEF FunctionsOfVis
  <2>1. IsFunction(s, e) /\ t.equs[e].mp = s.equs[e].mp
    BY DEF IsFunction, Quiet, SameLinks
  <2>2. s.equs[e].mp # NA /\ IsVi(s, s.equs[e].mp)
    BY <2>1 DEF Linked, FunctionsOfVis
  <2>3. s.equs[e].mp \in Mps
    BY <2>2, MpOfEqu
  <2> QED
    BY <2>1, <2>2, <2>3, Zenon DEF IsVi, Quiet
<1>4. Pairs(t, fd)
  <2> SUFFICES ASSUME NEW k \in Mps, t.mps[k].alive, <<k, "var">> \notin fd,
                      NEW e \in t.mps[k].equs, IsFunction(t, e)
               PROVE  Paired(t, k, e)
    BY DEF Pairs
  <2>1. s.mps[k].alive /\ e \in s.mps[k].equs /\ e \in Equs
    BY <1>1 DEF Quiet
  <2>2. IsFunction(s, e) /\ t.equs[e].dual = s.equs[e].dual
    BY <2>1 DEF IsFunction, Quiet, SameLinks
  <2>3. Paired(s, k, e)
    BY <2>1, <2>2 DEF Linked, Pairs
  <2>4. IsVi(s, k)
    <3>1. s.equs[e].mp = k
      BY <2>1, Owners
    <3> QED
      BY <2>1, <2>2, <3>1 DEF Linked, FunctionsOfVis
  <2> DEFINE v == s.equs[e].dual
  <2>5. v \in s.mps[k].vars /\ v \in t.mps[k].vars /\ t.vars[v].dual = s.vars[v].dual
    BY <2>1, <2>3, <2>4 DEF Paired, Quiet
  <2>6. \A f \in Equs : t.equs[f].res = s.equs[f].res
    BY DEF Quiet, SameLinks
  <2>7. s.vars[v].dual \in Equs /\ Ends(s, s.vars[v].dual, e)
    BY <2>3 DEF Paired
  <2>8. Ends(t, s.vars[v].dual, e)
    BY <2>1, <2>6, <2>7, SameEnds, Zenon
  <2> QED
    BY <2>2, <2>5, <2>7, <2>8 DEF Paired
<1>5. ASSUME NEW k \in Mps, t.mps[k].alive PROVE PlacedAt(t, fd, k)
  <2>1. PlacedAt(s, ed, k)
    BY <1>5, Zenon DEF Quiet, Linked
  <2> QED
    BY <1>1, <2>1, ZenonT(40) DEF PlacedAt, Quiet, SameLinks
<1> QED
  BY <1>2, <1>3, <1>4, <1>5 DEF Linked

\* The objective equations and the variables with their duals are left alone but for those of m.
Aside(s, t, m) ==
    /\ \A k \in Mps : /\ t.mps[k].sense = s.mps[k].sense /\ t.mps[k].alive = s.mps[k].alive
                      /\ s.mps[k].vars \subseteq t.mps[k].vars
                      /\ k # m => t.mps[k].equs = s.mps[k].equs /\ t.mps[k].objequ = s.mps[k].objequ
    /\ \A v \in Vars : t.vars[v].dual = s.vars[v].dual

\* The equation e may come to m and is no VI function there, and m lists no other one.
Touched(s, t, m, e) ==
    /\ Aside(s, t, m)
    /\ \A f \in Equs : f # e => SameLinks(s.equs[f], t.equs[f])
    /\ \A f \in Equs : f \in t.mps[m].equs => f = e \/ f \in s.mps[m].equs
    /\ t.equs[e].mp \in {s.equs[e].mp, m} /\ ~ IsFunction(t, e)
    /\ t.equs[e].res = s.equs[e].res
    /\ IF s.equs[e].object = "none" THEN t.equs[e].mp = m
       ELSE t.equs[e].object # "none" /\ t.equs[e].active = s.equs[e].active

\* It keeps the links when the objective of m is in its place.
LEMMA TouchLinked ==
  ASSUME NEW s, Sound(s), NEW ed, Linked(s, ed), NEW t, Sound(t), NEW m \in Mps, NEW e \in Equs,
         Touched(s, t, m, e), PlacedAt(t, ed, m)
  PROVE  Linked(t, ed)
<1>0. \A k \in Mps : /\ s.mps[k].equs \subseteq Equs /\ s.mps[k].objequ \in Equs \cup {NA}
                     /\ t.mps[k].equs \subseteq Equs /\ s.mps[k].vars \subseteq Vars
  BY Owners, Records
<1>1. s.equs[e].object = "none" => ~ s.equs[e].active
  BY Owners
<1>2. Retired(t)
  <2> SUFFICES ASSUME NEW f \in Equs, t.equs[f].res # NA
               PROVE  ~ t.equs[f].active /\ t.equs[f].object # "none"
    BY DEF Retired
  <2>1. CASE f = e
    BY <2>1 DEF Linked, Retired, Touched
  <2>2. CASE f # e
    BY <2>2 DEF Linked, Retired, Touched, SameLinks
  <2> QED
    BY <2>1, <2>2
<1>3. FunctionsOfVis(t)
  <2> SUFFICES ASSUME NEW f \in Equs, IsFunction(t, f)
               PROVE  t.equs[f].mp # NA /\ IsVi(t, t.equs[f].mp)
    BY DEF FunctionsOfVis
  <2>1. IsFunction(s, f) /\ t.equs[f].mp = s.equs[f].mp
    BY DEF IsFunction, Touched, SameLinks
  <2>2. s.equs[f].mp # NA /\ IsVi(s, s.equs[f].mp)
    BY <2>1 DEF Linked, FunctionsOfVis
  <2>3. s.equs[f].mp \in Mps
    BY <2>2, MpOfEqu
  <2> QED
    BY <2>1, <2>2, <2>3 DEF IsVi, Touched, Aside
<1>4. Pairs(t, ed)
  <2> SUFFICES ASSUME NEW k \in Mps, t.mps[k].alive, <<k, "var">> \notin ed,
                      NEW f \in t.mps[k].equs, IsFunction(t, f)
               PROVE  Paired(t, k, f)
    BY DEF Pairs
  <2>1. f \in Equs /\ f # e /\ s.mps[k].alive
    BY <1>0 DEF Touched, Aside
  <2>2. f \in s.mps[k].equs
    BY <2>1 DEF Touched, Aside
  <2>3. IsFunction(s, f) /\ t.equs[f].dual = s.equs[f].dual
    BY <2>1 DEF IsFunction, Touched, SameLinks
  <2>4. Paired(s, k, f)
    BY <2>1, <2>2, <2>3 DEF Linked, Pairs
  <2> DEFINE v == s.equs[f].dual
  <2>5. v \in Vars /\ v \in t.mps[k].vars /\ t.vars[v].dual = s.vars[v].dual
    BY <1>0, <2>4 DEF Paired, Touched, Aside
  <2>6. \A h \in Equs : t.equs[h].res = s.equs[h].res
    BY DEF Touched, SameLinks
  <2>7. s.vars[v].dual \in Equs /\ Ends(s, s.vars[v].dual, f)
    BY <2>4 DEF Paired
  <2>8. Ends(t, s.vars[v].dual, f)
    BY <2>1, <2>6, <2>7, SameEnds
  <2> QED
    BY <2>3, <2>5, <2>7, <2>8 DEF Paired
<1>5. ASSUME NEW k \in Mps, t.mps[k].alive PROVE PlacedAt(t, ed, k)
  <2>1. CASE k = m
    BY <2>1
  <2>2. CASE k # m
    <3>1. PlacedAt(s, ed, k) /\ t.mps[k].equs = s.mps[k].equs /\ t.mps[k].objequ = s.mps[k].objequ
      BY <1>5, <2>2 DEF Linked, Touched, Aside
    <3>2. \A f \in Equs : t.equs[f].mp = k => s.equs[f].mp = k
      BY <2>2 DEF Touched, SameLinks
    <3>3. ASSUME s.mps[k].objequ = NA, NEW f \in Equs, t.equs[f].mp = k, t.equs[f].active
          PROVE  f \in s.mps[k].equs
      <4>1. CASE s.equs[f].active
        BY <3>1, <3>2, <3>3, <4>1 DEF PlacedAt
      <4>2. CASE ~ s.equs[f].active
        <5>1. f = e
          BY <3>3, <4>2 DEF SameLinks, Touched
        <5>2. s.equs[e].object = "none"
          BY <3>3, <4>2, <5>1 DEF Touched
        <5>3. t.equs[e].mp = m
          BY <5>2 DEF Touched
        <5> QED
          BY <2>2, <3>3, <5>1, <5>3
      <4> QED
        BY <4>1, <4>2
    <3> QED
      BY <1>0, <3>1, <3>2, <3>3 DEF PlacedAt
  <2> QED
    BY <2>1, <2>2
<1> QED
  BY <1>2, <1>3, <1>4, <1>5 DEF Linked

\* A new pair of the VI m.
Matched(s, t, m, e, v) ==
    /\ s.equs[e].active /\ s.equs[e].mp = NA /\ s.vars[v].mp = NA /\ IsVi(s, m)
    /\ \A f \in Equs : f # e => t.equs[f] = s.equs[f]
    /\ t.equs[e].mp = m /\ t.equs[e].dual = v /\ t.equs[e].res = s.equs[e].res
    /\ t.equs[e].active /\ t.equs[e].object # "none"
    /\ t.vars[v].dual = e /\ \A w \in Vars : w # v => t.vars[w].dual = s.vars[w].dual
    /\ \A k \in Mps : k # m => t.mps[k] = s.mps[k]
    /\ t.mps[m].sense = s.mps[m].sense /\ t.mps[m].alive = s.mps[m].alive
    /\ t.mps[m].objequ = s.mps[m].objequ
    /\ t.mps[m].vars = s.mps[m].vars \cup {v} /\ t.mps[m].equs = s.mps[m].equs \cup {e}

\* It keeps the links.
LEMMA MatchedLinked ==
  ASSUME NEW s, Sound(s), NEW ed, Linked(s, ed), NEW t, Sound(t), NEW m \in Mps, NEW e \in Equs,
         NEW v \in Vars, Matched(s, t, m, e, v)
  PROVE  Linked(t, ed)
<1>0. \A k \in Mps : /\ s.mps[k].equs \subseteq Equs /\ s.mps[k].objequ \in Equs \cup {NA}
                     /\ t.mps[k].equs \subseteq Equs /\ s.mps[k].vars \subseteq Vars
  BY Owners, Records
<1>1. s.equs[e].res = NA /\ NA \notin Equs /\ NA \notin Mps
  BY Owners DEF Linked, Retired, Matched
<1>2. \A k \in Mps : t.mps[k].sense = s.mps[k].sense /\ t.mps[k].alive = s.mps[k].alive
                     /\ t.mps[k].objequ = s.mps[k].objequ
  BY DEF Matched
<1>3. \A f \in Equs : t.equs[f].res = s.equs[f].res
  BY DEF Matched
<1>4. Retired(t)
  <2> SUFFICES ASSUME NEW f \in Equs, t.equs[f].res # NA
               PROVE  ~ t.equs[f].active /\ t.equs[f].object # "none"
    BY DEF Retired
  <2>1. f # e
    BY <1>1, <1>3
  <2> QED
    BY <2>1 DEF Linked, Retired, Matched
<1>5. FunctionsOfVis(t)
  <2> SUFFICES ASSUME NEW f \in Equs, IsFunction(t, f)
               PROVE  t.equs[f].mp # NA /\ IsVi(t, t.equs[f].mp)
    BY DEF FunctionsOfVis
  <2>1. CASE f = e
    BY <1>1, <1>2, <2>1 DEF Matched, IsVi
  <2>2. CASE f # e
    <3>1. t.equs[f] = s.equs[f]
      BY <2>2 DEF Matched
    <3>2. s.equs[f].mp # NA /\ IsVi(s, s.equs[f].mp)
      BY <3>1 DEF Linked, FunctionsOfVis, IsFunction
    <3>3. s.equs[f].mp \in Mps
      BY <3>2, MpOfEqu
    <3> QED
      BY <1>2, <3>1, <3>2, <3>3 DEF IsVi
  <2> QED
    BY <2>1, <2>2
<1>6. Pairs(t, ed)
  <2> SUFFICES ASSUME NEW k \in Mps, t.mps[k].alive, <<k, "var">> \notin ed,
                      NEW f \in t.mps[k].equs, IsFunction(t, f)
               PROVE  Paired(t, k, f)
    BY DEF Pairs
  <2>1. f \in Equs /\ s.mps[k].alive /\ t.equs[f].mp = k
    BY <1>0, <1>2, Owners
  <2>2. CASE f = e
    <3>1. k = m
      BY <2>1, <2>2 DEF Matched
    <3>2. Ends(t, e, e)
      BY <1>1, <1>3, OwnEnd
    <3> QED
      BY <2>2, <3>1, <3>2 DEF Paired, Matched
  <2>3. CASE f # e
    <3>1. t.equs[f] = s.equs[f] /\ f \in s.mps[k].equs
      BY <2>1, <2>3 DEF Matched
    <3>2. Paired(s, k, f)
      BY <2>1, <3>1 DEF Linked, Pairs, IsFunction
    <3> DEFINE w == s.equs[f].dual
    <3>3. w \in s.mps[k].vars /\ w \in Vars /\ s.vars[w].dual \in Equs /\ Ends(s, s.vars[w].dual, f)
      BY <1>0, <3>2 DEF Paired
    <3>4. w # v
      BY <1>1, <2>1, <3>3, Owners DEF Matched
    <3>5. w \in t.mps[k].vars /\ t.vars[w].dual = s.vars[w].dual
      BY <3>3, <3>4 DEF Matched
    <3>6. Ends(t, s.vars[w].dual, f)
      BY <1>3, <2>1, <3>3, SameEnds, Zenon
    <3> QED
      BY <3>1, <3>3, <3>5, <3>6 DEF Paired
  <2> QED
    BY <2>2, <2>3
<1>7. ASSUME NEW k \in Mps, t.mps[k].alive PROVE PlacedAt(t, ed, k)
  <2>1. PlacedAt(s, ed, k)
    BY <1>2, <1>7 DEF Linked
  <2>2. s.mps[k].equs \subseteq t.mps[k].equs /\ (k = m => e \in t.mps[k].equs)
    BY DEF Matched
  <2>3. \A f \in Equs : f # e => t.equs[f] = s.equs[f]
    BY DEF Matched
  <2>4. t.equs[e].mp = m
    BY DEF Matched
  <2> QED
    BY <1>0, <1>2, <2>1, <2>2, <2>3, <2>4 DEF PlacedAt
<1> QED
  BY <1>4, <1>5, <1>6, <1>7 DEF Linked

\* The copy n takes the place of e, which is in the list of its MP.
Substitutes(s, t, e, n) ==
    LET m == s.equs[e].mp IN
    /\ s.equs[e].active /\ s.equs[n].object = "none"
    /\ m # NA => s.mps[m].alive /\ e \in s.mps[m].equs
    /\ \A f \in Equs : f \notin {e, n} => SameLinks(s.equs[f], t.equs[f])
    /\ ~ t.equs[e].active /\ t.equs[e].res = n /\ t.equs[e].object # "none"
    /\ t.equs[e].mp = m /\ t.equs[e].role = s.equs[e].role
    /\ t.equs[n].res = NA /\ t.equs[n].object # "none" /\ t.equs[n].mp = m
    /\ IsFunction(t, n) => IsFunction(s, e) /\ t.equs[n].dual = s.equs[e].dual
    /\ Aside(s, t, m)
    /\ m # NA => \A f \in Equs : f \in t.mps[m].equs => f = n \/ f \in s.mps[m].equs

\* It keeps the links when the objective of that MP is in its place.
LEMMA SubstituteLinked ==
  ASSUME NEW s, Sound(s), NEW ed, NEW fd, Linked(s, ed), ed \subseteq fd, NEW t, Sound(t),
         NEW e \in Equs, NEW n \in Equs, Substitutes(s, t, e, n),
         s.equs[e].mp # NA => PlacedAt(t, fd, s.equs[e].mp)
  PROVE  Linked(t, fd)
<1> DEFINE m == s.equs[e].mp
<1>0. \A k \in Mps : /\ s.mps[k].equs \subseteq Equs /\ s.mps[k].objequ \in Equs \cup {NA}
                     /\ t.mps[k].equs \subseteq Equs /\ s.mps[k].vars \subseteq Vars
  BY Owners, Records
<1>1. /\ s.equs[e].res = NA /\ s.equs[n].res = NA /\ e # n /\ ~ s.equs[n].active /\ NA \notin Mps
      /\ m \in Mps \cup {NA} /\ n # NA /\ s.equs[e].object # "none"
  <2>1. s.equs[e].active /\ s.equs[n].object = "none"
    BY DEF Substitutes
  <2>2. s.equs[e].object # "none" /\ ~ s.equs[n].active /\ NA \notin Mps /\ n # NA
    BY <2>1, Owners
  <2>3. s.equs[e].res = NA /\ s.equs[n].res = NA
    BY <2>1 DEF Linked, Retired
  <2> QED
    BY <2>1, <2>2, <2>3, MpOfEqu
<1>2. \A k \in Mps : t.mps[k].sense = s.mps[k].sense /\ t.mps[k].alive = s.mps[k].alive
  BY DEF Substitutes, Aside
<1>3. \A f \in Equs : f # e => t.equs[f].res = s.equs[f].res
  <2> SUFFICES ASSUME NEW f \in Equs, f # e PROVE t.equs[f].res = s.equs[f].res
    OBVIOUS
  <2>1. CASE f = n
    BY <1>1, <2>1 DEF Substitutes
  <2>2. CASE f # n
    BY <2>2 DEF Substitutes, SameLinks
  <2> QED
    BY <2>1, <2>2
<1>4. Retired(t)
  <2> SUFFICES ASSUME NEW f \in Equs, t.equs[f].res # NA
               PROVE  ~ t.equs[f].active /\ t.equs[f].object # "none"
    BY DEF Retired
  <2>1. CASE f = e
    BY <2>1 DEF Substitutes
  <2>2. CASE f # e
    <3>1. f # n
      BY <1>1, <1>3, <2>2
    <3> QED
      BY <2>2, <3>1 DEF Linked, Retired, Substitutes, SameLinks
  <2> QED
    BY <2>1, <2>2
<1>5. FunctionsOfVis(t)
  <2> SUFFICES ASSUME NEW f \in Equs, IsFunction(t, f)
               PROVE  t.equs[f].mp # NA /\ IsVi(t, t.equs[f].mp)
    BY DEF FunctionsOfVis
  <2>1. PICK h \in Equs : IsFunction(s, h) /\ t.equs[f].mp = s.equs[h].mp
    <3>1. CASE f \in {e, n}
      BY <3>1 DEF Substitutes, IsFunction
    <3>2. CASE f \notin {e, n}
      BY <3>2 DEF Substitutes, SameLinks, IsFunction
    <3> QED
      BY <3>1, <3>2
  <2>2. s.equs[h].mp # NA /\ IsVi(s, s.equs[h].mp)
    BY <2>1 DEF Linked, FunctionsOfVis
  <2>3. s.equs[h].mp \in Mps
    BY <2>2, MpOfEqu
  <2> QED
    BY <1>2, <2>1, <2>2, <2>3 DEF IsVi
<1>6. Pairs(t, fd)
  <2> SUFFICES ASSUME NEW k \in Mps, t.mps[k].alive, <<k, "var">> \notin fd,
                      NEW f \in t.mps[k].equs, IsFunction(t, f)
               PROVE  Paired(t, k, f)
    BY DEF Pairs
  <2>1. f \in Equs /\ s.mps[k].alive /\ <<k, "var">> \notin ed /\ t.equs[f].mp = k /\ t.equs[f].active
    BY <1>0, <1>2, Owners
  <2>2. f # e
    BY <2>1 DEF Substitutes
  <2>3. \A v \in s.mps[k].vars : v \in t.mps[k].vars /\ t.vars[v].dual = s.vars[v].dual
    BY <1>0 DEF Substitutes, Aside
  <2>4. ASSUME NEW g \in s.mps[k].equs, IsFunction(s, g), t.equs[f].dual = s.equs[g].dual,
               f = IF g = e THEN n ELSE g
        PROVE  Paired(t, k, f)
    <3>1. Paired(s, k, g) /\ g \in Equs
      BY <1>0, <2>1, <2>4 DEF Linked, Pairs
    <3> DEFINE v == s.equs[g].dual
    <3>2. v \in s.mps[k].vars /\ s.vars[v].dual \in Equs /\ Ends(s, s.vars[v].dual, g)
      BY <3>1 DEF Paired
    <3>3. t.equs[e].res = n /\ t.equs[n].res = NA
      BY DEF Substitutes
    <3>4. Ends(t, s.vars[v].dual, IF g = e THEN n ELSE g)
      BY <1>1, <1>3, <3>1, <3>2, <3>3, NewEnds
    <3> QED
      BY <2>3, <2>4, <3>2, <3>4 DEF Paired
  <2>5. CASE f = n
    <3>1. k = m /\ IsFunction(s, e) /\ t.equs[n].dual = s.equs[e].dual
      BY <2>1, <2>5 DEF Substitutes
    <3>2. e \in s.mps[k].equs
      BY <1>1, <3>1 DEF Substitutes
    <3> QED
      BY <2>4, <2>5, <3>1, <3>2
  <2>6. CASE f # n
    <3>1. SameLinks(s.equs[f], t.equs[f])
      BY <2>1, <2>2, <2>6 DEF Substitutes
    <3>2. IsFunction(s, f) /\ t.equs[f].dual = s.equs[f].dual
      BY <3>1 DEF SameLinks, IsFunction
    <3>3. f \in s.mps[k].equs
      <4>1. CASE k = m
        BY <1>1, <2>1, <2>6, <4>1 DEF Substitutes
      <4>2. CASE k # m
        BY <4>2 DEF Substitutes, Aside
      <4> QED
        BY <4>1, <4>2
    <3> QED
      BY <2>2, <2>4, <3>2, <3>3
  <2> QED
    BY <2>5, <2>6
<1>7. ASSUME NEW k \in Mps, t.mps[k].alive PROVE PlacedAt(t, fd, k)
  <2>1. CASE k = m
    BY <1>1, <2>1
  <2>2. CASE k # m
    <3>1. PlacedAt(s, ed, k) /\ t.mps[k].equs = s.mps[k].equs /\ t.mps[k].objequ = s.mps[k].objequ
      BY <1>2, <1>7, <2>2 DEF Linked, Substitutes, Aside
    <3>2. \A f \in Equs : t.equs[f].mp = k => SameLinks(s.equs[f], t.equs[f])
      BY <2>2 DEF Substitutes
    <3> QED
      BY <1>0, <3>1, <3>2 DEF PlacedAt, SameLinks
  <2> QED
    BY <2>1, <2>2
<1> QED
  BY <1>4, <1>5, <1>6, <1>7 DEF Linked

\* The equation e leaves the model and the list of its MP.
Leaves(s, t, e) ==
    /\ s.equs[e].mp = NA \/ s.equs[e].role # "objective"
    /\ \A f \in Equs : f # e => t.equs[f] = s.equs[f]
    /\ ~ t.equs[e].active /\ t.equs[e].mp = s.equs[e].mp /\ t.equs[e].role = s.equs[e].role
    /\ t.equs[e].object = s.equs[e].object /\ t.equs[e].res = s.equs[e].res
    /\ t.vars = s.vars
    /\ \A k \in Mps : /\ t.mps[k].sense = s.mps[k].sense /\ t.mps[k].alive = s.mps[k].alive
                      /\ t.mps[k].objequ = s.mps[k].objequ /\ t.mps[k].vars = s.mps[k].vars
                      /\ t.mps[k].equs \subseteq s.mps[k].equs
                      /\ s.mps[k].equs \subseteq t.mps[k].equs \cup {e}

\* It keeps the links.
LEMMA LeavesLinked ==
  ASSUME NEW s, Sound(s), NEW ed, NEW fd, Linked(s, ed), ed \subseteq fd, NEW t, Sound(t),
         NEW e \in Equs, Leaves(s, t, e)
  PROVE  Linked(t, fd)
<1>0. \A k \in Mps : s.mps[k].equs \subseteq Equs /\ s.mps[k].objequ \in Equs \cup {NA}
  BY Owners, Records
<1>1. Retired(t)
  BY DEF Linked, Retired, Leaves
<1>2. \A f \in Equs : /\ t.equs[f].role = s.equs[f].role /\ t.equs[f].mp = s.equs[f].mp
                      /\ t.equs[f].res = s.equs[f].res
  BY DEF Leaves
<1>3. FunctionsOfVis(t)
  <2> SUFFICES ASSUME NEW f \in Equs, IsFunction(t, f)
               PROVE  t.equs[f].mp # NA /\ IsVi(t, t.equs[f].mp)
    BY DEF FunctionsOfVis
  <2>1. s.equs[f].mp # NA /\ IsVi(s, s.equs[f].mp)
    BY <1>2 DEF Linked, FunctionsOfVis, IsFunction
  <2>2. s.equs[f].mp \in Mps
    BY <2>1, MpOfEqu
  <2> QED
    BY <1>2, <2>1, <2>2 DEF IsVi, Leaves
<1>4. Pairs(t, fd)
  <2> SUFFICES ASSUME NEW k \in Mps, t.mps[k].alive, <<k, "var">> \notin fd,
                      NEW f \in t.mps[k].equs, IsFunction(t, f)
               PROVE  Paired(t, k, f)
    BY DEF Pairs
  <2>1. s.mps[k].alive /\ f \in s.mps[k].equs /\ f \in Equs /\ <<k, "var">> \notin ed
    BY <1>0 DEF Leaves
  <2>2. f # e
    <3>1. t.equs[f].active
      BY <2>1, Owners
    <3> QED
      BY <3>1 DEF Leaves
  <2>3. t.equs[f] = s.equs[f]
    BY <2>1, <2>2 DEF Leaves
  <2>4. Paired(s, k, f)
    BY <2>1, <2>3 DEF Linked, Pairs, IsFunction
  <2>5. Ends(t, s.vars[s.equs[f].dual].dual, f)
    BY <1>2, <2>1, <2>4, SameEnds DEF Paired
  <2> QED
    BY <2>3, <2>4, <2>5 DEF Paired, Leaves
<1>5. ASSUME NEW k \in Mps, t.mps[k].alive PROVE PlacedAt(t, fd, k)
  <2>1. PlacedAt(s, ed, k) /\ t.mps[k].objequ = s.mps[k].objequ
    BY <1>5 DEF Leaves, Linked
  <2>2. \A f \in Equs : f # e => t.equs[f] = s.equs[f] /\ (f \in s.mps[k].equs => f \in t.mps[k].equs)
    BY DEF Leaves
  <2>3. ~ t.equs[e].active
    BY DEF Leaves
  <2>4. s.mps[k].objequ = e => s.equs[e].mp = NA
    <3>1. s.mps[k].objequ = e => s.equs[e].role = "objective"
      BY Owners DEF Sound, ObjequsMarked
    <3> QED
      BY <3>1 DEF Leaves
  <2>5. NA \notin Mps
    BY Owners
  <2> QED
    BY <1>0, <1>2, <2>1, <2>2, <2>3, <2>4, <2>5 DEF PlacedAt
<1> QED
  BY <1>1, <1>3, <1>4, <1>5 DEF Linked

\* The claim keeps the links: the two MPs have no VI functions.
LEMMA ClaimLinked ==
  ASSUME NEW s, Sound(s), NEW ed, NEW fd, Linked(s, ed), ed \subseteq fd, NEW t, Sound(t),
         NEW m \in Mps, NEW c \in Mps, m # c, s.mps[m].alive, s.mps[c].alive, IsOpt(s, m), IsOpt(s, c),
         IsClaim(s, t, m, c)
  PROVE  Linked(t, fd)
<1> DEFINE es == s.mps[c].equs \ {s.mps[c].objequ}
<1>0. /\ \A k \in Mps : /\ s.mps[k].equs \subseteq Equs /\ s.mps[k].objequ \in Equs \cup {NA}
                        /\ s.mps[k].vars \subseteq Vars /\ s.mps[k] \in MpRecs
      /\ \A f \in Equs : s.equs[f] \in EquMetas
      /\ \A v \in Vars : s.vars[v] \in VarMetas
  BY Owners, Records
<1>1. /\ \A f \in Equs : /\ \/ t.equs[f] = s.equs[f] /\ f \notin es
                            \/ t.equs[f] = [s.equs[f] EXCEPT !.mp = m] /\ f \in es
                            \/ t.equs[f] = [s.equs[f] EXCEPT !.mp = NA] /\ f = s.mps[c].objequ
      /\ \A v \in Vars : \/ t.vars[v] = s.vars[v]
                         \/ t.vars[v] = [s.vars[v] EXCEPT !.mp = m]
                         \/ t.vars[v] = [s.vars[v] EXCEPT !.mp = NA]
  BY DEF IsClaim
<1>2. \A f \in Equs : /\ t.equs[f].role = s.equs[f].role /\ t.equs[f].res = s.equs[f].res
                      /\ t.equs[f].active = s.equs[f].active /\ t.equs[f].object = s.equs[f].object
                      /\ t.equs[f].dual = s.equs[f].dual
                      /\ \/ t.equs[f].mp = s.equs[f].mp /\ f \notin es
                         \/ t.equs[f].mp = m /\ f \in es
                         \/ t.equs[f].mp = NA /\ f = s.mps[c].objequ
  <2> SUFFICES ASSUME NEW f \in Equs
               PROVE  /\ t.equs[f].role = s.equs[f].role /\ t.equs[f].res = s.equs[f].res
                      /\ t.equs[f].active = s.equs[f].active /\ t.equs[f].object = s.equs[f].object
                      /\ t.equs[f].dual = s.equs[f].dual
                      /\ \/ t.equs[f].mp = s.equs[f].mp /\ f \notin es
                         \/ t.equs[f].mp = m /\ f \in es
                         \/ t.equs[f].mp = NA /\ f = s.mps[c].objequ
    OBVIOUS
  <2>1. s.equs[f] \in EquMetas
    BY <1>0
  <2> DEFINE x == s.equs[f]
  <2>2. \A z : LET y == [x EXCEPT !.mp = z] IN
               /\ y.role = x.role /\ y.res = x.res /\ y.active = x.active /\ y.object = x.object
               /\ y.dual = x.dual /\ y.mp = z
    BY <2>1 DEF EquMetas
  <2> HIDE DEF es
  <2>3. CASE t.equs[f] = s.equs[f] /\ f \notin es
    BY <2>3
  <2>4. CASE t.equs[f] = [x EXCEPT !.mp = m] /\ f \in es
    BY <2>2, <2>4
  <2>5. CASE t.equs[f] = [x EXCEPT !.mp = NA] /\ f = s.mps[c].objequ
    BY <2>2, <2>5
  <2> QED
    BY <1>1, <2>3, <2>4, <2>5
<1>3. \A v \in Vars : t.vars[v].dual = s.vars[v].dual
  <2> SUFFICES ASSUME NEW v \in Vars PROVE t.vars[v].dual = s.vars[v].dual
    OBVIOUS
  <2>1. s.vars[v] \in VarMetas
    BY <1>0
  <2>2. \A z : [s.vars[v] EXCEPT !.mp = z].dual = s.vars[v].dual
    BY <2>1 DEF VarMetas
  <2> QED
    BY <1>1, <2>2, ZenonT(40)
<1>4. /\ \A k \in Mps : t.mps[k].sense = s.mps[k].sense /\ t.mps[k].objequ = s.mps[k].objequ
      /\ \A k \in Mps : k \notin {m, c} => t.mps[k] = s.mps[k]
      /\ t.mps[m].alive /\ ~ t.mps[c].alive
      /\ t.mps[m].equs = s.mps[m].equs \cup es
  <2> DEFINE vs == s.mps[c].vars \ {s.mps[c].objvar}
  <2>1. /\ t.mps[m] = [s.mps[m] EXCEPT !.equs = @ \cup es, !.vars = @ \cup vs]
        /\ t.mps[c] = [s.mps[c] EXCEPT !.alive = FALSE]
        /\ \A k \in Mps : k \notin {m, c} => t.mps[k] = s.mps[k]
    BY Zenon DEF IsClaim
  <2> HIDE DEF es, vs
  <2>2. /\ t.mps[m].sense = s.mps[m].sense /\ t.mps[m].objequ = s.mps[m].objequ
        /\ t.mps[m].alive = s.mps[m].alive /\ t.mps[m].equs = s.mps[m].equs \cup es
    <3> DEFINE x == s.mps[m]
               A == x.equs \cup es
               B == x.vars \cup vs
    <3>1. t.mps[m] = [x EXCEPT !.equs = A, !.vars = B] /\ x \in MpRecs
      BY <1>0, <2>1
    <3> HIDE DEF x, A, B
    <3>2. LET y == [x EXCEPT !.equs = A, !.vars = B] IN
          y.sense = x.sense /\ y.objequ = x.objequ /\ y.alive = x.alive /\ y.equs = A
      BY <3>1 DEF MpRecs
    <3> QED
      BY <3>1, <3>2, Zenon DEF x, A
  <2>3. t.mps[c].sense = s.mps[c].sense /\ t.mps[c].objequ = s.mps[c].objequ /\ ~ t.mps[c].alive
    BY <1>0, <2>1 DEF MpRecs
  <2> QED
    BY <2>1, <2>2, <2>3, Zenon
<1>5. \A f \in es : f \in Equs /\ s.equs[f].mp = c
  BY <1>0, Owners
<1>6. \A f \in Equs : IsFunction(s, f) =>
        /\ s.equs[f].mp \in Mps \ {m, c} /\ IsVi(s, s.equs[f].mp) /\ t.equs[f].mp = s.equs[f].mp
  <2> SUFFICES ASSUME NEW f \in Equs, IsFunction(s, f)
               PROVE  /\ s.equs[f].mp \in Mps \ {m, c} /\ IsVi(s, s.equs[f].mp)
                      /\ t.equs[f].mp = s.equs[f].mp
    OBVIOUS
  <2>1. s.equs[f].mp # NA /\ IsVi(s, s.equs[f].mp)
    BY DEF Linked, FunctionsOfVis
  <2>2. s.equs[f].mp \in Mps
    BY <2>1, MpOfEqu
  <2>3. s.equs[f].mp \notin {m, c}
    BY <2>1 DEF IsVi, IsOpt
  <2>4. f # s.mps[c].objequ
    <3>1. s.mps[c].objequ # NA => s.equs[s.mps[c].objequ].role = "objective"
      BY DEF Sound, ObjequsMarked
    <3> QED
      BY <3>1, Owners DEF IsFunction
  <2> HIDE DEF es
  <2> QED
    BY <1>2, <1>5, <2>1, <2>2, <2>3, <2>4
<1>7. Retired(t)
  BY <1>2 DEF Linked, Retired
<1>8. FunctionsOfVis(t)
  <2> HIDE DEF es
  <2>1. NA \notin Mps
    BY Owners
  <2> QED
    BY <1>2, <1>4, <1>6, <2>1 DEF FunctionsOfVis, IsFunction, IsVi
<1>9. Pairs(t, fd)
  <2> SUFFICES ASSUME NEW k \in Mps, t.mps[k].alive, <<k, "var">> \notin fd,
                      NEW f \in t.mps[k].equs, IsFunction(t, f)
               PROVE  Paired(t, k, f)
    BY DEF Pairs
  <2>1. f \in Equs /\ t.equs[f].mp = k
    BY Owners, Records
  <2>2. IsFunction(s, f) /\ s.equs[f].mp = k /\ k \notin {m, c}
    BY <1>2, <1>6, <2>1 DEF IsFunction
  <2>3. t.mps[k] = s.mps[k] /\ <<k, "var">> \notin ed
    BY <1>4, <2>2
  <2>4. Paired(s, k, f)
    BY <2>2, <2>3 DEF Linked, Pairs
  <2> DEFINE v == s.equs[f].dual
  <2>5. v \in s.mps[k].vars /\ v \in Vars /\ s.vars[v].dual \in Equs /\ Ends(s, s.vars[v].dual, f)
    BY <1>0, <2>4 DEF Paired
  <2>6. Ends(t, s.vars[v].dual, f)
    BY <1>2, <2>1, <2>5, SameEnds, Zenon
  <2>7. t.equs[f].dual = v /\ t.vars[v].dual = s.vars[v].dual
    BY <1>2, <1>3, <2>1, <2>5
  <2> HIDE DEF v
  <2> QED
    BY <2>3, <2>5, <2>6, <2>7 DEF Paired
<1>10. ASSUME NEW k \in Mps, t.mps[k].alive PROVE PlacedAt(t, fd, k)
  <2> HIDE DEF es
  <2>1. k # c /\ s.mps[k].alive
    BY <1>4, <1>10
  <2>2. PlacedAt(s, ed, k) /\ NA \notin Mps
    BY <2>1, Owners DEF Linked
  <2>3. \A f \in Equs : t.equs[f].mp = k => s.equs[f].mp = k \/ (f \in es /\ k = m)
    BY <1>2, <2>2
  <2>4. \A f \in Equs : f \in s.mps[k].equs \/ (f \in es /\ k = m) => f \in t.mps[k].equs
    BY <1>4, <2>1
  <2> QED
    BY <1>0, <1>2, <1>4, <2>2, <2>3, <2>4 DEF PlacedAt
<1> QED
  BY <1>7, <1>8, <1>9, <1>10 DEF Linked

-----------------------------------------------------------------------------
(***************************************************************************)
(* The calls that succeed keep the links: the variables.                   *)
(***************************************************************************)

\* The fields after an update of a variable and one of an MP.
LEMMA VarMpFields ==
  ASSUME NEW s \in Mdls, NEW v \in Vars, NEW x \in VarMetas, NEW m \in Mps, NEW y \in MpRecs,
         NEW t, t = WithMp(WithVar(s, v, x), m, y)
  PROVE  /\ t \in Mdls /\ t.equs = s.equs
         /\ \A w \in Vars : t.vars[w] = IF w = v THEN x ELSE s.vars[w]
         /\ \A k \in Mps : t.mps[k] = IF k = m THEN y ELSE s.mps[k]
<1>1. /\ WithVar(s, v, x) \in Mdls
      /\ WithVar(s, v, x).equs = s.equs /\ WithVar(s, v, x).mps = s.mps
      /\ \A w \in Vars : WithVar(s, v, x).vars[w] = IF w = v THEN x ELSE s.vars[w]
  BY WithVarFields, WithTypes
<1>2. /\ t \in Mdls /\ t.equs = WithVar(s, v, x).equs /\ t.vars = WithVar(s, v, x).vars
      /\ \A k \in Mps : t.mps[k] = IF k = m THEN y ELSE WithVar(s, v, x).mps[k]
  BY <1>1, WithMpFields, WithTypes
<1> QED
  BY <1>1, <1>2

\* The fields after an update of an equation and one of an MP.
LEMMA EquMpFields ==
  ASSUME NEW s \in Mdls, NEW e \in Equs, NEW x \in EquMetas, NEW m \in Mps, NEW y \in MpRecs,
         NEW t, t = WithMp(WithEqu(s, e, x), m, y)
  PROVE  /\ t \in Mdls /\ t.vars = s.vars
         /\ \A f \in Equs : t.equs[f] = IF f = e THEN x ELSE s.equs[f]
         /\ \A k \in Mps : t.mps[k] = IF k = m THEN y ELSE s.mps[k]
<1>1. /\ WithEqu(s, e, x) \in Mdls
      /\ WithEqu(s, e, x).vars = s.vars /\ WithEqu(s, e, x).mps = s.mps
      /\ \A f \in Equs : WithEqu(s, e, x).equs[f] = IF f = e THEN x ELSE s.equs[f]
  BY WithEquFields, WithTypes
<1>2. /\ t \in Mdls /\ t.equs = WithEqu(s, e, x).equs /\ t.vars = WithEqu(s, e, x).vars
      /\ \A k \in Mps : t.mps[k] = IF k = m THEN y ELSE WithEqu(s, e, x).mps[k]
  BY <1>1, WithMpFields, WithTypes
<1> QED
  BY <1>1, <1>2

\* mp_addvarchk when it succeeds.
VarListed(s, t, m, v) ==
    /\ s.vars[v].mp = NA /\ t \in Mdls /\ t.equs = s.equs
    /\ \A w \in Vars : t.vars[w] = IF w = v THEN [s.vars[v] EXCEPT !.mp = m] ELSE s.vars[w]
    /\ \A k \in Mps : t.mps[k] = IF k = m THEN [s.mps[m] EXCEPT !.vars = @ \cup {v}] ELSE s.mps[k]

\* It lists the variable.
LEMMA AddVarChkOk ==
  ASSUME NEW s \in Mdls, NEW m \in Mps, NEW v \in Vars, NEW r, r = mp_addvarchk(s, m, v), r.ok
  PROVE  VarListed(s, r.mdl, m, v)
<1> DEFINE x == [s.vars[v] EXCEPT !.mp = m]
           y == [s.mps[m] EXCEPT !.vars = @ \cup {v}]
<1>1. s.vars[v] \in VarMetas /\ s.mps[m] \in MpRecs
  BY Records
<1>2. s.vars[v].mp = NA
  BY DEF mp_addvarchk, Error
<1>3. r.mdl = WithMp(WithVar(s, v, x), m, y)
  BY <1>2 DEF mp_addvarchk, OK, WithVar, WithMp, Mdls
<1>4. x \in VarMetas /\ y \in MpRecs
  BY <1>1 DEF VarMetas, MpRecs
<1> HIDE DEF x, y
<1>5. /\ r.mdl \in Mdls /\ r.mdl.equs = s.equs
      /\ \A w \in Vars : r.mdl.vars[w] = IF w = v THEN x ELSE s.vars[w]
      /\ \A k \in Mps : r.mdl.mps[k] = IF k = m THEN y ELSE s.mps[k]
  BY <1>3, <1>4, VarMpFields
<1> QED
  BY <1>2, <1>5, Zenon DEF VarListed, x, y

\* A change of the MP m and of variables that leaves the lists of equations, and the duals of the
\* variables that have an owner.
Revars(s, t, m, fd) ==
    /\ t.equs = s.equs
    /\ \A k \in Mps : /\ k # m => t.mps[k] = s.mps[k]
                      /\ t.mps[k].sense = s.mps[k].sense /\ t.mps[k].alive = s.mps[k].alive
                      /\ t.mps[k].equs = s.mps[k].equs /\ t.mps[k].objequ = s.mps[k].objequ
    /\ IsVi(s, m) /\ <<m, "var">> \notin fd => s.mps[m].vars \subseteq t.mps[m].vars
    /\ \A v \in Vars : s.vars[v].mp = NA \/ t.vars[v].dual = s.vars[v].dual

\* It keeps the links.
LEMMA RevarsLinked ==
  ASSUME NEW s, Sound(s), NEW ed, NEW fd, Linked(s, ed), ed \subseteq fd, NEW t, NEW m,
         Revars(s, t, m, fd)
  PROVE  Linked(t, fd)
<1>1. \A k \in Mps : s.mps[k].alive => \A v \in s.mps[k].vars : t.vars[v].dual = s.vars[v].dual
  <2> SUFFICES ASSUME NEW k \in Mps, s.mps[k].alive, NEW v \in s.mps[k].vars
               PROVE  t.vars[v].dual = s.vars[v].dual
    OBVIOUS
  <2>1. v \in Vars
    BY Owners, Records
  <2>2. s.vars[v].mp = k /\ NA \notin Mps
    BY <2>1, Owners
  <2> QED
    BY <2>1, <2>2 DEF Revars
<1>2. Quiet(s, t, fd)
  BY <1>1 DEF Quiet, SameLinks, Revars
<1> QED
  BY <1>2, QuietLinked

\* mp_addvar.
LEMMA AddVarLinked ==
  ASSUME NEW s, Sound(s), NEW ed, Linked(s, ed), NEW m \in Mps, NEW v \in Vars,
         NEW r, r = mp_addvar(s, m, v), r.ok
  PROVE  Linked(r.mdl, ed)
<1> DEFINE q == mp_addvarchk(s, m, v)
           x == [q.mdl.vars[v] EXCEPT !.role = "primal"]
<1>1. s \in Mdls /\ s.vars[v] \in VarMetas /\ s.mps[m] \in MpRecs
  BY Owners, Records
<1>2. q.ok
  BY DEF mp_addvar, Then
<1>3. VarListed(s, q.mdl, m, v)
  BY <1>1, <1>2, AddVarChkOk
<1>4. r.mdl = WithVar(q.mdl, v, x)
  BY <1>2, <1>3 DEF mp_addvar, Then, OK, WithVar, Mdls, VarListed
<1> HIDE DEF q
<1>5. q.mdl \in Mdls /\ q.mdl.vars[v] = [s.vars[v] EXCEPT !.mp = m]
  BY <1>3 DEF VarListed
<1>6. x.dual = s.vars[v].dual
  BY <1>1, <1>5 DEF VarMetas
<1> HIDE DEF x
<1>7. /\ r.mdl.equs = s.equs /\ r.mdl.mps = q.mdl.mps
      /\ \A w \in Vars : r.mdl.vars[w].dual = s.vars[w].dual
  BY <1>3, <1>4, <1>5, <1>6, WithVarFields DEF VarListed
<1>8. \A k \in Mps : /\ k # m => q.mdl.mps[k] = s.mps[k]
                     /\ q.mdl.mps[k].sense = s.mps[k].sense /\ q.mdl.mps[k].alive = s.mps[k].alive
                     /\ q.mdl.mps[k].equs = s.mps[k].equs /\ q.mdl.mps[k].objequ = s.mps[k].objequ
                     /\ s.mps[m].vars \subseteq q.mdl.mps[m].vars
  BY <1>1, <1>3 DEF VarListed, MpRecs
<1>9. Revars(s, r.mdl, m, ed)
  BY <1>7, <1>8 DEF Revars
<1> QED
  BY <1>9, RevarsLinked

\* mp_addvipair with the zero function.
LEMMA AddZeroLinked ==
  ASSUME NEW s, Sound(s), NEW ed, Linked(s, ed), NEW m \in Mps, NEW v \in Vars,
         NEW r, r = mp_addvipair(s, m, NA, v), r.ok
  PROVE  Linked(r.mdl, ed)
<1> DEFINE q == mp_addvarchk(s, m, v)
           t == q.mdl
           y == [t.mps[m] EXCEPT !.num_zeros = @ + 1]
           u == WithMp(t, m, y)
<1>1. s \in Mdls /\ s.vars[v] \in VarMetas /\ s.mps[m] \in MpRecs
  BY Owners, Records
<1>2. q.ok
  BY DEF mp_addvipair, Then
<1>3. VarListed(s, t, m, v)
  BY <1>1, <1>2, AddVarChkOk
<1>4. t \in Mdls /\ t.mps[m] = [s.mps[m] EXCEPT !.vars = @ \cup {v}] /\ t.mps[m] \in MpRecs
  <2>1. t \in Mdls /\ t.mps[m] = [s.mps[m] EXCEPT !.vars = @ \cup {v}]
    BY <1>3 DEF VarListed
  <2> HIDE DEF t
  <2> QED
    BY <2>1, Records
<1>5. u = [t EXCEPT !.mps[m].num_zeros = @ + 1]
  BY <1>4 DEF WithMp, Mdls
<1>6. r = rctr_setequvarperp(u, NA, v)
  BY <1>2, <1>5 DEF mp_addvipair, Then, OK
<1> HIDE DEF q, t
<1>7. /\ y \in MpRecs /\ y.sense = s.mps[m].sense /\ y.alive = s.mps[m].alive
      /\ y.equs = s.mps[m].equs /\ y.objequ = s.mps[m].objequ /\ s.mps[m].vars \subseteq y.vars
  <2>1. y \in MpRecs
    <3>1. t.mps[m] \in MpRecs
      BY <1>4
    <3> QED
      BY <3>1 DEF MpRecs
  <2> QED
    BY <1>1, <1>4, <2>1 DEF MpRecs
<1> HIDE DEF y
<1>8. u \in Mdls /\ u.vars = t.vars /\ u.equs = t.equs
      /\ \A k \in Mps : u.mps[k] = IF k = m THEN y ELSE t.mps[k]
  BY <1>4, <1>7, WithMpFields, WithTypes
<1> HIDE DEF u
<1>9. /\ r.mdl.equs = u.equs /\ r.mdl.mps = u.mps
      /\ \A w \in Vars : w # v => r.mdl.vars[w] = u.vars[w]
  <2>1. r.mdl = [[u EXCEPT !.vars[v].role = "primal", !.vars[v].dual = NA]
                   EXCEPT !.vars[v].ppty = PerpZero]
    BY <1>6 DEF rctr_setequvarperp, OK
  <2> QED
    BY <1>8, <2>1 DEF Mdls
<1>10. /\ r.mdl.equs = s.equs /\ \A k \in Mps : r.mdl.mps[k] = IF k = m THEN y ELSE s.mps[k]
       /\ \A w \in Vars : s.vars[w].mp = NA \/ r.mdl.vars[w] = s.vars[w]
  BY <1>3, <1>8, <1>9 DEF VarListed
<1>11. Revars(s, r.mdl, m, ed)
  BY <1>7, <1>10 DEF Revars
<1> QED
  BY <1>11, RevarsLinked

\* mp_setobjvar_internal: the MP gets its objective variable, no list changes.
LEMMA SetObjVarInternalLinked ==
  ASSUME NEW s, Sound(s), NEW ed, Linked(s, ed), NEW m \in Mps, NEW v \in Vars,
         NEW r, r = mp_setobjvar_internal(s, m, v), r.ok
  PROVE  Linked(r.mdl, ed)
<1> DEFINE z == [s.vars[v] EXCEPT !.role = "objective",
                     !.ppty = @ \cup {IF s.mps[m].sense = "min" THEN ObjMin ELSE ObjMax}]
           y == [s.mps[m] EXCEPT !.objvar = v]
           t == WithMp(s, m, y)
           u == WithVar(t, v, z)
<1>1. s \in Mdls /\ s.vars[v] \in VarMetas /\ s.mps[m] \in MpRecs
  BY Records, Owners
<1>2. IsOpt(s, m)
  BY DEF mp_setobjvar_internal, Error
<1>3. r.mdl = u
  BY <1>1, <1>2, Zenon DEF mp_setobjvar_internal, OK, WithVar, WithMp, Mdls
<1>4. z.dual = s.vars[v].dual
  BY <1>1 DEF VarMetas
<1>5. /\ y \in MpRecs /\ y.objequ = s.mps[m].objequ
      /\ y.vars = s.mps[m].vars /\ y.equs = s.mps[m].equs
      /\ y.alive = s.mps[m].alive /\ y.sense = s.mps[m].sense
  BY <1>1 DEF MpRecs
<1> HIDE DEF y, z
<1>6. /\ t \in Mdls /\ t.vars = s.vars /\ t.equs = s.equs
      /\ \A k \in Mps : t.mps[k] = IF k = m THEN y ELSE s.mps[k]
  BY <1>1, <1>5, WithMpFields, WithTypes
<1> HIDE DEF t
<1>7. /\ u.equs = t.equs /\ u.mps = t.mps
      /\ \A w \in Vars : u.vars[w] = IF w = v THEN z ELSE t.vars[w]
  BY <1>6, WithVarFields
<1> HIDE DEF u
<1>8. Revars(s, u, m, ed)
  BY <1>4, <1>5, <1>6, <1>7 DEF Revars
<1> QED
  BY <1>3, <1>8, RevarsLinked

\* mp_setobjvar with an invalid index: the objective variable leaves the list of an MP that is
\* no VI.
LEMMA ClearObjVarLinked ==
  ASSUME NEW s, Sound(s), NEW ed, NEW fd, Linked(s, ed), ed \subseteq fd, NEW m \in Mps,
         NEW r, r = ClearObjVar(s, m), r.ok
  PROVE  Linked(r.mdl, fd)
<1> DEFINE v == s.mps[m].objvar
           y == [s.mps[m] EXCEPT !.objvar = NA]
           t == WithMp(s, m, y)
           w == [y EXCEPT !.vars = @ \ {v}]
           u == WithMp(s, m, w)
           z == [s.vars[v] EXCEPT !.role = "primal", !.ppty = {}]
<1>1. s \in Mdls /\ s.mps[m] \in MpRecs
  BY Records, Owners
<1>2. IsOpt(s, m)
  BY DEF ClearObjVar, Error
<1>3. t = [s EXCEPT !.mps[m].objvar = NA] /\ u = [t EXCEPT !.mps[m].vars = @ \ {v}]
  <2>1. t = [s EXCEPT !.mps[m].objvar = NA]
    BY <1>1 DEF WithMp, Mdls
  <2>2. y \in MpRecs
    BY <1>1 DEF MpRecs
  <2> HIDE DEF y
  <2>3. t \in Mdls /\ t.mps[m] = y
    BY <1>1, <2>2, WithMpFields, WithTypes
  <2>4. WithMp(t, m, w) = [t EXCEPT !.mps[m].vars = @ \ {v}]
    <3> HIDE DEF t
    <3> QED
      BY <2>3 DEF WithMp, Mdls
  <2> HIDE DEF w
  <2>5. WithMp(t, m, w) = u
    BY <1>1, Zenon DEF WithMp, Mdls
  <2> QED
    BY <2>1, <2>4, <2>5
<1>4. /\ \A x \in {y, w} : /\ x \in MpRecs /\ x.objequ = s.mps[m].objequ /\ x.equs = s.mps[m].equs
                           /\ x.alive = s.mps[m].alive /\ x.sense = s.mps[m].sense
  BY <1>1, ZenonT(40) DEF MpRecs
<1> HIDE DEF y, w
<1>5. \A x \in {t, u} : /\ x \in Mdls /\ x.vars = s.vars /\ x.equs = s.equs
                        /\ \A k \in Mps : k # m => x.mps[k] = s.mps[k]
                        /\ x.mps[m] \in {y, w}
  BY <1>1, <1>4, WithMpFields, WithTypes
<1>6. \A x \in {t, u} : Revars(s, x, m, fd)
  BY <1>2, <1>4, <1>5 DEF Revars, IsOpt, IsVi
<1> HIDE DEF t, u
<1>7. \/ r.mdl = t
      \/ r.mdl = [u EXCEPT !.vars[v].role = "primal", !.vars[v].ppty = {}] /\ v # NA
  BY <1>2, <1>3 DEF ClearObjVar, OK, Error
<1>8. CASE r.mdl = t
  BY <1>6, <1>8, RevarsLinked
<1>9. CASE r.mdl = [u EXCEPT !.vars[v].role = "primal", !.vars[v].ppty = {}] /\ v # NA
  <2>1. v \in Vars
    BY <1>1, <1>9, Records
  <2>2. s.vars[v] \in VarMetas
    BY <1>1, <2>1, Records
  <2>3. z.dual = s.vars[v].dual
    BY <2>2 DEF VarMetas
  <2> HIDE DEF v
  <2>4. r.mdl = WithVar(u, v, z)
    BY <1>5, <1>9, <2>1, ZenonT(40) DEF WithVar, Mdls
  <2> HIDE DEF z
  <2>5. /\ r.mdl.equs = u.equs /\ r.mdl.mps = u.mps
        /\ \A x \in Vars : r.mdl.vars[x].dual = u.vars[x].dual
    BY <1>5, <2>1, <2>3, <2>4, WithVarFields
  <2>6. Revars(s, r.mdl, m, fd)
    BY <1>5, <1>6, <2>5 DEF Revars
  <2> QED
    BY <2>6, RevarsLinked
<1> QED
  BY <1>7, <1>8, <1>9

\* mp_setobjvar.
LEMMA SetObjVarLinked ==
  ASSUME NEW s, Sound(s), NEW ed, Linked(s, ed), NEW m \in Mps, NEW v \in Vars \cup {NA},
         NEW r, r = mp_setobjvar(s, m, v), r.ok
  PROVE  Linked(r.mdl, ed)
<1>1. CASE v = NA
  <2>1. r = ClearObjVar(s, m)
    BY <1>1 DEF mp_setobjvar
  <2> QED
    BY <2>1, ClearObjVarLinked
<1>2. CASE v # NA
  <2> DEFINE q == IF s.vars[v].mp = NA THEN mp_addvarchk(s, m, v) ELSE OK(s)
  <2>1. v \in Vars /\ s \in Mdls
    BY <1>2, Owners
  <2>2. s.vars[v].mp \in {NA, m} /\ q.ok /\ r = mp_setobjvar_internal(q.mdl, m, v)
    BY <1>2 DEF mp_setobjvar, Then, Error
  <2>3. CASE s.vars[v].mp # NA
    <3>1. q.mdl = s
      BY <2>3 DEF OK
    <3> QED
      BY <2>1, <2>2, <3>1, SetObjVarInternalLinked
  <2>4. CASE s.vars[v].mp = NA
    <3> DEFINE p == mp_addvarchk(s, m, v)
    <3>1. p.ok /\ r = mp_setobjvar_internal(p.mdl, m, v)
      BY <2>2, <2>4
    <3>2. Sound(p.mdl)
      <4>1. Step(s, p.mdl, m, {}, 0)
        BY <2>1, AddVarChk, Zenon
      <4> QED
        BY <4>1 DEF Step
    <3>3. VarListed(s, p.mdl, m, v)
      BY <2>1, <3>1, AddVarChkOk
    <3> HIDE DEF p
    <3>4. s.vars[v] \in VarMetas /\ s.mps[m] \in MpRecs
      BY <2>1, Records
    <3>5. \A k \in Mps : /\ k # m => p.mdl.mps[k] = s.mps[k]
                         /\ p.mdl.mps[k].sense = s.mps[k].sense /\ p.mdl.mps[k].alive = s.mps[k].alive
                         /\ p.mdl.mps[k].equs = s.mps[k].equs /\ p.mdl.mps[k].objequ = s.mps[k].objequ
                         /\ s.mps[m].vars \subseteq p.mdl.mps[m].vars
      BY <3>3, <3>4 DEF VarListed, MpRecs
    <3>6. p.mdl.equs = s.equs /\ \A w \in Vars : s.vars[w].mp = NA \/ p.mdl.vars[w] = s.vars[w]
      BY <3>3 DEF VarListed
    <3>7. Revars(s, p.mdl, m, ed)
      BY <3>5, <3>6 DEF Revars
    <3>8. Linked(p.mdl, ed)
      BY <3>7, RevarsLinked
    <3> QED
      BY <2>1, <3>1, <3>2, <3>8, SetObjVarInternalLinked
  <2> QED
    BY <2>3, <2>4
<1> QED
  BY <1>1, <1>2

\* mp_rm_var: the variable may have been one of a pair.
LEMMA RmVarLinked ==
  ASSUME NEW s, Sound(s), NEW ed, Linked(s, ed), NEW m \in Mps, NEW v \in Vars,
         NEW r, r = mp_rm_var(s, m, v), r.ok
  PROVE  Linked(r.mdl, ed \cup {<<m, "var">>})
<1> DEFINE x == [s.vars[v] EXCEPT !.mp = NA]
           y == [s.mps[m] EXCEPT !.vars = @ \ {v}]
<1>1. s \in Mdls /\ s.vars[v] \in VarMetas /\ s.mps[m] \in MpRecs
  BY Records, Owners
<1>2. s.vars[v].mp = m /\ v \in s.mps[m].vars
  BY DEF mp_rm_var, Error
<1>3. r.mdl = WithMp(WithVar(s, v, x), m, y)
  BY <1>1, <1>2 DEF mp_rm_var, OK, WithVar, WithMp, Mdls
<1>4. x \in VarMetas /\ x.dual = s.vars[v].dual
  BY <1>1 DEF VarMetas
<1>5. /\ y \in MpRecs /\ y.objequ = s.mps[m].objequ /\ y.equs = s.mps[m].equs
      /\ y.alive = s.mps[m].alive /\ y.sense = s.mps[m].sense
  BY <1>1 DEF MpRecs
<1> HIDE DEF x, y
<1>6. /\ r.mdl.equs = s.equs
      /\ \A w \in Vars : r.mdl.vars[w] = IF w = v THEN x ELSE s.vars[w]
      /\ \A k \in Mps : r.mdl.mps[k] = IF k = m THEN y ELSE s.mps[k]
  BY <1>1, <1>3, <1>4, <1>5, VarMpFields
<1>7. Revars(s, r.mdl, m, ed \cup {<<m, "var">>})
  BY <1>4, <1>5, <1>6 DEF Revars
<1> QED
  BY <1>7, RevarsLinked

\* The end of mp_finalize.
LEMMA FinalizedLinked ==
  ASSUME NEW s, Sound(s), NEW ed, Linked(s, ed), NEW m \in Mps
  PROVE  Linked(Finalized(s, m), ed)
<1> DEFINE y == [s.mps[m] EXCEPT !.finalized = TRUE]
           t == Finalized(s, m)
<1>1. s \in Mdls /\ s.mps[m] \in MpRecs
  BY Records, Owners
<1>2. /\ y \in MpRecs /\ y.objequ = s.mps[m].objequ /\ y.equs = s.mps[m].equs
      /\ y.alive = s.mps[m].alive /\ y.sense = s.mps[m].sense /\ y.vars = s.mps[m].vars
  BY <1>1, Zenon DEF MpRecs
<1>3. t = WithMp(s, m, y)
  BY DEF Finalized
<1> HIDE DEF y, t
<1>4. /\ t.vars = s.vars /\ t.equs = s.equs
      /\ \A k \in Mps : t.mps[k] = IF k = m THEN y ELSE s.mps[k]
  BY <1>1, <1>3, WithMpFields
<1>5. Revars(s, t, m, ed)
  BY <1>2, <1>4 DEF Revars
<1>6. Linked(t, ed)
  BY <1>5, RevarsLinked
<1> QED
  BY <1>6 DEF t

\* An equation that gets another object keeps its links.
LEMMA ObjectLinked ==
  ASSUME NEW s, Sound(s), NEW ed, Linked(s, ed), NEW e \in Equs, NEW x \in EquMetas,
         SameLinks(s.equs[e], x)
  PROVE  Linked(WithEqu(s, e, x), ed)
<1> DEFINE t == WithEqu(s, e, x)
<1>1. /\ t.vars = s.vars /\ t.mps = s.mps
      /\ \A f \in Equs : t.equs[f] = IF f = e THEN x ELSE s.equs[f]
  BY Owners, WithEquFields
<1> HIDE DEF t
<1>2. \A f \in Equs : SameLinks(s.equs[f], t.equs[f])
  BY <1>1 DEF SameLinks
<1>3. Quiet(s, t, ed)
  BY <1>1, <1>2 DEF Quiet
<1>4. Linked(t, ed)
  BY <1>3, QuietLinked
<1> QED
  BY <1>4 DEF t

-----------------------------------------------------------------------------
(***************************************************************************)
(* The calls that succeed keep the links: the equations.                   *)
(***************************************************************************)

\* mp_addequchk when it succeeds.
EquTaken(s, t, m, e) ==
    /\ s.equs[e].mp = NA /\ t \in Mdls /\ t.vars = s.vars
    /\ \A f \in Equs : t.equs[f] = IF f = e THEN [s.equs[e] EXCEPT !.mp = m] ELSE s.equs[f]
    /\ \A k \in Mps : t.mps[k] = IF k = m THEN [s.mps[m] EXCEPT !.equs = @ \cup {e}] ELSE s.mps[k]

\* It lists the equation.
LEMMA AddEquChkOk ==
  ASSUME NEW s \in Mdls, NEW m \in Mps, NEW e \in Equs, NEW r, r = mp_addequchk(s, m, e), r.ok
  PROVE  EquTaken(s, r.mdl, m, e)
<1> DEFINE x == [s.equs[e] EXCEPT !.mp = m]
           y == [s.mps[m] EXCEPT !.equs = @ \cup {e}]
<1>1. s.equs[e] \in EquMetas /\ s.mps[m] \in MpRecs
  BY Records
<1>2. s.equs[e].mp = NA
  BY DEF mp_addequchk, Error
<1>3. r.mdl = WithMp(WithEqu(s, e, x), m, y)
  BY <1>2 DEF mp_addequchk, OK, WithEqu, WithMp, Mdls
<1>4. x \in EquMetas /\ y \in MpRecs
  BY <1>1 DEF EquMetas, MpRecs
<1> HIDE DEF x, y
<1>5. /\ r.mdl \in Mdls /\ r.mdl.vars = s.vars
      /\ \A f \in Equs : r.mdl.equs[f] = IF f = e THEN x ELSE s.equs[f]
      /\ \A k \in Mps : r.mdl.mps[k] = IF k = m THEN y ELSE s.mps[k]
  BY <1>3, <1>4, EquMpFields
<1> QED
  BY <1>2, <1>5, Zenon DEF EquTaken, x, y

\* mp_addvipair with an equation.
LEMMA AddPairLinked ==
  ASSUME NEW s, Sound(s), NEW ed, Linked(s, ed), NEW m \in Mps, NEW v \in Vars, NEW e \in Equs,
         s.equs[e].active, IsVi(s, m), NEW r, r = mp_addvipair(s, m, e, v), r.ok
  PROVE  Linked(r.mdl, ed)
<1> DEFINE q == mp_addvarchk(s, m, v)
           t == q.mdl
           g == mp_addequchk(t, m, e)
           x == [g.mdl.equs[e] EXCEPT !.object = "mapping"]
           u == WithEqu(g.mdl, e, x)
           z == [x EXCEPT !.role = "vifunction", !.dual = v]
<1>0. Sound(r.mdl)
  <2>1. Step(s, r.mdl, m, {}, 1)
    BY AddPairStep
  <2> QED
    BY <2>1 DEF Step
<1>1. s \in Mdls /\ s.vars[v] \in VarMetas /\ s.equs[e] \in EquMetas /\ s.mps[m] \in MpRecs /\ e # NA
  BY Owners, Records
<1>2. q.ok /\ g.ok
  BY <1>1 DEF mp_addvipair, Then
<1>3. VarListed(s, t, m, v)
  BY <1>1, <1>2, AddVarChkOk
<1>4. EquTaken(t, g.mdl, m, e)
  <2>1. t \in Mdls
    BY <1>3 DEF VarListed
  <2> HIDE DEF t
  <2> QED
    BY <1>2, <2>1, AddEquChkOk
<1>5. g.mdl \in Mdls
  BY <1>4 DEF EquTaken
<1>6. u = [g.mdl EXCEPT !.equs[e].object = "mapping"]
  BY <1>5 DEF WithEqu, Mdls
<1>7. r = rctr_setequvarperp(u, e, v)
  BY <1>1, <1>2, <1>6 DEF mp_addvipair, Then, OK
<1> HIDE DEF q, t, g
<1>8. g.mdl.equs[e] = [s.equs[e] EXCEPT !.mp = m] /\ s.equs[e].mp = NA /\ s.vars[v].mp = NA
  BY <1>3, <1>4 DEF VarListed, EquTaken
<1>9. /\ x \in EquMetas /\ x.mp = m /\ x.res = s.equs[e].res /\ x.active = s.equs[e].active
      /\ x.object = "mapping"
  <2>1. g.mdl.equs[e] \in EquMetas
    BY <1>5, Records
  <2>2. x \in EquMetas
    BY <2>1 DEF EquMetas, Objects
  <2> QED
    BY <1>1, <1>8, <2>2, Zenon DEF EquMetas
<1> HIDE DEF x
<1>10. /\ u \in Mdls /\ u.vars = g.mdl.vars /\ u.mps = g.mdl.mps
       /\ \A f \in Equs : u.equs[f] = IF f = e THEN x ELSE g.mdl.equs[f]
  BY <1>5, <1>9, WithEquFields, WithTypes
<1>11. u.vars[v] \in VarMetas
  BY <1>10, Records
<1> HIDE DEF u
<1>12. /\ r.mdl.mps = u.mps /\ r.mdl.equs[e] = z
       /\ \A f \in Equs : f # e => r.mdl.equs[f] = u.equs[f]
       /\ r.mdl.vars[v].dual = e
       /\ \A w \in Vars : w # v => r.mdl.vars[w] = u.vars[w]
  <2> DEFINE b == [u.vars[v] EXCEPT !.role = "primal", !.dual = e]
             c == [b EXCEPT !.ppty = PerpVi]
             a == WithVar(u, v, b)
             w == WithEqu(a, e, z)
  <2>1. b \in VarMetas /\ c \in VarMetas /\ b.dual = e /\ c.dual = e
    BY <1>1, <1>11, Zenon DEF VarMetas, PerpVi
  <2>2. a = [u EXCEPT !.vars[v].role = "primal", !.vars[v].dual = e]
    BY <1>10, <1>11, Zenon DEF WithVar, Mdls
  <2>3. a \in Mdls /\ a.equs = u.equs /\ a.mps = u.mps /\ \A y \in Vars : a.vars[y] = IF y = v THEN b ELSE u.vars[y]
    BY <1>10, <2>1, WithVarFields, WithTypes
  <2> HIDE DEF a
  <2>4. a.equs[e] = x
    BY <1>10, <2>3
  <2>5. r.mdl = [a EXCEPT !.equs[e].role = "vifunction", !.equs[e].dual = v, !.vars[v].ppty = PerpVi]
    BY <1>1, <1>7, <2>2 DEF rctr_setequvarperp, OK, Error
  <2>6. w = [a EXCEPT !.equs[e].role = "vifunction", !.equs[e].dual = v]
    BY <2>3, <2>4, Zenon DEF WithEqu, Mdls
  <2>7. r.mdl = [w EXCEPT !.vars[v].ppty = PerpVi]
    BY <2>5, <2>6, Zenon
  <2>8. z \in EquMetas
    BY <1>9, Zenon DEF EquMetas
  <2> HIDE DEF z
  <2>9. /\ w \in Mdls /\ w.vars = a.vars /\ w.mps = a.mps
        /\ \A f \in Equs : w.equs[f] = IF f = e THEN z ELSE a.equs[f]
    BY <2>3, <2>8, WithEquFields, WithTypes
  <2> HIDE DEF w
  <2>10. r.mdl = WithVar(w, v, c)
    BY <2>3, <2>7, <2>9, Zenon DEF WithVar, Mdls
  <2> HIDE DEF b, c
  <2>11. /\ r.mdl.equs = w.equs /\ r.mdl.mps = w.mps
         /\ \A y \in Vars : r.mdl.vars[y] = IF y = v THEN c ELSE w.vars[y]
    BY <2>1, <2>9, <2>10, WithVarFields
  <2> QED
    BY <2>1, <2>3, <2>9, <2>11
<1>13. /\ z.mp = m /\ z.res = s.equs[e].res /\ z.active = s.equs[e].active /\ z.object = "mapping"
       /\ z.dual = v
  BY <1>9, Zenon DEF EquMetas
<1> HIDE DEF z
<1>14. /\ \A f \in Equs : f # e => r.mdl.equs[f] = s.equs[f]
       /\ \A w \in Vars : w # v => r.mdl.vars[w] = s.vars[w]
       /\ \A k \in Mps : k # m => r.mdl.mps[k] = s.mps[k]
       /\ r.mdl.mps[m] = [[s.mps[m] EXCEPT !.vars = @ \cup {v}] EXCEPT !.equs = @ \cup {e}]
  <2>1. \A f \in Equs : f # e => r.mdl.equs[f] = s.equs[f]
    BY <1>3, <1>4, <1>10, <1>12 DEF VarListed, EquTaken
  <2>2. \A w \in Vars : w # v => r.mdl.vars[w] = s.vars[w]
    BY <1>3, <1>4, <1>10, <1>12 DEF VarListed, EquTaken
  <2>3. \A k \in Mps : k # m => r.mdl.mps[k] = s.mps[k]
    BY <1>3, <1>4, <1>10, <1>12 DEF VarListed, EquTaken
  <2>4. t.mps[m] = [s.mps[m] EXCEPT !.vars = @ \cup {v}]
    BY <1>3, Zenon DEF VarListed
  <2>5. g.mdl.mps[m] = [t.mps[m] EXCEPT !.equs = @ \cup {e}]
    BY <1>4, Zenon DEF EquTaken
  <2> QED
    BY <1>10, <1>12, <2>1, <2>2, <2>3, <2>4, <2>5
<1>15. /\ r.mdl.mps[m].sense = s.mps[m].sense /\ r.mdl.mps[m].alive = s.mps[m].alive
       /\ r.mdl.mps[m].objequ = s.mps[m].objequ
       /\ r.mdl.mps[m].vars = s.mps[m].vars \cup {v} /\ r.mdl.mps[m].equs = s.mps[m].equs \cup {e}
  BY <1>1, <1>14 DEF MpRecs
<1>16. Matched(s, r.mdl, m, e, v)
  BY <1>8, <1>12, <1>13, <1>14, <1>15 DEF Matched
<1> QED
  BY <1>0, <1>16, MatchedLinked

\* From s to t only the equation e, the MP m and properties of variables change.
Only(s, t, e, m) ==
    /\ \A f \in Equs : f # e => t.equs[f] = s.equs[f]
    /\ \A k \in Mps : k # m => t.mps[k] = s.mps[k]
    /\ t.mps[m].sense = s.mps[m].sense /\ t.mps[m].alive = s.mps[m].alive
    /\ t.mps[m].vars = s.mps[m].vars
    /\ \A v \in Vars : t.vars[v].dual = s.vars[v].dual

\* Such changes follow one another.
LEMMA OnlyOnly ==
  ASSUME NEW s, NEW t, NEW u, NEW e, NEW m, Only(s, t, e, m), Only(t, u, e, m)
  PROVE  Only(s, u, e, m)
BY DEF Only

\* The links of an equation, its owner and its role apart.
SameState(x, y) == y.active = x.active /\ y.res = x.res /\ y.object = x.object /\ y.dual = x.dual

\* The equation e, which was nobody's, comes to m.
Comes(s, t, e, m) ==
    /\ Only(s, t, e, m) /\ SameState(s.equs[e], t.equs[e])
    /\ s.equs[e].mp = NA /\ t.equs[e].mp = m

\* mp_addequchk is one of these.
LEMMA TakenComes ==
  ASSUME NEW s \in Mdls, NEW t, NEW m \in Mps, NEW e \in Equs, EquTaken(s, t, m, e)
  PROVE  /\ Comes(s, t, e, m) /\ t.equs[e].role = s.equs[e].role
         /\ t.mps[m].equs = s.mps[m].equs \cup {e} /\ t.mps[m].objequ = s.mps[m].objequ
<1>1. s.equs[e] \in EquMetas /\ s.mps[m] \in MpRecs
  BY Records
<1>2. t.equs[e] = [s.equs[e] EXCEPT !.mp = m] /\ t.mps[m] = [s.mps[m] EXCEPT !.equs = @ \cup {e}]
  BY Zenon DEF EquTaken
<1>3. t.equs[e].mp = m /\ SameState(s.equs[e], t.equs[e]) /\ t.equs[e].role = s.equs[e].role
  BY <1>1, <1>2 DEF EquMetas, SameState
<1>4. /\ t.mps[m].equs = s.mps[m].equs \cup {e} /\ t.mps[m].objequ = s.mps[m].objequ
      /\ t.mps[m].sense = s.mps[m].sense /\ t.mps[m].alive = s.mps[m].alive
      /\ t.mps[m].vars = s.mps[m].vars
  BY <1>1, <1>2 DEF MpRecs
<1>5. Only(s, t, e, m)
  BY <1>4 DEF Only, EquTaken
<1> QED
  BY <1>3, <1>4, <1>5 DEF Comes, EquTaken

\* mp_addconstraint when it succeeds.
LEMMA AddConstraintOk ==
  ASSUME NEW s \in Mdls, NEW m \in Mps, NEW e \in Equs, NEW r, r = mp_addconstraint(s, m, e), r.ok
  PROVE  /\ Comes(s, r.mdl, e, m)
         /\ r.mdl.equs[e].role = IF s.equs[e].role = "undefined" THEN "constraint" ELSE s.equs[e].role
         /\ r.mdl.mps[m].equs = s.mps[m].equs \cup {e} /\ r.mdl.mps[m].objequ = s.mps[m].objequ
<1> DEFINE q == mp_addequchk(s, m, e)
           t == q.mdl
           x == [t.equs[e] EXCEPT !.role = IF @ = "undefined" THEN "constraint" ELSE @]
           y == [t.mps[m] EXCEPT !.num_cons = IF IsVi(t, m) THEN @ + 1 ELSE @]
<1>1. q.ok
  BY DEF mp_addconstraint, Then
<1>2. EquTaken(s, t, m, e)
  BY <1>1, AddEquChkOk
<1>3. t \in Mdls
  BY <1>2 DEF EquTaken
<1>4. r.mdl = WithMp(WithEqu(t, e, x), m, y)
  BY <1>1, <1>3 DEF mp_addconstraint, Then, OK, WithEqu, WithMp, Mdls
<1> HIDE DEF q, t
<1>5. t.equs[e] \in EquMetas /\ t.mps[m] \in MpRecs
  BY <1>3, Records
<1>6. /\ x \in EquMetas /\ SameState(t.equs[e], x) /\ x.mp = t.equs[e].mp
      /\ x.role = IF t.equs[e].role = "undefined" THEN "constraint" ELSE t.equs[e].role
  BY <1>5 DEF EquMetas, SameState
<1>7. /\ y \in MpRecs /\ y.equs = t.mps[m].equs /\ y.objequ = t.mps[m].objequ
      /\ y.sense = t.mps[m].sense /\ y.alive = t.mps[m].alive /\ y.vars = t.mps[m].vars
  BY <1>5 DEF MpRecs
<1> HIDE DEF x, y
<1>8. /\ r.mdl.vars = t.vars
      /\ \A f \in Equs : r.mdl.equs[f] = IF f = e THEN x ELSE t.equs[f]
      /\ \A k \in Mps : r.mdl.mps[k] = IF k = m THEN y ELSE t.mps[k]
  BY <1>3, <1>4, <1>6, <1>7, EquMpFields
<1>9. /\ Comes(s, t, e, m) /\ t.equs[e].role = s.equs[e].role
      /\ t.mps[m].equs = s.mps[m].equs \cup {e} /\ t.mps[m].objequ = s.mps[m].objequ
  BY <1>2, TakenComes
<1>10. Only(t, r.mdl, e, m)
  BY <1>7, <1>8 DEF Only
<1>11. Only(s, r.mdl, e, m)
  BY <1>9, <1>10, OnlyOnly DEF Comes
<1> QED
  BY <1>6, <1>7, <1>8, <1>9, <1>11 DEF Comes, SameState

\* mp_setobjequ_internal when it succeeds.
LEMMA SetObjEquInternalOk ==
  ASSUME NEW s \in Mdls, NEW m \in Mps, NEW e \in Equs,
         NEW r, r = mp_setobjequ_internal(s, m, e), r.ok
  PROVE  /\ IsOpt(s, m) /\ r.mdl \in Mdls /\ Only(s, r.mdl, e, m)
         /\ SameState(s.equs[e], r.mdl.equs[e]) /\ r.mdl.equs[e].mp = s.equs[e].mp
         /\ r.mdl.equs[e].role = "objective"
         /\ r.mdl.mps[m].equs = s.mps[m].equs \ {s.mps[m].objequ} /\ r.mdl.mps[m].objequ = e
<1> DEFINE x == [s.equs[e] EXCEPT !.role = "objective"]
           y == [s.mps[m] EXCEPT !.equs = @ \ {s.mps[m].objequ}, !.objequ = e]
           ov == s.mps[m].objvar
           t == WithMp(WithEqu(s, e, x), m, y)
           z == [s.vars[ov] EXCEPT !.ppty = @ \cup {Explicit}]
<1>1. s.equs[e] \in EquMetas /\ s.mps[m] \in MpRecs
  BY Records
<1>2. IsOpt(s, m)
  BY DEF mp_setobjequ_internal, Error
<1>3. t = [s EXCEPT !.mps[m].equs = @ \ {s.mps[m].objequ},
                    !.mps[m].objequ = e, !.equs[e].role = "objective"]
  BY <1>1, Zenon DEF WithEqu, WithMp, Mdls
<1>4. r.mdl = IF ov = NA THEN t ELSE [t EXCEPT !.vars[ov].ppty = @ \cup {Explicit}]
  BY <1>2, <1>3, Zenon DEF mp_setobjequ_internal, OK
<1>5. x \in EquMetas /\ SameState(s.equs[e], x) /\ x.mp = s.equs[e].mp /\ x.role = "objective"
  BY <1>1 DEF EquMetas, SameState
<1>6. /\ y \in MpRecs /\ y.equs = s.mps[m].equs \ {s.mps[m].objequ} /\ y.objequ = e
      /\ y.sense = s.mps[m].sense /\ y.alive = s.mps[m].alive /\ y.vars = s.mps[m].vars
  BY <1>1, Zenon DEF MpRecs
<1> HIDE DEF x, y
<1>7. /\ t \in Mdls /\ t.vars = s.vars
      /\ \A f \in Equs : t.equs[f] = IF f = e THEN x ELSE s.equs[f]
      /\ \A k \in Mps : t.mps[k] = IF k = m THEN y ELSE s.mps[k]
  BY <1>5, <1>6, EquMpFields
<1> HIDE DEF t
<1>8. /\ r.mdl \in Mdls /\ r.mdl.equs = t.equs /\ r.mdl.mps = t.mps
      /\ \A v \in Vars : r.mdl.vars[v].dual = s.vars[v].dual
  <2>1. CASE ov = NA
    BY <1>4, <1>7, <2>1
  <2>2. CASE ov # NA
    <3>1. ov \in Vars
      BY <2>2, Records
    <3>2. s.vars[ov] \in VarMetas
      BY <3>1, Records
    <3>3. z \in VarMetas /\ z.dual = s.vars[ov].dual
      BY <3>2 DEF VarMetas, Explicit
    <3> HIDE DEF ov
    <3>4. r.mdl = WithVar(t, ov, z)
      BY <1>4, <1>7, <2>2 DEF WithVar, Mdls
    <3> HIDE DEF z
    <3>5. /\ r.mdl \in Mdls /\ r.mdl.equs = t.equs /\ r.mdl.mps = t.mps
          /\ \A v \in Vars : r.mdl.vars[v] = IF v = ov THEN z ELSE t.vars[v]
      BY <1>7, <3>1, <3>3, <3>4, WithVarFields, WithTypes
    <3> QED
      BY <1>7, <3>3, <3>5
  <2> QED
    BY <2>1, <2>2
<1>9. Only(s, r.mdl, e, m)
  BY <1>6, <1>7, <1>8 DEF Only
<1> QED
  BY <1>2, <1>5, <1>6, <1>7, <1>8, <1>9

\* mp_setobjequ when it succeeds.
LEMMA SetObjEquOk ==
  ASSUME NEW s \in Mdls, NEW m \in Mps, NEW e \in Equs, NEW r, r = mp_setobjequ(s, m, e), r.ok
  PROVE  /\ IsOpt(s, m) /\ Comes(s, r.mdl, e, m) /\ r.mdl.equs[e].role = "objective"
         /\ r.mdl.mps[m].equs = (s.mps[m].equs \ {s.mps[m].objequ}) \cup {e}
         /\ r.mdl.mps[m].objequ = e
<1> DEFINE q == mp_setobjequ_internal(s, m, e)
           t == q.mdl
<1>1. q.ok /\ r = mp_addequchk(t, m, e)
  BY DEF mp_setobjequ, Then
<1>2. q = mp_setobjequ_internal(s, m, e)
  OBVIOUS
<1> HIDE DEF q
<1>3. /\ IsOpt(s, m) /\ t \in Mdls /\ Only(s, t, e, m)
      /\ SameState(s.equs[e], t.equs[e]) /\ t.equs[e].mp = s.equs[e].mp
      /\ t.equs[e].role = "objective"
      /\ t.mps[m].equs = s.mps[m].equs \ {s.mps[m].objequ} /\ t.mps[m].objequ = e
  BY <1>1, <1>2, SetObjEquInternalOk
<1> HIDE DEF t
<1>4. EquTaken(t, r.mdl, m, e)
  BY <1>1, <1>3, AddEquChkOk
<1>5. /\ Comes(t, r.mdl, e, m) /\ r.mdl.equs[e].role = t.equs[e].role
      /\ r.mdl.mps[m].equs = t.mps[m].equs \cup {e} /\ r.mdl.mps[m].objequ = t.mps[m].objequ
  <2>1. t \in Mdls /\ EquTaken(t, r.mdl, m, e)
    BY <1>3, <1>4
  <2> QED
    BY <2>1, TakenComes
<1>6. Only(s, r.mdl, e, m)
  BY <1>3, <1>5, OnlyOnly DEF Comes
<1> QED
  BY <1>3, <1>5, <1>6 DEF Comes, SameState

-----------------------------------------------------------------------------
(***************************************************************************)
(* The calls that give an MP an equation.                                  *)
(***************************************************************************)

\* An equation of the model that comes to m touches m only.
LEMMA ComesTouched ==
  ASSUME NEW s, NEW t, NEW m \in Mps, NEW e \in Equs, Comes(s, t, e, m),
         s.equs[e].object # "none", t.equs[e].role # "vifunction",
         t.mps[m].equs \subseteq s.mps[m].equs \cup {e}
  PROVE  Touched(s, t, m, e)
<1>1. /\ Only(s, t, e, m) /\ SameState(s.equs[e], t.equs[e]) /\ t.equs[e].mp = m
  BY DEF Comes
<1>2. Aside(s, t, m)
  BY <1>1 DEF Only, Aside
<1>3. \A f \in Equs : f # e => SameLinks(s.equs[f], t.equs[f])
  BY <1>1 DEF Only, SameLinks
<1> QED
  BY <1>1, <1>2, <1>3 DEF Touched, SameState, IsFunction

\* It keeps the links when m takes it beside what it lists.
LEMMA ComesLinked ==
  ASSUME NEW s, Sound(s), NEW ed, Linked(s, ed), NEW m \in Mps, s.mps[m].alive,
         NEW e \in Equs, s.equs[e].active, NEW t, Sound(t), Comes(s, t, e, m),
         t.equs[e].role # "vifunction",
         t.mps[m].equs = s.mps[m].equs \cup {e}, t.mps[m].objequ = s.mps[m].objequ
  PROVE  Linked(t, ed)
<1>1. s.equs[e].object # "none"
  BY Owners
<1>2. Touched(s, t, m, e)
  BY <1>1, ComesTouched
<1>3. PlacedAt(s, ed, m)
  BY DEF Linked
<1>4. \A f \in Equs : f # e => t.equs[f] = s.equs[f]
  BY DEF Comes, Only
<1>5. s.mps[m].objequ \in Equs \cup {NA}
  BY Owners, Records
<1>6. PlacedAt(t, ed, m)
  BY <1>3, <1>4, <1>5 DEF PlacedAt
<1> QED
  BY <1>2, <1>6, TouchLinked

\* And when m takes it as its objective.
LEMMA ObjectiveLinked ==
  ASSUME NEW s, Sound(s), NEW ed, Linked(s, ed), NEW m \in Mps,
         NEW e \in Equs, s.equs[e].active, NEW r, r = mp_setobjequ(s, m, e), r.ok
  PROVE  Linked(r.mdl, ed)
<1>1. s \in Mdls /\ s.equs[e].object # "none" /\ e # NA
  BY Owners
<1>2. /\ Comes(s, r.mdl, e, m) /\ r.mdl.equs[e].role = "objective"
      /\ r.mdl.mps[m].equs = (s.mps[m].equs \ {s.mps[m].objequ}) \cup {e}
      /\ r.mdl.mps[m].objequ = e
  BY <1>1, SetObjEquOk
<1>3. Sound(r.mdl)
  <2>1. s.mps[m].objequ \in {s.mps[m].objequ}
    OBVIOUS
  <2>2. Step(s, r.mdl, m, {s.mps[m].objequ}, 0)
    BY <2>1, SetObjEquStep
  <2> QED
    BY <2>2 DEF Step
<1>4. Touched(s, r.mdl, m, e)
  BY <1>1, <1>2, ComesTouched, Zenon
<1>5. PlacedAt(r.mdl, ed, m)
  BY <1>1, <1>2 DEF PlacedAt
<1> QED
  BY <1>3, <1>4, <1>5, TouchLinked

\* mp_addconstraint.
LEMMA AddConstraintLinked ==
  ASSUME NEW s, Sound(s), NEW ed, Linked(s, ed), NEW m \in Mps, s.mps[m].alive,
         NEW e \in Equs, s.equs[e].active, NEW r, r = mp_addconstraint(s, m, e), r.ok
  PROVE  Linked(r.mdl, ed)
<1>1. s \in Mdls
  BY Owners
<1>2. /\ Comes(s, r.mdl, e, m)
      /\ r.mdl.equs[e].role = IF s.equs[e].role = "undefined" THEN "constraint" ELSE s.equs[e].role
      /\ r.mdl.mps[m].equs = s.mps[m].equs \cup {e} /\ r.mdl.mps[m].objequ = s.mps[m].objequ
  BY <1>1, AddConstraintOk
<1>3. r.mdl.equs[e].role # "vifunction"
  BY <1>2, Owners DEF Comes
<1>4. Sound(r.mdl)
  <2>1. Step(s, r.mdl, m, {}, 1)
    BY AddConstraintStep
  <2> QED
    BY <2>1 DEF Step
<1> QED
  BY <1>2, <1>3, <1>4, ComesLinked

\* mp_addequ.
LEMMA AddEquLinked ==
  ASSUME NEW s, Sound(s), NEW ed, Linked(s, ed), NEW m \in Mps, s.mps[m].alive,
         NEW e \in Equs, s.equs[e].active, NEW r, r = mp_addequ(s, m, e), r.ok
  PROVE  Linked(r.mdl, ed)
<1> DEFINE q == mp_addequchk(s, m, e)
<1>1. s \in Mdls
  BY Owners
<1>2. q.ok /\ r.mdl = q.mdl
  BY DEF mp_addequ, Then, OK, Error
<1>3. EquTaken(s, r.mdl, m, e)
  BY <1>1, <1>2, AddEquChkOk
<1> HIDE DEF q
<1>4. /\ Comes(s, r.mdl, e, m) /\ r.mdl.equs[e].role = s.equs[e].role
      /\ r.mdl.mps[m].equs = s.mps[m].equs \cup {e} /\ r.mdl.mps[m].objequ = s.mps[m].objequ
  BY <1>1, <1>3, TakenComes
<1>5. r.mdl.equs[e].role # "vifunction"
  BY <1>4, Owners DEF Comes
<1>6. Sound(r.mdl)
  <2>1. Step(s, r.mdl, m, {}, 0)
    BY AddEquStep, Zenon
  <2> QED
    BY <2>1 DEF Step
<1> QED
  BY <1>4, <1>5, <1>6, ComesLinked

\* mp_identify_objequ: the equation that becomes the objective is one that the MP lists.
LEMMA IdentifyLinked ==
  ASSUME NEW s, Sound(s), NEW ed, Linked(s, ed), NEW m \in Mps, s.mps[m].alive,
         s.mps[m].objequ = NA, s.mps[m].objvar \in Vars, s.column[s.mps[m].objvar] # <<>>,
         NEW r, r = mp_identify_objequ(s, m), r.ok
  PROVE  Linked(r.mdl, ed)
<1> DEFINE col == s.column[s.mps[m].objvar]
           good(i) == s.equs[col[i].ei].mp = m /\ ~ col[i].nl
           found == good(1) /\ (Len(col) = 1 \/ ~ good(2))
           last == IF good(1) /\ Len(col) > 1 THEN 2 ELSE 1
           e == col[1].ei
           x == [s.equs[e] EXCEPT !.object = "definedmapping", !.cone = "none"]
           t == WithEqu(s, e, x)
           q == mp_setobjequ_internal(t, m, col[last].ei)
<1>1. s \in Mdls
  BY Owners
<1>2. col \in Seq(Entries) /\ Len(col) \in Nat /\ Len(col) # 0
  BY <1>1, Records
<1>3. 1 \in DOMAIN col /\ last \in DOMAIN col
  <2> HIDE DEF col, good
  <2> QED
    BY <1>2
<1>4. \A i \in DOMAIN col : col[i].ei \in Equs /\ s.equs[col[i].ei].active
  BY <1>1, ColumnEntries, Zenon DEF Sound, ColumnsActive
<1>5. e \in Equs /\ s.equs[e] \in EquMetas /\ s.equs[e].active /\ s.equs[e].object # "none"
  <2>1. e \in Equs /\ s.equs[e].active
    BY <1>3, <1>4, Zenon
  <2> HIDE DEF e
  <2> QED
    BY <1>1, <2>1, Records, Owners
<1>6. e # NA
  BY <1>5, Owners, Zenon
<1>7. r = q \/ r = OK(s)
  <2>1. t = [s EXCEPT !.equs[e].object = "definedmapping", !.equs[e].cone = "none"]
    BY <1>1, Zenon DEF WithEqu, Mdls
  <2> HIDE DEF t
  <2>2. CASE ~ found
    BY <2>2, Zenon DEF mp_identify_objequ
  <2>3. CASE found
    BY <1>6, <2>1, <2>3, Zenon DEF mp_identify_objequ
  <2> QED
    BY <2>2, <2>3, Zenon
<1>8. CASE r = OK(s)
  BY <1>8 DEF OK
<1>9. CASE r = q
  <2>1. /\ x \in EquMetas /\ x.mp = s.equs[e].mp /\ x.active = s.equs[e].active
        /\ x.object = "definedmapping" /\ x.role = s.equs[e].role /\ SameLinks(s.equs[e], x)
    BY <1>5, Zenon DEF EquMetas, Objects, Cones, SameLinks
  <2>2. col[last].ei \in Equs /\ s.equs[col[last].ei].active
    BY <1>3, <1>4, Zenon
  <2> DEFINE f == col[last].ei
  <2> HIDE DEF e, x, f
  <2>3. Marks(s.equs[e], x)
    BY <1>5, <2>1, Owners DEF Marks
  <2>4. Step(s, t, m, {}, 0)
    BY <1>5, <2>1, <2>3, SamePlace, Zenon
  <2>5. /\ Sound(t) /\ t.mps = s.mps
        /\ (\A k \in Equs : t.equs[k] = IF k = e THEN x ELSE s.equs[k])
    BY <1>1, <1>5, <2>1, <2>4, WithEquFields DEF Step
  <2>6. Linked(t, ed)
    BY <1>5, <2>1, ObjectLinked
  <2>7. f \in Equs /\ t.equs[f].active /\ t.equs[f].object # "none" /\ f # NA
    <3>1. f \in Equs /\ s.equs[f].active
      BY <2>2, Zenon DEF f
    <3>2. t.equs[f].active
      BY <1>5, <2>1, <2>5, <3>1, Zenon
    <3> QED
      BY <2>5, <3>1, <3>2, Owners
  <2> HIDE DEF t, q
  <2>8. q = mp_setobjequ_internal(t, m, f)
    BY DEF q, f
  <2>9. t \in Mdls
    BY <2>5, Owners
  <2>10. /\ q.mdl \in Mdls /\ Only(t, q.mdl, f, m)
         /\ SameState(t.equs[f], q.mdl.equs[f]) /\ q.mdl.equs[f].mp = t.equs[f].mp
         /\ q.mdl.equs[f].role = "objective"
         /\ q.mdl.mps[m].equs = t.mps[m].equs \ {t.mps[m].objequ} /\ q.mdl.mps[m].objequ = f
    BY <1>9, <2>7, <2>8, <2>9, SetObjEquInternalOk
  <2>11. Sound(q.mdl)
    <3>1. t.mps[m].objequ \in {t.mps[m].objequ}
      OBVIOUS
    <3>2. Step(t, q.mdl, m, {t.mps[m].objequ}, 0)
      BY <2>5, <2>7, <2>8, <3>1, SetObjEquInternalStep
    <3> QED
      BY <3>2 DEF Step
  <2>12. Touched(t, q.mdl, m, f)
    <3>1. Aside(t, q.mdl, m)
      BY <2>10 DEF Only, Aside
    <3>2. \A g \in Equs : g # f => SameLinks(t.equs[g], q.mdl.equs[g])
      BY <2>10 DEF Only, SameLinks
    <3> QED
      BY <2>7, <2>10, <3>1, <3>2 DEF Touched, SameState, IsFunction
  <2>13. q.mdl.mps[m].equs = t.mps[m].equs
    <3>1. t.mps[m].equs \subseteq Equs /\ NA \notin Equs
      BY <2>9, Records, MathPrgmAssumption
    <3> QED
      BY <2>5, <2>10, <3>1
  <2>14. PlacedAt(q.mdl, ed, m)
    <3>1. PlacedAt(t, ed, m)
      BY <2>5, <2>6 DEF Linked
    <3> QED
      BY <2>5, <2>7, <2>10, <2>13, <3>1 DEF PlacedAt
  <2>15. Linked(q.mdl, ed)
    BY <2>5, <2>6, <2>7, <2>11, <2>12, <2>14, TouchLinked
  <2> QED
    BY <1>9, <2>15
<1> QED
  BY <1>7, <1>8, <1>9, Zenon

\* mp_finalize.
LEMMA FinalizeLinked ==
  ASSUME NEW s, Sound(s), NEW ed, Linked(s, ed), NEW m \in Mps, s.mps[m].alive, NEW resolved,
         s.mps[m].objvar # NA => s.column[s.mps[m].objvar] # <<>>,
         NEW r, r = mp_finalize(s, m, resolved), r.ok
  PROVE  Linked(r.mdl, ed)
<1> DEFINE q == mp_identify_objequ(s, m)
           Outcome(t) == r = OK(t) \/ r = Error(t) \/ r = OK([t EXCEPT !.mps[m].finalized = TRUE])
<1>1. s.mps[m].objvar \in Vars \cup {NA}
  BY Records, Owners
<1>2. \A t : Sound(t) /\ Linked(t, ed) /\ Outcome(t) => Linked(r.mdl, ed)
  <2> SUFFICES ASSUME NEW t, Sound(t), Linked(t, ed), Outcome(t) PROVE Linked(r.mdl, ed)
    OBVIOUS
  <2>1. [t EXCEPT !.mps[m].finalized = TRUE] = Finalized(t, m)
    BY FinalizedStep, Zenon
  <2>2. Linked(Finalized(t, m), ed)
    BY FinalizedLinked
  <2>3. r.mdl = t \/ r.mdl = Finalized(t, m)
    <3>1. OK(t).mdl = t /\ Error(t).mdl = t /\ OK(Finalized(t, m)).mdl = Finalized(t, m)
      BY DEF OK, Error
    <3> QED
      BY <2>1, <3>1, Zenon
  <2> QED
    BY <2>2, <2>3
<1>3. \/ Outcome(s)
      \/ /\ s.mps[m].objequ = NA /\ s.mps[m].objvar # NA
         /\ IF q.ok THEN Outcome(q.mdl) ELSE r = q
  BY DEF mp_finalize, Then
<1>4. q = mp_identify_objequ(s, m)
  OBVIOUS
<1> HIDE DEF q, Outcome
<1>5. CASE Outcome(s)
  BY <1>2, <1>5
<1>6. CASE /\ s.mps[m].objequ = NA /\ s.mps[m].objvar # NA
           /\ IF q.ok THEN Outcome(q.mdl) ELSE r = q
  <2>1. q.ok
    BY <1>6
  <2>2. Linked(q.mdl, ed)
    BY <1>1, <1>4, <1>6, <2>1, IdentifyLinked
  <2>3. Sound(q.mdl)
    <3>1. s.mps[m].objequ \in {NA}
      BY <1>6
    <3>2. Step(s, q.mdl, m, {NA}, 0)
      BY <1>1, <1>4, <1>6, <3>1, IdentifyStep, Zenon
    <3> QED
      BY <3>2 DEF Step
  <2> QED
    BY <1>2, <1>6, <2>1, <2>2, <2>3
<1> QED
  BY <1>3, <1>5, <1>6

\* mp_ensure_obequ.
LEMMA EnsureLinked ==
  ASSUME NEW s, Sound(s), NEW ed, Linked(s, ed), NEW m \in Mps, NEW n \in Spare(s),
         NEW r, r = mp_ensure_obequ(s, m, n), r.ok
  PROVE  Linked(r.mdl, ed)
<1> DEFINE x == [NoEqu EXCEPT !.active = TRUE, !.object = "mapping"]
           t == WithEqu(s, n, x)
           g == mp_setobjequ(t, m, n)
<1>1. s \in Mdls /\ n \in Equs /\ s.equs[n].object = "none" /\ n # NA
  BY Owners DEF Spare
<1>2. IsOpt(s, m)
  BY Zenon DEF mp_ensure_obequ, Error
<1>3. CASE s.mps[m].objequ # NA
  BY <1>2, <1>3, Zenon DEF mp_ensure_obequ, OK
<1>4. CASE s.mps[m].objequ = NA
  <2> DEFINE q == ClearObjVar(t, m)
             h == mp_setobjequ(q.mdl, m, n)
  <2>1. t = [s EXCEPT !.equs[n] = x]
    BY <1>1 DEF WithEqu, Mdls
  <2>4. q.ok /\ h.ok /\ s.mps[m].objvar = NA /\ r.mdl = h.mdl
    <3>1. mp_setobjvar(t, m, NA) = q
      BY DEF mp_setobjvar
    <3> HIDE DEF t, q, h
    <3>2. r = IF ~ q.ok THEN q ELSE IF ~ h.ok THEN h
              ELSE IF s.mps[m].objvar = NA THEN OK(h.mdl) ELSE Error(h.mdl)
      BY <1>2, <1>4, <2>1, <3>1 DEF mp_ensure_obequ, Then, h
    <3>3. OK(h.mdl).mdl = h.mdl /\ ~ Error(h.mdl).ok
      BY DEF OK, Error
    <3> QED
      BY <3>2, <3>3
  <2>2. /\ x \in EquMetas /\ x.mp = NA /\ x.active /\ x.object = "mapping" /\ x.res = NA
        /\ x.role = "undefined"
    BY Zenon DEF EquMetas, NoEqu, Objects, Cones
  <2> HIDE DEF x
  <2>3. /\ t \in Mdls /\ t.mps = s.mps /\ t.vars = s.vars
        /\ \A f \in Equs : t.equs[f] = IF f = n THEN x ELSE s.equs[f]
    BY <1>1, <2>2, WithEquFields, WithTypes
  <2> HIDE DEF t
  <2>5. q.mdl = t
    <3>1. t.mps[m] \in MpRecs /\ t.mps[m].objvar = NA
      BY <2>3, <2>4, Records
    <3>2. [t.mps[m] EXCEPT !.objvar = NA] = t.mps[m]
      BY <3>1 DEF MpRecs
    <3>3. [t EXCEPT !.mps[m].objvar = NA] = t
      <4>1. [t EXCEPT !.mps[m].objvar = NA] = [t EXCEPT !.mps[m] = t.mps[m]]
        BY <2>3, <3>2, Zenon DEF Mdls
      <4> QED
        BY <2>3, <4>1 DEF Mdls
    <3>4. q = OK([t EXCEPT !.mps[m].objvar = NA])
      BY <2>4, <3>1 DEF ClearObjVar, Error
    <3> QED
      BY <3>3, <3>4 DEF OK
  <2> HIDE DEF q
  <2>6. g.ok /\ r.mdl = g.mdl
    BY <2>4, <2>5
  <2>7. /\ Comes(t, g.mdl, n, m) /\ g.mdl.equs[n].role = "objective"
        /\ g.mdl.mps[m].equs = (t.mps[m].equs \ {t.mps[m].objequ}) \cup {n}
        /\ g.mdl.mps[m].objequ = n
    BY <1>1, <2>3, <2>6, SetObjEquOk
  <2>8. Sound(g.mdl)
    <3>1. Step(s, r.mdl, m, {s.mps[m].objequ, s.mps[m].objvar}, 0)
      BY EnsureStep, Zenon
    <3> QED
      BY <2>6, <3>1 DEF Step
  <2> HIDE DEF g
  <2>9. Only(t, g.mdl, n, m) /\ SameState(t.equs[n], g.mdl.equs[n]) /\ g.mdl.equs[n].mp = m
    BY <2>7 DEF Comes
  <2>10. Touched(s, g.mdl, m, n)
    <3>1. Aside(s, g.mdl, m)
      BY <2>3, <2>9 DEF Only, Aside
    <3>2. \A f \in Equs : f # n => SameLinks(s.equs[f], g.mdl.equs[f])
      BY <2>3, <2>9 DEF Only, SameLinks
    <3>3. s.equs[n].res = NA
      BY <1>1 DEF Linked, Retired
    <3>4. g.mdl.equs[n].res = NA
      BY <1>1, <2>2, <2>3, <2>9 DEF SameState
    <3> QED
      BY <1>1, <2>3, <2>7, <2>9, <3>1, <3>2, <3>3, <3>4 DEF Touched, IsFunction
  <2>11. PlacedAt(g.mdl, ed, m)
    BY <1>1, <2>7 DEF PlacedAt
  <2> QED
    BY <1>1, <2>6, <2>8, <2>10, <2>11, TouchLinked
<1> QED
  BY <1>3, <1>4

-----------------------------------------------------------------------------
(***************************************************************************)
(* The calls that edit equations.                                          *)
(***************************************************************************)

\* rmdl_rm_equ when it succeeds: the equation was in the list of its MP, which loses it.
Departs(s, t, e) ==
    /\ s.equs[e].mp # NA => e \in s.mps[s.equs[e].mp].equs
    /\ t.vars = s.vars
    /\ \A f \in Equs : t.equs[f] = IF f = e THEN [s.equs[e] EXCEPT !.active = FALSE] ELSE s.equs[f]
    /\ \A k \in Mps : t.mps[k] = IF k = s.equs[e].mp THEN [s.mps[k] EXCEPT !.equs = @ \ {e}]
                                 ELSE s.mps[k]

\* It does so.
LEMMA RmEquOk ==
  ASSUME NEW s \in Mdls, NEW e \in Equs, NEW r, r = rmdl_rm_equ(s, e), r.ok
  PROVE  Departs(s, r.mdl, e)
<1> DEFINE m == s.equs[e].mp
           c == [v \in Vars |-> Without(s.column[v], e)]
           t == [s EXCEPT !.equs[e].active = FALSE, !.column = c]
<1>1. s.equs[e] \in EquMetas
  BY Records
<1>2. m \in Mps \cup {NA}
  BY <1>1 DEF EquMetas
<1>3. t.mps = s.mps /\ t.vars = s.vars /\ t.equs = [s.equs EXCEPT ![e] = [s.equs[e] EXCEPT !.active = FALSE]]
  <2> HIDE DEF c
  <2> QED
    BY DEF Mdls
<1>4. r = IF m = NA THEN OK(t)
          ELSE IF e \notin s.mps[m].equs THEN Error(t)
          ELSE OK([t EXCEPT !.mps[m].equs = @ \ {e}])
  BY <1>2 DEF rmdl_rm_equ, Mdls
<1>5. DOMAIN t = {"vars", "equs", "mps", "column"} /\ DOMAIN s.equs = Equs /\ DOMAIN s.mps = Mps
  BY DEF Mdls
<1> HIDE DEF t, m
<1>6. \A f \in Equs : t.equs[f] = IF f = e THEN [s.equs[e] EXCEPT !.active = FALSE] ELSE s.equs[f]
  BY <1>3, <1>5
<1>7. m = NA \/ e \in s.mps[m].equs
  BY <1>4 DEF Error
<1>8. CASE m = NA
  <2>1. r.mdl = t
    BY <1>4, <1>8 DEF OK
  <2>2. NA \notin Mps
    BY MathPrgmAssumption
  <2> QED
    BY <1>3, <1>6, <1>8, <2>1, <2>2, Zenon DEF Departs, m
<1>9. CASE m # NA
  <2>1. r.mdl = [t EXCEPT !.mps[m].equs = @ \ {e}]
    BY <1>4, <1>7, <1>9 DEF OK
  <2>2. /\ r.mdl.mps = [s.mps EXCEPT ![m] = [s.mps[m] EXCEPT !.equs = @ \ {e}]]
        /\ r.mdl.vars = t.vars /\ r.mdl.equs = t.equs
    BY <1>3, <1>5, <2>1
  <2>3. \A k \in Mps : r.mdl.mps[k] = IF k = m THEN [s.mps[k] EXCEPT !.equs = @ \ {e}]
                                      ELSE s.mps[k]
    BY <1>5, <2>2
  <2> QED
    BY <1>3, <1>6, <1>7, <1>9, <2>2, <2>3, ZenonT(40) DEF Departs, m
<1> QED
  BY <1>8, <1>9

\* An equation that departs leaves the links of the others when it is no objective.
LEMMA DepartsLeaves ==
  ASSUME NEW s, Sound(s), NEW e \in Equs, NEW t, Departs(s, t, e),
         s.equs[e].mp = NA \/ s.equs[e].role # "objective"
  PROVE  Leaves(s, t, e)
<1>1. s \in Mdls
  BY Owners
<1>2. s.equs[e] \in EquMetas /\ \A k \in Mps : s.mps[k] \in MpRecs
  BY <1>1, Records
<1>3. t.equs[e] = [s.equs[e] EXCEPT !.active = FALSE]
  BY Zenon DEF Departs
<1>4. /\ ~ t.equs[e].active /\ t.equs[e].mp = s.equs[e].mp /\ t.equs[e].role = s.equs[e].role
      /\ t.equs[e].object = s.equs[e].object /\ t.equs[e].res = s.equs[e].res
  BY <1>2, <1>3 DEF EquMetas
<1>5. ASSUME NEW k \in Mps
      PROVE  /\ t.mps[k].sense = s.mps[k].sense /\ t.mps[k].alive = s.mps[k].alive
             /\ t.mps[k].objequ = s.mps[k].objequ /\ t.mps[k].vars = s.mps[k].vars
             /\ t.mps[k].equs \subseteq s.mps[k].equs
             /\ s.mps[k].equs \subseteq t.mps[k].equs \cup {e}
  <2>1. t.mps[k] = s.mps[k] \/ t.mps[k] = [s.mps[k] EXCEPT !.equs = @ \ {e}]
    BY DEF Departs
  <2>2. s.mps[k] \in MpRecs
    BY <1>2
  <2> QED
    BY <2>1, <2>2 DEF MpRecs
<1> QED
  BY <1>4, <1>5 DEF Leaves, Departs

\* rmdl_rm_equ for an equation that is no objective.
LEMMA RmEquLinked ==
  ASSUME NEW s, Sound(s), NEW ed, NEW fd, Linked(s, ed), ed \subseteq fd, NEW e \in Equs,
         s.equs[e].mp = NA \/ s.equs[e].role # "objective",
         NEW r, r = rmdl_rm_equ(s, e), r.ok
  PROVE  Linked(r.mdl, fd)
<1>1. Departs(s, r.mdl, e)
  BY RmEquOk, Owners
<1>2. Leaves(s, r.mdl, e)
  BY <1>1, DepartsLeaves
<1>3. Sound(r.mdl)
  <2>1. e \in {e}
    OBVIOUS
  <2>2. Step(s, r.mdl, s.equs[e].mp, {e}, 0)
    BY <2>1, RmEquStep
  <2> QED
    BY <2>2 DEF Step
<1> QED
  BY <1>2, <1>3, LeavesLinked

\* The copy n of e is made and noted, and e is gone.
Duplicated(s, u, e, n) ==
    /\ Sound(u) /\ u \in Mdls /\ u.vars = s.vars /\ n # e
    /\ s.equs[e].mp # NA => e \in s.mps[s.equs[e].mp].equs
    /\ u.equs[n] = Fresh(s, e)
    /\ u.equs[e] = [s.equs[e] EXCEPT !.active = FALSE, !.res = n]
    /\ \A f \in Equs : f \notin {e, n} => u.equs[f] = s.equs[f]
    /\ \A k \in Mps : u.mps[k] = IF k = s.equs[e].mp THEN [s.mps[k] EXCEPT !.equs = @ \ {e}]
                                 ELSE s.mps[k]

\* So it is in a copying call when rmdl_rm_equ succeeds.
LEMMA DuplicatedOk ==
  ASSUME NEW s, Sound(s), NEW e \in Equs, s.equs[e].active, NEW n \in Spare(s), NEW v0,
         NEW q, q = rmdl_rm_equ(AddCopy(s, e, n, v0), e), q.ok
  PROVE  Duplicated(s, WithRes(q.mdl, e, n), e, n)
<1> DEFINE a == AddCopy(s, e, n, v0)
           u == WithRes(q.mdl, e, n)
           x == [q.mdl.equs[e] EXCEPT !.res = n]
<1>1. e \in {e} /\ n \in Equs
  BY DEF Spare
<1>2. Step(s, a, NA, {e}, 0) /\ Copied(s, a, e, n)
  BY AddCopyStep
<1>3. Copying(s, q, e, n, {e})
  BY <1>1, CopyOut
<1>4. Sound(u) /\ Sound(q.mdl) /\ u \in Mdls /\ q.mdl \in Mdls /\ Noted(s, u, e, n)
  BY <1>3 DEF Copying, Step, Sound
<1>5. q = rmdl_rm_equ(a, e) /\ Sound(a)
  BY <1>2 DEF Step
<1> HIDE DEF a
<1>6. Departs(a, q.mdl, e)
  BY <1>5, RmEquOk, Owners
<1>7. a.vars = s.vars /\ a.mps = s.mps /\ a.equs[e] = s.equs[e] /\ \A f \in Equs : f # n => a.equs[f] = s.equs[f]
  BY <1>2 DEF Copied
<1>8. x \in EquMetas
  <2>1. q.mdl.equs[e] \in EquMetas
    BY <1>4, Records
  <2> QED
    BY <1>1, <2>1 DEF EquMetas
<1>9. u = WithEqu(q.mdl, e, x)
  BY DEF WithRes
<1> HIDE DEF x, u
<1>10. /\ u.vars = q.mdl.vars /\ u.mps = q.mdl.mps
       /\ \A f \in Equs : f # e => u.equs[f] = q.mdl.equs[f]
  BY <1>4, <1>8, <1>9, WithEquFields
<1>11. \A f \in Equs : f \notin {e, n} => u.equs[f] = s.equs[f]
  BY <1>6, <1>7, <1>10 DEF Departs
<1>12. /\ u.vars = s.vars
       /\ s.equs[e].mp # NA => e \in s.mps[s.equs[e].mp].equs
       /\ \A k \in Mps : u.mps[k] = IF k = s.equs[e].mp THEN [s.mps[k] EXCEPT !.equs = @ \ {e}]
                                    ELSE s.mps[k]
  BY <1>6, <1>7, <1>10 DEF Departs
<1>13. Duplicated(s, u, e, n)
  BY <1>4, <1>11, <1>12 DEF Duplicated, Noted
<1> QED
  BY <1>13 DEF u

\* The links of the records then.
Halfway(s, u, e, n) ==
    /\ n \in Equs /\ s.equs[n].object = "none" /\ s.equs[e].object # "none"
    /\ ~ u.equs[e].active /\ u.equs[e].res = n /\ u.equs[e].object # "none"
    /\ u.equs[e].mp = s.equs[e].mp /\ u.equs[e].role = s.equs[e].role
    /\ u.equs[e].dual = s.equs[e].dual
    /\ u.equs[n].res = NA /\ u.equs[n].object # "none" /\ u.equs[n].mp = NA
    /\ u.equs[n].role = "undefined" /\ u.equs[n].active
    /\ \A k \in Mps : /\ u.mps[k].sense = s.mps[k].sense /\ u.mps[k].alive = s.mps[k].alive
                      /\ u.mps[k].vars = s.mps[k].vars /\ u.mps[k].objequ = s.mps[k].objequ
                      /\ u.mps[k].equs = IF k = s.equs[e].mp THEN s.mps[k].equs \ {e}
                                         ELSE s.mps[k].equs

\* They are so.
LEMMA DuplicatedFields ==
  ASSUME NEW s, Sound(s), NEW e \in Equs, s.equs[e].active, NEW n \in Spare(s),
         NEW u, Duplicated(s, u, e, n)
  PROVE  Halfway(s, u, e, n)
<1>1. n \in Equs /\ s.equs[n].object = "none" /\ s.equs[e].object # "none"
  BY Owners DEF Spare
<1>2. s.equs[e] \in EquMetas /\ s \in Mdls
  BY Owners, Records
<1>3. u.equs[e] = [s.equs[e] EXCEPT !.active = FALSE, !.res = n]
  BY DEF Duplicated
<1>4. /\ ~ u.equs[e].active /\ u.equs[e].res = n /\ u.equs[e].object # "none"
      /\ u.equs[e].mp = s.equs[e].mp /\ u.equs[e].role = s.equs[e].role
      /\ u.equs[e].dual = s.equs[e].dual
  BY <1>1, <1>2, <1>3 DEF EquMetas
<1>5. /\ u.equs[n].res = NA /\ u.equs[n].object # "none" /\ u.equs[n].mp = NA
      /\ u.equs[n].role = "undefined" /\ u.equs[n].active
  BY <1>1 DEF Duplicated, Fresh, NoEqu
<1>6. ASSUME NEW k \in Mps
      PROVE  /\ u.mps[k].sense = s.mps[k].sense /\ u.mps[k].alive = s.mps[k].alive
             /\ u.mps[k].vars = s.mps[k].vars /\ u.mps[k].objequ = s.mps[k].objequ
             /\ u.mps[k].equs = IF k = s.equs[e].mp THEN s.mps[k].equs \ {e} ELSE s.mps[k].equs
  <2>1. s.mps[k] \in MpRecs
    BY <1>2, Records
  <2>2. u.mps[k] = IF k = s.equs[e].mp THEN [s.mps[k] EXCEPT !.equs = @ \ {e}] ELSE s.mps[k]
    BY DEF Duplicated
  <2> QED
    BY <2>1, <2>2 DEF MpRecs
<1> QED
  BY <1>1, <1>4, <1>5, <1>6 DEF Halfway

\* When the MP of e then takes the copy, the copy substitutes e.
LEMMA DuplicatedSubstitutes ==
  ASSUME NEW s, Sound(s), NEW e \in Equs, s.equs[e].active, NEW n \in Spare(s),
         NEW u, Duplicated(s, u, e, n), NEW m \in Mps, s.equs[e].mp = m, s.mps[m].alive,
         NEW t, Only(u, t, n, m), t.equs[n].res = NA, t.equs[n].object # "none", t.equs[n].mp = m,
         IsFunction(t, n) => IsFunction(s, e) /\ t.equs[n].dual = s.equs[e].dual,
         t.mps[m].equs \subseteq u.mps[m].equs \cup {n}
  PROVE  Substitutes(s, t, e, n)
<1>1. /\ n \in Equs /\ s.equs[n].object = "none" /\ n # e
      /\ ~ u.equs[e].active /\ u.equs[e].res = n /\ u.equs[e].object # "none"
      /\ u.equs[e].mp = m /\ u.equs[e].role = s.equs[e].role
      /\ \A k \in Mps : /\ u.mps[k].sense = s.mps[k].sense /\ u.mps[k].alive = s.mps[k].alive
                        /\ u.mps[k].vars = s.mps[k].vars /\ u.mps[k].objequ = s.mps[k].objequ
                        /\ u.mps[k].equs \subseteq s.mps[k].equs
                        /\ k # m => u.mps[k].equs = s.mps[k].equs
  <2>1. Halfway(s, u, e, n) /\ n # e
    BY DuplicatedFields, Zenon DEF Duplicated
  <2> QED
    BY <2>1, Zenon DEF Halfway
<1>2. t.equs[e] = u.equs[e]
  BY <1>1 DEF Only
<1>3. \A f \in Equs : f \notin {e, n} => SameLinks(s.equs[f], t.equs[f])
  BY DEF Duplicated, Only, SameLinks
<1>4. Aside(s, t, m)
  <2>1. \A v \in Vars : t.vars[v].dual = s.vars[v].dual
    BY DEF Duplicated, Only
  <2>2. \A k \in Mps : /\ t.mps[k].sense = s.mps[k].sense /\ t.mps[k].alive = s.mps[k].alive
                       /\ s.mps[k].vars \subseteq t.mps[k].vars
                       /\ k # m => t.mps[k].equs = s.mps[k].equs /\ t.mps[k].objequ = s.mps[k].objequ
    BY <1>1 DEF Only
  <2> QED
    BY <2>1, <2>2 DEF Aside
<1>5. \A f \in Equs : f \in t.mps[m].equs => f = n \/ f \in s.mps[m].equs
  BY <1>1
<1>6. e \in s.mps[m].equs
  BY Owners DEF Duplicated
<1> QED
  BY <1>1, <1>2, <1>3, <1>4, <1>5, <1>6 DEF Substitutes

\* When e was nobody's, the copy is nobody's.
LEMMA DuplicatedUnowned ==
  ASSUME NEW s, Sound(s), NEW e \in Equs, s.equs[e].active, NEW n \in Spare(s),
         NEW u, Duplicated(s, u, e, n), s.equs[e].mp = NA,
         NEW t, t.vars = u.vars, t.mps = u.mps, \A f \in Equs : f # n => t.equs[f] = u.equs[f],
         t.equs[n].res = NA, t.equs[n].object # "none", t.equs[n].mp = NA,
         t.equs[n].role # "vifunction"
  PROVE  Substitutes(s, t, e, n)
<1>1. /\ n \in Equs /\ s.equs[n].object = "none" /\ n # e /\ NA \notin Mps
      /\ ~ u.equs[e].active /\ u.equs[e].res = n /\ u.equs[e].object # "none"
      /\ u.equs[e].mp = NA /\ u.equs[e].role = s.equs[e].role
      /\ \A k \in Mps : u.mps[k] = s.mps[k]
  <2>1. Halfway(s, u, e, n) /\ n # e /\ NA \notin Mps
    BY DuplicatedFields, Owners, Zenon DEF Duplicated
  <2>2. \A k \in Mps : u.mps[k] = s.mps[k]
    <3> SUFFICES ASSUME NEW k \in Mps PROVE u.mps[k] = s.mps[k]
      OBVIOUS
    <3>1. u.mps[k] = IF k = s.equs[e].mp THEN [s.mps[k] EXCEPT !.equs = @ \ {e}] ELSE s.mps[k]
      BY DEF Duplicated
    <3>2. k # NA
      BY <2>1
    <3> QED
      BY <3>1, <3>2
  <2> QED
    BY <2>1, <2>2 DEF Halfway
<1>2. t.equs[e] = u.equs[e]
  BY <1>1
<1>3. \A f \in Equs : f \notin {e, n} => SameLinks(s.equs[f], t.equs[f])
  BY DEF Duplicated, SameLinks
<1>4. Aside(s, t, NA)
  BY <1>1 DEF Aside, Duplicated
<1> QED
  BY <1>1, <1>2, <1>3, <1>4 DEF Substitutes, IsFunction

\* The objective of the MP stays in its place beside the copy, when it was not copied itself.
LEMMA BesidePlaced ==
  ASSUME NEW s, Sound(s), NEW ed, NEW fd, Linked(s, ed), ed \subseteq fd,
         NEW e \in Equs, NEW n \in Equs, NEW m \in Mps, s.equs[e].mp = m,
         NEW t, Substitutes(s, t, e, n), t.mps[m].objequ = s.mps[m].objequ,
         t.mps[m].equs = (s.mps[m].equs \ {e}) \cup {n},
         s.mps[m].objequ = e => <<m, "obj">> \in fd
  PROVE  PlacedAt(t, fd, m)
<1>1. s \in Mdls /\ NA \notin Mps /\ NA \notin Equs /\ m # NA
  BY Owners
<1>2. s.mps[m].alive /\ PlacedAt(s, ed, m)
  BY <1>1 DEF Substitutes, Linked
<1>3. s.mps[m].objequ \in Equs \cup {NA}
  BY <1>1, Records
<1>4. s.mps[m].objequ # NA => s.mps[m].objequ # n
  <2>1. s.mps[m].objequ # NA => s.equs[s.mps[m].objequ].object # "none"
    BY DEF Sound, ObjequsMarked
  <2>2. s.equs[n].object = "none"
    BY DEF Substitutes
  <2> QED
    BY <2>1, <2>2
<1>5. ASSUME s.mps[m].objequ = NA, NEW f \in Equs, t.equs[f].mp = m, t.equs[f].active
      PROVE  f \in t.mps[m].equs
  <2>1. CASE f = n
    BY <2>1
  <2>2. CASE f # n
    <3>1. f # e
      BY <1>5 DEF Substitutes
    <3>2. SameLinks(s.equs[f], t.equs[f])
      BY <2>2, <3>1 DEF Substitutes
    <3>3. f \in s.mps[m].equs
      BY <1>2, <1>5, <3>2 DEF PlacedAt, SameLinks
    <3> QED
      BY <3>1, <3>3
  <2> QED
    BY <2>1, <2>2
<1>6. ASSUME s.mps[m].objequ # NA, t.equs[s.mps[m].objequ].mp = m, <<m, "obj">> \notin fd
      PROVE  s.mps[m].objequ \in t.mps[m].equs
  <2> DEFINE oe == s.mps[m].objequ
  <2>1. oe \in Equs /\ oe # e /\ oe # n /\ <<m, "obj">> \notin ed
    BY <1>3, <1>4, <1>6
  <2>2. SameLinks(s.equs[oe], t.equs[oe])
    BY <2>1 DEF Substitutes
  <2>3. oe \in s.mps[m].equs
    BY <1>2, <1>6, <2>1, <2>2, Zenon DEF PlacedAt, SameLinks
  <2> QED
    BY <2>1, <2>3
<1> QED
  BY <1>5, <1>6 DEF PlacedAt

\* rmdl_dup_equ.
LEMMA DupLinked ==
  ASSUME NEW s, Sound(s), NEW ed, NEW fd, Linked(s, ed), ed \subseteq fd,
         NEW e \in Equs, s.equs[e].active, s.equs[e].mp # NA => s.mps[s.equs[e].mp].alive,
         NEW n \in Spare(s), NEW r, r = rmdl_dup_equ(s, e, n), r.ok
  PROVE  Linked(r.mdl, fd)
<1> DEFINE m == s.equs[e].mp
           q == rmdl_rm_equ(AddCopy(s, e, n, NA), e)
           u == WithRes(q.mdl, e, n)
<1>1. q.mdl.equs[e].mp = m /\ u = [q.mdl EXCEPT !.equs[e].res = n]
  <2>1. e \in {e} /\ q = rmdl_rm_equ(AddCopy(s, e, n, NA), e)
    OBVIOUS
  <2> HIDE DEF q
  <2>2. Copying(s, q, e, n, {e})
    BY <2>1, CopyOut
  <2> QED
    BY <2>2 DEF Copying
<1>2. r = IF ~ q.ok THEN q ELSE IF m = NA THEN OK(u)
          ELSE IF u.mps[m].objequ = e THEN mp_setobjequ(u, m, n) ELSE mp_addconstraint(u, m, n)
  BY <1>1 DEF rmdl_dup_equ, Then
<1>3. q.ok
  BY <1>2
<1>4. Duplicated(s, u, e, n)
  <2>1. q = rmdl_rm_equ(AddCopy(s, e, n, NA), e)
    OBVIOUS
  <2> HIDE DEF q
  <2> QED
    BY <1>3, <2>1, DuplicatedOk
<1>5. Halfway(s, u, e, n)
  BY <1>4, DuplicatedFields
<1> HIDE DEF q, u
<1>6. Sound(r.mdl)
  <2>1. Step(s, r.mdl, s.equs[e].mp, {e}, 1)
    BY DupStep
  <2> QED
    BY <2>1 DEF Step
<1>7. u \in Mdls /\ n \in Equs /\ n # e
  BY <1>4, <1>5 DEF Duplicated, Halfway
<1>8. CASE m = NA
  <2>1. r.mdl = u
    BY <1>2, <1>3, <1>8 DEF OK
  <2>2. u.equs[n].res = NA /\ u.equs[n].object # "none" /\ u.equs[n].mp = NA /\ u.equs[n].role # "vifunction"
    BY <1>5 DEF Halfway
  <2>3. Substitutes(s, u, e, n)
    BY <1>4, <1>8, <2>2, DuplicatedUnowned
  <2> QED
    BY <1>6, <1>7, <1>8, <2>1, <2>3, SubstituteLinked
<1>9. CASE m # NA
  <2>1. m \in Mps /\ s.mps[m].alive
    BY <1>9, MpOfEqu
  <2>2. u.mps[m].objequ = s.mps[m].objequ /\ u.mps[m].equs = s.mps[m].equs \ {e}
    BY <1>5, <2>1, Zenon DEF Halfway
  <2>3. CASE u.mps[m].objequ = e
    <3>1. r = mp_setobjequ(u, m, n)
      BY <1>2, <1>3, <1>9, <2>3
    <3> HIDE DEF m
    <3>2. /\ Comes(u, r.mdl, n, m) /\ r.mdl.equs[n].role = "objective"
          /\ r.mdl.mps[m].equs = (u.mps[m].equs \ {u.mps[m].objequ}) \cup {n}
          /\ r.mdl.mps[m].objequ = n
      BY <1>7, <2>1, <3>1, SetObjEquOk
    <3>3. /\ Only(u, r.mdl, n, m) /\ r.mdl.equs[n].res = NA /\ r.mdl.equs[n].object # "none"
          /\ r.mdl.equs[n].mp = m
      BY <1>5, <3>2 DEF Comes, SameState, Halfway
    <3>4. ~ IsFunction(r.mdl, n) /\ r.mdl.mps[m].equs \subseteq u.mps[m].equs \cup {n}
      BY <3>2 DEF IsFunction
    <3>5. Substitutes(s, r.mdl, e, n)
      BY <1>4, <2>1, <3>3, <3>4, DuplicatedSubstitutes DEF m
    <3>6. PlacedAt(r.mdl, fd, m)
      BY <1>7, <3>2, MathPrgmAssumption DEF PlacedAt
    <3> QED
      BY <1>6, <1>7, <3>5, <3>6, SubstituteLinked DEF m
  <2>4. CASE u.mps[m].objequ # e
    <3>1. r = mp_addconstraint(u, m, n)
      BY <1>2, <1>3, <1>9, <2>4
    <3> HIDE DEF m
    <3>2. /\ Comes(u, r.mdl, n, m)
          /\ r.mdl.equs[n].role = IF u.equs[n].role = "undefined" THEN "constraint" ELSE u.equs[n].role
          /\ r.mdl.mps[m].equs = u.mps[m].equs \cup {n}
          /\ r.mdl.mps[m].objequ = u.mps[m].objequ
      BY <1>7, <2>1, <3>1, AddConstraintOk
    <3>3. /\ Only(u, r.mdl, n, m) /\ r.mdl.equs[n].res = NA /\ r.mdl.equs[n].object # "none"
          /\ r.mdl.equs[n].mp = m
      BY <1>5, <3>2 DEF Comes, SameState, Halfway
    <3>4. ~ IsFunction(r.mdl, n) /\ r.mdl.mps[m].equs \subseteq u.mps[m].equs \cup {n}
      BY <1>5, <3>2 DEF IsFunction, Halfway
    <3>5. Substitutes(s, r.mdl, e, n)
      BY <1>4, <2>1, <3>3, <3>4, DuplicatedSubstitutes DEF m
    <3>6. /\ r.mdl.mps[m].objequ = s.mps[m].objequ /\ s.mps[m].objequ # e
          /\ r.mdl.mps[m].equs = (s.mps[m].equs \ {e}) \cup {n}
      BY <2>2, <2>4, <3>2
    <3>7. PlacedAt(r.mdl, fd, m)
      BY <1>7, <2>1, <3>5, <3>6, BesidePlaced, Zenon DEF m
    <3> QED
      BY <1>6, <1>7, <3>5, <3>7, SubstituteLinked DEF m
  <2> QED
    BY <2>3, <2>4
<1> QED
  BY <1>8, <1>9

\* The metadata x of the copy n are those of its source, and the rest is its own.
MetaKept(u, e, n, x) ==
    /\ x \in EquMetas /\ x.role = u.equs[e].role /\ x.dual = u.equs[e].dual
    /\ x.res = u.equs[n].res /\ x.object = u.equs[n].object /\ x.active = u.equs[n].active
    /\ WithEqu(u, n, x) \in Mdls /\ WithEqu(u, n, x).equs[n] = x
    /\ \A m : Only(u, WithEqu(u, n, x), n, m)

\* CopyMeta does so, with the owner and without.
LEMMA MetaFields ==
  ASSUME NEW u \in Mdls, NEW e \in Equs, NEW n \in Equs, NEW x \in {Taken(u, e, n), NotYet(u, e, n)}
  PROVE  MetaKept(u, e, n, x)
<1> DEFINE y == Taken(u, e, n)
           z == NotYet(u, e, n)
<1>1. u.equs[e] \in EquMetas /\ u.equs[n] \in EquMetas
  BY Records
<1>2. /\ y \in EquMetas /\ y.role = u.equs[e].role /\ y.dual = u.equs[e].dual
      /\ y.res = u.equs[n].res /\ y.object = u.equs[n].object /\ y.active = u.equs[n].active
  BY <1>1, Zenon DEF Taken, EquMetas
<1>3. /\ z \in EquMetas /\ z.role = u.equs[e].role /\ z.dual = u.equs[e].dual
      /\ z.res = u.equs[n].res /\ z.object = u.equs[n].object /\ z.active = u.equs[n].active
  <2>1. z = [y EXCEPT !.mp = NA]
    BY DEF NotYet
  <2> HIDE DEF y, z
  <2> QED
    BY <1>2, <2>1 DEF EquMetas
<1>4. /\ x \in EquMetas /\ x.role = u.equs[e].role /\ x.dual = u.equs[e].dual
      /\ x.res = u.equs[n].res /\ x.object = u.equs[n].object /\ x.active = u.equs[n].active
  BY <1>2, <1>3
<1>5. /\ WithEqu(u, n, x) \in Mdls
      /\ WithEqu(u, n, x).vars = u.vars /\ WithEqu(u, n, x).mps = u.mps
      /\ \A f \in Equs : WithEqu(u, n, x).equs[f] = IF f = n THEN x ELSE u.equs[f]
  BY <1>4, WithEquFields, WithTypes
<1>6. \A m : Only(u, WithEqu(u, n, x), n, m)
  BY <1>5 DEF Only
<1> QED
  BY <1>4, <1>5, <1>6 DEF MetaKept

\* rmdl_equ_dup_except.
LEMMA DupExceptLinked ==
  ASSUME NEW s, Sound(s), NEW ed, NEW fd, Linked(s, ed), ed \subseteq fd,
         NEW e \in Equs, s.equs[e].active, s.equs[e].mp # NA => s.mps[s.equs[e].mp].alive,
         NEW n \in Spare(s), NEW v0, NEW r, r = rmdl_equ_dup_except(s, e, n, v0), r.ok
  PROVE  Linked(r.mdl, fd)
<1> DEFINE m == s.equs[e].mp
           q == rmdl_rm_equ(AddCopy(s, e, n, v0), e)
           u == WithRes(q.mdl, e, n)
           c == WithEqu(u, n, Taken(u, e, n))
           w == WithEqu(u, n, NotYet(u, e, n))
<1>1. q.mdl.equs[e].mp = m /\ u = [q.mdl EXCEPT !.equs[e].res = n]
  <2>1. e \in {e} /\ q = rmdl_rm_equ(AddCopy(s, e, n, v0), e)
    OBVIOUS
  <2> HIDE DEF q
  <2>2. Copying(s, q, e, n, {e})
    BY <2>1, CopyOut
  <2> QED
    BY <2>2 DEF Copying
<1>2. q.ok
  BY Zenon DEF rmdl_equ_dup_except, Then
<1>3. Duplicated(s, u, e, n)
  <2>1. q = rmdl_rm_equ(AddCopy(s, e, n, v0), e)
    OBVIOUS
  <2> HIDE DEF q
  <2> QED
    BY <1>2, <2>1, DuplicatedOk
<1>4. Halfway(s, u, e, n)
  BY <1>3, DuplicatedFields
<1> HIDE DEF u
<1>5. u \in Mdls /\ Sound(u) /\ n \in Equs /\ n # e
  BY <1>3, <1>4 DEF Duplicated, Halfway
<1>6. /\ u.equs[e].mp = m /\ u.equs[e].role = s.equs[e].role /\ u.equs[e].dual = s.equs[e].dual
      /\ u.equs[n].mp = NA /\ u.equs[n].active /\ u.equs[n].role = "undefined"
      /\ u.equs[n].res = NA /\ u.equs[n].object # "none"
  BY <1>4 DEF Halfway
<1>7. /\ CopyMeta(u, e, n) = c /\ [CopyMeta(u, e, n) EXCEPT !.equs[n].mp = NA] = w
      /\ Taken(u, e, n).mp = m /\ NotYet(u, e, n).mp = NA
  BY <1>5, <1>6, CopyMetaStep
<1>8. /\ c.equs[n].role = s.equs[e].role /\ c.equs[n].dual = s.equs[e].dual /\ c.equs[n].mp = m
      /\ c.equs[n].res = NA /\ c.equs[n].object # "none" /\ c \in Mdls
      /\ \A k : Only(u, c, n, k)
  <2>1. Taken(u, e, n) \in {Taken(u, e, n), NotYet(u, e, n)}
    OBVIOUS
  <2>2. MetaKept(u, e, n, Taken(u, e, n))
    BY <1>5, <2>1, MetaFields
  <2> HIDE DEF m
  <2> QED
    BY <1>6, <1>7, <2>2 DEF MetaKept
<1>9. /\ w.equs[n].role = s.equs[e].role /\ w.equs[n].dual = s.equs[e].dual /\ w.equs[n].mp = NA
      /\ w.equs[n].res = NA /\ w.equs[n].object # "none" /\ w \in Mdls
      /\ \A k : Only(u, w, n, k)
  <2>1. NotYet(u, e, n) \in {Taken(u, e, n), NotYet(u, e, n)}
    OBVIOUS
  <2>2. MetaKept(u, e, n, NotYet(u, e, n))
    BY <1>5, <2>1, MetaFields
  <2> HIDE DEF m
  <2> QED
    BY <1>6, <1>7, <2>2 DEF MetaKept
<1>10. c.mps = u.mps /\ w.mps = u.mps /\ c.vars = u.vars /\ \A f \in Equs : f # n => c.equs[f] = u.equs[f]
  <2>1. Taken(u, e, n) \in EquMetas /\ NotYet(u, e, n) \in EquMetas
    BY <1>5, <1>6, CopyMetaStep
  <2> QED
    BY <1>5, <2>1, WithEquFields
<1> HIDE DEF c, w
<1>11. /\ m = NA => r = OK(c)
       /\ m # NA /\ s.equs[e].role = "objective" => r = mp_setobjequ(w, m, n)
       /\ m # NA /\ s.equs[e].role = "vifunction" => r = OK([c EXCEPT !.mps[m].equs = @ \cup {n}])
       /\ m # NA /\ s.equs[e].role = "constraint" => r = mp_addconstraint(w, m, n)
       /\ m # NA => s.equs[e].role \in {"objective", "vifunction", "constraint"}
  <2>1. r = CASE m = NA -> OK(c)
              [] m # NA /\ c.equs[n].role = "objective" -> mp_setobjequ(w, m, n)
              [] m # NA /\ c.equs[n].role = "vifunction" -> OK([c EXCEPT !.mps[m].equs = @ \cup {n}])
              [] m # NA /\ c.equs[n].role = "constraint" -> mp_addconstraint(w, m, n)
              [] OTHER -> Error(w)
    BY <1>1, <1>2, <1>7, Zenon DEF rmdl_equ_dup_except, Then
  <2>2. ~ Error(w).ok
    BY DEF Error
  <2> HIDE DEF m
  <2> QED
    BY <1>8, <2>1, <2>2
<1> HIDE DEF q
<1>12. Sound(r.mdl)
  <2> DEFINE X == {e} \cup {s.mps[k].objequ : k \in Mps}
  <2>1. e \in X /\ \A k \in Mps : s.equs[e].mp = k => s.mps[k].objequ \in X
    OBVIOUS
  <2> HIDE DEF X
  <2>2. Step(s, r.mdl, s.equs[e].mp, X, 1)
    BY <2>1, DupExceptStep
  <2> QED
    BY <2>2 DEF Step
<1>13. CASE m = NA
  <2>1. r.mdl = c
    BY <1>11, <1>13 DEF OK
  <2>2. c.equs[n].role # "vifunction"
    BY <1>8, <1>13, Owners
  <2>3. Substitutes(s, c, e, n)
    BY <1>3, <1>8, <1>10, <1>13, <2>2, DuplicatedUnowned
  <2> QED
    BY <1>5, <1>12, <1>13, <2>1, <2>3, SubstituteLinked
<1>14. CASE m # NA
  <2>1. m \in Mps /\ s.mps[m].alive
    BY <1>14, MpOfEqu
  <2>2. u.mps[m].objequ = s.mps[m].objequ /\ u.mps[m].equs = s.mps[m].equs \ {e}
    BY <1>4, <2>1, Zenon DEF Halfway
  <2>3. s.mps[m].objequ = e => s.equs[e].role = "objective"
    BY <2>1, Owners DEF Sound, ObjequsMarked
  <2>4. ASSUME NEW t, t = r.mdl, Only(u, t, n, m), t.equs[n].res = NA, t.equs[n].object # "none",
               t.equs[n].mp = m,
               t.equs[n].role = s.equs[e].role, t.equs[n].dual = s.equs[e].dual,
               s.equs[e].role # "objective",
               t.mps[m].equs = u.mps[m].equs \cup {n}, t.mps[m].objequ = u.mps[m].objequ
        PROVE  Linked(t, fd)
    <3> HIDE DEF m
    <3>1. IsFunction(t, n) => IsFunction(s, e) /\ t.equs[n].dual = s.equs[e].dual
      BY <2>4 DEF IsFunction
    <3>2. s.equs[e].mp = m /\ t.mps[m].equs \subseteq u.mps[m].equs \cup {n}
      BY <2>4 DEF m
    <3>3. Substitutes(s, t, e, n)
      BY <1>3, <2>1, <2>4, <3>1, <3>2, DuplicatedSubstitutes, Zenon
    <3>4. PlacedAt(t, fd, m)
      <4>1. /\ t.mps[m].objequ = s.mps[m].objequ /\ s.mps[m].objequ # e
            /\ t.mps[m].equs = (s.mps[m].equs \ {e}) \cup {n}
        BY <2>2, <2>3, <2>4
      <4> QED
        BY <1>5, <2>1, <3>2, <3>3, <4>1, BesidePlaced, Zenon
    <3> QED
      BY <1>5, <1>12, <2>4, <3>2, <3>3, <3>4, SubstituteLinked
  <2>5. CASE s.equs[e].role = "objective"
    <3>1. r = mp_setobjequ(w, m, n)
      BY <1>11, <1>14, <2>5
    <3> HIDE DEF m
    <3>2. /\ Comes(w, r.mdl, n, m) /\ r.mdl.equs[n].role = "objective"
          /\ r.mdl.mps[m].equs = (w.mps[m].equs \ {w.mps[m].objequ}) \cup {n}
          /\ r.mdl.mps[m].objequ = n
      BY <1>5, <1>9, <2>1, <3>1, SetObjEquOk
    <3>3. /\ Only(w, r.mdl, n, m) /\ r.mdl.equs[n].res = NA /\ r.mdl.equs[n].object # "none"
          /\ r.mdl.equs[n].mp = m
      BY <1>9, <3>2 DEF Comes, SameState
    <3>4. Only(u, r.mdl, n, m)
      BY <1>9, <3>3, OnlyOnly
    <3>5. ~ IsFunction(r.mdl, n) /\ r.mdl.mps[m].equs \subseteq u.mps[m].equs \cup {n}
      BY <1>10, <3>2 DEF IsFunction
    <3>6. Substitutes(s, r.mdl, e, n)
      BY <1>3, <2>1, <3>3, <3>4, <3>5, DuplicatedSubstitutes DEF m
    <3>7. PlacedAt(r.mdl, fd, m)
      BY <1>5, <3>2, MathPrgmAssumption DEF PlacedAt
    <3> QED
      BY <1>5, <1>12, <3>6, <3>7, SubstituteLinked DEF m
  <2>6. CASE s.equs[e].role = "constraint"
    <3>1. r = mp_addconstraint(w, m, n)
      BY <1>11, <1>14, <2>6
    <3> HIDE DEF m
    <3>2. /\ Comes(w, r.mdl, n, m)
          /\ r.mdl.equs[n].role = IF w.equs[n].role = "undefined" THEN "constraint" ELSE w.equs[n].role
          /\ r.mdl.mps[m].equs = w.mps[m].equs \cup {n}
          /\ r.mdl.mps[m].objequ = w.mps[m].objequ
      BY <1>5, <1>9, <2>1, <3>1, AddConstraintOk
    <3>3. /\ Only(w, r.mdl, n, m) /\ r.mdl.equs[n].res = NA /\ r.mdl.equs[n].object # "none"
          /\ r.mdl.equs[n].mp = m /\ r.mdl.equs[n].dual = s.equs[e].dual
          /\ r.mdl.equs[n].role = s.equs[e].role
      BY <1>9, <2>6, <3>2 DEF Comes, SameState
    <3>4. Only(u, r.mdl, n, m)
      BY <1>9, <3>3, OnlyOnly
    <3> QED
      BY <1>10, <2>4, <2>6, <3>2, <3>3, <3>4
  <2>7. CASE s.equs[e].role = "vifunction"
    <3> DEFINE y == [c.mps[m] EXCEPT !.equs = @ \cup {n}]
               t == WithMp(c, m, y)
    <3>1. r = OK([c EXCEPT !.mps[m].equs = @ \cup {n}])
      BY <1>11, <1>14, <2>7
    <3>2. r.mdl = t
      BY <1>8, <3>1 DEF OK, WithMp, Mdls
    <3> HIDE DEF m
    <3>3. c.mps[m] \in MpRecs
      BY <1>8, <2>1, Records
    <3>4. /\ y \in MpRecs /\ y.equs = u.mps[m].equs \cup {n} /\ y.objequ = u.mps[m].objequ
          /\ y.sense = u.mps[m].sense /\ y.alive = u.mps[m].alive /\ y.vars = u.mps[m].vars
      BY <1>5, <1>10, <3>3 DEF MpRecs
    <3> HIDE DEF y
    <3>5. /\ t.vars = c.vars /\ t.equs = c.equs
          /\ \A k \in Mps : t.mps[k] = IF k = m THEN y ELSE c.mps[k]
      BY <1>8, <2>1, <3>4, WithMpFields
    <3> HIDE DEF t
    <3>6. Only(u, t, n, m)
      <4>1. \A f \in Equs : f # n => t.equs[f] = u.equs[f]
        BY <1>10, <3>5
      <4>2. \A k \in Mps : k # m => t.mps[k] = u.mps[k]
        BY <1>10, <3>5
      <4>3. /\ t.mps[m].sense = u.mps[m].sense /\ t.mps[m].alive = u.mps[m].alive
            /\ t.mps[m].vars = u.mps[m].vars
        BY <2>1, <3>4, <3>5
      <4>4. t.vars = u.vars
        BY <1>10, <3>5
      <4> QED
        BY <4>1, <4>2, <4>3, <4>4 DEF Only
    <3>7. t.equs[n] = c.equs[n] /\ t.mps[m] = y
      BY <2>1, <3>5
    <3> QED
      BY <1>8, <2>4, <2>7, <3>2, <3>4, <3>6, <3>7
  <2> QED
    BY <1>11, <1>14, <2>5, <2>6, <2>7
<1> QED
  BY <1>13, <1>14

\* rmdl_equ_flip: a flipped objective is noted.
LEMMA FlipLinked ==
  ASSUME NEW s, Sound(s), NEW ed, NEW fd, Linked(s, ed), ed \subseteq fd,
         NEW e \in Equs, s.equs[e].active, s.equs[e].mp # NA => s.mps[s.equs[e].mp].alive,
         s.equs[e].mp # NA /\ s.equs[e].role = "objective" => <<s.equs[e].mp, "obj">> \in fd,
         NEW n \in Spare(s), NEW r, r = rmdl_equ_flip(s, e, n), r.ok
  PROVE  Linked(r.mdl, fd)
<1> DEFINE m == s.equs[e].mp
           t == AddCopy(s, e, n, NA)
           z == [t.equs[e] EXCEPT !.res = n]
           u == WithRes(t, e, n)
           c == WithEqu(u, n, Taken(u, e, n))
           w == WithEqu(u, n, NotYet(u, e, n))
           q == mp_addequ(w, m, n)
           a == IF m = NA THEN c ELSE q.mdl
<1>1. /\ s \in Mdls /\ s.equs[e] \in EquMetas /\ m \in Mps \cup {NA} /\ n \in Equs
      /\ s.equs[e].object # "none" /\ s.equs[n].object = "none" /\ NA \notin Mps /\ NA \notin Equs
  <2>1. s \in Mdls /\ n \in Equs /\ s.equs[n].object = "none"
    BY Owners DEF Spare
  <2> QED
    BY <2>1, MpOfEqu, Records, Owners
<1>2. Step(s, t, m, {e}, 0) /\ Copied(s, t, e, n)
  BY AddCopyStep
<1>3. /\ t \in Mdls /\ t.equs[e] = s.equs[e] /\ t.equs[n] = Fresh(s, e) /\ n # e
      /\ t.mps = s.mps /\ t.vars = s.vars /\ \A f \in Equs : f # n => t.equs[f] = s.equs[f]
  BY <1>2 DEF Step, Sound, Copied
<1>4. r = IF s.equs[e].cone = "none" THEN Error(t)
          ELSE Then(IF m = NA THEN OK(CopyMeta([t EXCEPT !.equs[e].res = n], e, n))
                    ELSE mp_addequ([CopyMeta([t EXCEPT !.equs[e].res = n], e, n)
                                      EXCEPT !.equs[n].mp = NA], m, n),
                    LAMBDA b : rmdl_rm_equ(b, e))
  BY DEF rmdl_equ_flip
<1> HIDE DEF t, m
<1>5. u = [t EXCEPT !.equs[e].res = n]
  BY <1>3 DEF WithRes, WithEqu, Mdls
<1>6. /\ z \in EquMetas /\ z.mp = m /\ z.active = s.equs[e].active /\ z.role = s.equs[e].role
      /\ z.object = s.equs[e].object /\ z.res = n /\ z.dual = s.equs[e].dual
  BY <1>1, <1>3, Zenon DEF EquMetas, m
<1>7. u = WithEqu(t, e, z)
  BY DEF WithRes
<1> HIDE DEF z, u
<1>8. /\ u \in Mdls /\ u.mps = s.mps /\ u.vars = s.vars /\ u.equs[e] = z /\ u.equs[n] = Fresh(s, e)
      /\ \A f \in Equs : f \notin {e, n} => u.equs[f] = s.equs[f]
  BY <1>1, <1>3, <1>6, <1>7, WithEquFields, WithTypes, SMTT(40)
<1>9. /\ u.equs[n].mp = NA /\ u.equs[n].active /\ u.equs[n].role = "undefined"
      /\ u.equs[n].res = NA /\ u.equs[n].object # "none"
  BY <1>1, <1>8 DEF Fresh, NoEqu
<1>10. /\ MetaKept(u, e, n, Taken(u, e, n)) /\ MetaKept(u, e, n, NotYet(u, e, n))
  BY <1>1, <1>8, MetaFields
<1>11. /\ CopyMeta(u, e, n) = c /\ [CopyMeta(u, e, n) EXCEPT !.equs[n].mp = NA] = w
       /\ Taken(u, e, n).mp = m /\ NotYet(u, e, n).mp = NA
  <2>1. u.equs[e] \in EquMetas /\ u.equs[n] \in EquMetas /\ DOMAIN u.equs = Equs
    BY <1>1, <1>8, Records DEF Mdls
  <2>2. CopyMeta(u, e, n) = c
    BY <1>1, <1>8, <2>1, Zenon DEF CopyMeta, WithEqu, Mdls, Taken
  <2>3. Taken(u, e, n).mp = m /\ NotYet(u, e, n).mp = NA
    BY <1>6, <1>8, <2>1 DEF Taken, NotYet, EquMetas
  <2>4. [c EXCEPT !.equs[n].mp = NA] = w
    <3> DEFINE x == Taken(u, e, n)
               y == NotYet(u, e, n)
    <3>1. x \in EquMetas /\ y = [x EXCEPT !.mp = NA] /\ c = WithEqu(u, n, x) /\ w = WithEqu(u, n, y)
      BY <1>10 DEF MetaKept, NotYet
    <3> HIDE DEF x, y, c, w
    <3>2. c \in Mdls /\ c.equs[n] = x
      BY <1>1, <1>8, <3>1, WithEquFields, WithTypes
    <3>3. [c EXCEPT !.equs[n].mp = NA] = WithEqu(c, n, y)
      BY <3>1, <3>2, Zenon DEF WithEqu, Mdls
    <3>4. WithEqu(c, n, y) = WithEqu(u, n, y)
      BY <1>8, <3>1, Zenon DEF WithEqu, Mdls
    <3> QED
      BY <3>1, <3>3, <3>4
  <2> QED
    BY <2>2, <2>3, <2>4
<1>12. /\ c \in Mdls /\ \A k : Only(u, c, n, k)
       /\ c.equs[n].role = s.equs[e].role /\ c.equs[n].mp = m /\ c.equs[n].dual = s.equs[e].dual
       /\ c.equs[n].res = NA /\ c.equs[n].object # "none"
  BY <1>6, <1>8, <1>9, <1>10, <1>11 DEF MetaKept
<1>13. /\ w \in Mdls /\ \A k : Only(u, w, n, k)
       /\ w.equs[n].role = s.equs[e].role /\ w.equs[n].mp = NA /\ w.equs[n].dual = s.equs[e].dual
       /\ w.equs[n].res = NA /\ w.equs[n].object # "none"
  BY <1>6, <1>8, <1>9, <1>10, <1>11 DEF MetaKept
<1>14. c.mps = u.mps /\ c.vars = u.vars /\ w.mps = u.mps
  BY <1>1, <1>8, <1>10, WithEquFields DEF MetaKept
<1> HIDE DEF c, w
<1>15. /\ r = rmdl_rm_equ(a, e) /\ (m # NA => q.ok)
  <2>1. s.equs[e].cone # "none"
    BY <1>4 DEF Error
  <2>2. CASE m = NA
    <3>1. r = rmdl_rm_equ(c, e)
      BY <1>4, <1>5, <1>11, <2>1, <2>2 DEF Then, OK
    <3> QED
      BY <2>2, <3>1
  <2>3. CASE m # NA
    <3>1. r = IF q.ok THEN rmdl_rm_equ(q.mdl, e) ELSE q
      BY <1>4, <1>5, <1>11, <2>1, <2>3, Zenon DEF Then
    <3> QED
      BY <2>3, <3>1
  <2> QED
    BY <2>2, <2>3
<1>16. /\ a \in Mdls /\ Only(u, a, n, m)
       /\ a.equs[n].role = s.equs[e].role /\ a.equs[n].mp = m /\ a.equs[n].dual = s.equs[e].dual
       /\ a.equs[n].res = NA /\ a.equs[n].object # "none"
       /\ m # NA => a.mps[m].equs = s.mps[m].equs \cup {n} /\ a.mps[m].objequ = s.mps[m].objequ
  <2>1. CASE m = NA
    BY <1>12, <2>1
  <2>2. CASE m # NA
    <3>1. m \in Mps /\ q.ok /\ a = q.mdl
      BY <1>1, <1>15, <2>2
    <3>2. mp_addequchk(w, m, n).ok /\ q.mdl = mp_addequchk(w, m, n).mdl
      BY <3>1 DEF mp_addequ, Then, OK, Error
    <3> HIDE DEF q, a
    <3>3. EquTaken(w, a, m, n)
      BY <1>1, <1>13, <3>1, <3>2, AddEquChkOk
    <3>4. /\ Comes(w, a, n, m) /\ a.equs[n].role = w.equs[n].role
          /\ a.mps[m].equs = w.mps[m].equs \cup {n} /\ a.mps[m].objequ = w.mps[m].objequ
      <4>1. w \in Mdls /\ n \in Equs /\ m \in Mps
        BY <1>1, <1>13, <3>1
      <4> QED
        BY <3>3, <4>1, TakenComes
    <3>5. Only(w, a, n, m)
      BY <3>4 DEF Comes
    <3>6. Only(u, a, n, m)
      BY <1>13, <3>5, OnlyOnly
    <3>7. /\ a.equs[n].role = s.equs[e].role /\ a.equs[n].mp = m /\ a.equs[n].dual = s.equs[e].dual
          /\ a.equs[n].res = NA /\ a.equs[n].object # "none"
      BY <1>13, <3>4 DEF Comes, SameState
    <3>8. a.mps[m].equs = s.mps[m].equs \cup {n} /\ a.mps[m].objequ = s.mps[m].objequ
      BY <1>8, <1>14, <3>4
    <3>9. a \in Mdls
      BY <3>3 DEF EquTaken
    <3> QED
      BY <3>6, <3>7, <3>8, <3>9
  <2> QED
    BY <2>1, <2>2
<1>17. m = NA => a.mps = s.mps /\ a.vars = s.vars
  BY <1>8, <1>14
<1> HIDE DEF a, q
<1>18. Departs(a, r.mdl, e)
  BY <1>15, <1>16, RmEquOk
<1>19. Sound(r.mdl)
  <2>1. Step(s, r.mdl, s.equs[e].mp, {e}, 0)
    BY FlipStep, Zenon
  <2> QED
    BY <2>1 DEF Step
<1>20. a.equs[e] = z /\ \A f \in Equs : f \notin {e, n} => a.equs[f] = s.equs[f]
  BY <1>3, <1>8, <1>16 DEF Only
<1>21. /\ r.mdl.equs[e] = [z EXCEPT !.active = FALSE] /\ r.mdl.equs[n] = a.equs[n]
       /\ \A f \in Equs : f \notin {e, n} => r.mdl.equs[f] = s.equs[f]
       /\ m # NA => e \in a.mps[m].equs
       /\ r.mdl.vars = a.vars
       /\ \A k \in Mps : r.mdl.mps[k] = IF k = m THEN [a.mps[k] EXCEPT !.equs = @ \ {e}] ELSE a.mps[k]
  <2>1. \A f \in Equs : r.mdl.equs[f] = IF f = e THEN [z EXCEPT !.active = FALSE] ELSE a.equs[f]
    BY <1>18, <1>20, Zenon DEF Departs
  <2>2. \A k \in Mps : r.mdl.mps[k] = IF k = m THEN [a.mps[k] EXCEPT !.equs = @ \ {e}] ELSE a.mps[k]
    BY <1>6, <1>18, <1>20 DEF Departs
  <2>3. m # NA => e \in a.mps[m].equs
    BY <1>6, <1>18, <1>20 DEF Departs
  <2>4. r.mdl.vars = a.vars
    BY <1>18 DEF Departs
  <2> QED
    BY <1>1, <1>3, <1>20, <2>1, <2>2, <2>3, <2>4, Zenon
<1>22. /\ ~ r.mdl.equs[e].active /\ r.mdl.equs[e].res = n /\ r.mdl.equs[e].object # "none"
       /\ r.mdl.equs[e].mp = m /\ r.mdl.equs[e].role = s.equs[e].role
  BY <1>1, <1>6, <1>21 DEF EquMetas
<1>23. ASSUME NEW k \in Mps
       PROVE  /\ r.mdl.mps[k].sense = a.mps[k].sense /\ r.mdl.mps[k].alive = a.mps[k].alive
              /\ r.mdl.mps[k].vars = a.mps[k].vars /\ r.mdl.mps[k].objequ = a.mps[k].objequ
              /\ r.mdl.mps[k].equs = IF k = m THEN a.mps[k].equs \ {e} ELSE a.mps[k].equs
  <2>1. a.mps[k] \in MpRecs
    BY <1>16, Records
  <2>2. r.mdl.mps[k] = IF k = m THEN [a.mps[k] EXCEPT !.equs = @ \ {e}] ELSE a.mps[k]
    BY <1>21
  <2> QED
    BY <2>1, <2>2 DEF MpRecs
<1>24. Aside(s, r.mdl, m)
  <2>1. \A v \in Vars : r.mdl.vars[v].dual = s.vars[v].dual
    BY <1>8, <1>16, <1>21 DEF Only
  <2>2. ASSUME NEW k \in Mps
        PROVE  /\ r.mdl.mps[k].sense = s.mps[k].sense /\ r.mdl.mps[k].alive = s.mps[k].alive
               /\ s.mps[k].vars \subseteq r.mdl.mps[k].vars
               /\ k # m => r.mdl.mps[k].equs = s.mps[k].equs /\ r.mdl.mps[k].objequ = s.mps[k].objequ
    <3>1. CASE k = m
      <4>1. /\ a.mps[m].sense = s.mps[m].sense /\ a.mps[m].alive = s.mps[m].alive
            /\ a.mps[m].vars = s.mps[m].vars
        BY <1>8, <1>16 DEF Only
      <4> QED
        BY <1>23, <3>1, <4>1, Zenon
    <3>2. CASE k # m
      <4>1. a.mps[k] = s.mps[k]
        BY <1>8, <1>16, <3>2 DEF Only
      <4> QED
        BY <1>23, <3>2, <4>1, ZenonT(40)
    <3> QED
      BY <3>1, <3>2
  <2> QED
    BY <2>1, <2>2 DEF Aside
<1>25. m # NA => /\ r.mdl.mps[m].objequ = s.mps[m].objequ /\ s.mps[m].alive
                 /\ r.mdl.mps[m].equs = (s.mps[m].equs \ {e}) \cup {n} /\ e \in s.mps[m].equs
  <2> SUFFICES ASSUME m # NA
               PROVE  /\ r.mdl.mps[m].objequ = s.mps[m].objequ /\ s.mps[m].alive
                      /\ r.mdl.mps[m].equs = (s.mps[m].equs \ {e}) \cup {n} /\ e \in s.mps[m].equs
    OBVIOUS
  <2>1. m \in Mps /\ s.mps[m].alive
    BY <1>1 DEF m
  <2>2. a.mps[m].equs = s.mps[m].equs \cup {n} /\ a.mps[m].objequ = s.mps[m].objequ
    BY <1>16
  <2>3. r.mdl.mps[m].objequ = a.mps[m].objequ /\ r.mdl.mps[m].equs = a.mps[m].equs \ {e}
    BY <1>23, <2>1, Zenon
  <2>4. e \in a.mps[m].equs
    BY <1>21
  <2> QED
    BY <1>3, <2>1, <2>2, <2>3, <2>4
<1>26. Substitutes(s, r.mdl, e, n)
  <2>1. \A f \in Equs : f \notin {e, n} => SameLinks(s.equs[f], r.mdl.equs[f])
    BY <1>21 DEF SameLinks
  <2>2. IsFunction(r.mdl, n) => IsFunction(s, e) /\ r.mdl.equs[n].dual = s.equs[e].dual
    BY <1>16, <1>21 DEF IsFunction
  <2>3. m # NA => \A f \in Equs : f \in r.mdl.mps[m].equs => f = n \/ f \in s.mps[m].equs
    BY <1>25
  <2> QED
    BY <1>1, <1>16, <1>21, <1>22, <1>24, <1>25, <2>1, <2>2, <2>3 DEF Substitutes, m
<1>27. CASE m = NA
  BY <1>1, <1>19, <1>26, <1>27, SubstituteLinked DEF m
<1>28. CASE m # NA
  <2>1. m \in Mps
    BY <1>1, <1>28
  <2>2. s.mps[m].objequ = e => <<m, "obj">> \in fd
    <3>1. s.mps[m].objequ = e => s.equs[e].role = "objective"
      BY <1>1, <2>1 DEF Sound, ObjequsMarked
    <3> QED
      BY <1>28, <3>1 DEF m
  <2>3. PlacedAt(r.mdl, fd, m)
    BY <1>1, <1>25, <1>26, <1>28, <2>1, <2>2, BesidePlaced, Zenon DEF m
  <2> QED
    BY <1>1, <1>19, <1>26, <2>3, SubstituteLinked DEF m
<1> QED
  BY <1>27, <1>28

-----------------------------------------------------------------------------
\* The copy of the objective equation of m becomes a mapping.
LEMMA CopyObjectiveLinked ==
  ASSUME NEW s, Sound(s), NEW ed, NEW fd, Linked(s, ed), ed \subseteq fd,
         NEW m \in Mps, s.mps[m].alive, s.mps[m].objequ \in Equs,
         s.equs[s.mps[m].objequ].active, s.equs[s.mps[m].objequ].mp = m,
         NEW n \in Spare(s),
         NEW q, q = rmdl_equ_dup_except(s, s.mps[m].objequ, n, s.mps[m].objvar), q.ok
  PROVE  /\ Linked(AsMapping(q.mdl, n), fd) /\ Sound(AsMapping(q.mdl, n))
         /\ IsOpt(s, m) => IsOpt(AsMapping(q.mdl, n), m)
<1> DEFINE e == s.mps[m].objequ
           t == q.mdl
           x == [t.equs[n] EXCEPT !.object = "mapping"]
           X == {e}
<1>1. \A k \in Mps : s.equs[e].mp = k => s.mps[k].objequ \in X
  OBVIOUS
<1>2. /\ e \in Equs /\ s.equs[e].active /\ s.equs[e].mp = m /\ e \in X
      /\ q = rmdl_equ_dup_except(s, e, n, s.mps[m].objvar) /\ n \in Equs
  BY DEF Spare
<1> HIDE DEF e, X
<1>3. Step(s, t, s.equs[e].mp, X, 1) /\ Replaced(s, t, e, n)
  BY <1>1, <1>2, DupExceptStep
<1>4. Linked(t, fd)
  BY <1>2, DupExceptLinked
<1> HIDE DEF t
<1>5. Sound(t) /\ t.mps[m].alive /\ t.mps[m].sense = s.mps[m].sense
  BY <1>2, <1>3 DEF Step, Keeps
<1>6. n \in t.mps[m].equs
  BY <1>2, <1>3, Owners DEF Replaced
<1>7. t.equs[n].active
  BY <1>2, <1>5, <1>6, Owners
<1>8. Step(t, AsMapping(t, n), m, X, 0) /\ AsMapping(t, n).mps = t.mps
  BY <1>2, <1>5, <1>7, MappingStep
<1>9. t \in Mdls /\ t.equs[n] \in EquMetas
  BY <1>2, <1>5, Records, Owners
<1>10. AsMapping(t, n) = WithEqu(t, n, x)
  BY <1>9 DEF AsMapping, WithEqu, Mdls
<1>11. x \in EquMetas /\ SameLinks(t.equs[n], x)
  BY <1>9 DEF EquMetas, Objects, SameLinks
<1> HIDE DEF x
<1>12. Linked(WithEqu(t, n, x), fd)
  BY <1>2, <1>4, <1>5, <1>11, ObjectLinked
<1>13. Sound(AsMapping(t, n))
  BY <1>8 DEF Step
<1>14. IsOpt(s, m) => IsOpt(AsMapping(t, n), m)
  BY <1>5, <1>8 DEF IsOpt
<1> QED
  BY <1>10, <1>12, <1>13, <1>14 DEF t

\* rmdl_mp_objequ2objfun
LEMMA ObjFunLinked ==
  ASSUME NEW s, Sound(s), NEW ed, NEW fd, Linked(s, ed), ed \subseteq fd,
         NEW m \in Mps, s.mps[m].alive, s.mps[m].objequ \in Equs,
         s.equs[s.mps[m].objequ].active, s.equs[s.mps[m].objequ].mp = m,
         NEW n \in Spare(s), NEW r, r = rmdl_mp_objequ2objfun(s, m, n), r.ok
  PROVE  Linked(r.mdl, fd)
<1> DEFINE q == rmdl_equ_dup_except(s, s.mps[m].objequ, n, s.mps[m].objvar)
           u == AsMapping(q.mdl, n)
           g == mp_setobjvar(u, m, NA)
<1>1. r = IF q.ok THEN g ELSE q
  BY DEF rmdl_mp_objequ2objfun, Then, AsMapping
<1>2. q.ok => Linked(u, fd) /\ Sound(u)
  <2>1. q = rmdl_equ_dup_except(s, s.mps[m].objequ, n, s.mps[m].objvar)
    OBVIOUS
  <2> HIDE DEF q
  <2> QED
    BY <2>1, CopyObjectiveLinked, Zenon
<1> HIDE DEF q, u
<1>3. q.ok /\ r = g /\ g.ok
  BY <1>1
<1>4. NA \in Vars \cup {NA}
  OBVIOUS
<1>5. Linked(g.mdl, fd)
  BY <1>2, <1>3, <1>4, SetObjVarLinked
<1> QED
  BY <1>3, <1>5

\* rmdl_equ_defmap2map
LEMMA DefMapLinked ==
  ASSUME NEW s, Sound(s), NEW ed, NEW fd, Linked(s, ed), ed \subseteq fd,
         NEW m \in Mps, s.mps[m].alive, IsOpt(s, m), s.mps[m].objequ \in Equs,
         s.equs[s.mps[m].objequ].active, s.equs[s.mps[m].objequ].mp = m,
         NEW n \in Spare(s), NEW r, r = rmdl_equ_defmap2map(s, m, n), r.ok
  PROVE  Linked(r.mdl, fd)
<1> DEFINE v == s.mps[m].objvar
           q == rmdl_equ_dup_except(s, s.mps[m].objequ, n, s.mps[m].objvar)
           u == AsMapping(q.mdl, n)
           y == [u.mps[m] EXCEPT !.vars = @ \ {v}, !.objvar = NA]
<1>1. /\ ~ q.ok => r = q
      /\ q.ok => r = IF v \notin u.mps[m].vars THEN Error(u)
                     ELSE OK([u EXCEPT !.mps[m].vars = @ \ {v}, !.mps[m].objvar = NA])
  <2>1. ASSUME ~ q.ok PROVE r = q
    BY <2>1 DEF rmdl_equ_defmap2map, Then, AsMapping
  <2>2. ASSUME q.ok
        PROVE  r = IF v \notin u.mps[m].vars THEN Error(u)
                   ELSE OK([u EXCEPT !.mps[m].vars = @ \ {v}, !.mps[m].objvar = NA])
    BY <2>2, Zenon DEF rmdl_equ_defmap2map, Then, AsMapping
  <2> QED
    BY <2>1, <2>2, Zenon
<1>2. q.ok => Linked(u, fd) /\ Sound(u) /\ IsOpt(u, m)
  <2>1. q = rmdl_equ_dup_except(s, s.mps[m].objequ, n, s.mps[m].objvar)
    OBVIOUS
  <2> HIDE DEF q, v, y
  <2> QED
    BY <2>1, CopyObjectiveLinked, ZenonT(40)
<1> HIDE DEF q, u, v
<1>3. q.ok
  BY <1>1
<1>4. v \in u.mps[m].vars /\ r.mdl = [u EXCEPT !.mps[m].vars = @ \ {v}, !.mps[m].objvar = NA]
  BY <1>1, <1>3 DEF OK, Error
<1>5. u \in Mdls /\ u.mps[m] \in MpRecs
  BY <1>2, <1>3, Owners, Records
<1>6. r.mdl = WithMp(u, m, y)
  <2>1. DOMAIN u.mps = Mps /\ u = [vars |-> u.vars, equs |-> u.equs, mps |-> u.mps,
                                   column |-> u.column]
    BY <1>5 DEF Mdls
  <2>2. [u EXCEPT !.mps[m].vars = @ \ {v}, !.mps[m].objvar = NA] = [u EXCEPT !.mps[m] = y]
    BY <1>5, <2>1, Zenon DEF Mdls, MpRecs
  <2>3. [u EXCEPT !.mps[m] = y] = WithMp(u, m, y)
    BY <2>1 DEF WithMp
  <2> QED
    BY <1>4, <2>2, <2>3
<1>7. /\ y \in MpRecs /\ y.objequ = u.mps[m].objequ /\ y.equs = u.mps[m].equs
      /\ y.alive = u.mps[m].alive /\ y.sense = u.mps[m].sense
  BY <1>5, Zenon DEF MpRecs
<1> HIDE DEF y
<1>8. Revars(u, r.mdl, m, fd)
  BY <1>2, <1>3, <1>5, <1>6, <1>7, WithMpFields DEF Revars, IsOpt, IsVi
<1>9. fd \subseteq fd
  OBVIOUS
<1> QED
  BY <1>2, <1>3, <1>8, <1>9, RevarsLinked

\* Contract.
LEMMA ContractLinked ==
  ASSUME NEW s, Sound(s), NEW ed, NEW fd, Linked(s, ed), ed \subseteq fd,
         NEW m \in Mps, NEW c \in Mps, m # c, s.mps[m].alive, s.mps[c].alive, IsOpt(s, m), IsOpt(s, c),
         NEW f, ContractsInOrder(s, f, m, c)
  PROVE  Linked(f, fd)
<1> DEFINE g == Claimed(s, m, c)
           e == s.mps[c].objequ
           q == rmdl_rm_equ(g, e)
<1>1. Contracts(s, g, m, c) /\ IsClaim(s, g, m, c)
  BY DEF ContractsInOrder
<1>2. f = g \/ (e \in Equs /\ g.equs[e].mp = NA /\ q.ok /\ f = q.mdl)
  BY DEF ContractsInOrder
<1> HIDE DEF g, e
<1>3. Sound(g)
  BY <1>1 DEF Contracts
<1>4. Linked(g, fd)
  BY <1>1, <1>3, ClaimLinked
<1>5. fd \subseteq fd
  OBVIOUS
<1>6. CASE f = g
  BY <1>4, <1>6
<1>7. CASE e \in Equs /\ g.equs[e].mp = NA /\ q.ok /\ f = q.mdl
  BY <1>3, <1>4, <1>5, <1>7, RmEquLinked
<1> QED
  BY <1>2, <1>6, <1>7

-----------------------------------------------------------------------------
\* The inductive invariant, with the links while no call failed.
LInv == IInv /\ (failures = 0 => Linked(mdl, edited))

\* The links after a step.
StaysLinked == failures' = 0 => Linked(mdl', edited')

\* A call that keeps the links when it succeeds.
LEMMA LinkCall ==
  ASSUME LInv, NEW r, NEW eds, Call(r, eds),
         r.ok /\ Linked(mdl, edited) => Linked(r.mdl, edited \cup eds)
  PROVE  StaysLinked
<1> SUFFICES ASSUME failures' = 0 PROVE Linked(mdl', edited')
  BY DEF StaysLinked
<1>1. /\ mdl' = r.mdl /\ edited' = edited \cup eds
      /\ failures' = IF r.ok THEN failures ELSE failures + 1
  BY DEF Call
<1>2. failures \in Nat
  BY DEF LInv, IInv
<1>3. r.ok /\ failures = 0
  BY <1>1, <1>2
<1> QED
  BY <1>1, <1>3 DEF LInv

\* AddVar, AddConstraint, AddEqu and AddViPair.
LEMMA AddFollows ==
  ASSUME LInv, NEW m \in Alive
  PROVE  /\ \A v \in Vars : AddVar(m, v) \/ AddViPair(m, NA, v) => StaysLinked
         /\ \A e \in Active : AddConstraint(m, e) \/ AddEqu(m, e) => StaysLinked
         /\ \A e \in Active, v \in Vars : AddViPair(m, e, v) => StaysLinked
<1>1. Sound(mdl) /\ m \in Mps /\ mdl.mps[m].alive
  BY DEF LInv, IInv, Alive
<1>2. edited \cup {} = edited
  OBVIOUS
<1>3. ASSUME NEW v \in Vars, AddVar(m, v) PROVE StaysLinked
  <2> DEFINE r == mp_addvar(mdl, m, v)
  <2>1. r.ok /\ Linked(mdl, edited) => Linked(r.mdl, edited)
    BY <1>1, AddVarLinked
  <2>2. Call(r, {})
    BY <1>3 DEF AddVar
  <2> HIDE DEF r
  <2> QED
    BY <1>2, <2>1, <2>2, LinkCall
<1>4. ASSUME NEW v \in Vars, AddViPair(m, NA, v) PROVE StaysLinked
  <2> DEFINE r == mp_addvipair(mdl, m, NA, v)
  <2>1. r.ok /\ Linked(mdl, edited) => Linked(r.mdl, edited)
    BY <1>1, AddZeroLinked
  <2>2. Call(r, {})
    BY <1>4 DEF AddViPair
  <2> HIDE DEF r
  <2> QED
    BY <1>2, <2>1, <2>2, LinkCall
<1>5. ASSUME NEW e \in Active, AddConstraint(m, e) PROVE StaysLinked
  <2> DEFINE r == mp_addconstraint(mdl, m, e)
  <2>1. r.ok /\ Linked(mdl, edited) => Linked(r.mdl, edited)
    BY <1>1, AddConstraintLinked DEF Active
  <2>2. Call(r, {})
    BY <1>5 DEF AddConstraint
  <2> HIDE DEF r
  <2> QED
    BY <1>2, <2>1, <2>2, LinkCall
<1>6. ASSUME NEW e \in Active, AddEqu(m, e) PROVE StaysLinked
  <2> DEFINE r == mp_addequ(mdl, m, e)
  <2>1. r.ok /\ Linked(mdl, edited) => Linked(r.mdl, edited)
    BY <1>1, AddEquLinked DEF Active
  <2>2. Call(r, {})
    BY <1>6 DEF AddEqu
  <2> HIDE DEF r
  <2> QED
    BY <1>2, <2>1, <2>2, LinkCall
<1>7. ASSUME NEW e \in Active, NEW v \in Vars, AddViPair(m, e, v) PROVE StaysLinked
  <2> DEFINE r == mp_addvipair(mdl, m, e, v)
  <2>1. Call(r, {}) /\ IsVi(mdl, m)
    BY <1>7 DEF AddViPair
  <2>2. r.ok /\ Linked(mdl, edited) => Linked(r.mdl, edited)
    BY <1>1, <2>1, AddPairLinked DEF Active
  <2> HIDE DEF r
  <2> QED
    BY <1>2, <2>1, <2>2, LinkCall
<1> HIDE DEF StaysLinked
<1> QED
  BY <1>3, <1>4, <1>5, <1>6, <1>7

\* SetObjEqu, SetObjVar, EnsureObjEqu and Finalize.
LEMMA ObjectiveFollows ==
  ASSUME LInv, NEW m \in Alive
  PROVE  /\ \A e \in Active : SetObjEqu(m, e) => StaysLinked
         /\ \A v \in Vars \cup {NA} : SetObjVar(m, v) => StaysLinked
         /\ EnsureObjEqu(m) => StaysLinked
         /\ Finalize(m) => StaysLinked
<1>1. Sound(mdl) /\ m \in Mps /\ mdl.mps[m].alive
  BY DEF LInv, IInv, Alive
<1>2. edited \cup {} = edited
  OBVIOUS
<1>3. ASSUME NEW e \in Active, SetObjEqu(m, e) PROVE StaysLinked
  <2> DEFINE r == mp_setobjequ(mdl, m, e)
  <2>1. r.ok /\ Linked(mdl, edited) => Linked(r.mdl, edited)
    BY <1>1, ObjectiveLinked DEF Active
  <2>2. Call(r, {})
    BY <1>3 DEF SetObjEqu
  <2> HIDE DEF r
  <2> QED
    BY <1>2, <2>1, <2>2, LinkCall
<1>4. ASSUME NEW v \in Vars \cup {NA}, SetObjVar(m, v) PROVE StaysLinked
  <2> DEFINE r == mp_setobjvar(mdl, m, v)
  <2>1. r.ok /\ Linked(mdl, edited) => Linked(r.mdl, edited)
    BY <1>1, SetObjVarLinked
  <2>2. Call(r, {})
    BY <1>4 DEF SetObjVar
  <2> HIDE DEF r
  <2> QED
    BY <1>2, <2>1, <2>2, LinkCall
<1>5. ASSUME EnsureObjEqu(m) PROVE StaysLinked
  <2>1. PICK n \in Spare(mdl) : Call(mp_ensure_obequ(mdl, m, n), {})
    BY <1>5 DEF EnsureObjEqu
  <2> DEFINE r == mp_ensure_obequ(mdl, m, n)
  <2>2. r.ok /\ Linked(mdl, edited) => Linked(r.mdl, edited)
    BY <1>1, EnsureLinked
  <2>3. Call(r, {})
    BY <2>1
  <2> HIDE DEF r
  <2> QED
    BY <1>2, <2>2, <2>3, LinkCall
<1>6. ASSUME Finalize(m) PROVE StaysLinked
  <2>1. PICK resolved \in BOOLEAN : Call(mp_finalize(mdl, m, resolved), {})
    BY <1>6 DEF Finalize
  <2>2. mdl.mps[m].objvar # NA => mdl.column[mdl.mps[m].objvar] # <<>>
    BY <1>6 DEF Finalize
  <2> DEFINE r == mp_finalize(mdl, m, resolved)
  <2>3. r.ok /\ Linked(mdl, edited) => Linked(r.mdl, edited)
    BY <1>1, <2>2, FinalizeLinked
  <2>4. Call(r, {})
    BY <2>1
  <2> HIDE DEF r
  <2> QED
    BY <1>2, <2>3, <2>4, LinkCall
<1> HIDE DEF StaysLinked
<1> QED
  BY <1>3, <1>4, <1>5, <1>6

\* RmVar, ObjEqu2ObjFun and DefMap2Map.
LEMMA DefinedFollows ==
  ASSUME LInv, NEW m \in Alive
  PROVE  /\ \A v \in Vars : RmVar(m, v) => StaysLinked
         /\ ObjEqu2ObjFun(m) => StaysLinked
         /\ DefMap2Map(m) => StaysLinked
<1> DEFINE fd == edited \cup {<<m, "equ">>}
<1>1. Sound(mdl) /\ m \in Mps /\ mdl.mps[m].alive /\ edited \subseteq fd
  BY DEF LInv, IInv, Alive
<1>2. ASSUME NEW v \in Vars, RmVar(m, v) PROVE StaysLinked
  <2> DEFINE r == mp_rm_var(mdl, m, v)
             eds == {<<m, "var">>}
  <2>1. r.ok /\ Linked(mdl, edited) => Linked(r.mdl, edited \cup eds)
    BY <1>1, RmVarLinked, Zenon
  <2>2. Call(r, eds)
    BY <1>2 DEF RmVar
  <2> HIDE DEF r, eds
  <2> QED
    BY <2>1, <2>2, LinkCall
<1>3. ASSUME Defined(m)
      PROVE  /\ mdl.mps[m].objequ \in Equs /\ mdl.equs[mdl.mps[m].objequ].active
             /\ mdl.equs[mdl.mps[m].objequ].mp = m /\ IsOpt(mdl, m)
  BY <1>3 DEF Defined, Editable, Active
<1>4. ASSUME ObjEqu2ObjFun(m) PROVE StaysLinked
  <2>1. PICK n \in Spare(mdl) : Defined(m) /\ Call(rmdl_mp_objequ2objfun(mdl, m, n), {<<m, "equ">>})
    BY <1>4 DEF ObjEqu2ObjFun
  <2> DEFINE r == rmdl_mp_objequ2objfun(mdl, m, n)
             eds == {<<m, "equ">>}
  <2>2. Call(r, eds) /\ fd = edited \cup eds
    BY <2>1
  <2> HIDE DEF fd, eds
  <2>3. r.ok /\ Linked(mdl, edited) => Linked(r.mdl, fd)
    BY <1>1, <1>3, <2>1, ObjFunLinked
  <2> HIDE DEF r
  <2> QED
    BY <2>2, <2>3, LinkCall
<1>5. ASSUME DefMap2Map(m) PROVE StaysLinked
  <2>1. PICK n \in Spare(mdl) : Defined(m) /\ Call(rmdl_equ_defmap2map(mdl, m, n), {<<m, "equ">>})
    BY <1>5 DEF DefMap2Map
  <2> DEFINE r == rmdl_equ_defmap2map(mdl, m, n)
             eds == {<<m, "equ">>}
  <2>2. Call(r, eds) /\ fd = edited \cup eds
    BY <2>1
  <2> HIDE DEF fd, eds
  <2>3. r.ok /\ Linked(mdl, edited) => Linked(r.mdl, fd)
    BY <1>1, <1>3, <2>1, DefMapLinked
  <2> HIDE DEF r
  <2> QED
    BY <2>2, <2>3, LinkCall
<1> HIDE DEF StaysLinked
<1> QED
  BY <1>2, <1>4, <1>5

\* Contract.
LEMMA ContractionFollows ==
  ASSUME LInv, NEW m \in Alive, NEW c \in Alive, Contract(m, c)
  PROVE  StaysLinked
<1> DEFINE t == mp_claimequvar_from_mp(mdl, m, c)
           e == mdl.mps[c].objequ
           q == IF e \in Active THEN rmdl_rm_equ(t, e) ELSE OK(t)
           r == [q EXCEPT !.mdl.mps[c].alive = FALSE]
           eds == {<<c, "mp">>}
           fd == edited \cup eds
<1>1. Sound(mdl) /\ m \in Mps /\ mdl.mps[m].alive /\ c \in Mps /\ mdl.mps[c].alive
  BY DEF LInv, IInv, Alive
<1>2. /\ m # c /\ IsOpt(mdl, m) /\ IsOpt(mdl, c) /\ (e # NA => mdl.equs[e].mp = c)
      /\ Call(r, eds)
  BY DEF Contract
<1>3. ContractsInOrder(mdl, r.mdl, m, c)
  BY <1>1, <1>2, ContractOrder, Zenon DEF Active
<1>4. edited \subseteq fd
  OBVIOUS
<1> HIDE DEF r, fd
<1>5. Linked(mdl, edited) => Linked(r.mdl, fd)
  BY <1>1, <1>2, <1>3, <1>4, ContractLinked
<1> QED
  BY <1>2, <1>5, LinkCall, Zenon DEF fd

\* RmEqu, Dup, DupExcept and Flip.
LEMMA EquFollows ==
  ASSUME LInv, NEW e \in Editable
  PROVE  /\ RmEqu(e) => StaysLinked
         /\ Dup(e) => StaysLinked
         /\ \A v \in Vars : DupExcept(e, v) => StaysLinked
         /\ Flip(e) => StaysLinked
<1> DEFINE eds == Owner(e, "equ")
           fd == edited \cup eds
<1>1. /\ Sound(mdl) /\ e \in Equs /\ mdl.equs[e].active /\ NA \notin Mps
      /\ mdl.equs[e].mp # NA => mdl.mps[mdl.equs[e].mp].alive
  BY Owners DEF LInv, IInv, Editable, Active, Alive
<1>2. edited \subseteq fd /\ fd = edited \cup eds
  OBVIOUS
<1> HIDE DEF fd
<1>3. ASSUME RmEqu(e) PROVE StaysLinked
  <2> DEFINE r == rmdl_rm_equ(mdl, e)
  <2>1. Call(r, eds) /\ mdl.equs[e].role # "objective"
    BY <1>3 DEF RmEqu
  <2> HIDE DEF eds
  <2>2. r.ok /\ Linked(mdl, edited) => Linked(r.mdl, fd)
    BY <1>1, <1>2, <2>1, RmEquLinked
  <2> HIDE DEF r
  <2> QED
    BY <1>2, <2>1, <2>2, LinkCall
<1>4. ASSUME Dup(e) PROVE StaysLinked
  <2>1. PICK n \in Spare(mdl) : Call(rmdl_dup_equ(mdl, e, n), eds)
    BY <1>4 DEF Dup
  <2> DEFINE r == rmdl_dup_equ(mdl, e, n)
  <2> HIDE DEF eds
  <2>2. r.ok /\ Linked(mdl, edited) => Linked(r.mdl, fd)
    BY <1>1, <1>2, DupLinked
  <2>3. Call(r, eds)
    BY <2>1
  <2> HIDE DEF r
  <2> QED
    BY <1>2, <2>2, <2>3, LinkCall
<1>5. ASSUME NEW v \in Vars, DupExcept(e, v) PROVE StaysLinked
  <2>1. PICK n \in Spare(mdl) : Call(rmdl_equ_dup_except(mdl, e, n, v), eds)
    BY <1>5 DEF DupExcept
  <2> DEFINE r == rmdl_equ_dup_except(mdl, e, n, v)
  <2> HIDE DEF eds
  <2>2. r.ok /\ Linked(mdl, edited) => Linked(r.mdl, fd)
    BY <1>1, <1>2, DupExceptLinked, Zenon
  <2>3. Call(r, eds)
    BY <2>1
  <2> HIDE DEF r
  <2> QED
    BY <1>2, <2>2, <2>3, LinkCall
<1>6. ASSUME Flip(e) PROVE StaysLinked
  <2> DEFINE eds2 == eds \cup FlippedObj(e)
             gd == edited \cup eds2
  <2>1. PICK n \in Spare(mdl) : Call(rmdl_equ_flip(mdl, e, n), eds2)
    BY <1>6 DEF Flip
  <2> DEFINE r == rmdl_equ_flip(mdl, e, n)
  <2>2. edited \subseteq gd /\ gd = edited \cup eds2 /\ Call(r, eds2)
    BY <2>1
  <2>3. mdl.equs[e].mp # NA /\ mdl.equs[e].role = "objective" => <<mdl.equs[e].mp, "obj">> \in gd
    BY DEF FlippedObj, Owner
  <2> HIDE DEF eds2, gd
  <2>4. r.ok /\ Linked(mdl, edited) => Linked(r.mdl, gd)
    BY <1>1, <2>2, <2>3, FlipLinked, Zenon
  <2> HIDE DEF r
  <2> QED
    BY <2>2, <2>4, LinkCall
<1> HIDE DEF StaysLinked
<1> QED
  BY <1>3, <1>4, <1>5, <1>6

\* Every step keeps the links.
LEMMA NextFollows == LInv /\ Next => StaysLinked
<1> SUFFICES ASSUME LInv, Next PROVE StaysLinked
  OBVIOUS
<1>1. ASSUME NEW m \in Alive, OnMp(m) PROVE StaysLinked
  <2>1. CASE Finalize(m) \/ EnsureObjEqu(m) \/ SetObjVar(m, NA)
    BY <2>1, ObjectiveFollows
  <2>2. CASE ObjEqu2ObjFun(m) \/ DefMap2Map(m)
    BY <2>2, DefinedFollows
  <2>3. ASSUME NEW v \in Vars, AddVar(m, v) \/ SetObjVar(m, v) \/ RmVar(m, v) \/ AddViPair(m, NA, v)
        PROVE  StaysLinked
    <3>1. CASE AddVar(m, v) \/ AddViPair(m, NA, v)
      BY <3>1, AddFollows
    <3>2. CASE SetObjVar(m, v)
      BY <3>2, ObjectiveFollows
    <3>3. CASE RmVar(m, v)
      BY <3>3, DefinedFollows
    <3> QED
      BY <2>3, <3>1, <3>2, <3>3
  <2>4. ASSUME NEW e \in Active, AddConstraint(m, e) \/ AddEqu(m, e) \/ SetObjEqu(m, e)
        PROVE  StaysLinked
    <3>1. CASE AddConstraint(m, e) \/ AddEqu(m, e)
      BY <3>1, AddFollows
    <3>2. CASE SetObjEqu(m, e)
      BY <3>2, ObjectiveFollows
    <3> QED
      BY <2>4, <3>1, <3>2
  <2>5. ASSUME NEW e \in Active, NEW v \in Vars, AddViPair(m, e, v) PROVE StaysLinked
    BY <2>5, AddFollows
  <2>6. ASSUME NEW c \in Alive, Contract(m, c) PROVE StaysLinked
    BY <2>6, ContractionFollows
  <2> HIDE DEF StaysLinked
  <2> QED
    BY <1>1, <2>1, <2>2, <2>3, <2>4, <2>5, <2>6 DEF OnMp
<1>2. ASSUME NEW e \in Editable, RmEqu(e) \/ Dup(e) \/ Flip(e) \/ \E v \in Vars : DupExcept(e, v)
      PROVE  StaysLinked
  BY <1>2, EquFollows
<1> HIDE DEF StaysLinked
<1> QED
  BY <1>1, <1>2 DEF Next

\* The initial models: no MP owns anything and no equation has a copy.
LEMMA InitLinked == Init => Linked(mdl, edited)
<1> SUFFICES ASSUME Init PROVE Linked(mdl, edited)
  OBVIOUS
<1>1. PICK k \in Kinds :
         mdl = [vars |-> [v \in Vars |-> NoVar],
                equs |-> [e \in Equs |-> IF e \in DOMAIN StartEqu
                                         THEN [NoEqu EXCEPT !.active = TRUE,
                                                            !.object = StartEqu[e].object,
                                                            !.cone = StartEqu[e].cone]
                                         ELSE NoEqu],
                mps |-> [m \in Mps |-> Mp(k[m])],
                column |-> StartColumn]
  BY Zenon DEF Init
<1>2. \A e \in Equs : /\ mdl.equs[e].mp = NA /\ mdl.equs[e].role = "undefined"
                      /\ mdl.equs[e].res = NA
  BY <1>1, Zenon DEF NoEqu
<1>3. \A m \in Mps : mdl.mps[m].equs = {} /\ mdl.mps[m].objequ = NA
  BY <1>1, Zenon DEF Mp
<1>4. NA \notin Mps
  BY MathPrgmAssumption
<1>5. Retired(mdl) /\ FunctionsOfVis(mdl) /\ Pairs(mdl, edited)
  BY <1>2, <1>3 DEF Retired, FunctionsOfVis, Pairs, IsFunction
<1>6. \A m \in Mps : PlacedAt(mdl, edited, m)
  BY <1>2, <1>3, <1>4 DEF PlacedAt
<1> QED
  BY <1>5, <1>6 DEF Linked

\* The links hold of every behaviour as long as no call fails.
THEOREM LInvCorrect == Spec => []LInv
<1>1. Init => LInv
  BY InitInv, InitLinked DEF LInv
<1>2. LInv /\ [Next]_vars => LInv'
  <2> SUFFICES ASSUME LInv, [Next]_vars PROVE LInv'
    OBVIOUS
  <2>1. CASE Next
    <3>1. IInv' /\ StaysLinked
      BY <2>1, NextInv, NextFollows DEF LInv, Effect
    <3> QED
      BY <3>1 DEF LInv, StaysLinked
  <2>2. CASE UNCHANGED vars
    <3>1. mdl' = mdl /\ calls' = calls /\ failures' = failures /\ edited' = edited
      BY <2>2 DEF vars
    <3>2. IInv'
      BY <3>1 DEF LInv, IInv, Sound, Bounded, Counted, Occupied, ColumnsActive, VarsOwned, EqusOwned,
         UnownedRoles, ObjequsMarked, HasObjective, IsVi
    <3>3. (failures = 0 => Linked(mdl, edited))'
      BY <3>1 DEF LInv
    <3> QED
      BY <3>2, <3>3 DEF LInv
  <2> QED
    BY <2>1, <2>2
<1> QED
  BY <1>1, <1>2, PTL DEF Spec

\* The links say what the run checks: an equation in the list of an MP is in the model, so that
\* no copy stands for it.
LEMMA LinksFollow == LInv => ObjectiveInPlace /\ PairsMatch
<1> SUFFICES ASSUME LInv, failures = 0 PROVE ObjectiveInPlace /\ PairsMatch
  BY DEF ObjectiveInPlace, PairsMatch
<1>1. Sound(mdl) /\ Linked(mdl, edited) /\ NA \notin Equs
  BY Owners, MathPrgmAssumption DEF LInv, IInv
<1>2. \A m \in Mps : mdl.mps[m].equs \subseteq Equs /\ mdl.mps[m].objequ \in Equs \cup {NA}
  BY <1>1, Records, Owners
<1>3. ObjectiveInPlace
  <2> SUFFICES ASSUME NEW m \in Alive, mdl.mps[m].objequ # NA, mdl.equs[mdl.mps[m].objequ].mp = m,
                      <<m, "obj">> \notin edited
               PROVE  /\ mdl.equs[Latest(mdl.mps[m].objequ)].role = "objective"
                      /\ Latest(mdl.mps[m].objequ) \in mdl.mps[m].equs
    BY DEF ObjectiveInPlace
  <2> DEFINE oe == mdl.mps[m].objequ
  <2>1. m \in Mps /\ mdl.mps[m].alive /\ oe \in Equs
    BY <1>2 DEF Alive
  <2>2. oe \in mdl.mps[m].equs
    BY <1>1, <2>1 DEF Linked, PlacedAt
  <2>3. mdl.equs[oe].active /\ mdl.equs[oe].role = "objective"
    BY <1>1, <2>1, <2>2, Owners DEF Sound, ObjequsMarked
  <2>4. mdl.equs[oe].res = NA
    BY <1>1, <2>1, <2>3 DEF Linked, Retired
  <2> HIDE DEF oe
  <2>5. Latest(oe) = oe
    BY <2>1, <2>4, OwnEnd, EndIsLatest
  <2> QED
    BY <2>2, <2>3, <2>5 DEF oe
<1>4. PairsMatch
  <2> SUFFICES ASSUME NEW m \in Alive, NEW e \in mdl.mps[m].equs, mdl.equs[e].role = "vifunction",
                      <<m, "var">> \notin edited
               PROVE  LET v == mdl.equs[e].dual IN
                      /\ v \in mdl.mps[m].vars
                      /\ mdl.vars[v].dual # NA /\ Latest(mdl.vars[v].dual) = e
    BY DEF PairsMatch
  <2> DEFINE v == mdl.equs[e].dual
             d == mdl.vars[v].dual
  <2>1. m \in Mps /\ mdl.mps[m].alive /\ e \in Equs
    BY <1>2 DEF Alive
  <2>2. Paired(mdl, m, e)
    BY <1>1, <2>1 DEF Linked, Pairs, IsFunction
  <2>3. v \in mdl.mps[m].vars /\ d \in Equs /\ Ends(mdl, d, e)
    BY <2>2 DEF Paired
  <2> HIDE DEF d
  <2>4. Latest(d) = e
    BY <2>1, <2>3, EndIsLatest
  <2> QED
    BY <1>1, <2>3, <2>4 DEF d
<1> QED
  BY <1>3, <1>4

\* The objective equation that a finalized MP names stays in its place through every copy, as
\* long as no call failed and no objective equation of the MP was flipped.
THEOREM ObjectiveInPlaceCorrect == Spec => []ObjectiveInPlace
BY LInvCorrect, LinksFollow, PTL

\* A VI function and its variable stay matched through copies and flips, as long as no call failed
\* and no variable was taken out of the VI.
THEOREM PairsMatchCorrect == Spec => []PairsMatch
BY LInvCorrect, LinksFollow, PTL

-----------------------------------------------------------------------------
(***************************************************************************)
(* The in-place merge (IntExtendSorted), for arrays of any length and any  *)
(* values: it stays within its memory, and when it returns the array is    *)
(* the sorted merge of the two.                                            *)
(*                                                                         *)
(* Every step but the last inserts one block of the source into the part   *)
(* of the memory that is written (InsertStep); what remains is that each   *)
(* search finds a place where the block fits (BinInsertFinds, CopyLenFits).*)
(***************************************************************************)

-----------------------------------------------------------------------------
(***************************************************************************)
(* bin_insert_int.                                                         *)
(***************************************************************************)

\* One turn of the loop of bin_insert_int between a and b, which goes on with f.
Turn(f, arr, off, n, elt, a, b) ==
  IF b < a THEN n
  ELSE IF elt <= arr[off + (a + b) \div 2]
       THEN IF (a + b) \div 2 = 0 THEN 0
            ELSE IF elt >= arr[off + (a + b) \div 2 - 1] THEN (a + b) \div 2
                 ELSE f[<<a, (a + b) \div 2 - 1>>]
       ELSE f[<<(a + b) \div 2 + 1, b>>]

Bounds(n) == (0..n) \X (-1..(n - 1))
IsLoop(f, arr, off, n, elt) ==
  f = [w \in Bounds(n) |-> Turn(f, arr, off, n, elt, w[1], w[2])]

\* The middle of an interval is in it.
LEMMA Middle ==
  ASSUME NEW n \in Nat, NEW a \in 0..n, NEW b \in -1..(n - 1), ~ b < a
  PROVE  /\ (a + b) \div 2 \in a..b /\ (a + b) \div 2 \in 0..(n - 1)
         /\ (a + b) \div 2 + 1 \in 0..n
         /\ (a + b) \div 2 # 0 => (a + b) \div 2 - 1 \in -1..(n - 1)
OBVIOUS

\* The loop ends, so the function that it computes exists.
LEMMA LoopExists ==
  ASSUME NEW n \in Nat, NEW arr, NEW off, NEW elt
  PROVE  \E f : f \in [Bounds(n) -> 0..n] /\ IsLoop(f, arr, off, n, elt)
<1> DEFINE D == [Bounds(n) -> 0..n]
           Next1(f) == [w \in Bounds(n) |-> Turn(f, arr, off, n, elt, w[1], w[2])]
           G == [k \in Nat |-> [f \in D |-> Next1(f)]]
<1>1. \A w \in Bounds(n) : w[1] \in 0..n /\ w[2] \in -1..(n - 1) /\ w = <<w[1], w[2]>>
  BY DEF Bounds
<1>2. \A a \in 0..n, b \in -1..(n - 1) : <<a, b>> \in Bounds(n)
  BY DEF Bounds
<1>3. ASSUME NEW f \in D, NEW a \in 0..n, NEW b \in -1..(n - 1)
      PROVE  Turn(f, arr, off, n, elt, a, b) \in 0..n
  <2>1. CASE b < a
    BY <2>1 DEF Turn
  <2>2. CASE ~ b < a
    <3> DEFINE i == (a + b) \div 2
    <3>1. i \in 0..(n - 1) /\ i \in 0..n /\ i + 1 \in 0..n /\ (i # 0 => i - 1 \in -1..(n - 1))
      BY <2>2, Middle
    <3> HIDE DEF i
    <3>2. f[<<i + 1, b>>] \in 0..n /\ (i # 0 => f[<<a, i - 1>>] \in 0..n)
      BY <3>1, <1>2
    <3> QED
      BY <2>2, <3>1, <3>2 DEF Turn, i
  <2> QED
    BY <2>1, <2>2
<1>4. \A f \in D : Next1(f) \in D
  BY <1>1, <1>3
<1>5. [w \in Bounds(n) |-> 0] \in D
  OBVIOUS
<1>6. G \in [Nat -> [D -> D]]
  <2> HIDE DEF D, Next1
  <2> QED
    BY <1>4
<1>7. PICK h : AP!Iterates(h, D, [w \in Bounds(n) |-> 0], G)
  <2> HIDE DEF G, D
  <2> QED
    BY <1>5, <1>6, AP!RecursiveFunction
<1>8. \A k \in Nat : h[k] \in D /\ h[k + 1] = Next1(h[k])
  <2> HIDE DEF D, Next1
  <2> QED
    BY <1>7 DEF AP!Iterates
<1>9. \A k \in Nat : \A a \in 0..n, b \in -1..(n - 1) :
         h[k + 1][<<a, b>>] = Turn(h[k], arr, off, n, elt, a, b)
  <2> TAKE k \in Nat
  <2> TAKE a \in 0..n, b \in -1..(n - 1)
  <2>1. h[k + 1] = Next1(h[k])
    BY <1>8
  <2>2. <<a, b>> \in Bounds(n)
    BY <1>2
  <2> QED
    BY <2>1, <2>2
<1> HIDE DEF G, D, Next1
<1> DEFINE Agree == {k \in Nat : \A a \in 0..n, b \in -1..(n - 1) :
                                   b - a < k => h[k + 2][<<a, b>>] = h[k + 1][<<a, b>>]}
<1>10. 0 \in Agree
  <2> SUFFICES ASSUME NEW a \in 0..n, NEW b \in -1..(n - 1), b - a < 0
               PROVE  h[0 + 2][<<a, b>>] = h[0 + 1][<<a, b>>]
    OBVIOUS
  <2>1. b < a
    OBVIOUS
  <2>2. \A f : Turn(f, arr, off, n, elt, a, b) = n
    BY <2>1 DEF Turn
  <2>3. h[0 + 1][<<a, b>>] = n /\ h[1 + 1][<<a, b>>] = n
    BY <1>9, <2>2
  <2> QED
    BY <2>3
<1>11. ASSUME NEW k \in Nat, k \in Agree PROVE k + 1 \in Agree
  <2> SUFFICES ASSUME NEW a \in 0..n, NEW b \in -1..(n - 1), b - a < k + 1
               PROVE  h[(k + 1) + 2][<<a, b>>] = h[(k + 1) + 1][<<a, b>>]
    OBVIOUS
  <2>1. /\ h[(k + 2) + 1][<<a, b>>] = Turn(h[k + 2], arr, off, n, elt, a, b)
        /\ h[(k + 1) + 1][<<a, b>>] = Turn(h[k + 1], arr, off, n, elt, a, b)
    BY <1>9, k + 2 \in Nat, k + 1 \in Nat
  <2>2. \A c \in 0..n, d \in -1..(n - 1) : d - c < k => h[k + 2][<<c, d>>] = h[k + 1][<<c, d>>]
    BY <1>11
  <2>3. Turn(h[k + 2], arr, off, n, elt, a, b) = Turn(h[k + 1], arr, off, n, elt, a, b)
    <3>1. CASE b < a
      BY <3>1 DEF Turn
    <3>2. CASE ~ b < a
      <4> DEFINE i == (a + b) \div 2
      <4>1. i \in a..b /\ i + 1 \in 0..n /\ (i # 0 => i - 1 \in -1..(n - 1))
        BY <3>2, Middle
      <4> HIDE DEF i
      <4>2. b - (i + 1) < k /\ (i - 1) - a < k
        BY <4>1
      <4>3. /\ h[k + 2][<<i + 1, b>>] = h[k + 1][<<i + 1, b>>]
            /\ i # 0 => h[k + 2][<<a, i - 1>>] = h[k + 1][<<a, i - 1>>]
        BY <2>2, <4>1, <4>2
      <4> QED
        BY <4>3 DEF Turn, i
    <3> QED
      BY <3>1, <3>2
  <2>4. (k + 1) + 2 = (k + 2) + 1
    OBVIOUS
  <2> QED
    BY <2>1, <2>3, <2>4
<1>12. n + 1 \in Agree
  <2> HIDE DEF Agree
  <2>1. Nat \subseteq Agree
    BY <1>10, <1>11, AP!NatSetInduction
  <2> QED
    BY <2>1
<1>13. IsLoop(h[n + 2], arr, off, n, elt) /\ h[n + 2] \in D
  <2> DEFINE f == h[n + 2]
             g == h[(n + 2) + 1]
  <2>1. f \in D /\ g \in D /\ g = Next1(f)
    BY <1>8, n + 2 \in Nat, (n + 2) + 1 \in Nat
  <2>2. \A a \in 0..n, b \in -1..(n - 1) : g[<<a, b>>] = f[<<a, b>>]
    <3> TAKE a \in 0..n, b \in -1..(n - 1)
    <3>1. b - a < n + 1 /\ (n + 1) + 2 = (n + 2) + 1 /\ (n + 1) + 1 = n + 2
      OBVIOUS
    <3>2. h[(n + 1) + 2][<<a, b>>] = h[(n + 1) + 1][<<a, b>>]
      BY <1>12, <3>1
    <3> QED
      BY <3>1, <3>2
  <2>3. \A w \in Bounds(n) : g[w] = f[w]
    BY <1>1, <2>2
  <2>4. f = g
    <3> HIDE DEF f, g
    <3> QED
      BY <2>1, <2>3 DEF D
  <2> QED
    BY <2>1, <2>4 DEF IsLoop, Next1
<1> QED
  BY <1>13 DEF D

\* bin_insert_int, for a value that is not above the last one: it returns the index of a value
\* that is not below elt, while the one in front of it is not above.
LEMMA BinInsertFinds ==
  ASSUME NEW n \in Nat \ {0}, NEW arr, NEW off \in Nat, NEW elt \in Int,
         \A i \in 0..(n - 1) : arr[off + i] \in Int,
         elt <= arr[off + (n - 1)],
         NEW r, r = bin_insert_int(arr, off, n, elt)
  PROVE  r \in 0..(n - 1) /\ elt <= arr[off + r] /\ (r # 0 => arr[off + r - 1] <= elt)
<1> DEFINE Right(j) == j \in 0..(n - 1) /\ elt <= arr[off + j] /\ (j # 0 => arr[off + j - 1] <= elt)
           f == CHOOSE g : IsLoop(g, arr, off, n, elt)
<1>1. IsLoop(f, arr, off, n, elt)
  <2>1. \E g : IsLoop(g, arr, off, n, elt)
    BY LoopExists
  <2> QED
    BY <2>1
<1>2. r = f[<<0, n - 1>>]
  BY DEF bin_insert_int, IsLoop, Turn, Bounds
<1> HIDE DEF f
<1>3. \A a \in 0..n, b \in -1..(n - 1) : f[<<a, b>>] = Turn(f, arr, off, n, elt, a, b)
  BY <1>1 DEF IsLoop, Bounds
<1> DEFINE Open(a, b) == /\ a = 0 \/ arr[off + a - 1] < elt
                         /\ b = n - 1 \/ (b \in 0..(n - 1) /\ elt < arr[off + b])
                         /\ a <= b + 1
           T == {k \in Nat : \A a \in 0..n, b \in -1..(n - 1) :
                               b - a < k /\ Open(a, b) => Right(f[<<a, b>>])}
<1>4. ASSUME NEW a \in 0..n, NEW b \in -1..(n - 1), Open(a, b) PROVE ~ b < a
  <2> SUFFICES ASSUME a = b + 1 PROVE FALSE
    <3>1. a \in Int /\ b \in Int /\ a <= b + 1
      BY <1>4
    <3> QED
      BY <3>1
  <2>1. a - 1 = b /\ a > 0 /\ b \in 0..(n - 1) /\ off + a - 1 = off + b
    BY <1>4
  <2>2. arr[off + b] \in Int
    BY <2>1
  <2>3. arr[off + b] < elt
    BY <1>4, <2>1
  <2> QED
    BY <1>4, <2>1, <2>2, <2>3
<1>5. 0 \in T
  <2>1. \A a \in 0..n, b \in -1..(n - 1) : b - a < 0 => b < a
    OBVIOUS
  <2> HIDE DEF Right, Open
  <2> QED
    BY <1>4, <2>1
<1>6. ASSUME NEW k \in Nat, k \in T PROVE k + 1 \in T
  <2> SUFFICES ASSUME NEW a \in 0..n, NEW b \in -1..(n - 1), b - a < k + 1, Open(a, b)
               PROVE  Right(f[<<a, b>>])
    <3> HIDE DEF Right, Open
    <3> QED
      OBVIOUS
  <2> DEFINE i == (a + b) \div 2
  <2>1. ~ b < a
    BY <1>4
  <2>2. /\ i \in a..b /\ i \in 0..(n - 1) /\ i + 1 \in 0..n /\ (i # 0 => i - 1 \in -1..(n - 1))
    BY <2>1, Middle
  <2>3. f[<<a, b>>] = IF elt <= arr[off + i]
                      THEN IF i = 0 THEN 0
                           ELSE IF elt >= arr[off + i - 1] THEN i ELSE f[<<a, i - 1>>]
                      ELSE f[<<i + 1, b>>]
    BY <1>3, <2>1 DEF Turn
  <2> HIDE DEF i
  <2>4. arr[off + i] \in Int /\ (i # 0 => arr[off + i - 1] \in Int)
    <3>1. i # 0 => i - 1 \in 0..(n - 1) /\ off + (i - 1) = off + i - 1
      BY <2>2
    <3> QED
      BY <2>2, <3>1
  <2>5. \A c \in 0..n, d \in -1..(n - 1) : d - c < k /\ Open(c, d) => Right(f[<<c, d>>])
    BY <1>6
  <2>6. CASE ~ elt <= arr[off + i]
    <3>1. Open(i + 1, b) /\ b - (i + 1) < k
      BY <2>2, <2>4, <2>6
    <3> QED
      BY <2>2, <2>3, <2>5, <2>6, <3>1
  <2>7. CASE elt <= arr[off + i] /\ i # 0 /\ ~ elt >= arr[off + i - 1]
    <3>1. Open(a, i - 1) /\ (i - 1) - a < k /\ i - 1 \in -1..(n - 1)
      <4>1. i - 1 \in 0..(n - 1) /\ off + (i - 1) = off + i - 1 /\ a <= (i - 1) + 1
        BY <2>2, <2>7
      <4>2. elt < arr[off + (i - 1)]
        BY <2>4, <2>7, <4>1
      <4> QED
        BY <2>2, <4>1, <4>2
    <3> QED
      BY <2>3, <2>5, <2>7, <3>1
  <2>8. CASE elt <= arr[off + i] /\ i # 0 /\ elt >= arr[off + i - 1]
    BY <2>2, <2>3, <2>4, <2>8
  <2>9. CASE elt <= arr[off + i] /\ i = 0
    BY <2>2, <2>3, <2>4, <2>9
  <2> QED
    BY <2>6, <2>7, <2>8, <2>9
<1> HIDE DEF T
<1>7. Nat \subseteq T
  BY <1>5, <1>6, AP!NatSetInduction
<1>8. n \in T /\ 0 \in 0..n /\ n - 1 \in -1..(n - 1) /\ (n - 1) - 0 < n /\ Open(0, n - 1)
  BY <1>7
<1>9. Right(f[<<0, n - 1>>])
  BY <1>8 DEF T
<1> QED
  BY <1>2, <1>9

-----------------------------------------------------------------------------
(***************************************************************************)
(* Sorted arrays, and how often a value occurs.                            *)
(***************************************************************************)

\* chk_sorted_intarray compares neighbours; then any two elements are in order.
LEMMA SortedArrays ==
  ASSUME NEW s \in Sorted
  PROVE  /\ s \in Seq(Vals) /\ Len(s) \in 0..MaxLen
         /\ \A i \in 1..Len(s) : s[i] \in Nat
         /\ \A i, j \in 1..Len(s) : i <= j => s[i] <= s[j]
<1>1. PICK n \in 0..MaxLen : s \in [1..n -> Vals]
  BY DEF Sorted
<1>2. n \in Nat /\ s \in Seq(Vals) /\ Len(s) = n
  BY <1>1, ExtendAssumption
<1>3. \A i \in 1..n : s[i] \in Nat
  BY <1>1, ExtendAssumption
<1>4. \A i \in 1..(n - 1) : s[i] <= s[i + 1]
  BY <1>2 DEF Sorted, chk_sorted_intarray
<1> DEFINE T == {d \in Nat : \A i \in 1..n : i + d <= n => s[i] <= s[i + d]}
<1>5. 0 \in T
  BY <1>2, <1>3
<1>6. ASSUME NEW d \in Nat, d \in T PROVE d + 1 \in T
  <2> SUFFICES ASSUME NEW i \in 1..n, i + (d + 1) <= n PROVE s[i] <= s[i + (d + 1)]
    OBVIOUS
  <2>1. i + d \in 1..(n - 1) /\ i + d \in 1..n /\ (i + d) + 1 \in 1..n /\ (i + d) + 1 = i + (d + 1)
    BY <1>2
  <2>2. s[i] <= s[i + d] /\ s[i + d] <= s[(i + d) + 1]
    BY <1>4, <1>6, <2>1
  <2> QED
    BY <1>3, <2>1, <2>2
<1>7. Nat \subseteq T
  <2> HIDE DEF T
  <2> QED
    BY <1>5, <1>6, AP!NatSetInduction
<1>8. ASSUME NEW i \in 1..n, NEW j \in 1..n, i <= j PROVE s[i] <= s[j]
  <2>1. j - i \in Nat /\ i + (j - i) = j
    BY <1>2, <1>8
  <2>2. j - i \in T
    BY <1>7, <2>1
  <2> QED
    BY <2>1, <2>2, <1>2
<1> QED
  BY <1>1, <1>2, <1>3, <1>8

\* A value occurs in two disjoint sets of places as often as in the two together.
LEMMA OccurrencesAdd ==
  ASSUME NEW f, NEW v, NEW A, NEW B, IsFiniteSet(A), IsFiniteSet(B), A \cap B = {}
  PROVE  /\ Occurrences(f, A, v) \in Nat /\ Occurrences(f, B, v) \in Nat
         /\ Occurrences(f, A \cup B, v) = Occurrences(f, A, v) + Occurrences(f, B, v)
<1> DEFINE At(D) == {k \in D : f[k] = v}
<1>1. IsFiniteSet(At(A)) /\ IsFiniteSet(At(B))
  BY FS_Subset, At(A) \subseteq A, At(B) \subseteq B
<1>2. At(A \cup B) = At(A) \cup At(B) /\ At(A) \cap At(B) = {}
  OBVIOUS
<1> HIDE DEF At
<1>3. Cardinality(At(A)) \in Nat /\ Cardinality(At(B)) \in Nat /\ Cardinality(At(A) \cap At(B)) = 0
  BY <1>1, <1>2, FS_CardinalityType, FS_EmptySet
<1>4. Cardinality(At(A \cup B)) = Cardinality(At(A)) + Cardinality(At(B))
  <2>1. Cardinality(At(A) \cup At(B))
          = Cardinality(At(A)) + Cardinality(At(B)) - Cardinality(At(A) \cap At(B))
    BY <1>1, FS_Union
  <2>2. Cardinality(At(A \cup B)) = Cardinality(At(A) \cup At(B))
    BY <1>2, Zenon
  <2>3. \A c, x, y, z : c = x + y - z /\ x \in Nat /\ y \in Nat /\ z = 0 => c = x + y
    OBVIOUS
  <2> QED
    BY <1>3, <2>1, <2>2, <2>3
<1> QED
  BY <1>3, <1>4 DEF Occurrences, At

\* A block that is moved one to one has every value as often as before.
LEMMA OccurrencesMove ==
  ASSUME NEW f, NEW g, NEW v, NEW A, NEW B, IsFiniteSet(A), NEW m \in [A -> B],
         \A k, l \in A : m[k] = m[l] => k = l,
         \A q \in B : \E k \in A : m[k] = q,
         \A k \in A : g[m[k]] = f[k]
  PROVE  Occurrences(g, B, v) = Occurrences(f, A, v)
<1> DEFINE P == {k \in A : f[k] = v}
           Q == {k \in B : g[k] = v}
           h == [k \in P |-> m[k]]
<1>1. /\ \A k \in P : m[k] \in Q
      /\ \A k, l \in P : m[k] = m[l] => k = l
      /\ \A q \in Q : \E k \in P : m[k] = q
  OBVIOUS
<1>2. IsFiniteSet(P)
  BY FS_Subset, P \subseteq A
<1> HIDE DEF P, Q
<1>3. h \in [P -> Q]
  BY <1>1
<1>4. \A k, l \in P : h[k] = h[l] => k = l
  BY <1>1
<1>5. \A q \in Q : \E k \in P : h[k] = q
  BY <1>1
<1>6. ExistsBijection(P, Q)
  <2> HIDE DEF h
  <2>1. h \in Injection(P, Q)
    BY <1>3, <1>4, Zenon DEF Injection, IsInjective
  <2>2. h \in Surjection(P, Q)
    BY <1>3, <1>5, Zenon DEF Surjection
  <2> QED
    BY <2>1, <2>2, Zenon DEF ExistsBijection, Bijection
<1>7. Cardinality(Q) = Cardinality(P)
  BY <1>2, <1>6, FS_Bijection
<1> QED
  BY <1>7 DEF Occurrences, P, Q

\* Where two arrays agree a value occurs equally often.
LEMMA OccurrencesSame ==
  ASSUME NEW f, NEW g, NEW v, NEW D, \A k \in D : g[k] = f[k]
  PROVE  Occurrences(g, D, v) = Occurrences(f, D, v)
<1>1. {k \in D : g[k] = v} = {k \in D : f[k] = v}
  OBVIOUS
<1> QED
  BY <1>1 DEF Occurrences

-----------------------------------------------------------------------------
(***************************************************************************)
(* The insertion of a block.                                               *)
(***************************************************************************)

Places == 0..(2 * MaxLen - 1)
Memory == [Places -> Vals \cup {Undef}]

\* The first w places are written, and in order.
Written(b, w) ==
  /\ b \in Memory
  /\ \A k \in Places : b[k] = Undef <=> k >= w
  /\ \A j, k \in 0..(w - 1) : j <= k => b[j] <= b[k]

\* o elements of the source, from a on, are put at p; n elements from p on make way.
Inserted(b, p, a, o, n) == memcpy(memmove(b, p + o, p, n), p, a, o)

\* What is written is a number.
LEMMA WrittenNumbers ==
  ASSUME NEW b, NEW w \in 0..(2 * MaxLen), Written(b, w)
  PROVE  \A k \in 0..(w - 1) : k \in Places /\ b[k] \in Vals /\ b[k] \in Nat
<1> TAKE k \in 0..(w - 1)
<1>1. k \in Places /\ ~ k >= w
  BY ExtendAssumption DEF Places
<1>2. b[k] \in Vals
  BY <1>1 DEF Written, Memory
<1> QED
  BY <1>1, <1>2, ExtendAssumption

\* The memory after an insertion, place by place.
LEMMA InsertedPlaces ==
  ASSUME NEW b, NEW w \in 0..(2 * MaxLen), Written(b, w), NEW p \in 0..w, NEW a \in Nat, NEW o \in Nat,
         src \in Seq(Vals), a + o <= Len(src), w + o <= 2 * MaxLen,
         NEW c, c = Inserted(b, p, a, o, w - p)
  PROVE  /\ c \in Memory
         /\ \A k \in Places :
              c[k] = IF k < p THEN b[k]
                     ELSE IF k < p + o THEN src[a + (k - p) + 1]
                     ELSE IF k < w + o THEN b[k - o] ELSE b[k]
<1> DEFINE d == memmove(b, p + o, p, w - p)
<1>1. b \in Memory /\ DOMAIN b = Places
  BY DEF Written, Memory
<1>2. \A k \in Places : d[k] = IF k \in (p + o)..(p + o + (w - p) - 1) THEN b[p + k - (p + o)] ELSE b[k]
  BY <1>1 DEF memmove
<1>3. DOMAIN d = Places
  BY <1>1 DEF memmove
<1> HIDE DEF d
<1>4. /\ DOMAIN c = Places
      /\ c = [k \in Places |-> IF k \in p..(p + o - 1) THEN src[a + k - p + 1] ELSE d[k]]
  BY <1>3 DEF Inserted, memcpy, d
<1>5. \A k \in Places : c[k] = IF k \in p..(p + o - 1) THEN src[a + k - p + 1] ELSE d[k]
  BY <1>4
<1>6. ASSUME NEW k \in Places
      PROVE  c[k] = IF k < p THEN b[k]
                    ELSE IF k < p + o THEN src[a + (k - p) + 1]
                    ELSE IF k < w + o THEN b[k - o] ELSE b[k]
  <2>1. /\ k \in p..(p + o - 1) <=> ~ k < p /\ k < p + o
        /\ k \in (p + o)..(p + o + (w - p) - 1) <=> ~ k < p + o /\ k < w + o
        /\ p + k - (p + o) = k - o /\ a + k - p + 1 = a + (k - p) + 1
        /\ k < p => k < p + o
    BY DEF Places
  <2> QED
    BY <1>2, <1>5, <2>1
<1>7. \A k \in Places : c[k] \in Vals \cup {Undef}
  <2> TAKE k \in Places
  <2>1. ~ k < p /\ k < p + o => a + (k - p) + 1 \in 1..Len(src)
    BY DEF Places
  <2>2. ~ k < p + o /\ k < w + o => k - o \in Places
    BY ExtendAssumption DEF Places
  <2>3. \A i \in 1..Len(src) : src[i] \in Vals
    OBVIOUS
  <2>4. k < p => k < p + o
    BY DEF Places
  <2> QED
    BY <1>1, <1>6, <2>1, <2>2, <2>3 DEF Memory
<1> QED
  BY <1>4, <1>6, <1>7 DEF Memory

\* An insertion keeps the order when the block fits at its place.
LEMMA InsertKeepsOrder ==
  ASSUME src \in Sorted,
         NEW b, NEW w \in 0..(2 * MaxLen), Written(b, w), NEW p \in 0..w, NEW a \in Nat, NEW o \in Nat,
         a + o <= Len(src), w + o <= 2 * MaxLen,
         o > 0 /\ p > 0 => b[p - 1] <= src[a + 1],
         o > 0 /\ p < w => src[a + o] <= b[p],
         NEW c, c = Inserted(b, p, a, o, w - p)
  PROVE  Written(c, w + o)
<1>1. /\ src \in Seq(Vals) /\ Len(src) \in Nat
      /\ \A i \in 1..Len(src) : src[i] \in Nat
      /\ \A i, j \in 1..Len(src) : i <= j => src[i] <= src[j]
  BY SortedArrays
<1>2. /\ c \in Memory
      /\ \A k \in Places :
           c[k] = IF k < p THEN b[k]
                  ELSE IF k < p + o THEN src[a + (k - p) + 1]
                  ELSE IF k < w + o THEN b[k - o] ELSE b[k]
  BY <1>1, InsertedPlaces
<1>3. \A k \in 0..(w - 1) : k \in Places /\ b[k] \in Nat
  BY WrittenNumbers
<1>4. \A j, k \in 0..(w - 1) : j <= k => b[j] <= b[k]
  BY DEF Written
<1>5. ASSUME NEW k \in Places PROVE c[k] = Undef <=> k >= w + o
  <2>1. b[k] = Undef <=> k >= w
    BY DEF Written
  <2>2. CASE k < p
    <3>1. k \in 0..(w - 1) /\ ~ k >= w + o
      BY <2>2 DEF Places
    <3>2. c[k] = b[k] /\ b[k] \in Nat
      BY <1>2, <2>2, <1>3, <3>1
    <3> QED
      BY <3>1, <3>2 DEF Undef
  <2>3. CASE ~ k < p /\ k < p + o
    <3>1. a + (k - p) + 1 \in 1..Len(src) /\ ~ k >= w + o
      BY <1>1, <2>3 DEF Places
    <3>2. c[k] = src[a + (k - p) + 1] /\ src[a + (k - p) + 1] \in Nat
      BY <1>1, <1>2, <2>3, <3>1
    <3> QED
      BY <3>1, <3>2 DEF Undef
  <2>4. CASE ~ k < p + o /\ k < w + o
    <3>1. k - o \in 0..(w - 1) /\ ~ k >= w + o /\ ~ k < p
      BY <2>4 DEF Places
    <3> QED
      BY <1>2, <2>4, <1>3, <3>1 DEF Undef
  <2>5. CASE ~ k < w + o
    <3>1. k >= w /\ k >= w + o /\ ~ k < p /\ ~ k < p + o
      BY <2>5 DEF Places
    <3> QED
      BY <1>2, <2>1, <2>5, <3>1
  <2> QED
    BY <2>2, <2>3, <2>4, <2>5
<1>6. ASSUME NEW j \in 0..(w + o - 1), NEW k \in 0..(w + o - 1), j <= k PROVE c[j] <= c[k]
  <2>1. j \in Places /\ k \in Places
    BY ExtendAssumption DEF Places
  <2>2. ASSUME NEW i \in 0..(w + o - 1)
        PROVE  /\ i < p => i \in 0..(w - 1) /\ c[i] = b[i] /\ p - 1 \in 0..(w - 1) /\ i <= p - 1
               /\ ~ i < p /\ i < p + o => /\ a + (i - p) + 1 \in 1..Len(src)
                                          /\ c[i] = src[a + (i - p) + 1]
                                          /\ a + 1 \in 1..Len(src) /\ a + o \in 1..Len(src)
                                          /\ a + 1 <= a + (i - p) + 1 /\ a + (i - p) + 1 <= a + o
               /\ ~ i < p + o => i - o \in 0..(w - 1) /\ c[i] = b[i - o] /\ p \in 0..(w - 1) /\ p <= i - o
    <3>1. i \in Places
      BY ExtendAssumption DEF Places
    <3> QED
      BY <1>1, <1>2, <3>1
  <2>3. CASE k < p
    <3>1. j < p
      BY <1>6, <2>3
    <3>2. c[j] = b[j] /\ c[k] = b[k] /\ j \in 0..(w - 1) /\ k \in 0..(w - 1)
      BY <2>2, <2>3, <3>1
    <3> QED
      BY <1>4, <1>6, <3>2
  <2>4. CASE ~ k < p /\ k < p + o
    <3>1. CASE j < p
      <4>1. b[j] <= b[p - 1] /\ b[p - 1] <= src[a + 1] /\ src[a + 1] <= src[a + (k - p) + 1]
        <5>1. o > 0 /\ p > 0
          BY <2>4, <3>1
        <5> QED
          BY <1>1, <1>4, <2>2, <2>4, <3>1, <5>1
      <4>2. b[j] \in Nat /\ b[p - 1] \in Nat /\ src[a + 1] \in Nat /\ src[a + (k - p) + 1] \in Nat
        BY <1>1, <1>3, <2>2, <2>4, <3>1
      <4>3. c[j] = b[j] /\ c[k] = src[a + (k - p) + 1]
        BY <2>2, <2>4, <3>1
      <4>4. \A x, y, z, u \in Nat : x <= y /\ y <= z /\ z <= u => x <= u
        OBVIOUS
      <4>5. b[j] <= src[a + (k - p) + 1]
        BY <4>1, <4>2, <4>4
      <4> QED
        BY <4>3, <4>5
    <3>2. CASE ~ j < p
      <4>1. j < p + o /\ a + (j - p) + 1 <= a + (k - p) + 1
        BY <1>6, <2>4
      <4> QED
        BY <1>1, <2>2, <2>4, <3>2, <4>1
    <3> QED
      BY <3>1, <3>2
  <2>5. CASE ~ k < p + o
    <3>1. CASE j < p
      <4>1. j <= k - o
        BY <2>5, <3>1
      <4> QED
        BY <1>4, <2>2, <2>5, <3>1, <4>1
    <3>2. CASE ~ j < p /\ j < p + o
      <4>1. src[a + (j - p) + 1] <= src[a + o] /\ src[a + o] <= b[p] /\ b[p] <= b[k - o]
        <5>1. o > 0 /\ p < w
          BY <2>2, <2>5, <3>2
        <5> QED
          BY <1>1, <1>4, <2>2, <2>5, <3>2, <5>1
      <4>2. src[a + (j - p) + 1] \in Nat /\ src[a + o] \in Nat /\ b[p] \in Nat /\ b[k - o] \in Nat
        BY <1>1, <1>3, <2>2, <2>5, <3>2
      <4>3. c[j] = src[a + (j - p) + 1] /\ c[k] = b[k - o]
        BY <2>2, <2>5, <3>2
      <4>4. \A x, y, z, u \in Nat : x <= y /\ y <= z /\ z <= u => x <= u
        OBVIOUS
      <4>5. src[a + (j - p) + 1] <= b[k - o]
        BY <4>1, <4>2, <4>4
      <4> QED
        BY <4>3, <4>5
    <3>3. CASE ~ j < p + o
      <4>1. j - o <= k - o
        BY <1>6
      <4> QED
        BY <1>4, <2>2, <2>5, <3>3, <4>1
    <3> QED
      BY <3>1, <3>2, <3>3
  <2> QED
    BY <2>3, <2>4, <2>5
<1> QED
  BY <1>2, <1>5, <1>6 DEF Written

\* An insertion adds the elements of the block and overwrites none of the others.
LEMMA InsertAdds ==
  ASSUME src \in Seq(Vals),
         NEW b, NEW w \in 0..(2 * MaxLen), Written(b, w), NEW p \in 0..w, NEW a \in Nat, NEW o \in Nat,
         a + o <= Len(src), w + o <= 2 * MaxLen,
         NEW c, c = Inserted(b, p, a, o, w - p), NEW v
  PROVE  Occurrences(c, 0..(w + o - 1), v)
           = Occurrences(b, 0..(w - 1), v) + Occurrences(src, (a + 1)..(a + o), v)
<1>1. \A k \in Places :
        c[k] = IF k < p THEN b[k]
               ELSE IF k < p + o THEN src[a + (k - p) + 1]
               ELSE IF k < w + o THEN b[k - o] ELSE b[k]
  BY InsertedPlaces
<1>2. MaxLen \in Nat
  BY ExtendAssumption
<1> DEFINE Front0 == 0..(p - 1)
           Block == p..(p + o - 1)
           Rest == (p + o)..(w + o - 1)
<1>3. Occurrences(c, Front0, v) = Occurrences(b, Front0, v)
  <2>1. \A k \in Front0 : k \in Places /\ k < p
    BY <1>2 DEF Places
  <2>2. \A k \in Front0 : c[k] = b[k]
    BY <1>1, <2>1
  <2> QED
    BY <2>2, OccurrencesSame
<1>4. Occurrences(c, Block, v) = Occurrences(src, (a + 1)..(a + o), v)
  <2>1. \A k \in (a + 1)..(a + o) : c[k + (p - a - 1)] = src[k]
    <3> TAKE k \in (a + 1)..(a + o)
    <3> DEFINE q == k + (p - a - 1)
    <3>1. q \in Places /\ ~ q < p /\ q < p + o /\ a + (q - p) + 1 = k
      BY <1>2 DEF Places
    <3> HIDE DEF q
    <3>2. c[q] = src[k]
      BY <1>1, <3>1
    <3> QED
      BY <3>2 DEF q
  <2>2. p - a - 1 \in Int /\ a + 1 \in Int /\ a + o \in Int /\ (a + 1) + (p - a - 1) = p /\ (a + o) + (p - a - 1) = p + o - 1
    OBVIOUS
  <2>3. Occurrences(c, p..(p + o - 1), v) = Occurrences(src, (a + 1)..(a + o), v)
    <3> DEFINE A == (a + 1)..(a + o)
               B == p..(p + o - 1)
               m == [k \in A |-> k + (p - a - 1)]
    <3>1. IsFiniteSet(A)
      BY <2>2, FS_Interval
    <3>2. \A k \in A : k \in Int /\ k + (p - a - 1) \in B
      BY <2>2
    <3>3. \A q \in B : q - (p - a - 1) \in A /\ q = (q - (p - a - 1)) + (p - a - 1)
      BY <2>2
    <3>4. \A k \in A : c[k + (p - a - 1)] = src[k]
      BY <2>1
    <3> HIDE DEF A, B
    <3>5. m \in [A -> B] /\ \A k \in A : m[k] = k + (p - a - 1)
      BY <3>2
    <3>6. \A k, l \in A : m[k] = m[l] => k = l
      BY <2>2, <3>2, <3>5
    <3>7. \A q \in B : \E k \in A : m[k] = q
      BY <3>3, <3>5
    <3>8. \A k \in A : c[m[k]] = src[k]
      BY <3>4, <3>5
    <3> HIDE DEF m
    <3>9. Occurrences(c, B, v) = Occurrences(src, A, v)
      BY <3>1, <3>5, <3>6, <3>7, <3>8, OccurrencesMove
    <3> QED
      BY <3>9 DEF A, B
  <2> QED
    BY <2>2, <2>3
<1>5. Occurrences(c, Rest, v) = Occurrences(b, p..(w - 1), v)
  <2>1. \A k \in p..(w - 1) : c[k + o] = b[k]
    <3> TAKE k \in p..(w - 1)
    <3>1. k + o \in Places /\ ~ k + o < p /\ ~ k + o < p + o /\ k + o < w + o /\ (k + o) - o = k
      BY <1>2 DEF Places
    <3> QED
      BY <1>1, <3>1
  <2>2. o \in Int /\ p \in Int /\ w - 1 \in Int /\ (w - 1) + o = w + o - 1
    OBVIOUS
  <2>3. Occurrences(c, (p + o)..(w + o - 1), v) = Occurrences(b, p..(w - 1), v)
    <3> DEFINE A == p..(w - 1)
               B == (p + o)..(w + o - 1)
               m == [k \in A |-> k + o]
    <3>1. IsFiniteSet(A)
      BY <2>2, FS_Interval
    <3>2. \A k \in A : k \in Int /\ k + o \in B
      BY <2>2
    <3>3. \A q \in B : q - o \in A /\ q = (q - o) + o
      BY <2>2
    <3>4. \A k \in A : c[k + o] = b[k]
      BY <2>1
    <3> HIDE DEF A, B
    <3>5. m \in [A -> B] /\ \A k \in A : m[k] = k + o
      BY <3>2
    <3>6. \A k, l \in A : m[k] = m[l] => k = l
      BY <2>2, <3>2, <3>5
    <3>7. \A q \in B : \E k \in A : m[k] = q
      BY <3>3, <3>5
    <3>8. \A k \in A : c[m[k]] = b[k]
      BY <3>4, <3>5
    <3> HIDE DEF m
    <3>9. Occurrences(c, B, v) = Occurrences(b, A, v)
      BY <3>1, <3>5, <3>6, <3>7, <3>8, OccurrencesMove
    <3> QED
      BY <3>9 DEF A, B
  <2> QED
    BY <2>2, <2>3
<1>6. IsFiniteSet(Front0) /\ IsFiniteSet(Block) /\ IsFiniteSet(Rest) /\ IsFiniteSet(p..(w - 1))
  <2>1. p \in Int /\ p - 1 \in Int /\ p + o \in Int /\ p + o - 1 \in Int /\ w + o - 1 \in Int /\ w - 1 \in Int
    OBVIOUS
  <2>2. \A x, y \in Int : IsFiniteSet(x..y)
    BY FS_Interval
  <2> QED
    BY <2>1, <2>2
<1>7. /\ (Front0 \cup Block) \cup Rest = 0..(w + o - 1)
      /\ Front0 \cup (p..(w - 1)) = 0..(w - 1)
      /\ Front0 \cap Block = {} /\ (Front0 \cup Block) \cap Rest = {} /\ Front0 \cap (p..(w - 1)) = {}
  <2>1. Front0 \cup Block = 0..(p + o - 1) /\ Front0 \cap Block = {}
    OBVIOUS
  <2>2. Front0 \cup (p..(w - 1)) = 0..(w - 1) /\ Front0 \cap (p..(w - 1)) = {}
    OBVIOUS
  <2>3. (0..(p + o - 1)) \cup Rest = 0..(w + o - 1) /\ (0..(p + o - 1)) \cap Rest = {}
    OBVIOUS
  <2> HIDE DEF Front0, Block, Rest
  <2> QED
    BY <2>1, <2>2, <2>3, Zenon
<1>8. IsFiniteSet(Front0 \cup Block)
  BY <1>6, FS_Union
<1> HIDE DEF Front0, Block, Rest
<1>9. /\ Occurrences(c, Front0 \cup Block, v) = Occurrences(c, Front0, v) + Occurrences(c, Block, v)
      /\ Occurrences(c, (Front0 \cup Block) \cup Rest, v)
           = Occurrences(c, Front0 \cup Block, v) + Occurrences(c, Rest, v)
      /\ Occurrences(b, Front0 \cup (p..(w - 1)), v)
           = Occurrences(b, Front0, v) + Occurrences(b, p..(w - 1), v)
      /\ Occurrences(b, Front0, v) \in Nat /\ Occurrences(b, p..(w - 1), v) \in Nat
      /\ Occurrences(c, Block, v) \in Nat
  BY <1>6, <1>7, <1>8, OccurrencesAdd
<1> DEFINE x == Occurrences(b, Front0, v)
           y == Occurrences(b, p..(w - 1), v)
           z == Occurrences(c, Block, v)
<1>10. Occurrences(c, 0..(w + o - 1), v) = (x + z) + y /\ Occurrences(b, 0..(w - 1), v) = x + y
  BY <1>3, <1>5, <1>7, <1>9
<1>11. x \in Nat /\ y \in Nat /\ z \in Nat
  BY <1>9
<1>12. z = Occurrences(src, (a + 1)..(a + o), v)
  BY <1>4
<1> HIDE DEF x, y, z
<1>13. (x + z) + y = (x + y) + z
  BY <1>11
<1> QED
  BY <1>10, <1>12, <1>13

\* To move nothing changes nothing.
LEMMA NothingMoved ==
  ASSUME NEW b \in Memory, NEW p \in Int, NEW w \in Int, w - p = 0, NEW a, NEW o \in Int
  PROVE  Inserted(b, p, a, o, w - p) = memcpy(b, p, a, o)
<1> DEFINE d == memmove(b, p + o, p, 0)
<1>1. \A x \in Int : x..(x + 0 - 1) = {}
  OBVIOUS
<1>2. d = [k \in DOMAIN b |-> b[k]]
  <2>1. (p + o)..((p + o) + 0 - 1) = {}
    BY <1>1
  <2> QED
    BY <2>1 DEF memmove
<1>3. d = b
  BY <1>2 DEF Memory
<1> QED
  BY <1>3 DEF Inserted

\* The elements of the source that go in front of v: at least one, and all that are not above v.
LEMMA CopyLenFits ==
  ASSUME src \in Sorted, sarr \in Nat, slen \in Nat \ {0}, sarr + slen <= Len(src),
         NEW v \in Int, src[sarr + 1] <= v,
         NEW o, o = CopyLen(v)
  PROVE  o \in 1..slen /\ src[sarr + o] <= v
<1> DEFINE stop == {k \in 1..(slen - 1) : src[sarr + k + 1] > v}
<1>1. \A i \in 1..Len(src) : src[i] \in Nat
  BY SortedArrays
<1>2. o = IF stop = {} THEN slen ELSE CHOOSE k \in stop : \A j \in stop : k <= j
  BY DEF CopyLen, S
<1>3. \A k \in 1..slen : k - 1 \in 1..(slen - 1) /\ k - 1 \notin stop => src[sarr + k] <= v
  <2> TAKE k \in 1..slen
  <2>1. sarr + (k - 1) + 1 = sarr + k /\ sarr + k \in 1..Len(src)
    BY SortedArrays
  <2> QED
    BY <1>1, <2>1
<1>4. CASE stop = {}
  <2>1. slen = 1 \/ slen - 1 \in 1..(slen - 1)
    OBVIOUS
  <2> HIDE DEF stop
  <2> QED
    BY <1>2, <1>3, <1>4, <2>1
<1>5. CASE stop # {}
  <2>1. \E k \in stop : \A j \in stop : k <= j
    <3>1. stop \in SUBSET Nat
      OBVIOUS
    <3> HIDE DEF stop
    <3> QED
      BY <1>5, <3>1, AP!LeastNumber
  <2>2. o \in stop /\ \A j \in stop : o <= j
    <3> HIDE DEF stop
    <3> QED
      BY <1>2, <1>5, <2>1
  <2>3. o \in 1..(slen - 1)
    BY <2>2
  <2>4. o - 1 \notin stop
    BY <2>2, <2>3
  <2> HIDE DEF stop
  <2>5. o = 1 \/ o - 1 \in 1..(slen - 1)
    BY <2>3
  <2> QED
    BY <1>3, <2>3, <2>4, <2>5
<1> QED
  BY <1>4, <1>5

-----------------------------------------------------------------------------
(***************************************************************************)
(* The inductive invariant.                                                *)
(***************************************************************************)

\* How many places are written, and which elements of the source are in them.
Wrote == IF pc = "done" THEN Total ELSE Total - slen
TakenOf == IF pc = "done" THEN 1..Len(src) ELSE (1..sarr) \cup ((sarr + slen + 1)..Len(src))

CountedIn ==
  \A v : Occurrences(buf, 0..(Wrote - 1), v)
           = Occurrences(dst, 1..Len(dst), v) + Occurrences(src, TakenOf, v)

AtEntry ==
  /\ sarr = 0 /\ slen = Len(src) /\ darr = 0 /\ dlen = Len(dst) /\ darr_lastelt = Len(dst)
  /\ \A k \in 1..Len(dst) : buf[k - 1] = dst[k]

\* What is left of the source goes behind darr, where the rest of the destination is.
Behind ==
  /\ 0 < dlen /\ dlen <= darr_lastelt /\ buf[darr + dlen - 1] = dend
  /\ darr > 0 => buf[darr - 1] <= src[sarr + 1]

AtTail == slen > 0 /\ Behind /\ sarr + slen = Len(src) /\ dlen = darr_lastelt
AtLoop == slen > 0 => Behind /\ src[sarr + slen] <= dend

MInv ==
  /\ src \in Sorted /\ dst \in Sorted
  /\ sarr \in Nat /\ slen \in Nat /\ sarr + slen <= Len(src)
  /\ darr \in 0..Total /\ dlen \in 0..Len(dst) /\ darr_lastelt \in 0..Total
  /\ pc \in {"entry", "tail", "loop", "done"}
  /\ Written(buf, Wrote) /\ CountedIn
  /\ pc # "done" => darr + darr_lastelt + slen = Total
  /\ pc = "entry" => AtEntry
  /\ pc = "tail" => AtTail
  /\ pc = "loop" => AtLoop

\* Lengths, and the elements of both arrays.
LEMMA Arrays ==
  ASSUME MInv
  PROVE  /\ src \in Seq(Vals) /\ dst \in Seq(Vals) /\ MaxLen \in Nat
         /\ Len(src) \in 0..MaxLen /\ Len(dst) \in 0..MaxLen
         /\ Total = Len(dst) + Len(src) /\ Total \in 0..(2 * MaxLen) /\ Wrote \in 0..Total
         /\ \A i \in 1..Len(src) : src[i] \in Nat
         /\ \A i, j \in 1..Len(src) : i <= j => src[i] <= src[j]
         /\ \A i \in 1..Len(dst) : dst[i] \in Nat
         /\ \A i, j \in 1..Len(dst) : i <= j => dst[i] <= dst[j]
<1>1. src \in Sorted /\ dst \in Sorted /\ slen \in Nat /\ sarr \in Nat /\ sarr + slen <= Len(src)
  BY DEF MInv
<1>2. /\ src \in Seq(Vals) /\ Len(src) \in 0..MaxLen
      /\ \A i \in 1..Len(src) : src[i] \in Nat
      /\ \A i, j \in 1..Len(src) : i <= j => src[i] <= src[j]
  BY <1>1, SortedArrays
<1>3. /\ dst \in Seq(Vals) /\ Len(dst) \in 0..MaxLen
      /\ \A i \in 1..Len(dst) : dst[i] \in Nat
      /\ \A i, j \in 1..Len(dst) : i <= j => dst[i] <= dst[j]
  BY <1>1, SortedArrays
<1>4. MaxLen \in Nat
  BY ExtendAssumption
<1>5. Total \in 0..(2 * MaxLen) /\ Wrote \in 0..Total
  <2>1. Len(src) \in 0..MaxLen /\ Len(dst) \in 0..MaxLen /\ slen <= Len(src)
    BY <1>1, <1>2, <1>3
  <2> QED
    BY <1>1, <1>4, <2>1 DEF Total, Wrote
<1> QED
  BY <1>2, <1>3, <1>4, <1>5 DEF Total

\* A step that inserts what it takes of the source, where it fits.
LEMMA InsertStep ==
  ASSUME MInv, pc # "done", src' = src, dst' = dst,
         NEW p \in 0..Wrote, NEW a \in Nat, NEW o \in Nat, a >= sarr, a + o <= sarr + slen,
         o > 0 /\ p > 0 => buf[p - 1] <= src[a + 1],
         o > 0 /\ p < Wrote => src[a + o] <= buf[p],
         buf' = Inserted(buf, p, a, o, Wrote - p),
         Wrote' = Wrote + o, TakenOf' = TakenOf \cup ((a + 1)..(a + o))
  PROVE  /\ Written(buf', Wrote') /\ CountedIn'
         /\ \A k \in 0..(p - 1) : buf'[k] = buf[k]
         /\ \A k \in p..(p + o - 1) : buf'[k] = src[a + (k - p) + 1]
         /\ \A k \in (p + o)..(Wrote + o - 1) : buf'[k] = buf[k - o]
<1>1. /\ src \in Sorted /\ src \in Seq(Vals) /\ MaxLen \in Nat /\ Wrote \in 0..(2 * MaxLen)
      /\ a + o <= Len(src) /\ Written(buf, Wrote)
      /\ sarr \in Nat /\ slen \in Nat /\ Len(src) \in Nat /\ sarr + slen <= Len(src)
  <2>1. /\ src \in Sorted /\ Written(buf, Wrote)
        /\ sarr \in Nat /\ slen \in Nat /\ sarr + slen <= Len(src)
    BY DEF MInv
  <2>2. /\ src \in Seq(Vals) /\ MaxLen \in Nat /\ Len(src) \in 0..MaxLen
        /\ Total \in 0..(2 * MaxLen) /\ Wrote \in 0..Total
    BY Arrays
  <2> QED
    BY <2>1, <2>2
<1>2. Wrote + o <= 2 * MaxLen
  <2>1. Wrote = Total - slen /\ Total <= 2 * MaxLen /\ Total \in Nat /\ o <= slen
    BY <1>1, Arrays DEF Wrote
  <2> QED
    BY <1>1, <2>1
<1>3. Written(buf', Wrote')
  BY <1>1, <1>2, InsertKeepsOrder
<1>4. CountedIn'
  <2> SUFFICES ASSUME NEW v
               PROVE  Occurrences(buf', 0..(Wrote' - 1), v)
                        = Occurrences(dst, 1..Len(dst), v) + Occurrences(src, TakenOf', v)
    BY DEF CountedIn
  <2> DEFINE block == (a + 1)..(a + o)
  <2>1. Occurrences(buf', 0..(Wrote + o - 1), v)
          = Occurrences(buf, 0..(Wrote - 1), v) + Occurrences(src, block, v)
    BY <1>1, <1>2, InsertAdds
  <2>2. Occurrences(buf, 0..(Wrote - 1), v)
          = Occurrences(dst, 1..Len(dst), v) + Occurrences(src, TakenOf, v)
    BY DEF MInv, CountedIn
  <2>3. TakenOf \cap block = {}
    BY <1>1 DEF TakenOf
  <2>4. IsFiniteSet(TakenOf) /\ IsFiniteSet(block) /\ IsFiniteSet(1..Len(dst))
    <3>1. /\ sarr + slen + 1 \in Int /\ Len(src) \in Int /\ Len(dst) \in Int /\ sarr \in Int
          /\ a + 1 \in Int /\ a + o \in Int
      BY <1>1, Arrays
    <3>2. \A x, y \in Int : IsFiniteSet(x..y)
      BY FS_Interval
    <3>3. IsFiniteSet(1..sarr) /\ IsFiniteSet((sarr + slen + 1)..Len(src)) /\ IsFiniteSet(1..Len(dst))
      BY <3>1, <3>2
    <3>4. IsFiniteSet((1..sarr) \cup ((sarr + slen + 1)..Len(src)))
      BY <3>3, FS_Union
    <3> QED
      BY <3>1, <3>2, <3>3, <3>4 DEF TakenOf
  <2> HIDE DEF block
  <2>5. /\ Occurrences(src, TakenOf \cup block, v) = Occurrences(src, TakenOf, v) + Occurrences(src, block, v)
        /\ Occurrences(src, TakenOf, v) \in Nat /\ Occurrences(src, block, v) \in Nat
    BY <2>3, <2>4, OccurrencesAdd
  <2>6. Occurrences(dst, 1..Len(dst), v) \in Nat
    <3>1. (1..Len(dst)) \cap {} = {} /\ IsFiniteSet({})
      BY FS_EmptySet
    <3> QED
      BY <2>4, <3>1, OccurrencesAdd
  <2> DEFINE x == Occurrences(dst, 1..Len(dst), v)
             y == Occurrences(src, TakenOf, v)
             z == Occurrences(src, block, v)
  <2>7. Occurrences(buf', 0..(Wrote' - 1), v) = (x + y) + z
    <3>1. Wrote' - 1 = Wrote + o - 1
      BY <1>1
    <3>2. Occurrences(buf', 0..(Wrote' - 1), v) = Occurrences(buf', 0..(Wrote + o - 1), v)
      BY <3>1, Zenon
    <3> QED
      BY <2>1, <2>2, <3>2
  <2>8. Occurrences(src, TakenOf', v) = y + z
    BY <2>5 DEF block
  <2>9. x \in Nat /\ y \in Nat /\ z \in Nat
    BY <2>5, <2>6
  <2> HIDE DEF x, y, z
  <2>10. (x + y) + z = x + (y + z)
    BY <2>9
  <2> QED
    BY <2>7, <2>8, <2>10 DEF x
<1>5. \A k \in Places :
        buf'[k] = IF k < p THEN buf[k]
                  ELSE IF k < p + o THEN src[a + (k - p) + 1]
                  ELSE IF k < Wrote + o THEN buf[k - o] ELSE buf[k]
  BY <1>1, <1>2, InsertedPlaces
<1>6. /\ \A k \in 0..(p - 1) : k \in Places /\ k < p
      /\ \A k \in p..(p + o - 1) : k \in Places /\ ~ k < p /\ k < p + o
      /\ \A k \in (p + o)..(Wrote + o - 1) : k \in Places /\ ~ k < p /\ ~ k < p + o /\ k < Wrote + o
  BY <1>1, <1>2 DEF Places
<1> QED
  BY <1>3, <1>4, <1>5, <1>6

\* A step that writes nothing.
LEMMA NothingWritten ==
  ASSUME MInv, src' = src, dst' = dst, buf' = buf, Wrote' = Wrote, TakenOf' = TakenOf
  PROVE  Written(buf', Wrote') /\ CountedIn'
<1>1. Written(buf, Wrote) /\ CountedIn
  BY DEF MInv
<1>2. Written(buf', Wrote')
  BY <1>1
<1>3. CountedIn'
  <2> SUFFICES ASSUME NEW v
               PROVE  Occurrences(buf', 0..(Wrote' - 1), v)
                        = Occurrences(dst, 1..Len(dst), v) + Occurrences(src, TakenOf', v)
    BY DEF CountedIn
  <2> QED
    BY <1>1, Zenon DEF CountedIn
<1> QED
  BY <1>2, <1>3

\* At the call: nothing of the source is in the memory, and it holds the destination.
LEMMA InitMInv ==
  ASSUME EInit PROVE MInv
<1>1. /\ src \in Sorted /\ dst \in Sorted /\ MaxLen \in Nat
      /\ src \in Seq(Vals) /\ Len(src) \in 0..MaxLen
      /\ dst \in Seq(Vals) /\ Len(dst) \in 0..MaxLen
      /\ \A i \in 1..Len(dst) : dst[i] \in Vals /\ dst[i] \in Nat
      /\ \A i, j \in 1..Len(dst) : i <= j => dst[i] <= dst[j]
  <2>1. src \in Sorted /\ dst \in Sorted
    BY DEF EInit
  <2>2. src \in Seq(Vals) /\ Len(src) \in 0..MaxLen
    BY <2>1, SortedArrays
  <2>3. /\ dst \in Seq(Vals) /\ Len(dst) \in 0..MaxLen
        /\ \A i \in 1..Len(dst) : dst[i] \in Nat
        /\ \A i, j \in 1..Len(dst) : i <= j => dst[i] <= dst[j]
    BY <2>1, SortedArrays
  <2>4. \A i \in 1..Len(dst) : dst[i] \in Vals
    BY <2>3
  <2> QED
    BY <2>1, <2>2, <2>3, <2>4, ExtendAssumption
<1>2. /\ sarr = 0 /\ slen = Len(src) /\ darr = 0 /\ dlen = Len(dst) /\ darr_lastelt = Len(dst)
      /\ pc = "entry" /\ buf = [k \in Places |-> IF k < Len(dst) THEN dst[k + 1] ELSE Undef]
  BY DEF EInit, Places
<1>3. Wrote = Len(dst) /\ TakenOf = {} /\ Total = Len(dst) + Len(src)
  <2>1. 1..0 = {} /\ (0 + Len(src) + 1)..Len(src) = {}
    BY <1>1
  <2> QED
    BY <1>1, <1>2, <2>1 DEF Wrote, TakenOf, Total
<1>4. \A k \in Places : buf[k] = IF k < Len(dst) THEN dst[k + 1] ELSE Undef
  BY <1>2
<1>5. \A k \in 0..(Len(dst) - 1) : k \in Places /\ k < Len(dst) /\ k + 1 \in 1..Len(dst)
  BY <1>1 DEF Places
<1>6. \A k \in Places : k < Len(dst) => k + 1 \in 1..Len(dst)
  BY <1>1 DEF Places
<1>7. Written(buf, Wrote)
  <2>1. buf \in Memory
    BY <1>1, <1>2, <1>6 DEF Memory
  <2>2. \A k \in Places : buf[k] = Undef <=> k >= Len(dst)
    <3> TAKE k \in Places
    <3>1. k < Len(dst) <=> ~ k >= Len(dst)
      BY <1>1 DEF Places
    <3>2. k < Len(dst) => buf[k] # Undef
      BY <1>1, <1>4, <1>6 DEF Undef
    <3> QED
      BY <1>4, <3>1, <3>2
  <2>3. \A j, k \in 0..(Len(dst) - 1) : j <= k => buf[j] <= buf[k]
    <3> TAKE j, k \in 0..(Len(dst) - 1)
    <3> HAVE j <= k
    <3>1. buf[j] = dst[j + 1] /\ buf[k] = dst[k + 1]
      BY <1>4, <1>5
    <3>2. j + 1 \in 1..Len(dst) /\ k + 1 \in 1..Len(dst) /\ j + 1 <= k + 1
      BY <1>5
    <3> QED
      BY <1>1, <3>1, <3>2
  <2> QED
    BY <1>3, <2>1, <2>2, <2>3 DEF Written
<1>8. \A k \in 1..Len(dst) : buf[k - 1] = dst[k]
  <2> TAKE k \in 1..Len(dst)
  <2>1. k - 1 \in 0..(Len(dst) - 1) /\ (k - 1) + 1 = k
    BY <1>1
  <2> QED
    BY <1>4, <1>5, <2>1
<1>9. CountedIn
  <2> SUFFICES ASSUME NEW v
               PROVE  Occurrences(buf, 0..(Wrote - 1), v)
                        = Occurrences(dst, 1..Len(dst), v) + Occurrences(src, TakenOf, v)
    BY DEF CountedIn
  <2> DEFINE A == 1..Len(dst)
             B == 0..(Len(dst) - 1)
             m == [k \in A |-> k - 1]
  <2>1. IsFiniteSet(A)
    <3>1. 1 \in Int /\ Len(dst) \in Int
      BY <1>1
    <3> QED
      BY <3>1, FS_Interval
  <2>2. \A k \in A : k \in Int /\ k - 1 \in B /\ buf[k - 1] = dst[k]
    BY <1>1, <1>8
  <2>3. \A q \in B : q + 1 \in A /\ q = (q + 1) - 1
    BY <1>1
  <2> HIDE DEF A, B
  <2>4. m \in [A -> B] /\ \A k \in A : m[k] = k - 1
    BY <2>2
  <2>5. \A k, l \in A : m[k] = m[l] => k = l
    BY <2>2, <2>4
  <2>6. \A q \in B : \E k \in A : m[k] = q
    BY <2>3, <2>4
  <2>7. \A k \in A : buf[m[k]] = dst[k]
    BY <2>2, <2>4
  <2> HIDE DEF m
  <2>8. Occurrences(buf, B, v) = Occurrences(dst, A, v)
    BY <2>1, <2>4, <2>5, <2>6, <2>7, OccurrencesMove
  <2>9. Occurrences(src, {}, v) = 0 /\ Occurrences(dst, A, v) \in Nat
    <3>1. {k \in {} : src[k] = v} = {}
      OBVIOUS
    <3>2. Occurrences(src, {}, v) = 0
      BY <3>1, FS_EmptySet DEF Occurrences
    <3>3. IsFiniteSet({}) /\ A \cap {} = {}
      BY FS_EmptySet
    <3> QED
      BY <2>1, <3>2, <3>3, OccurrencesAdd
  <2>10. 0..(Wrote - 1) = B
    BY <1>3 DEF B
  <2>11. Occurrences(buf, 0..(Wrote - 1), v) = Occurrences(dst, A, v)
    BY <2>8, <2>10
  <2>12. Occurrences(src, TakenOf, v) = 0
    BY <1>3, <2>9
  <2> QED
    BY <2>9, <2>11, <2>12 DEF A
<1>10. AtEntry
  BY <1>2, <1>8 DEF AtEntry
<1> QED
  BY <1>1, <1>2, <1>3, <1>7, <1>9, <1>10 DEF MInv

\* What holds when the loop has not ended.
LEMMA NotDone ==
  ASSUME MInv, pc # "done"
  PROVE  /\ sarr \in Nat /\ slen \in Nat /\ sarr + slen <= Len(src)
         /\ darr \in Nat /\ dlen \in Nat /\ darr_lastelt \in Nat
         /\ Wrote = darr + darr_lastelt /\ darr + darr_lastelt + slen = Total
         /\ buf \in Memory /\ \A k \in 0..(Wrote - 1) : buf[k] \in Nat
         /\ TakenOf = (1..sarr) \cup ((sarr + slen + 1)..Len(src))
<1>1. /\ sarr \in Nat /\ slen \in Nat /\ sarr + slen <= Len(src)
      /\ darr \in 0..Total /\ dlen \in 0..Len(dst) /\ darr_lastelt \in 0..Total
      /\ darr + darr_lastelt + slen = Total /\ Written(buf, Wrote)
  BY DEF MInv
<1>2. Total \in 0..(2 * MaxLen) /\ Len(dst) \in 0..MaxLen /\ MaxLen \in Nat /\ Wrote \in 0..Total
  BY Arrays
<1>3. darr \in Nat /\ dlen \in Nat /\ darr_lastelt \in Nat /\ Total \in Nat
  BY <1>1, <1>2
<1>4. Wrote = darr + darr_lastelt
  BY <1>1, <1>3 DEF Wrote
<1>5. \A k \in 0..(Wrote - 1) : buf[k] \in Nat
  <2>1. Wrote \in 0..(2 * MaxLen)
    BY <1>2
  <2> QED
    BY <1>1, <2>1, WrittenNumbers
<1> QED
  BY <1>1, <1>3, <1>4, <1>5 DEF TakenOf, Written

\* The source or the destination is empty.
LEMMA TrivialStep ==
  ASSUME MInv, Trivial PROVE MInv'
<1>1. /\ pc = "entry" /\ pc' = "done" /\ (slen = 0 \/ dlen = 0)
      /\ buf' = memcpy(buf, Len(dst), 0, slen)
      /\ src' = src /\ dst' = dst /\ sarr' = sarr /\ slen' = slen
      /\ darr' = darr /\ dlen' = dlen /\ darr_lastelt' = darr_lastelt
  BY DEF Trivial
<1>2. /\ sarr = 0 /\ slen = Len(src) /\ darr = 0 /\ dlen = Len(dst) /\ darr_lastelt = Len(dst)
  BY <1>1 DEF MInv, AtEntry
<1>3. Len(dst) \in Nat /\ Len(src) \in Nat /\ Wrote = Len(dst) /\ Total = Wrote + slen /\ buf \in Memory
  BY <1>1, <1>2, NotDone, Arrays
<1>4. buf' = Inserted(buf, Len(dst), 0, slen, Wrote - Len(dst))
  <2>1. Wrote - Len(dst) = 0 /\ Wrote \in Int /\ Len(dst) \in Int /\ slen \in Int
    BY <1>2, <1>3
  <2> QED
    BY <1>1, <1>3, <2>1, NothingMoved
<1>5. Wrote' = Wrote + slen /\ TakenOf' = TakenOf \cup ((0 + 1)..(0 + slen))
  <2>1. Total' = Total /\ Wrote' = Total' /\ TakenOf' = 1..Len(src)
    BY <1>1 DEF Total, Wrote, TakenOf
  <2>2. TakenOf = {}
    BY <1>1, <1>2, <1>3 DEF TakenOf
  <2> QED
    BY <1>2, <1>3, <2>1, <2>2
<1>6. Written(buf', Wrote') /\ CountedIn'
  <2>1. Len(dst) \in 0..Wrote /\ 0 \in Nat /\ slen \in Nat /\ 0 >= sarr /\ 0 + slen <= sarr + slen /\ pc # "done"
    BY <1>1, <1>2, <1>3
  <2>2. ~ (slen > 0 /\ Len(dst) > 0) /\ ~ Len(dst) < Wrote
    BY <1>1, <1>2, <1>3
  <2> QED
    BY <1>1, <1>4, <1>5, <2>1, <2>2, InsertStep
<1>7. /\ src' \in Sorted /\ dst' \in Sorted
      /\ sarr' \in Nat /\ slen' \in Nat /\ sarr' + slen' <= Len(src')
      /\ darr' \in 0..Total' /\ dlen' \in 0..Len(dst') /\ darr_lastelt' \in 0..Total'
  BY <1>1 DEF MInv, Total
<1> QED
  BY <1>1, <1>6, <1>7 DEF MInv

\* The source, or what of it lies below the destination, goes in front.
LEMMA FrontStep ==
  ASSUME MInv, Front PROVE MInv'
<1> DEFINE idx == bin_insert_int(src, sarr + 1, slen, dfirst)
<1>1. /\ pc = "entry" /\ slen > 0 /\ dlen > 0
      /\ src' = src /\ dst' = dst /\ dlen' = dlen /\ darr_lastelt' = darr_lastelt
  BY DEF Front
<1>2. /\ sarr = 0 /\ slen = Len(src) /\ darr = 0 /\ dlen = Len(dst) /\ darr_lastelt = Len(dst)
      /\ \A k \in 1..Len(dst) : buf[k - 1] = dst[k]
  BY <1>1 DEF MInv, AtEntry
<1>3. /\ Len(dst) \in Nat \ {0} /\ Len(src) \in Nat \ {0} /\ Wrote = Len(dst) /\ Total = Wrote + slen
      /\ TakenOf = {} /\ buf \in Memory
  <2>1. Len(dst) \in Nat /\ Len(src) \in Nat /\ Wrote = Len(dst) /\ Total = Wrote + slen /\ buf \in Memory
    BY <1>1, <1>2, NotDone, Arrays
  <2> QED
    BY <1>1, <1>2, <2>1 DEF TakenOf
<1>4. buf[0] = dfirst /\ buf[dlen - 1] = dend /\ dfirst \in Nat /\ dend \in Nat
  <2>1. 1 \in 1..Len(dst) /\ Len(dst) \in 1..Len(dst) /\ 1 - 1 = 0
    BY <1>3
  <2>2. buf[1 - 1] = dst[1] /\ buf[Len(dst) - 1] = dst[Len(dst)] /\ dst[1] \in Nat /\ dst[Len(dst)] \in Nat
    BY <1>2, <2>1, Arrays
  <2> QED
    BY <1>2, <2>1, <2>2 DEF dfirst, dend
<1>5. Total' = Total /\ dend' = dend
  BY <1>1 DEF Total, dend
<1>6. CASE sfirst > dfirst
  <2>1. pc' = "tail" /\ buf' = buf /\ sarr' = sarr /\ slen' = slen /\ darr' = darr
    BY <1>6 DEF Front
  <2>2. Wrote' = Wrote /\ TakenOf' = TakenOf
    BY <1>1, <1>5, <2>1 DEF Wrote, TakenOf
  <2>3. Written(buf', Wrote') /\ CountedIn'
    BY <1>1, <2>1, <2>2, NothingWritten
  <2>4. AtTail'
    <3>1. Behind'
      BY <1>1, <1>2, <1>3, <1>4, <1>5, <2>1 DEF Behind
    <3> QED
      BY <1>1, <1>2, <2>1, <3>1 DEF AtTail
  <2> QED
    BY <1>1, <1>5, <2>1, <2>3, <2>4 DEF MInv
<1>7. CASE ~ sfirst > dfirst /\ send <= dfirst
  <2>1. /\ buf' = memcpy(memmove(buf, slen, 0, dlen), 0, 0, slen)
        /\ pc' = "done" /\ sarr' = sarr /\ slen' = slen /\ darr' = darr
    BY <1>7 DEF Front
  <2>2. buf' = Inserted(buf, 0, 0, slen, Wrote - 0)
    <3>1. 0 + slen = slen /\ Wrote - 0 = dlen
      BY <1>2, <1>3
    <3> QED
      BY <2>1, <3>1 DEF Inserted
  <2>3. Wrote' = Wrote + slen /\ TakenOf' = TakenOf \cup ((0 + 1)..(0 + slen))
    <3>1. Wrote' = Total /\ TakenOf' = 1..Len(src)
      BY <1>1, <1>5, <2>1 DEF Wrote, TakenOf
    <3> QED
      BY <1>2, <1>3, <3>1
  <2>4. Written(buf', Wrote') /\ CountedIn'
    <3>1. 0 \in 0..Wrote /\ 0 \in Nat /\ slen \in Nat /\ 0 >= sarr /\ 0 + slen <= sarr + slen /\ pc # "done"
      BY <1>1, <1>2, <1>3
    <3>2. src[0 + slen] <= buf[0] /\ ~ 0 > 0
      BY <1>2, <1>3, <1>4, <1>7 DEF send
    <3> QED
      BY <1>1, <2>2, <2>3, <3>1, <3>2, InsertStep
  <2> QED
    BY <1>1, <1>5, <2>1, <2>4 DEF MInv
<1>8. CASE ~ sfirst > dfirst /\ ~ send <= dfirst
  <2>1. /\ buf' = memcpy(memmove(buf, idx, 0, dlen), 0, 0, idx)
        /\ slen' = slen - idx /\ sarr' = sarr + idx /\ darr' = darr + idx
        /\ pc' = "tail"
    BY <1>8 DEF Front
  <2>2. idx \in 0..(slen - 1) /\ (idx # 0 => src[idx] <= dfirst)
    <3>1. \A i \in 0..(slen - 1) : 1 + i \in 1..Len(src) /\ sarr + 1 + i = 1 + i
      BY <1>2, <1>3
    <3>2. \A i \in 0..(slen - 1) : src[(sarr + 1) + i] \in Int
      BY <3>1, Arrays
    <3>3. dfirst <= src[(sarr + 1) + (slen - 1)] /\ dfirst \in Int
      <4>1. (sarr + 1) + (slen - 1) = Len(src) /\ Len(src) \in 1..Len(src)
        BY <1>2, <1>3
      <4>2. send \in Nat /\ src[(sarr + 1) + (slen - 1)] = send
        BY <4>1, Arrays DEF send
      <4> QED
        BY <1>4, <1>8, <4>2
    <3>4. slen \in Nat \ {0} /\ sarr + 1 \in Nat
      BY <1>2, <1>3
    <3>5. idx \in 0..(slen - 1) /\ (idx # 0 => src[(sarr + 1) + idx - 1] <= dfirst)
      BY <3>2, <3>3, <3>4, BinInsertFinds
    <3> HIDE DEF idx
    <3>6. (sarr + 1) + idx - 1 = idx
      BY <1>2, <3>5
    <3> QED
      BY <3>5, <3>6
  <2> HIDE DEF idx
  <2>3. buf' = Inserted(buf, 0, 0, idx, Wrote - 0)
    <3>1. 0 + idx = idx /\ Wrote - 0 = dlen
      BY <1>2, <1>3, <2>2
    <3> QED
      BY <2>1, <3>1 DEF Inserted
  <2>4. Wrote' = Wrote + idx /\ TakenOf' = TakenOf \cup ((0 + 1)..(0 + idx))
    <3>1. Wrote' = Total - (slen - idx) /\ TakenOf' = (1..idx) \cup ((idx + (slen - idx) + 1)..Len(src))
      BY <1>1, <1>2, <1>5, <2>1, <2>2 DEF Wrote, TakenOf
    <3> QED
      BY <1>2, <1>3, <2>2, <3>1
  <2>5. /\ Written(buf', Wrote') /\ CountedIn'
        /\ \A k \in 0..(0 + idx - 1) : buf'[k] = src[0 + (k - 0) + 1]
        /\ \A k \in (0 + idx)..(Wrote + idx - 1) : buf'[k] = buf[k - idx]
    <3>1. /\ 0 \in 0..Wrote /\ 0 \in Nat /\ idx \in Nat /\ 0 >= sarr /\ 0 + idx <= sarr + slen
          /\ pc # "done" /\ 0 + idx = idx
      BY <1>1, <1>2, <1>3, <2>2
    <3>2. (idx > 0 => src[0 + idx] <= buf[0]) /\ ~ 0 > 0
      BY <1>4, <2>2, <3>1
    <3> QED
      BY <1>1, <2>3, <2>4, <3>1, <3>2, InsertStep
  <2>6. AtTail'
    <3>1. buf'[darr' + dlen' - 1] = dend'
      <4>1. /\ darr' + dlen' - 1 \in (0 + idx)..(Wrote + idx - 1)
            /\ (darr' + dlen' - 1) - idx = dlen - 1
        BY <1>1, <1>2, <1>3, <2>1, <2>2
      <4>2. buf'[darr' + dlen' - 1] = buf[(darr' + dlen' - 1) - idx]
        BY <2>5, <4>1
      <4>3. buf'[darr' + dlen' - 1] = buf[dlen - 1]
        BY <4>1, <4>2, Zenon
      <4> QED
        BY <1>4, <1>5, <4>3
    <3>2. darr' > 0 => buf'[darr' - 1] <= src'[sarr' + 1]
      <4> SUFFICES ASSUME darr' > 0 PROVE buf'[darr' - 1] <= src'[sarr' + 1]
        OBVIOUS
      <4>1. /\ darr' - 1 \in 0..(0 + idx - 1) /\ 0 + (darr' - 1 - 0) + 1 = idx
            /\ sarr' + 1 = idx + 1 /\ idx \in 1..Len(src) /\ idx + 1 \in 1..Len(src) /\ idx <= idx + 1
        BY <1>1, <1>2, <1>3, <2>1, <2>2
      <4>2. buf'[darr' - 1] = src[idx] /\ src[idx] <= src[idx + 1]
        BY <2>5, <4>1, Arrays
      <4> QED
        BY <1>1, <4>1, <4>2
    <3>3. Behind'
      BY <1>1, <1>2, <1>3, <3>1, <3>2 DEF Behind
    <3> QED
      BY <1>1, <1>2, <1>3, <2>1, <2>2, <3>3 DEF AtTail
  <2>7. /\ sarr' \in Nat /\ slen' \in Nat /\ sarr' + slen' <= Len(src')
        /\ darr' \in 0..Total' /\ dlen' \in 0..Len(dst') /\ darr_lastelt' \in 0..Total'
        /\ darr' + darr_lastelt' + slen' = Total'
    <3>1. /\ sarr' = idx /\ slen' = slen - idx /\ darr' = idx /\ Total' = Len(dst) + slen
          /\ dlen' = Len(dst) /\ darr_lastelt' = Len(dst)
      BY <1>1, <1>2, <1>3, <1>5, <2>1, <2>2
    <3> QED
      BY <1>1, <1>2, <1>3, <2>2, <3>1
  <2> QED
    BY <1>1, <2>1, <2>5, <2>6, <2>7 DEF MInv
<1> QED
  BY <1>6, <1>7, <1>8

\* The source, or what of it lies above the destination, goes at the end.
LEMMA BackStep ==
  ASSUME MInv, Back PROVE MInv'
<1> DEFINE idx == bin_insert_int(src, sarr + 1, slen, dend)
<1>1. /\ pc = "tail" /\ src' = src /\ dst' = dst /\ sarr' = sarr /\ darr' = darr /\ dlen' = dlen
  BY DEF Back
<1>2. /\ slen > 0 /\ Behind /\ sarr + slen = Len(src) /\ dlen = darr_lastelt
      /\ dlen > 0 /\ buf[darr + dlen - 1] = dend
  BY <1>1 DEF MInv, AtTail, Behind
<1>3. /\ Len(dst) \in Nat /\ Len(src) \in Nat /\ Wrote = darr + dlen /\ darr + dlen + slen = Total
      /\ sarr \in Nat /\ slen \in Nat /\ darr \in Nat /\ dlen \in Nat /\ Total \in Nat
      /\ TakenOf = (1..sarr) \cup ((sarr + slen + 1)..Len(src)) /\ buf \in Memory
  BY <1>1, <1>2, NotDone, Arrays
<1>4. dend \in Nat
  <2>1. darr + dlen - 1 \in 0..(Wrote - 1)
    BY <1>2, <1>3
  <2> QED
    BY <1>1, <1>2, <2>1, NotDone
<1>5. Total' = Total /\ dend' = dend
  BY <1>1 DEF Total, dend
<1>6. send = src[sarr + slen] /\ send \in Nat
  <2>1. sarr + slen \in 1..Len(src)
    BY <1>2, <1>3
  <2> QED
    BY <1>2, <2>1, Arrays DEF send
<1>7. CASE send < dend
  <2>1. pc' = "loop" /\ buf' = buf /\ slen' = slen /\ darr_lastelt' = darr_lastelt
    BY <1>7 DEF Back
  <2>2. Wrote' = Wrote /\ TakenOf' = TakenOf
    BY <1>1, <1>5, <2>1 DEF Wrote, TakenOf
  <2>3. Written(buf', Wrote') /\ CountedIn'
    BY <1>1, <2>1, <2>2, NothingWritten
  <2>4. AtLoop'
    <3>1. Behind'
      BY <1>1, <1>2, <1>5, <2>1 DEF Behind
    <3>2. src[sarr + slen] <= dend
      BY <1>4, <1>6, <1>7
    <3> QED
      BY <1>1, <1>5, <2>1, <3>1, <3>2 DEF AtLoop
  <2> QED
    BY <1>1, <1>5, <2>1, <2>3, <2>4 DEF MInv
<1>8. CASE ~ send < dend /\ sfirst >= dend
  <2>1. /\ buf' = memcpy(buf, darr + dlen, sarr, slen)
        /\ pc' = "done" /\ slen' = slen /\ darr_lastelt' = darr_lastelt
    BY <1>8 DEF Back
  <2>2. buf' = Inserted(buf, darr + dlen, sarr, slen, Wrote - (darr + dlen))
    <3>1. Wrote - (darr + dlen) = 0 /\ Wrote \in Int /\ darr + dlen \in Int /\ slen \in Int
      BY <1>3
    <3> QED
      BY <1>3, <2>1, <3>1, NothingMoved
  <2>3. Wrote' = Wrote + slen /\ TakenOf' = TakenOf \cup ((sarr + 1)..(sarr + slen))
    <3>1. Wrote' = Total /\ TakenOf' = 1..Len(src)
      BY <1>1, <1>5, <2>1 DEF Wrote, TakenOf
    <3> QED
      BY <1>2, <1>3, <3>1
  <2>4. Written(buf', Wrote') /\ CountedIn'
    <3>1. darr + dlen \in 0..Wrote /\ sarr >= sarr /\ sarr + slen <= sarr + slen /\ pc # "done"
      BY <1>1, <1>3
    <3>2. buf[(darr + dlen) - 1] <= src[sarr + 1]
      <4>1. 1 \in 1..Len(src) /\ sarr + 1 \in 1..Len(src) /\ 1 <= sarr + 1
        BY <1>2, <1>3
      <4>2. src[1] <= src[sarr + 1] /\ src[1] \in Nat /\ src[sarr + 1] \in Nat
        BY <4>1, Arrays
      <4>3. dend <= src[1]
        BY <1>8 DEF sfirst
      <4>4. dend <= src[sarr + 1]
        BY <1>4, <4>2, <4>3
      <4>5. (darr + dlen) - 1 = darr + (dlen - 1)
        BY <1>3
      <4> QED
        BY <1>2, <4>4, <4>5, Zenon
    <3>3. ~ darr + dlen < Wrote
      BY <1>3
    <3> QED
      BY <1>1, <1>3, <2>2, <2>3, <3>1, <3>2, <3>3, InsertStep
  <2> QED
    BY <1>1, <1>5, <2>1, <2>4 DEF MInv
<1>9. CASE ~ send < dend /\ ~ sfirst >= dend
  <2>1. /\ buf' = memcpy(buf, darr + dlen, sarr + idx, slen - idx)
        /\ slen' = idx /\ darr_lastelt' = darr_lastelt + slen - idx
        /\ pc' = "loop"
    BY <1>9 DEF Back
  <2>2. idx \in 0..(slen - 1) /\ dend <= src[sarr + idx + 1] /\ (idx # 0 => src[sarr + idx] <= dend)
    <3>1. \A i \in 0..(slen - 1) : (sarr + 1) + i \in 1..Len(src)
      BY <1>2, <1>3
    <3>2. \A i \in 0..(slen - 1) : src[(sarr + 1) + i] \in Int
      BY <3>1, Arrays
    <3>3. dend <= src[(sarr + 1) + (slen - 1)] /\ dend \in Int
      <4>1. (sarr + 1) + (slen - 1) = sarr + slen
        BY <1>3
      <4> QED
        BY <1>4, <1>6, <1>9, <4>1
    <3>4. slen \in Nat \ {0} /\ sarr + 1 \in Nat
      BY <1>2, <1>3
    <3>5. /\ idx \in 0..(slen - 1) /\ dend <= src[(sarr + 1) + idx]
          /\ (idx # 0 => src[(sarr + 1) + idx - 1] <= dend)
      BY <3>2, <3>3, <3>4, BinInsertFinds
    <3> HIDE DEF idx
    <3>6. (sarr + 1) + idx - 1 = sarr + idx /\ (sarr + 1) + idx = sarr + idx + 1
      BY <1>3, <3>5
    <3> QED
      BY <3>5, <3>6
  <2> HIDE DEF idx
  <2>3. buf' = Inserted(buf, darr + dlen, sarr + idx, slen - idx, Wrote - (darr + dlen))
    <3>1. Wrote - (darr + dlen) = 0 /\ Wrote \in Int /\ darr + dlen \in Int /\ slen - idx \in Int
      BY <1>3, <2>2
    <3> QED
      BY <1>3, <2>1, <3>1, NothingMoved
  <2>4. /\ Wrote' = Wrote + (slen - idx)
        /\ TakenOf' = TakenOf \cup ((sarr + idx + 1)..(sarr + idx + (slen - idx)))
    <3>1. Wrote' = Total - idx /\ TakenOf' = (1..sarr) \cup ((sarr + idx + 1)..Len(src))
      BY <1>1, <1>5, <2>1 DEF Wrote, TakenOf
    <3>2. sarr + idx + (slen - idx) = Len(src) /\ (sarr + slen + 1)..Len(src) = {}
      BY <1>2, <1>3, <2>2
    <3> QED
      BY <1>2, <1>3, <2>2, <3>1, <3>2
  <2>5. /\ Written(buf', Wrote') /\ CountedIn'
        /\ \A k \in 0..((darr + dlen) - 1) : buf'[k] = buf[k]
    <3>1. /\ darr + dlen \in 0..Wrote /\ sarr + idx >= sarr /\ sarr + idx \in Nat /\ slen - idx \in Nat
          /\ sarr + idx + (slen - idx) <= sarr + slen /\ pc # "done"
      BY <1>1, <1>3, <2>2
    <3>2. buf[(darr + dlen) - 1] <= src[sarr + idx + 1]
      <4>1. (darr + dlen) - 1 = darr + (dlen - 1)
        BY <1>3
      <4> QED
        BY <1>2, <2>2, <4>1, Zenon
    <3>3. ~ darr + dlen < Wrote
      BY <1>3
    <3> QED
      BY <1>1, <2>3, <2>4, <3>1, <3>2, <3>3, InsertStep
  <2>6. AtLoop'
    <3>1. darr + dlen - 1 \in 0..((darr + dlen) - 1) /\ (darr > 0 => darr - 1 \in 0..((darr + dlen) - 1))
      BY <1>2, <1>3
    <3>2. dlen <= darr_lastelt + slen - idx
      BY <1>2, <1>3, <2>2
    <3>3. Behind'
      BY <1>1, <1>2, <1>5, <2>1, <2>5, <3>1, <3>2 DEF Behind
    <3>4. slen' > 0 => src'[sarr' + slen'] <= dend'
      BY <1>1, <1>5, <2>1, <2>2
    <3> QED
      BY <3>3, <3>4 DEF AtLoop
  <2>7. /\ sarr' \in Nat /\ slen' \in Nat /\ sarr' + slen' <= Len(src')
        /\ darr' \in 0..Total' /\ darr_lastelt' \in 0..Total'
        /\ darr' + darr_lastelt' + slen' = Total'
    BY <1>1, <1>2, <1>3, <1>5, <2>1, <2>2
  <2>8. dlen' \in 0..Len(dst') /\ src' \in Sorted /\ dst' \in Sorted
    BY <1>1 DEF MInv
  <2> QED
    BY <1>1, <2>1, <2>5, <2>6, <2>7, <2>8 DEF MInv
<1> QED
  BY <1>7, <1>8, <1>9

\* One turn of the loop.
LEMMA MergeStep ==
  ASSUME MInv, Merge PROVE MInv'
<1> DEFINE idx == bin_insert_int(buf, darr, dlen, S(0))
           offset == CopyLen(buf[darr + idx])
<1>1. /\ pc = "loop" /\ slen > 0 /\ src' = src /\ dst' = dst /\ pc' = pc
      /\ buf' = memcpy(memmove(buf, darr + idx + offset, darr + idx, darr_lastelt - idx),
                       darr + idx, sarr, offset)
      /\ dlen' = dlen - idx /\ darr_lastelt' = darr_lastelt - idx
      /\ darr' = darr + idx + offset /\ sarr' = sarr + offset /\ slen' = slen - offset
  BY DEF Merge
<1>2. /\ dlen > 0 /\ dlen <= darr_lastelt /\ buf[darr + (dlen - 1)] = dend
      /\ (darr > 0 => buf[darr - 1] <= src[sarr + 1])
      /\ src[sarr + slen] <= dend
  BY <1>1 DEF MInv, AtLoop, Behind
<1>3. /\ Len(dst) \in Nat /\ Len(src) \in Nat
      /\ Wrote = darr + darr_lastelt /\ darr + darr_lastelt + slen = Total
      /\ sarr \in Nat /\ slen \in Nat /\ sarr + slen <= Len(src)
      /\ darr \in Nat /\ dlen \in Nat /\ darr_lastelt \in Nat /\ Total \in Nat
      /\ TakenOf = (1..sarr) \cup ((sarr + slen + 1)..Len(src)) /\ buf \in Memory
      /\ \A k \in 0..(Wrote - 1) : buf[k] \in Nat
      /\ src \in Sorted
  BY <1>1, NotDone, Arrays DEF MInv
<1>4. Total' = Total /\ dend' = dend
  BY <1>1 DEF Total, dend
<1>5. \A i \in 0..(dlen - 1) : darr + i \in 0..(Wrote - 1) /\ buf[darr + i] \in Nat
  <2>1. \A i \in 0..(dlen - 1) : darr + i \in 0..(Wrote - 1)
    BY <1>2, <1>3
  <2> QED
    BY <1>3, <2>1
<1>6. S(0) = src[sarr + 1] /\ S(0) \in Nat /\ S(0) <= dend /\ dend \in Nat
  <2>1. sarr + 1 \in 1..Len(src) /\ sarr + slen \in 1..Len(src) /\ sarr + 1 <= sarr + slen
        /\ sarr + 0 + 1 = sarr + 1
    BY <1>1, <1>3
  <2>2. S(0) = src[sarr + 1]
    BY <2>1 DEF S
  <2>3. src[sarr + 1] <= src[sarr + slen] /\ src[sarr + 1] \in Nat /\ src[sarr + slen] \in Nat
    BY <2>1, Arrays
  <2>4. dend \in Nat
    <3>1. dlen - 1 \in 0..(dlen - 1)
      BY <1>2, <1>3
    <3> QED
      BY <1>2, <1>5, <3>1
  <2>5. \A x, y, z \in Nat : x <= y /\ y <= z => x <= z
    OBVIOUS
  <2> QED
    BY <1>2, <2>2, <2>3, <2>4, <2>5
<1>7. /\ idx \in 0..(dlen - 1) /\ S(0) <= buf[darr + idx]
      /\ (idx # 0 => buf[darr + (idx - 1)] <= S(0))
  <2>1. S(0) <= buf[darr + (dlen - 1)] /\ S(0) \in Int
    BY <1>2, <1>6
  <2>2. \A i \in 0..(dlen - 1) : buf[darr + i] \in Int
    BY <1>5
  <2>3. dlen \in Nat \ {0} /\ darr \in Nat
    BY <1>2, <1>3
  <2> QED
    BY <2>1, <2>2, <2>3, BinInsertFinds
<1> HIDE DEF idx
<1>8. offset \in 1..slen /\ src[sarr + offset] <= buf[darr + idx]
  <2>1. buf[darr + idx] \in Int /\ src[sarr + 1] <= buf[darr + idx] /\ slen \in Nat \ {0}
    <3>1. buf[darr + idx] \in Nat
      BY <1>5, <1>7
    <3>2. src[sarr + 1] <= buf[darr + idx]
      BY <1>6, <1>7, Zenon
    <3> QED
      BY <1>1, <1>3, <3>1, <3>2
  <2> QED
    BY <1>3, <2>1, CopyLenFits
<1> HIDE DEF offset
<1> DEFINE p == darr + idx
<1>9. p \in 0..Wrote /\ p \in Nat /\ p < Wrote /\ Wrote - p = darr_lastelt - idx
  BY <1>2, <1>3, <1>7
<1>10. buf' = Inserted(buf, p, sarr, offset, Wrote - p)
  BY <1>1, <1>9 DEF Inserted
<1>11. Wrote' = Wrote + offset /\ TakenOf' = TakenOf \cup ((sarr + 1)..(sarr + offset))
  <2>1. Wrote' = Total - (slen - offset)
    BY <1>1, <1>4 DEF Wrote
  <2>2. TakenOf' = (1..(sarr + offset)) \cup (((sarr + offset) + (slen - offset) + 1)..Len(src))
    BY <1>1 DEF TakenOf
  <2>3. (sarr + offset) + (slen - offset) + 1 = sarr + slen + 1
    BY <1>3, <1>8
  <2>4. 1..(sarr + offset) = (1..sarr) \cup ((sarr + 1)..(sarr + offset))
    BY <1>3, <1>8
  <2>5. Wrote' = Wrote + offset
    BY <1>3, <1>8, <2>1
  <2> HIDE DEF offset, idx
  <2>6. TakenOf' = TakenOf \cup ((sarr + 1)..(sarr + offset))
    BY <1>3, <2>2, <2>3, <2>4
  <2> QED
    BY <2>5, <2>6
<1>12. p > 0 => buf[p - 1] <= src[sarr + 1]
  <2>1. CASE idx = 0
    <3>1. p = darr
      BY <1>3, <2>1
    <3> QED
      BY <1>2, <3>1
  <2>2. CASE idx # 0
    <3>1. p - 1 = darr + (idx - 1)
      BY <1>3, <1>7
    <3> QED
      BY <1>6, <1>7, <2>2, <3>1
  <2> QED
    BY <2>1, <2>2
<1> HIDE DEF p
<1>13. /\ Written(buf', Wrote') /\ CountedIn'
       /\ \A k \in p..(p + offset - 1) : buf'[k] = src[sarr + (k - p) + 1]
       /\ \A k \in (p + offset)..(Wrote + offset - 1) : buf'[k] = buf[k - offset]
  <2>1. sarr >= sarr /\ sarr + offset <= sarr + slen /\ pc # "done" /\ offset \in Nat
    BY <1>1, <1>3, <1>8
  <2>2. src[sarr + offset] <= buf[p]
    BY <1>8 DEF p
  <2>3. src' = src /\ dst' = dst /\ p \in 0..Wrote /\ sarr \in Nat
    BY <1>1, <1>3, <1>9
  <2>4. /\ offset > 0 /\ p > 0 => buf[p - 1] <= src[sarr + 1]
        /\ offset > 0 /\ p < Wrote => src[sarr + offset] <= buf[p]
    BY <1>12, <2>2, Zenon
  <2> QED
    BY <1>10, <1>11, <2>1, <2>3, <2>4, InsertStep, Zenon
<1>14. darr' = p + offset /\ dlen' \in Nat \ {0} /\ dlen' <= darr_lastelt' /\ darr_lastelt' \in Nat
  BY <1>1, <1>2, <1>3, <1>7, <1>8 DEF p
<1>15. AtLoop'
  <2> SUFFICES ASSUME slen' > 0 PROVE Behind' /\ src'[sarr' + slen'] <= dend'
    BY DEF AtLoop
  <2>1. buf'[darr' + (dlen' - 1)] = dend'
    <3>1. /\ darr' + (dlen' - 1) \in (p + offset)..(Wrote + offset - 1)
          /\ (darr' + (dlen' - 1)) - offset = darr + (dlen - 1)
      BY <1>1, <1>2, <1>3, <1>7, <1>8, <1>14 DEF p
    <3>2. buf'[darr' + (dlen' - 1)] = buf[(darr' + (dlen' - 1)) - offset]
      BY <1>13, <3>1
    <3>3. buf'[darr' + (dlen' - 1)] = buf[darr + (dlen - 1)]
      BY <3>1, <3>2, Zenon
    <3> QED
      BY <1>2, <1>4, <3>3
  <2>2. buf'[darr' - 1] <= src'[sarr' + 1]
    <3>1. /\ darr' - 1 \in p..(p + offset - 1) /\ sarr + ((darr' - 1) - p) + 1 = sarr + offset
          /\ sarr' + 1 = sarr + offset + 1
          /\ sarr + offset \in 1..Len(src) /\ sarr + offset + 1 \in 1..Len(src)
          /\ sarr + offset <= sarr + offset + 1
      <4>1. darr' = p + offset /\ sarr' = sarr + offset /\ offset < slen /\ offset \in Nat \ {0}
        BY <1>1, <1>3, <1>8, <1>14
      <4> QED
        BY <1>3, <1>9, <4>1
    <3>2. buf'[darr' - 1] = src[sarr + ((darr' - 1) - p) + 1]
      BY <1>13, <3>1
    <3>3. buf'[darr' - 1] = src[sarr + offset]
      BY <3>1, <3>2, Zenon
    <3>4. src[sarr + offset] <= src[sarr + offset + 1]
      BY <3>1, Arrays
    <3> QED
      BY <1>1, <3>1, <3>3, <3>4
  <2>3. src'[sarr' + slen'] <= dend'
    <3>1. sarr' + slen' = sarr + slen
      BY <1>1, <1>3, <1>8
    <3> QED
      BY <1>1, <1>2, <1>4, <3>1
  <2>4. 0 < dlen' /\ dlen' <= darr_lastelt'
    BY <1>14
  <2> QED
    BY <2>1, <2>2, <2>3, <2>4 DEF Behind
<1>16. /\ sarr' \in Nat /\ slen' \in Nat /\ sarr' + slen' <= Len(src')
       /\ darr' \in 0..Total' /\ darr_lastelt' \in 0..Total' /\ darr' + darr_lastelt' + slen' = Total'
  <2>1. /\ sarr' = sarr + offset /\ slen' = slen - offset /\ darr' = darr + idx + offset
        /\ darr_lastelt' = darr_lastelt - idx /\ Total' = Total /\ Len(src') = Len(src)
    BY <1>1, <1>4
  <2> QED
    BY <1>2, <1>3, <1>7, <1>8, <2>1
<1>17. dlen' \in 0..Len(dst')
  <2>1. dlen \in 0..Len(dst)
    BY DEF MInv
  <2> QED
    BY <1>1, <1>3, <1>7, <2>1
<1>18. src' \in Sorted /\ dst' \in Sorted
  BY <1>1 DEF MInv
<1> QED
  BY <1>1, <1>13, <1>15, <1>16, <1>17, <1>18 DEF MInv

\* The source is used up.
LEMMA MergedStep ==
  ASSUME MInv, Merged PROVE MInv'
<1>1. /\ pc = "loop" /\ slen = 0 /\ pc' = "done" /\ src' = src /\ dst' = dst /\ buf' = buf
      /\ sarr' = sarr /\ slen' = slen /\ darr' = darr /\ dlen' = dlen /\ darr_lastelt' = darr_lastelt
  BY DEF Merged
<1>2. /\ Total \in Nat /\ sarr \in Nat /\ Len(src) \in Nat /\ sarr + slen <= Len(src)
      /\ TakenOf = (1..sarr) \cup ((sarr + slen + 1)..Len(src))
  BY <1>1, NotDone, Arrays
<1>3. Wrote' = Wrote /\ TakenOf' = TakenOf
  <2>1. Wrote' = Total /\ Wrote = Total - slen /\ TakenOf' = 1..Len(src)
    BY <1>1 DEF Wrote, TakenOf, Total
  <2> QED
    BY <1>1, <1>2, <2>1
<1>4. Written(buf', Wrote') /\ CountedIn'
  BY <1>1, <1>3, NothingWritten
<1>5. /\ src' \in Sorted /\ dst' \in Sorted
      /\ sarr' \in Nat /\ slen' \in Nat /\ sarr' + slen' <= Len(src')
      /\ darr' \in 0..Total' /\ dlen' \in 0..Len(dst') /\ darr_lastelt' \in 0..Total'
  BY <1>1 DEF MInv, Total
<1> QED
  BY <1>1, <1>4, <1>5 DEF MInv

\* The invariant is inductive.
LEMMA NextMInv ==
  ASSUME MInv, [ENext]_evars PROVE MInv'
<1>1. CASE Trivial
  BY <1>1, TrivialStep
<1>2. CASE Front
  BY <1>2, FrontStep
<1>3. CASE Back
  BY <1>3, BackStep
<1>4. CASE Merge
  BY <1>4, MergeStep
<1>5. CASE Merged
  BY <1>5, MergedStep
<1>6. CASE UNCHANGED evars
  <2>1. /\ src' = src /\ dst' = dst /\ buf' = buf /\ sarr' = sarr /\ slen' = slen
        /\ darr' = darr /\ dlen' = dlen /\ darr_lastelt' = darr_lastelt /\ pc' = pc
    BY <1>6 DEF evars
  <2>2. Wrote' = Wrote /\ TakenOf' = TakenOf /\ Total' = Total /\ dend' = dend
    BY <2>1 DEF Wrote, TakenOf, Total, dend
  <2>3. Written(buf', Wrote') /\ CountedIn'
    BY <2>1, <2>2, NothingWritten
  <2> QED
    BY <2>1, <2>2, <2>3 DEF MInv, AtEntry, AtTail, AtLoop, Behind
<1> QED
  BY <1>1, <1>2, <1>3, <1>4, <1>5, <1>6 DEF ENext, Done

-----------------------------------------------------------------------------
(***************************************************************************)
(* Theorems.                                                               *)
(***************************************************************************)

\* The merge keeps its invariant: at every step what is written is in order, and is the
\* destination with what was taken of the source.
THEOREM MInvCorrect == ESpec => []MInv
<1>1. EInit => MInv
  BY InitMInv
<1>2. MInv /\ [ENext]_evars => MInv'
  BY NextMInv
<1> QED
  BY <1>1, <1>2, PTL DEF ESpec

\* Types: positions and lengths stay within dat->len.
THEOREM TypeCorrect == ESpec => []ETypeOK
<1>1. MInv => ETypeOK
  <2> SUFFICES ASSUME MInv PROVE ETypeOK
    OBVIOUS
  <2>1. /\ sarr \in Nat /\ slen \in Nat /\ sarr + slen <= Len(src)
        /\ darr \in 0..Total /\ dlen \in 0..Len(dst) /\ darr_lastelt \in 0..Total
        /\ pc \in {"entry", "tail", "loop", "done"} /\ buf \in Memory
    BY DEF MInv, Written
  <2> QED
    BY <2>1 DEF ETypeOK, Memory, Places
<1> QED
  BY <1>1, MInvCorrect, PTL

\* In the loop the room left is that of the rest of the source, and bin_insert_int is never
\* called on an empty array: the assert()s of the loop.
THEOREM RoomForTheRestCorrect == ESpec => []RoomForTheRest
<1>1. MInv => RoomForTheRest
  <2> SUFFICES ASSUME MInv PROVE RoomForTheRest
    OBVIOUS
  <2>1. /\ Total \in 0..(2 * MaxLen) /\ MaxLen \in Nat /\ slen \in Nat /\ Wrote \in 0..Total
        /\ \A k \in Places : buf[k] = Undef <=> k >= Wrote
    BY Arrays DEF MInv, Written
  <2>2. CASE pc = "loop"
    <3>1. Wrote = Total - slen /\ darr + darr_lastelt + slen = Total
      BY <2>2 DEF Wrote, MInv
    <3>2. slen > 0 => dlen > 0 /\ S(0) <= dend
      <4> SUFFICES ASSUME slen > 0 PROVE dlen > 0 /\ S(0) <= dend
        OBVIOUS
      <4>1. dlen > 0 /\ src[sarr + slen] <= dend /\ buf[darr + (dlen - 1)] = dend /\ dlen <= darr_lastelt
        BY <2>2 DEF MInv, AtLoop, Behind
      <4>2. /\ sarr \in Nat /\ sarr + slen <= Len(src) /\ Len(src) \in Nat /\ darr \in Nat /\ dlen \in Nat
            /\ darr_lastelt \in Nat /\ Wrote = darr + darr_lastelt
            /\ \A k \in 0..(Wrote - 1) : buf[k] \in Nat
        BY <2>2, NotDone, Arrays
      <4>3. /\ sarr + 1 \in 1..Len(src) /\ sarr + slen \in 1..Len(src) /\ sarr + 1 <= sarr + slen
            /\ sarr + 0 + 1 = sarr + 1 /\ darr + (dlen - 1) \in 0..(Wrote - 1)
        BY <2>1, <4>1, <4>2
      <4>4. S(0) = src[sarr + 1]
        BY <4>3 DEF S
      <4>5. src[sarr + 1] <= src[sarr + slen] /\ src[sarr + 1] \in Nat /\ src[sarr + slen] \in Nat
        BY <4>3, Arrays
      <4>6. dend \in Nat
        BY <4>1, <4>2, <4>3
      <4>7. \A x, y, z \in Nat : x <= y /\ y <= z => x <= z
        OBVIOUS
      <4> QED
        BY <4>1, <4>4, <4>5, <4>6, <4>7
    <3>3. \A k \in Total..(2 * MaxLen - 1) : k \in Places /\ k >= Wrote
      BY <2>1 DEF Places
    <3> QED
      BY <2>1, <3>1, <3>2, <3>3 DEF RoomForTheRest, Places
  <2>3. CASE pc # "loop"
    <3>1. \A k \in Total..(2 * MaxLen - 1) : k \in Places /\ k >= Wrote
      BY <2>1 DEF Places
    <3> QED
      BY <2>1, <2>3, <3>1 DEF RoomForTheRest
  <2> QED
    BY <2>2, <2>3
<1> QED
  BY <1>1, MInvCorrect, PTL

\* When the function returns the array is the sorted merge of the two: it is in order, and every
\* value occurs as often as in the two arrays together.  That it returns is left to TLC.
THEOREM MergedSorted == ESpec => [](pc = "done" => ResultSorted /\ ElementsKept)
<1>1. MInv => (pc = "done" => ResultSorted /\ ElementsKept)
  <2> SUFFICES ASSUME MInv, pc = "done" PROVE ResultSorted /\ ElementsKept
    OBVIOUS
  <2>1. Wrote = Total /\ TakenOf = 1..Len(src) /\ Total \in Nat /\ Len(src) \in Nat /\ Len(dst) \in Nat
    BY Arrays DEF Wrote, TakenOf
  <2>2. Written(buf, Wrote) /\ CountedIn
    BY DEF MInv
  <2>3. ResultSorted
    <3> SUFFICES ASSUME NEW k \in 1..(Total - 1) PROVE buf[k - 1] <= buf[k]
      BY DEF ResultSorted
    <3>1. k - 1 \in 0..(Wrote - 1) /\ k \in 0..(Wrote - 1) /\ k - 1 <= k
      BY <2>1
    <3> QED
      BY <2>2, <3>1 DEF Written
  <2>4. ElementsKept
    <3> SUFFICES ASSUME NEW v \in Vals
                 PROVE  Occurrences(buf, 0..(Total - 1), v)
                          = Occurrences(src, 1..Len(src), v) + Occurrences(dst, 1..Len(dst), v)
      BY DEF ElementsKept
    <3>1. Occurrences(buf, 0..(Total - 1), v)
            = Occurrences(dst, 1..Len(dst), v) + Occurrences(src, 1..Len(src), v)
      BY <2>1, <2>2, Zenon DEF CountedIn
    <3>2. \A n \in Nat : Occurrences(src, 1..n, v) \in Nat /\ Occurrences(dst, 1..n, v) \in Nat
      <4> TAKE n \in Nat
      <4>1. IsFiniteSet(1..n) /\ IsFiniteSet({}) /\ (1..n) \cap {} = {}
        BY FS_Interval, FS_EmptySet
      <4> QED
        BY <4>1, OccurrencesAdd
    <3> DEFINE x == Occurrences(src, 1..Len(src), v)
               y == Occurrences(dst, 1..Len(dst), v)
    <3>3. x \in Nat /\ y \in Nat
      BY <2>1, <3>2
    <3>4. Occurrences(buf, 0..(Total - 1), v) = y + x
      BY <3>1
    <3> HIDE DEF x, y
    <3>5. y + x = x + y
      BY <3>3
    <3> QED
      BY <3>4, <3>5 DEF x, y
  <2> QED
    BY <2>3, <2>4
<1> QED
  BY <1>1, MInvCorrect, PTL
=============================================================================
