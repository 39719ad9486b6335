---------------------------- MODULE MCEmpDagArcs ----------------------------
(* EmpDagArcs with a bound on the arcs in place and on the MPs without a type. *)
EXTENDS EmpDagArcs, FiniteSets

CONSTANT MaxArcs

ASSUME MaxArcsAssumption == MaxArcs \in Nat

NumRarcs ==
  Cardinality(UNION {{<<m, r>> : r \in rarcs[m]} : m \in MpIds})
  + Cardinality(UNION {{<<n, r>> : r \in nash_rarcs[n]} : n \in NashIds})

ArcBound == NumRarcs <= MaxArcs

\* An MP without a type is one of three at most: with it a parent, the MP that is
\* substituted and the one that takes its place.
Undefined == {m \in MPs : mptype[m] = "undef"}
OneUndefined == Undefined = {} \/ (Cardinality(Undefined) = 1 /\ mps_len <= 3)
=============================================================================
