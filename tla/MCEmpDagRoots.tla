---------------------------- MODULE MCEmpDagRoots ----------------------------
(* EmpDagRoots with a bound on the arcs in place. *)
EXTENDS EmpDagRoots, FiniteSets

CONSTANT MaxArcs

ASSUME MaxArcsAssumption == MaxArcs \in Nat

NumArcs ==
  Cardinality(UNION {{<<m, r>> : r \in rarcs[m]} : m \in MpIds})
  + Cardinality(UNION {{<<n, r>> : r \in nash_rarcs[n]} : n \in NashIds})

ArcBound == NumArcs <= MaxArcs
=============================================================================
