----------------------------- MODULE MCMathPrgm -----------------------------
(* An instance of MathPrgm for TLC: an equality and a function, and two    *)
(* spare equations, which are interchangeable, so that a copy can be       *)
(* copied; v1 appears in both equations, v2 in the equality only.          *)
EXTENDS MathPrgm, TLC

CONSTANTS e1, e2, e3, e4, v1, v2, m1, m2

MCKinds == {(m1 :> "min" @@ m2 :> "max"), (m1 :> "min" @@ m2 :> "feasibility")}

MCStartEqu == (e1 :> [object |-> "coneinclusion", cone |-> "zero"]
               @@ e2 :> [object |-> "mapping", cone |-> "none"])

MCStartColumn == (v1 :> <<[ei |-> e1, nl |-> FALSE], [ei |-> e2, nl |-> TRUE]>>
                  @@ v2 :> <<[ei |-> e1, nl |-> FALSE]>>)

Symm == Permutations({e3, e4})
=============================================================================
