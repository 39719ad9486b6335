------------------------------- MODULE MCCMat -------------------------------
(* Instances of CMat for TLC: equations are interchangeable.              *)
EXTENDS CMat, TLC

Symm == Permutations(Equs)
=============================================================================
