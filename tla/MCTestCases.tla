----------------------------- MODULE MCTestCases ------------------------------
(* Instances of TestCases for TLC.                                          *)
EXTENDS TestCasesProperties, TLC

CONSTANTS r1, r2, r3
Symmetry == Permutations(Requests)
=============================================================================
