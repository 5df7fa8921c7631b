-------------------------- MODULE MCAdministration --------------------------
(* Two problems, one of them there from the start, two test cases.         *)
EXTENDS AdministrationProperties

CONSTANTS p1, p2, t1, t2
=============================================================================
