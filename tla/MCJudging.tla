------------------------------ MODULE MCJudging ------------------------------
(* Instances of Judging for TLC: names for the workers and submissions, and *)
(* the failure budgets of the configurations.                               *)
EXTENDS JudgingProperties, TLC

CONSTANTS s1, s2, w1, w2
Symmetry == Permutations({w1, w2})

NoFailures   == [k \in FaultKinds |-> 0]
Overlapping  == [NoFailures EXCEPT !["slow"] = 1, !["docker"] = 1, !["broker"] = 1,
                                   !["delete"] = 1]
NoBroker     == [NoFailures EXCEPT !["broker"] = 1]
CrashAndDb   == [NoFailures EXCEPT !["crash"] = 1, !["db"] = 1, !["rejudge"] = 1]
=============================================================================
