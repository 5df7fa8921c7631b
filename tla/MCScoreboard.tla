------------------------------ MODULE MCScoreboard ------------------------------
(* Model values for checking Scoreboard with TLC. *)
EXTENDS ScoreboardProperties

CONSTANTS u1, u2, p1, p2, c1, c2
=============================================================================
