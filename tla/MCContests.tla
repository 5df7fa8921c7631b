------------------------------ MODULE MCContests ------------------------------
(* Instances of Contests for TLC.                                           *)
EXTENDS ContestsProperties, TLC

CONSTANTS r1, r2, u1, u2, p1, p2, c0, t

ShortLists == {<<p1, p2>>, <<p2, p1>>, <<p1, p1>>}
=============================================================================
