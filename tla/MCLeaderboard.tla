--------------------------- MODULE MCLeaderboard ---------------------------
EXTENDS LeaderboardProperties

CONSTANTS c1, c2
=============================================================================
