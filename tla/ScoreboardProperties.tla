------------------------- MODULE ScoreboardProperties -------------------------
(***************************************************************************)
(* What the scoreboard should guarantee, and what the repository says of   *)
(* it that its code does not do.                                           *)
(***************************************************************************)
EXTENDS Scoreboard

SubmissionType == [minute : 0 .. End, status : Final \cup {"PENDING"}]
ResultType     == [solved : BOOLEAN, penalty : Nat, attempts : Nat]
ScoreType      == [solved : Nat, penalty : Nat, attempts : Nat]
IsBoard(b) == b.score \in [Users -> ScoreType] /\ b.rank \in [Users -> 1 .. Cardinality(Users)]

(* Type invariant of the scoreboard's state. *)
CacheTypeOK ==
  /\ now \in 0 .. End
  /\ subs \in [Queries -> Seq(SubmissionType)]
  /\ invalidating \in Nat /\ judgings \in 0 .. MaxJudgings /\ redisErrors \in 0 .. MaxRedisErrors
  /\ \A k \in Keys : Cached(k) => IsBoard(cache[k].board) /\ cache[k].ttl <= EndedTtl + OngoingTtl
  /\ \A c \in Clients :
       /\ req[c].phase \in {"idle", "lookup", "compute", "answered", "error"}
       /\ req[c].phase = "compute" =>
            /\ DOMAIN req[c].results \subseteq Queries
            /\ \A q \in DOMAIN req[c].results : req[c].results[q] \in ResultType
       /\ req[c].phase = "answered" => IsBoard(req[c].board)

-----------------------------------------------------------------------------
(* Safety                                                                  *)

(* Invalidation is enough: once every judge has invalidated, a cached board *)
(* is the current one, unless it was stored by a request that a commit      *)
(* overtook, or misses a change the code never invalidates for (a new       *)
(* submission, a status on the way, a compilation or judge error, a failed  *)
(* Redis call).                                                             *)
StaleBoardsAreExplained ==
  invalidating = 0 =>
    \A k \in Keys : Cached(k) /\ ~cache[k].excused => cache[k].board.score = Current

(* A contestant whose request began during the freeze is never given the    *)
(* board of the other audience, nor an administrator the frozen one.        *)
AudiencesAreKeptApart ==
  \A c \in Clients : req[c].phase = "answered" => req[c].isFrozen = req[c].frozen

(* Ranks are fair on every board anybody gets: the rank is one more than    *)
(* the number of participants who are strictly ahead, so ties share a rank  *)
(* and the next one leaves a gap (_assign_ranks compares neighbours only).  *)
IsFair(b) ==
  \A u \in Users :
    b.rank[u] = 1 + Cardinality({v \in Users : Before(b.score[v], b.score[u])})
RanksAreFair == \A c \in Clients : req[c].phase = "answered" => IsFair(req[c].board)

(* The ACM score of a problem: it is solved by the first accepted           *)
(* submission, and only what came before that one costs a penalty.          *)
Accepted(subsOn) == {i \in DOMAIN subsOn : subsOn[i].status = "ACCEPTED"}
AcmReference(subsOn) ==
  LET first == Min(Accepted(subsOn)) IN
  IF Accepted(subsOn) = {} THEN 0
  ELSE subsOn[first].minute + PenaltyPerAttempt * (first - 1)
PenaltyStopsAtFirstAccepted ==
  \A q \in Queries :
    /\ AcmProblem(subs[q]).solved <=> Accepted(subs[q]) # {}
    /\ AcmProblem(subs[q]).penalty = AcmReference(subs[q])

(* Boards are computed right, for whatever order judging took: their parts  *)
(* have their types, ranks are fair and penalties end in time.              *)
BoardsAreFair == CacheTypeOK /\ RanksAreFair /\ PenaltyStopsAtFirstAccepted

-----------------------------------------------------------------------------
(* What makes the safety properties inductive: a key holds boards of its    *)
(* own audience only, and a request knows its audience from its beginning.  *)
EntryOf(e, k) ==
  /\ e.ttl \in Nat
  /\ e.ttl > 0 => /\ DOMAIN e = {"ttl", "board", "isFrozen", "excused"}
                  /\ e.isFrozen = (k = "frozen")
KnowsAudience(r) ==
  r.phase \in {"lookup", "compute"} =>
    r.frozen \in BOOLEAN /\ {"phase", "frozen"} \subseteq DOMAIN r
AudienceInv ==
  /\ DOMAIN cache = Keys /\ DOMAIN req = Clients
  /\ \A k \in Keys : EntryOf(cache[k], k)
  /\ \A c \in Clients : KnowsAudience(req[c])
  /\ AudiencesAreKeptApart
FreshnessInv == invalidating \in Nat /\ StaleBoardsAreExplained

(* The boards in the cache are fair, so that those of the answers are.      *)
BoardsInv ==
  /\ CacheTypeOK /\ RanksAreFair
  /\ \A k \in Keys : Cached(k) => IsFair(cache[k].board)

-----------------------------------------------------------------------------
(* What the documents say                                                  *)

(* The data model's freeze_time and the notice of the scoreboard page: a    *)
(* frozen board does not show what was submitted after the freeze.          *)
FrozenBoardHidesLateSubmissions ==
  \A c \in Clients : req[c].phase = "answered" /\ req[c].isFrozen =>
    \A u \in Users :
      req[c].board.score[u].attempts
        <= SumFunction([p \in Problems |->
             Cardinality({i \in DOMAIN subs[<<u, p>>] :
                            Start + subs[<<u, p>>][i].minute < FreezeAt})])
=============================================================================
