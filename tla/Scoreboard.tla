------------------------------ MODULE Scoreboard ------------------------------
(***************************************************************************)
(* The scoreboard of one contest: generate_scoreboard answers from a Redis *)
(* cache or computes the board from the submissions, participant by        *)
(* participant, and stores it with a time to live; the judge deletes the   *)
(* cached boards after the commit of a verdict. API requests, judges and   *)
(* the expiry of keys interleave freely.                                   *)
(*                                                                         *)
(* Time is counted in ticks of one cache lifetime during the contest; the  *)
(* contest runs over the ticks Start .. End - 1, and everything it scores  *)
(* tells apart only three statuses: ACCEPTED, REJECTED for every other     *)
(* final one, and PENDING for those on the way (QUEUED, COMPILING and      *)
(* RUNNING).                                                               *)
(***************************************************************************)
EXTENDS Scoring

CONSTANTS
  Clients,        \* scoreboard requests that may be under way at once
  Rule,           \* scoring_rule of the contest
  Start, FreezeAt, End,  \* ticks at which the contest, its freeze and its end come
  EndedTtl,       \* lifetime of a board stored outside the contest, in ticks
  MaxSubmissions, \* bound: submissions of all participants
  MaxJudgings,    \* bound: verdicts over all submissions
  MaxRedisErrors  \* bound: failed Redis calls

OngoingTtl == 1
Keys       == {"live", "frozen"}
NoEntry    == [ttl |-> 0]
NoRequest  == [phase |-> "idle"]

ASSUME RuleAssumption   == Rule \in {"ACM", "IOI"}
ASSUME TimeAssumption   == {Start, FreezeAt, End} \subseteq Nat /\ Start < End /\ FreezeAt <= End
ASSUME TtlAssumption    == EndedTtl \in Nat \ {0}
ASSUME BoundsAssumption == {MaxSubmissions, MaxJudgings, MaxRedisErrors} \subseteq Nat

VARIABLES
  now,          \* the clock, in ticks
  subs,         \* what each query finds: submissions in submitted_at order
  invalidating, \* judges between the commit of a verdict and the invalidation
  cache,        \* the two keys of the contest in Redis
  req,          \* the latest scoreboard request of each client
  judgings,     \* verdicts so far
  redisErrors   \* failed Redis calls so far

cacheVars == <<now, subs, invalidating, cache, req, judgings, redisErrors>>

Final == {"ACCEPTED", "REJECTED"}

(* History, for the properties only: the scores a board should show now.    *)
Current == [u \in Users |-> AcmScore([p \in Problems |-> AcmResult(subs[<<u, p>>])])]
Cached(k) == cache[k].ttl > 0

(* History, for the properties only: a board that missed a change that is   *)
(* not followed by an invalidation is marked.                               *)
Excuse(c) == [k \in Keys |-> IF c[k].ttl > 0 THEN [c[k] EXCEPT !.excused = TRUE] ELSE c[k]]

CacheInit ==
  /\ now = 0
  /\ subs = [q \in Queries |-> <<>>]
  /\ invalidating = 0
  /\ cache = [k \in Keys |-> NoEntry]
  /\ req = [c \in Clients |-> NoRequest]
  /\ judgings = 0
  /\ redisErrors = 0

-----------------------------------------------------------------------------
(* The rest of the system                                                  *)

Submitted == MapThenSumSet(LAMBDA q : Len(subs[q]), Queries)

(* create_submission with a contest: can_submit_to_contest lets a           *)
(* participant submit up to and including end_time.                         *)
Submit(q) ==
  /\ Start <= now /\ now <= End
  /\ Submitted < MaxSubmissions
  /\ subs' = [subs EXCEPT ![q] = Append(@, [minute |-> now - Start, status |-> "PENDING"])]
  /\ cache' = Excuse(cache)
  /\ UNCHANGED <<now, invalidating, req, judgings, redisErrors>>

SetStatus(q, i, st) == subs' = [subs EXCEPT ![q][i].status = st]

(* A task finds its submission judged already, and judges it again.         *)
StartJudging(q, i) ==
  /\ subs[q][i].status \in Final
  /\ judgings < MaxJudgings
  /\ SetStatus(q, i, "PENDING")
  /\ cache' = Excuse(cache)
  /\ UNCHANGED <<now, invalidating, req, judgings, redisErrors>>

(* Mutation: a verdict is not followed by an invalidation. *)
ConcludeSilently(q, i) ==
  /\ subs[q][i].status = "PENDING"
  /\ judgings < MaxJudgings
  /\ judgings' = judgings + 1
  /\ \E st \in Final : SetStatus(q, i, st)
  /\ UNCHANGED <<now, invalidating, cache, req, redisErrors>>

(* The final commit. Only the commit after the loop over the test cases is  *)
(* followed by an invalidation: neither the early return for a compilation  *)
(* error nor the except clause has one.                                     *)
Conclude(q, i) ==
  /\ subs[q][i].status = "PENDING"
  /\ judgings < MaxJudgings
  /\ judgings' = judgings + 1
  /\ \/ /\ \E st \in Final : SetStatus(q, i, st)
        /\ invalidating' = invalidating + 1
        /\ UNCHANGED cache
     \/ /\ SetStatus(q, i, "REJECTED")
        /\ cache' = Excuse(cache)
        /\ UNCHANGED invalidating
  /\ UNCHANGED <<now, req, redisErrors>>

RedisFails == redisErrors < MaxRedisErrors /\ redisErrors' = redisErrors + 1

(* invalidate_scoreboard_cache: one DEL for both keys, errors swallowed.    *)
Invalidate ==
  /\ invalidating > 0
  /\ invalidating' = invalidating - 1
  /\ \/ cache' = [k \in Keys |-> NoEntry] /\ UNCHANGED redisErrors
     \/ RedisFails /\ cache' = Excuse(cache)
  /\ UNCHANGED <<now, subs, req, judgings>>

(* Time passes: boards grow older and disappear. *)
Tick ==
  /\ now < End \/ \E k \in Keys : Cached(k)
  /\ now' = IF now < End THEN now + 1 ELSE now
  /\ cache' = [k \in Keys |-> IF cache[k].ttl > 1 THEN [cache[k] EXCEPT !.ttl = @ - 1]
                              ELSE NoEntry]
  /\ UNCHANGED <<subs, invalidating, req, judgings, redisErrors>>

-----------------------------------------------------------------------------
(* generate_scoreboard                                                     *)

(* _should_freeze *)
ShouldFreeze(admin) == ~admin /\ FreezeAt <= now /\ now < End

(* Mutation: one key for everybody. *)
OneKey(frozen) == "live"

KeyOf(frozen) == IF frozen THEN "frozen" ELSE "live"

(* A request reads the contest and the clock. *)
Begin(c, admin) ==
  /\ req[c].phase \in {"idle", "answered", "error"}
  /\ req' = [req EXCEPT ![c] = [phase |-> "lookup", frozen |-> ShouldFreeze(admin)]]
  /\ UNCHANGED <<now, subs, invalidating, cache, judgings, redisErrors>>

Answer(c, board, isFrozen) ==
  req' = [req EXCEPT ![c] = [phase |-> "answered", frozen |-> req[c].frozen,
                             board |-> board, isFrozen |-> isFrozen]]

Computing(c, results) ==
  [phase |-> "compute", frozen |-> req[c].frozen, results |-> results]

(* Try the cache; a Redis error is a miss. *)
Lookup(c) ==
  LET k == KeyOf(req[c].frozen) IN
  /\ req[c].phase = "lookup"
  /\ \/ Cached(k) /\ Answer(c, cache[k].board, cache[k].isFrozen) /\ UNCHANGED redisErrors
     \/ /\ \/ ~Cached(k) /\ UNCHANGED redisErrors
           \/ RedisFails
        /\ req' = [req EXCEPT ![c] = Computing(c, <<>>)]
  /\ UNCHANGED <<now, subs, invalidating, cache, judgings>>

(* The queries still to be made; the participant begun is finished first.   *)
Unread(c) == Queries \ DOMAIN req[c].results
NextRead(c) ==
  LET left(u) == Cardinality({p \in Problems : <<u, p>> \in Unread(c)})
  IN  CHOOSE r \in Unread(c) : \A q \in Unread(c) : left(r[1]) <= left(q[1])

(* One turn of the loops over participants and problems. For an IOI contest *)
(* calculate_ioi_score reads its local name "func" before the import that   *)
(* binds it, so that the request ends with an error.                        *)
ReadSubmissions(c) ==
  /\ req[c].phase = "compute" /\ Unread(c) # {}
  /\ req' = [req EXCEPT ![c] =
       IF Rule = "IOI" THEN [phase |-> "error"]
       ELSE LET r == NextRead(c)
                read == req[c].results
            IN  Computing(c, [q \in DOMAIN read \cup {r} |->
                                IF q = r THEN AcmResult(subs[r]) ELSE read[q]])]
  /\ UNCHANGED <<now, subs, invalidating, cache, judgings, redisErrors>>

(* setex: 30 seconds while the contest is under way, 300 otherwise. *)
Store(c, k, board) ==
  cache' = [cache EXCEPT ![k] =
    [ttl |-> IF Start <= now /\ now < End THEN OngoingTtl ELSE EndedTtl, board |-> board,
     isFrozen |-> req[c].frozen, excused |-> board.score # Current]]

(* Ranks are assigned, the board is stored (an error is swallowed) and      *)
(* returned.                                                                *)
Finish(c) ==
  LET result(u) == [p \in Problems |-> req[c].results[<<u, p>>]]
      board     == Ranked([u \in Users |-> AcmScore(result(u))])
  IN
  /\ req[c].phase = "compute" /\ Unread(c) = {}
  /\ \/ Store(c, KeyOf(req[c].frozen), board) /\ UNCHANGED redisErrors
     \/ RedisFails /\ UNCHANGED cache
  /\ Answer(c, board, req[c].frozen)
  /\ UNCHANGED <<now, subs, invalidating, judgings>>

-----------------------------------------------------------------------------
RequestStep(c) == Lookup(c) \/ ReadSubmissions(c) \/ Finish(c)

CacheNext ==
  \/ \E q \in Queries : Submit(q) \/ \E i \in DOMAIN subs[q] : StartJudging(q, i) \/ Conclude(q, i)
  \/ Invalidate
  \/ Tick
  \/ \E c \in Clients : (\E admin \in BOOLEAN : Begin(c, admin)) \/ RequestStep(c)

CacheSpec     == CacheInit /\ [][CacheNext]_cacheVars
=============================================================================
