-------------------------------- MODULE Scoring --------------------------------
(***************************************************************************)
(* How a contest is scored (scoring_service.py) and how the scores become  *)
(* ranks (_assign_ranks in scoreboard_service.py). A submission is a       *)
(* record of its contest_relative_time and its status; the submissions of a *)
(* participant to a problem come in submitted_at order.                    *)
(***************************************************************************)
EXTENDS Integers, FiniteSets, Sequences, SequencesExt

CONSTANTS
  Users,      \* the participants of the contest
  Problems    \* its problems

ASSUME FinitenessAssumption == IsFiniteSet(Users) /\ IsFiniteSet(Problems)

(* One query of the loops over participants and problems. *)
Queries == Users \X Problems

PenaltyPerAttempt == 20

NoAttempt == [solved |-> FALSE, wrong |-> 0, penalty |-> 0]

Solve(acc, s) ==
  [solved |-> TRUE, wrong |-> acc.wrong, penalty |-> s.minute + acc.wrong * PenaltyPerAttempt]

(* Mutation: a submission after the first accepted one still counts. *)
TurnNoBreak(acc, s) ==
  IF s.status = "ACCEPTED" THEN Solve(acc, s)
  ELSE [solved |-> acc.solved, wrong |-> acc.wrong + 1, penalty |-> acc.penalty]

(* A turn of the loop of calculate_acm_score over the submissions to one    *)
(* problem: it stops at the first ACCEPTED one and counts every other       *)
(* status, whatever it is, as a wrong attempt.                              *)
Turn(acc, s) ==
  IF acc.solved THEN acc
  ELSE IF s.status = "ACCEPTED" THEN Solve(acc, s)
  ELSE [solved |-> FALSE, wrong |-> acc.wrong + 1, penalty |-> acc.penalty]

AcmProblem(subs) ==
  LET after[i \in 0 .. Len(subs)] ==
        IF i = 0 THEN NoAttempt ELSE Turn(after[i - 1], subs[i])
  IN  after[Len(subs)]

(* calculate_acm_score, from the results and the numbers of submissions of  *)
(* its problems: the solved problems, the total penalty, and the attempts   *)
(* the board shows.                                                         *)
AcmScore(result) ==
  [solved   |-> Cardinality({p \in Problems : result[p].solved}),
   penalty  |-> SumFunction([p \in Problems |-> result[p].penalty]),
   attempts |-> SumFunction([p \in Problems |-> result[p].attempts])]

(* What the query and the loop of calculate_acm_score yield for a problem.  *)
AcmResult(subs) ==
  LET r == AcmProblem(subs)
  IN  [solved |-> r.solved, penalty |-> r.penalty, attempts |-> Len(subs)]

(* scores.sort of calculate_contest_scores: more solved first, then less    *)
(* penalty. The order of a tie is that of the query.                        *)
Before(a, b) ==
  \/ a.solved > b.solved
  \/ a.solved = b.solved /\ a.penalty < b.penalty
Sorted(scores) ==
  CHOOSE s \in SetToSeqs(Users) :
    \A i, j \in DOMAIN s : i < j => ~Before(scores[s[j]], scores[s[i]])

(* Mutation: a tie is decided by the score alone. *)
TieOnScoreOnly(a, b) == a.solved = b.solved

Tie(a, b) == a.solved = b.solved /\ a.penalty = b.penalty

(* _assign_ranks: the rank of a position is the last position up to it that *)
(* does not tie with the one before.                                        *)
AssignRanks(scores) ==
  LET order    == Sorted(scores)
      opens(i) == i = 1 \/ ~Tie(scores[order[i - 1]], scores[order[i]])
  IN  [u \in Users |->
        LET i == CHOOSE k \in DOMAIN order : order[k] = u
        IN  Max({j \in 1 .. i : opens(j)})]

Ranked(scores) == [score |-> scores, rank |-> AssignRanks(scores)]
=============================================================================
