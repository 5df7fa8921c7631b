-------------------------- MODULE JudgingProperties --------------------------
(***************************************************************************)
(* What the judging pipeline should guarantee, and what the repository's   *)
(* documents say of it that its code does not.                             *)
(***************************************************************************)
EXTENDS Judging

Rows     == [status : Statuses, verdict : Verdicts, by : Nat]
RunIds   == [sub : Submissions, no : Nat]
Results  == [sub : Submissions, no : Nat, test : Tests, status : ExecStatuses]
IdleRuns == {NoRun}
BusyRuns == [phase : Phases \ {"idle"}, msg : Message, no : Nat, status : Statuses,
             verdict : Verdicts, left : SUBSET Tests, worst : ExecStatuses,
             pending : SUBSET [test : Tests, status : ExecStatuses],
             box : BOOLEAN, broken : BOOLEAN, raised : BOOLEAN]

(* Type invariant of the pipeline's state. *)
TypeOK ==
  /\ api \in [Submissions -> {"none", "committed", "answered", "failed"}]
  /\ row \in [Submissions -> Rows]
  /\ tests \in SUBSET Tests
  /\ results \in SUBSET Results
  /\ queue \in SUBSET Message
  /\ unacked \in SUBSET Message
  /\ abandoned \in SUBSET Message
  /\ run \in [Workers -> IdleRuns \cup BusyRuns]
  /\ starts \in [Submissions -> Nat]
  /\ boxes \in SUBSET RunIds
  /\ rejudges \in SUBSET Submissions
  /\ spent \in [FaultKinds -> Nat]

-----------------------------------------------------------------------------
(* Safety                                                                  *)

(* A reader of the database never sees part of a judgement: result rows     *)
(* appear only in the commit that makes the submission final, and all of    *)
(* them come from the run that writes that status (judge_service.py adds    *)
(* them to the session in the loop and commits once).                       *)
ResultsComeWithFinalStatus ==
  [][\A r \in results' \ results :
       row'[r.sub].status \in Final /\ row'[r.sub].by = r.no]_vars

(* ACCEPTED is earned in one run: every result of the run that wrote it is  *)
(* ACCEPTED, and every test case the judge could verify has one.            *)
AcceptedIsEarned ==
  \A s \in Submissions : row[s].status = "ACCEPTED" =>
    /\ \A r \in results : r.sub = s /\ r.no = row[s].by => r.status = "ACCEPTED"
    /\ \A t \in tests \cap Verifiable :
         [sub |-> s, no |-> row[s].by, test |-> t, status |-> "ACCEPTED"] \in results

(* Nobody is told WRONG_ANSWER or TIME_LIMIT_EXCEEDED without a test case   *)
(* that got it, in the run that wrote the status.                           *)
FailureIsWitnessed ==
  \A s \in Submissions : row[s].status \in {"WRONG_ANSWER", "TIME_LIMIT_EXCEEDED"} =>
    \E r \in results : r.sub = s /\ r.no = row[s].by /\ r.status = row[s].status

(* Containers do not accumulate: one that no live run will destroy is the   *)
(* trace of a lost worker or of a failed Docker call (the finally clause of *)
(* judge_submission covers every other path, the early return included).    *)
Owned(b) == \E w \in Workers : ~At(w, "idle") /\ RunId(w) = b /\ run[w].box
LeaksAreExplained ==
  Cardinality({b \in boxes : ~Owned(b)}) <= spent["crash"] + spent["docker"]

(* At-least-once judging: as long as no message is redelivered while its    *)
(* task still runs, a submission the API answered for and that is not final *)
(* has a message in the broker, or its task has been given up after an      *)
(* exception. This is what task_acks_late is set for.                       *)
Pending(s)  == \E m \in queue \cup unacked : m.sub = s
GivenUp(s)  == \E m \in abandoned : m.sub = s
AtLeastOnce ==
  spent["slow"] = 0 =>
    \A s \in Submissions :
      api[s] = "answered" /\ row[s].status \notin Final => Pending(s) \/ GivenUp(s)

(* A submission is judged once unless something went wrong: every further   *)
(* run is accounted for by one failure. (Deleting a test case can break the *)
(* commits of several runs at once, and is not counted.)                    *)
RerunsAreExplained ==
  spent["delete"] = 0 =>
    \A s \in Submissions :
      starts[s] <= 1 + spent["crash"] + spent["slow"] + spent["docker"] + spent["db"]

(* The detailed pipeline implements the life cycle the rest of the system   *)
(* relies on: COMPILING and RUNNING are "judging", every final status is    *)
(* "judged", and the rows of test_case_results are the reports.             *)
PhaseOf(status) ==
  CASE status = "ABSENT" -> "none"
    [] status = "QUEUED" -> "queued"
    [] status \in {"COMPILING", "RUNNING"} -> "judging"
    [] status \in Final -> "judged"
Lifecycle == INSTANCE SubmissionLifecycle
               WITH phase <- [s \in Submissions |-> PhaseOf(row[s].status)],
                    reports <- results
ImplementsLifecycle == Lifecycle!LifecycleSpec

-----------------------------------------------------------------------------
(* Liveness                                                                *)

(* Every submission the API answered for is eventually final and stays so.  *)
EventuallyJudged ==
  \A s \in Submissions : (api[s] = "answered") ~> [](row[s].status \in Final)

-----------------------------------------------------------------------------
(* What the documents say                                                  *)

(* SDD 5.14.2, PENDING to QUEUED: QUEUED means that the submission has been *)
(* pushed into the broker, so that it is not lost.                          *)
QueuedIsInTheBroker ==
  \A s \in Submissions :
    row[s].status = "QUEUED" /\ api[s] # "committed" => Pending(s) \/ GivenUp(s)

(***************************************************************************)
(* The inductive invariant behind AcceptedIsEarned and the life cycle      *)
(***************************************************************************)
Working == TryPhases \cup {"fetch", "mark", "load"}

(* Run numbers identify the runs of a submission. *)
RunsAreDistinct ==
  /\ \A v, w \in Workers :
       ~At(v, "idle") /\ ~At(w, "idle") /\ v # w /\ Sub(v) = Sub(w) => run[v].no # run[w].no
  /\ \A w \in Workers : ~At(w, "idle") => run[w].no <= starts[Sub(w)]
  /\ \A r \in results : r.no <= starts[r.sub]

(* A run that may still commit its results has none in the database. *)
MayReport(w) == run[w].phase \in Working \/ (At(w, "handler") /\ ~run[w].broken)
Unreported ==
  \A w \in Workers : MayReport(w) =>
    \A r \in results : r.sub = Sub(w) => r.no # run[w].no

(* Nothing is judged that has not been queued; past the first commit the    *)
(* session's copy of the status is an intermediate one, so that the final   *)
(* status differs from it and is written, and the row has left QUEUED.      *)
Started ==
  /\ \A s \in Submissions : api[s] = "none" => row[s].status = "ABSENT"
  /\ \A m \in queue \cup unacked : api[m.sub] = "answered"
  /\ \A s \in Submissions : api[s] # "none" => row[s].status # "ABSENT"
  /\ \A w \in Workers : ~At(w, "idle") => api[Sub(w)] = "answered"
  /\ \A w \in Workers : At(w, "mark") /\ run[w].status = "COMPILING" =>
       row[Sub(w)].status # "QUEUED"
  /\ \A w \in Workers : run[w].phase \in TryPhases \cup {"load", "handler"} =>
       /\ run[w].status \in {"COMPILING", "RUNNING"}
       /\ row[Sub(w)].status # "QUEUED"

(* What the loop has collected: every verifiable test case is still to come *)
(* or has a result, and worst is ACCEPTED exactly when all of them are.     *)
Collected ==
  \A w \in Workers :
    /\ run[w].phase \in {"fetch", "mark", "load"} =>
         run[w].pending = {} /\ run[w].worst = "ACCEPTED"
    /\ run[w].phase \in TryPhases =>
         /\ \A t \in tests \cap Verifiable :
              t \in run[w].left \/ \E p \in run[w].pending : p.test = t
         /\ IF run[w].worst = "ACCEPTED"
              THEN \A p \in run[w].pending : p.status = "ACCEPTED"
              ELSE \E p \in run[w].pending : p.status = run[w].worst

VerdictInv ==
  /\ TypeOK
  /\ RunsAreDistinct
  /\ Unreported
  /\ Started
  /\ Collected
  /\ AcceptedIsEarned
  /\ FailureIsWitnessed

(***************************************************************************)
(* The inductive invariant behind AtLeastOnce                              *)
(***************************************************************************)

(* As long as the broker gives no message back early, a busy worker is the  *)
(* only holder of its message.                                              *)
HeldOnce ==
  spent["slow"] = 0 =>
    \A w \in Workers : ~At(w, "idle") =>
      /\ run[w].msg \in unacked \ queue
      /\ \A v \in Workers : v # w => ~Holds(v, run[w].msg)

(* The message a run may still publish does not exist yet.                  *)
ChildrenAreNew ==
  /\ \A m \in queue \cup unacked : m.by <= starts[m.sub]
  /\ \A w \in Workers : run[w].phase \notin {"idle", "ack"} =>
       \A m \in queue \cup unacked : m.sub = Sub(w) => m.by # run[w].no

(* A run is undone until it has committed a final status, and again when an *)
(* exception is on its way out of it.                                       *)
Undone(w) == ~At(w, "ack") /\ (run[w].phase \in {"cleanup", "leave"} => run[w].raised)
StillToRun(s) ==
  \E m \in queue \cup unacked : m.sub = s /\ \A w \in Workers : Holds(w, m) => Undone(w)
NothingIsForgotten ==
  spent["slow"] = 0 =>
    \A s \in Submissions :
      api[s] = "answered" /\ row[s].status \notin Final => StillToRun(s) \/ GivenUp(s)

DeliveryInv ==
  /\ VerdictInv
  /\ HeldOnce
  /\ ChildrenAreNew
  /\ NothingIsForgotten
(***************************************************************************)
(* The inductive invariant behind LeaksAreExplained                        *)
(***************************************************************************)

(* A container is the business of a run until its finally clause is over,   *)
(* also when the removal fails: Stray are those nobody will remove.        *)
WillDestroy(w, b) ==
  /\ run[w].phase \in TryPhases \cup {"handler", "cleanup"}
  /\ run[w].box /\ RunId(w) = b
Stray == {b \in boxes : \A w \in Workers : ~WillDestroy(w, b)}

LeakInv ==
  /\ TypeOK
  /\ IsFiniteSet(Stray)
  /\ Cardinality(Stray) <= spent["crash"] + spent["docker"]

(***************************************************************************)
(* The inductive invariant behind RerunsAreExplained                       *)
(***************************************************************************)

(* The runs a submission has coming: a message the broker will deliver, or  *)
(* a run that an exception will end, after which it may publish another.   *)
(* Each of them, and each run there was, is paid for by the request or by a *)
(* failure of its own.                                                     *)
Waiting(s) ==
  {m \in queue \cup unacked :
     m.sub = s /\ (m \in queue \/ \A w \in Workers : ~Holds(w, m))}
Failing(s) ==
  {w \in Workers : /\ run[w].phase \notin {"idle", "ack"} /\ Sub(w) = s
                   /\ run[w].raised \/ run[w].broken}
Failures == spent["crash"] + spent["slow"] + spent["docker"] + spent["db"]
Requested(s) == IF api[s] = "answered" THEN 1 ELSE 0

Counted(s) ==
  /\ IsFiniteSet(Waiting(s)) /\ IsFiniteSet(Failing(s))
  /\ starts[s] + Cardinality(Waiting(s)) + Cardinality(Failing(s)) <= Requested(s) + Failures

RerunInv ==
  /\ TypeOK
  /\ spent["delete"] = 0 => tests = Tests /\ \A s \in Submissions : Counted(s)
=============================================================================
