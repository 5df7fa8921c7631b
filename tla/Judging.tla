------------------------------- MODULE Judging -------------------------------
(***************************************************************************)
(* The judging pipeline of the backend: the submission endpoint commits a  *)
(* QUEUED row and then publishes a task (submission_service.py), a Celery  *)
(* broker with late acknowledgement delivers the task (worker.py), and a   *)
(* worker runs judge_submission (judge_service.py) against PostgreSQL and  *)
(* the Docker daemon, one action per stretch of code between two awaits.   *)
(*                                                                         *)
(* Every failure is an action that spends one unit of a named budget, so a *)
(* configuration says which failures it allows and how many of them.       *)
(***************************************************************************)
EXTENDS Integers, FiniteSets

CONSTANTS
  Submissions,   \* submissions to one problem, each posted at most once
  Workers,       \* Celery worker processes (settings.judge_concurrency slots)
  NumTests,      \* test cases of the problem, in order_index order
  Verifiable,    \* test cases whose stored text matches the stored checksums
  Outcomes,      \* the test case statuses this configuration explores
  Budget         \* how many failures of each kind a behaviour may contain

FaultKinds == {"crash", "slow", "docker", "db", "broker", "delete", "rejudge"}

(* SubmissionStatus: what execute_test_case returns, and the final ones.   *)
ExecStatuses == {"ACCEPTED", "WRONG_ANSWER", "TIME_LIMIT_EXCEEDED", "RUNTIME_ERROR"}
Final        == ExecStatuses \cup {"COMPILATION_ERROR"}
Statuses     == Final \cup {"ABSENT", "QUEUED", "COMPILING", "RUNNING"}
Verdicts     == ExecStatuses \cup {"NONE", "JUDGE_ERROR"}

Tests      == 1 .. NumTests
(* Mutation: a task is never retried. *)
NoRetries == 0

MaxRetries == 1

ASSUME NumTestsAssumption   == NumTests \in Nat
ASSUME VerifiableAssumption == Verifiable \subseteq Tests
ASSUME OutcomesAssumption   == Outcomes \subseteq ExecStatuses
ASSUME BudgetAssumption     == Budget \in [FaultKinds -> Nat]

(* A task message. "retries" counts Celery retries and "by" is the run that *)
(* published it (0: the API), so no two published messages are equal: the   *)
(* record stands for Celery's delivery tag, which a redelivery keeps.       *)
Message == [sub : Submissions, retries : 0 .. MaxRetries, by : Nat]

(* Where a worker stands in judge_submission_task. The phases from "create" *)
(* to "verdict" are the body of the try block, "handler" is its except      *)
(* clause and "cleanup" its finally clause.                                 *)
TryPhases == {"create", "build", "reject", "accept", "test"}
Phases    == TryPhases \cup {"idle", "fetch", "mark", "load", "handler",
                             "cleanup", "leave", "ack"}

VARIABLES
  api,        \* where the POST of each submission stands
  row,        \* submissions table; "by" is the run that last wrote the status
  tests,      \* test_cases table of the problem
  results,    \* test_case_results table
  queue,      \* messages in the broker's list
  unacked,    \* messages delivered and not acknowledged
  abandoned,  \* messages whose task ended in FAILURE or was rejected
  run,        \* what each worker is doing
  starts,     \* runs of judge_submission begun for each submission
  boxes,      \* sandbox containers that exist, named by the run that made them
  rejudges,   \* submissions an administrator was told are queued for rejudging
  spent       \* failures so far

database == <<row, tests, results>>
broker   == <<queue, unacked, abandoned>>
vars     == <<api, row, tests, results, queue, unacked, abandoned, run, starts,
              boxes, rejudges, spent>>

-----------------------------------------------------------------------------
NoMessage == [sub |-> "none", retries |-> 0, by |-> 0]

(* A run before it has read anything; an idle worker has the empty one. *)
RunOf(phase, m, n) ==
  [phase |-> phase, msg |-> m, no |-> n, status |-> "ABSENT", verdict |-> "NONE",
   left |-> {}, worst |-> "ACCEPTED", pending |-> {},
   box |-> FALSE, broken |-> FALSE, raised |-> FALSE]
NoRun == RunOf("idle", NoMessage, 0)

Sub(w)   == run[w].msg.sub
RunId(w) == [sub |-> Sub(w), no |-> run[w].no]
At(w, p) == run[w].phase = p
Holds(w, m) == ~At(w, "idle") /\ run[w].msg = m

Spend(k) == spent[k] < Budget[k] /\ spent' = [spent EXCEPT ![k] = @ + 1]

(* An exception outside the try block leaves judge_submission directly; one *)
(* inside it goes to the except clause. "broken" records that a flush or a  *)
(* commit failed, after which the session refuses another commit.           *)
Escape(w) == run' = [run EXCEPT ![w].phase = "leave", ![w].raised = TRUE]
Except(w, broken) ==
  run' = [run EXCEPT ![w].phase = "handler", ![w].broken = broken]

(* What commit() sends for the status and verdict attributes: the unit of   *)
(* work writes only those that differ from the copy the session loaded or   *)
(* last wrote (expire_on_commit=False keeps that copy across commits).      *)
WriteRow(w, status, verdict) ==
  LET mine == run[w] IN
  row' = [row EXCEPT ![Sub(w)] =
    [status  |-> IF mine.status = status THEN @.status ELSE status,
     verdict |-> IF mine.verdict = verdict THEN @.verdict ELSE verdict,
     by      |-> IF mine.status = status THEN @.by ELSE mine.no]]

(* The TestCaseResult objects added to the session become rows with the     *)
(* commit; their foreign key needs the test case to exist still.            *)
PendingRows(w) ==
  {[sub |-> Sub(w), no |-> run[w].no, test |-> p.test, status |-> p.status] :
     p \in run[w].pending}
WriteResults(w)   == results' = results \cup PendingRows(w)
ForeignKeysOK(w)  == \A p \in run[w].pending : p.test \in tests

-----------------------------------------------------------------------------
(* The API process                                                         *)

Init ==
  /\ api = [s \in Submissions |-> "none"]
  /\ row = [s \in Submissions |-> [status |-> "ABSENT", verdict |-> "NONE", by |-> 0]]
  /\ tests = Tests
  /\ results = {}
  /\ queue = {} /\ unacked = {} /\ abandoned = {}
  /\ run = [w \in Workers |-> NoRun]
  /\ starts = [s \in Submissions |-> 0]
  /\ boxes = {}
  /\ rejudges = {}
  /\ spent = [k \in FaultKinds |-> 0]

(* create_submission up to its explicit commit. *)
CreateSubmission(s) ==
  /\ api[s] = "none"
  /\ api' = [api EXCEPT ![s] = "committed"]
  /\ row' = [row EXCEPT ![s].status = "QUEUED"]
  /\ UNCHANGED <<tests, results, broker, run, starts, boxes, rejudges, spent>>

(* enqueue_submission and the 201 answer. *)
Enqueue(s) ==
  /\ api[s] = "committed"
  /\ api' = [api EXCEPT ![s] = "answered"]
  /\ queue' = queue \cup {[sub |-> s, retries |-> 0, by |-> 0]}
  /\ UNCHANGED <<database, unacked, abandoned, run, starts, boxes, rejudges, spent>>

(* The broker refuses the message, or the API process dies first: the row   *)
(* is committed and the client sees an error.                               *)
EnqueueFails(s) ==
  /\ api[s] = "committed"
  /\ Spend("broker")
  /\ api' = [api EXCEPT ![s] = "failed"]
  /\ UNCHANGED <<database, broker, run, starts, boxes, rejudges>>

(* rejudge_submission_endpoint answers and does nothing. *)
Rejudge(s) ==
  /\ row[s].status # "ABSENT"
  /\ Spend("rejudge")
  /\ rejudges' = rejudges \cup {s}
  /\ UNCHANGED <<api, database, broker, run, starts, boxes>>

(* delete_test_case: the foreign key of test_case_results refuses a test    *)
(* case that has results.                                                   *)
DeleteTestCase(t) ==
  /\ t \in tests
  /\ \A r \in results : r.test # t
  /\ Spend("delete")
  /\ tests' = tests \ {t}
  /\ UNCHANGED <<api, row, results, broker, run, starts, boxes, rejudges>>

-----------------------------------------------------------------------------
(* A worker: judge_submission                                              *)

(* Mutation: early acknowledgement (task_acks_late unset). *)
DeliverAckEarly(w, m) ==
  /\ At(w, "idle")
  /\ m \in queue
  /\ queue' = queue \ {m}
  /\ starts' = [starts EXCEPT ![m.sub] = @ + 1]
  /\ run' = [run EXCEPT ![w] = RunOf("fetch", m, starts[m.sub] + 1)]
  /\ UNCHANGED <<api, database, unacked, abandoned, boxes, rejudges, spent>>

Deliver(w, m) ==
  /\ At(w, "idle")
  /\ m \in queue
  /\ queue' = queue \ {m}
  /\ unacked' = unacked \cup {m}
  /\ starts' = [starts EXCEPT ![m.sub] = @ + 1]
  /\ run' = [run EXCEPT ![w] = RunOf("fetch", m, starts[m.sub] + 1)]
  /\ UNCHANGED <<api, database, abandoned, boxes, rejudges, spent>>

(* 1. Fetch submission: the session's copy of the row. *)
Fetch(w) ==
  /\ At(w, "fetch")
  /\ \/ /\ run' = [run EXCEPT ![w].phase = "mark",
                              ![w].status = row[Sub(w)].status,
                              ![w].verdict = row[Sub(w)].verdict]
        /\ UNCHANGED spent
     \/ Spend("db") /\ Escape(w)
  /\ UNCHANGED <<api, database, broker, starts, boxes, rejudges>>

(* Commit status COMPILING. A commit that fails may have been applied. *)
MarkCompiling(w) ==
  /\ At(w, "mark")
  /\ \/ /\ WriteRow(w, "COMPILING", run[w].verdict)
        /\ run' = [run EXCEPT ![w].phase = "load", ![w].status = "COMPILING"]
        /\ UNCHANGED spent
     \/ /\ Spend("db")
        /\ WriteRow(w, "COMPILING", run[w].verdict) \/ UNCHANGED row
        /\ Escape(w)
  /\ UNCHANGED <<api, tests, results, broker, starts, boxes, rejudges>>

(* Fetch test cases. *)
LoadTests(w) ==
  /\ At(w, "load")
  /\ \/ run' = [run EXCEPT ![w].phase = "create", ![w].left = tests] /\ UNCHANGED spent
     \/ Spend("db") /\ Escape(w)
  /\ UNCHANGED <<api, database, broker, starts, boxes, rejudges>>

(* 2. Create sandbox. When the call fails the daemon may have created the   *)
(* container, whose name the caller then never learns.                      *)
CreateSandbox(w) ==
  /\ At(w, "create")
  /\ \/ /\ boxes' = boxes \cup {RunId(w)}
        /\ run' = [run EXCEPT ![w].phase = "build", ![w].box = TRUE]
        /\ UNCHANGED spent
     \/ /\ Spend("docker")
        /\ boxes' \in {boxes, boxes \cup {RunId(w)}}
        /\ Except(w, FALSE)
  /\ UNCHANGED <<api, database, broker, starts, rejudges>>

(* start_sandbox and 3. Compile: a non-zero exit code, an expired timeout   *)
(* and an unsupported language are all a failed compilation.                *)
Compile(w) ==
  /\ At(w, "build")
  /\ \/ \E p \in {"reject", "accept"} : run' = [run EXCEPT ![w].phase = p] /\ UNCHANGED spent
     \/ Spend("docker") /\ Except(w, FALSE)
  /\ UNCHANGED <<api, database, broker, starts, boxes, rejudges>>

(* Mutation: the early return is not inside the try block. *)
RejectWithoutFinally(w) ==
  /\ At(w, "reject")
  /\ WriteRow(w, "COMPILATION_ERROR", run[w].verdict)
  /\ run' = [run EXCEPT ![w].phase = "leave", ![w].status = "COMPILATION_ERROR"]
  /\ UNCHANGED <<api, tests, results, broker, starts, boxes, rejudges, spent>>

(* The early return: status COMPILATION_ERROR, the verdict left as it was. *)
CommitCompilationError(w) ==
  /\ At(w, "reject")
  /\ \/ /\ WriteRow(w, "COMPILATION_ERROR", run[w].verdict)
        /\ run' = [run EXCEPT ![w].phase = "cleanup", ![w].status = "COMPILATION_ERROR"]
        /\ UNCHANGED spent
     \/ /\ Spend("db")
        /\ WriteRow(w, "COMPILATION_ERROR", run[w].verdict) \/ UNCHANGED row
        /\ Except(w, TRUE)
  /\ UNCHANGED <<api, tests, results, broker, starts, boxes, rejudges>>

CommitRunning(w) ==
  /\ At(w, "accept")
  /\ \/ /\ WriteRow(w, "RUNNING", run[w].verdict)
        /\ run' = [run EXCEPT ![w].phase = "test", ![w].status = "RUNNING"]
        /\ UNCHANGED spent
     \/ /\ Spend("db")
        /\ WriteRow(w, "RUNNING", run[w].verdict) \/ UNCHANGED row
        /\ Except(w, TRUE)
  /\ UNCHANGED <<api, tests, results, broker, starts, boxes, rejudges>>

(* Mutation: the last test case decides. *)
RunTestLastWins(w) ==
  /\ At(w, "test")
  /\ \E t \in run[w].left :
       /\ \A u \in run[w].left : t <= u
       /\ \E o \in Outcomes :
            run' = [run EXCEPT ![w].left = @ \ {t}, ![w].worst = o,
                      ![w].pending = @ \cup {[test |-> t, status |-> o]}]
  /\ UNCHANGED <<api, database, broker, starts, boxes, rejudges, spent>>

(* Mutation: a checksum mismatch counts as a wrong answer. *)
RunTestMismatchFails(w) ==
  /\ At(w, "test")
  /\ \E t \in run[w].left :
       /\ \A u \in run[w].left : t <= u
       /\ IF t \notin Verifiable
            THEN run' = [run EXCEPT ![w].left = @ \ {t}, ![w].worst = "WRONG_ANSWER"]
            ELSE \E o \in Outcomes :
                   run' = [run EXCEPT ![w].left = @ \ {t},
                             ![w].pending = @ \cup {[test |-> t, status |-> o]},
                             ![w].worst = IF o = "ACCEPTED" THEN @ ELSE o]
  /\ UNCHANGED <<api, database, broker, starts, boxes, rejudges, spent>>

(* Mutation: every result is committed when it is known. *)
RunTestCommits(w) ==
  /\ At(w, "test")
  /\ \E t \in run[w].left, o \in Outcomes :
       /\ run' = [run EXCEPT ![w].left = @ \ {t},
                             ![w].worst = IF o = "ACCEPTED" THEN @ ELSE o]
       /\ results' = results \cup {[sub |-> Sub(w), no |-> run[w].no, test |-> t,
                                    status |-> o]}
  /\ UNCHANGED <<api, row, tests, broker, starts, boxes, rejudges, spent>>

(* 4. One turn of the loop. A checksum mismatch continues with the next     *)
(* test case; worst_status is the last status that is not ACCEPTED (it is   *)
(* ACCEPTED exactly as long as all_accepted is true).                       *)
RunTest(w) ==
  /\ At(w, "test")
  /\ \/ /\ \E t \in run[w].left :
             /\ \A u \in run[w].left : t <= u
             /\ \/ /\ t \notin Verifiable
                   /\ run' = [run EXCEPT ![w].left = @ \ {t}]
                \/ /\ t \in Verifiable
                   /\ \E o \in Outcomes :
                        run' = [run EXCEPT ![w].left = @ \ {t},
                                  ![w].pending = @ \cup {[test |-> t, status |-> o]},
                                  ![w].worst = IF o = "ACCEPTED" THEN @ ELSE o]
        /\ UNCHANGED spent
     \/ run[w].left # {} /\ Spend("docker") /\ Except(w, FALSE)
  /\ UNCHANGED <<api, database, broker, starts, boxes, rejudges>>

(* 5. Update submission verdict: one transaction with the result rows. *)
CommitVerdict(w) ==
  LET final == run[w].worst IN
  /\ At(w, "test")
  /\ run[w].left = {}
  /\ \/ /\ ForeignKeysOK(w)
        /\ WriteRow(w, final, final) /\ WriteResults(w)
        /\ run' = [run EXCEPT ![w].phase = "cleanup", ![w].status = final,
                              ![w].verdict = final, ![w].pending = {}]
        /\ UNCHANGED spent
     \/ ~ForeignKeysOK(w) /\ Except(w, TRUE) /\ UNCHANGED <<row, results, spent>>
     \/ /\ Spend("db")
        /\ \/ ForeignKeysOK(w) /\ WriteRow(w, final, final) /\ WriteResults(w)
           \/ UNCHANGED <<row, results>>
        /\ Except(w, TRUE)
  /\ UNCHANGED <<api, tests, broker, starts, boxes, rejudges>>

(* except Exception: RUNTIME_ERROR and JUDGE_ERROR are committed with the   *)
(* results collected so far, unless this commit fails too.                  *)
HandleException(w) ==
  /\ At(w, "handler")
  /\ \/ /\ ~run[w].broken /\ ForeignKeysOK(w)
        /\ WriteRow(w, "RUNTIME_ERROR", "JUDGE_ERROR") /\ WriteResults(w)
        /\ run' = [run EXCEPT ![w].phase = "cleanup", ![w].status = "RUNTIME_ERROR",
                              ![w].verdict = "JUDGE_ERROR", ![w].pending = {}]
        /\ UNCHANGED spent
     \/ /\ run[w].broken \/ ~ForeignKeysOK(w)
        /\ run' = [run EXCEPT ![w].phase = "cleanup", ![w].raised = TRUE]
        /\ UNCHANGED <<row, results, spent>>
     \/ /\ ~run[w].broken /\ Spend("db")
        /\ \/ ForeignKeysOK(w) /\ WriteRow(w, "RUNTIME_ERROR", "JUDGE_ERROR") /\ WriteResults(w)
           \/ UNCHANGED <<row, results>>
        /\ run' = [run EXCEPT ![w].phase = "cleanup", ![w].raised = TRUE]
  /\ UNCHANGED <<api, tests, broker, starts, boxes, rejudges>>

(* finally: destroy_sandbox, whose own exception replaces the outcome. *)
DestroySandbox(w) ==
  /\ At(w, "cleanup")
  /\ \/ /\ boxes' = IF run[w].box THEN boxes \ {RunId(w)} ELSE boxes
        /\ run' = [run EXCEPT ![w].phase = "leave", ![w].box = FALSE]
        /\ UNCHANGED spent
     \/ run[w].box /\ Spend("docker") /\ Escape(w) /\ UNCHANGED boxes
  /\ UNCHANGED <<api, database, broker, starts, rejudges>>

-----------------------------------------------------------------------------
(* A worker: judge_submission_task and the broker                          *)

(* With acks_late the message is acknowledged when the task has returned.   *)
Acknowledge(w) ==
  /\ unacked' = unacked \ {run[w].msg}
  /\ run' = [run EXCEPT ![w] = NoRun]

(* Mutation: the message of a completed task is not acknowledged. *)
CompleteWithoutAck(w) ==
  /\ At(w, "leave") /\ ~run[w].raised
  /\ run' = [run EXCEPT ![w] = NoRun]
  /\ UNCHANGED <<api, database, broker, starts, boxes, rejudges, spent>>

Complete(w) ==
  /\ At(w, "leave") /\ ~run[w].raised
  /\ Acknowledge(w)
  /\ UNCHANGED <<api, database, queue, abandoned, starts, boxes, rejudges, spent>>

(* Mutation: a retry also sets the submission back to QUEUED. *)
RetryRequeues(w) ==
  /\ At(w, "leave") /\ run[w].raised /\ run[w].msg.retries < MaxRetries
  /\ row' = [row EXCEPT ![Sub(w)].status = "QUEUED"]
  /\ queue' = queue \cup {[sub |-> Sub(w), retries |-> run[w].msg.retries + 1,
                           by |-> run[w].no]}
  /\ run' = [run EXCEPT ![w].phase = "ack"]
  /\ UNCHANGED <<api, tests, results, unacked, abandoned, starts, boxes, rejudges, spent>>

(* self.retry publishes a new message; acknowledging the old one is a step  *)
(* of its own.                                                              *)
Retry(w) ==
  /\ At(w, "leave") /\ run[w].raised /\ run[w].msg.retries < MaxRetries
  /\ queue' = queue \cup {[sub |-> Sub(w), retries |-> run[w].msg.retries + 1,
                           by |-> run[w].no]}
  /\ run' = [run EXCEPT ![w].phase = "ack"]
  /\ UNCHANGED <<api, database, unacked, abandoned, starts, boxes, rejudges, spent>>

AcknowledgeRetried(w) ==
  /\ At(w, "ack")
  /\ Acknowledge(w)
  /\ UNCHANGED <<api, database, queue, abandoned, starts, boxes, rejudges, spent>>

(* Retries are exhausted (the task fails), or the retry cannot be published *)
(* (Celery then rejects the message without requeueing it).                 *)
GiveUp(w) ==
  /\ At(w, "leave") /\ run[w].raised
  /\ \/ run[w].msg.retries = MaxRetries /\ UNCHANGED spent
     \/ run[w].msg.retries < MaxRetries /\ Spend("broker")
  /\ abandoned' = abandoned \cup {run[w].msg}
  /\ Acknowledge(w)
  /\ UNCHANGED <<api, database, queue, starts, boxes, rejudges>>

(* The worker process is lost: nothing of judge_submission runs any more,   *)
(* its finally clause included, and the message stays unacknowledged.       *)
Crash(w) ==
  /\ ~At(w, "idle")
  /\ Spend("crash")
  /\ run' = [run EXCEPT ![w] = NoRun]
  /\ UNCHANGED <<api, database, broker, starts, boxes, rejudges>>

Requeue(m) ==
  /\ m \in unacked
  /\ unacked' = unacked \ {m}
  /\ queue' = queue \cup {m}
  /\ UNCHANGED <<api, database, abandoned, run, starts, boxes, rejudges>>

(* The broker gives the message of a lost worker back (worker_lost, or the  *)
(* visibility timeout).                                                     *)
Redeliver(m) ==
  /\ \A w \in Workers : ~Holds(w, m)
  /\ Requeue(m)
  /\ UNCHANGED spent

(* The visibility timeout of the broker expires while the task still runs.  *)
RedeliverEarly(m) ==
  /\ \E w \in Workers : Holds(w, m)
  /\ Spend("slow")
  /\ Requeue(m)

-----------------------------------------------------------------------------
JudgeStep(w) ==
  \/ Fetch(w) \/ MarkCompiling(w) \/ LoadTests(w) \/ CreateSandbox(w) \/ Compile(w)
  \/ CommitCompilationError(w) \/ CommitRunning(w) \/ RunTest(w) \/ CommitVerdict(w)
  \/ HandleException(w) \/ DestroySandbox(w)

TaskStep(w) == Complete(w) \/ Retry(w) \/ AcknowledgeRetried(w) \/ GiveUp(w)

ApiStep(s) == CreateSubmission(s) \/ Enqueue(s) \/ EnqueueFails(s) \/ Rejudge(s)

Next ==
  \/ \E s \in Submissions : ApiStep(s)
  \/ \E t \in Tests : DeleteTestCase(t)
  \/ \E w \in Workers : \/ \E m \in queue : Deliver(w, m)
                        \/ JudgeStep(w) \/ TaskStep(w) \/ Crash(w)
  \/ \E m \in unacked : Redeliver(m) \/ RedeliverEarly(m)

(* The API finishes its requests, a live worker keeps executing its task,   *)
(* an idle worker takes a message, the broker gives back what a lost worker *)
(* held. Nothing obliges a client to post or a failure to happen.           *)
Fairness ==
  /\ \A s \in Submissions : WF_vars(Enqueue(s) \/ EnqueueFails(s))
  /\ \A w \in Workers : WF_vars(JudgeStep(w) \/ TaskStep(w))
  /\ WF_vars(\E w \in Workers, m \in queue : Deliver(w, m))
  /\ WF_vars(\E m \in unacked : Redeliver(m))

Spec     == Init /\ [][Next]_vars
FairSpec == Spec /\ Fairness
=============================================================================
