---------------------------- MODULE JudgingProofs ----------------------------
(***************************************************************************)
(* Proofs about the judging pipeline, for any number of submissions,       *)
(* workers and test cases and any budget of failures.                      *)
(***************************************************************************)
EXTENDS JudgingProperties, FiniteSetTheorems, TLAPS

USE NumTestsAssumption, VerifiableAssumption, OutcomesAssumption, BudgetAssumption
USE DEF At, FaultKinds

LEMMA SpendType ==
  ASSUME NEW k \in FaultKinds, spent \in [FaultKinds -> Nat], Spend(k)
  PROVE  spent' \in [FaultKinds -> Nat]
BY DEF Spend

LEMMA BusyRun ==
  ASSUME TypeOK, NEW w \in Workers, run[w].phase # "idle"
  PROVE  run[w] \in BusyRuns
BY DEF TypeOK, IdleRuns, NoRun, RunOf

LEMMA WriteRowType ==
  ASSUME TypeOK, NEW w \in Workers, run[w].phase # "idle",
         NEW st \in Statuses, NEW v \in Verdicts, WriteRow(w, st, v)
  PROVE  row' \in [Submissions -> Rows]
<1>1. run[w] \in BusyRuns BY BusyRun
<1>2. Sub(w) \in Submissions BY <1>1 DEF Sub, BusyRuns, Message
<1>3. run[w].no \in Nat BY <1>1 DEF BusyRuns
<1> DEFINE new == [status |-> IF run[w].status = st THEN row[Sub(w)].status ELSE st,
         verdict |-> IF run[w].verdict = v THEN row[Sub(w)].verdict ELSE v,
         by |-> IF run[w].status = st THEN row[Sub(w)].by ELSE run[w].no]
<1>4. row[Sub(w)] \in Rows BY <1>2 DEF TypeOK
<1>5. new \in Rows BY <1>3, <1>4 DEF Rows
<1>6. row' = [row EXCEPT ![Sub(w)] = new] BY <1>2 DEF WriteRow, TypeOK
<1> QED BY <1>5, <1>6, <1>2 DEF TypeOK

LEMMA WriteResultsType ==
  ASSUME TypeOK, NEW w \in Workers, run[w].phase # "idle", WriteResults(w)
  PROVE  results' \in SUBSET Results
<1>1. run[w] \in BusyRuns BY BusyRun
<1>2. Sub(w) \in Submissions BY <1>1 DEF Sub, BusyRuns, Message
<1>3. run[w].no \in Nat /\ run[w].pending \in SUBSET [test : Tests, status : ExecStatuses]
  BY <1>1 DEF BusyRuns
<1>4. PendingRows(w) \in SUBSET Results BY <1>2, <1>3 DEF PendingRows, Results
<1> QED BY <1>4 DEF WriteResults, TypeOK

(***************************************************************************)
(* Type correctness: one step per action.                                  *)
(***************************************************************************)
LEMMA TypeInit == Init => TypeOK
BY DEF Init, TypeOK, Rows, Statuses, Verdicts, IdleRuns

LEMMA TypeStep == TypeOK /\ [Next]_vars => TypeOK'
<1> SUFFICES ASSUME TypeOK, [Next]_vars PROVE TypeOK'
  OBVIOUS
<1> USE DEF Phases
<1>1. ASSUME NEW s \in Submissions, CreateSubmission(s) PROVE TypeOK'
  BY <1>1 DEF CreateSubmission, TypeOK, Rows, Statuses, broker
<1>2. ASSUME NEW s \in Submissions, Enqueue(s) PROVE TypeOK'
  BY <1>2 DEF Enqueue, TypeOK, Message, MaxRetries, database
<1>3. ASSUME NEW s \in Submissions, EnqueueFails(s) PROVE TypeOK'
  BY <1>3, SpendType DEF EnqueueFails, TypeOK, database, broker
<1>4. ASSUME NEW s \in Submissions, Rejudge(s) PROVE TypeOK'
  BY <1>4, SpendType DEF Rejudge, TypeOK, database, broker
<1>5. ASSUME NEW t \in Tests, DeleteTestCase(t) PROVE TypeOK'
  BY <1>5, SpendType DEF DeleteTestCase, TypeOK, broker
<1>6. ASSUME NEW w \in Workers, NEW m \in queue, Deliver(w, m) PROVE TypeOK'
  <2>1. m \in Message BY DEF TypeOK
  <2>2. m.sub \in Submissions BY <2>1 DEF Message
  <2>3. starts' \in [Submissions -> Nat] BY <1>6, <2>2 DEF Deliver, TypeOK
  <2>4. RunOf("fetch", m, starts[m.sub] + 1) \in BusyRuns
    <3>1. starts[m.sub] + 1 \in Nat BY <2>2 DEF TypeOK
    <3>2. "ABSENT" \in Statuses /\ "NONE" \in Verdicts /\ "ACCEPTED" \in ExecStatuses
      BY DEF Statuses, Verdicts, ExecStatuses
    <3> QED BY <2>1, <3>1, <3>2 DEF BusyRuns, RunOf
  <2>5. run' \in [Workers -> IdleRuns \cup BusyRuns] BY <1>6, <2>4 DEF Deliver, TypeOK
  <2> QED BY <1>6, <2>1, <2>3, <2>5 DEF Deliver, TypeOK, database
<1>7. ASSUME NEW w \in Workers, Fetch(w) PROVE TypeOK'
  <2>1. run[w] \in BusyRuns BY <1>7, BusyRun DEF Fetch
  <2>2. Sub(w) \in Submissions BY <2>1 DEF Sub, BusyRuns, Message
  <2>3. row[Sub(w)].status \in Statuses /\ row[Sub(w)].verdict \in Verdicts
    BY <2>2 DEF TypeOK, Rows
  <2>4. run' \in [Workers -> IdleRuns \cup BusyRuns]
    BY <1>7, <2>1, <2>3 DEF Fetch, TypeOK, BusyRuns, Escape
  <2> QED BY <1>7, <2>4, SpendType DEF Fetch, TypeOK, database, broker
<1>8. ASSUME NEW w \in Workers, MarkCompiling(w) PROVE TypeOK'
  <2>1. run[w] \in BusyRuns BY <1>8, BusyRun DEF MarkCompiling
  <2>2. run[w].verdict \in Verdicts /\ "COMPILING" \in Statuses BY <2>1 DEF BusyRuns, Statuses
  <2>3. row' \in [Submissions -> Rows]
    BY <1>8, <2>2, WriteRowType DEF MarkCompiling, TypeOK
  <2>4. run' \in [Workers -> IdleRuns \cup BusyRuns]
    BY <1>8, <2>1, <2>2 DEF MarkCompiling, TypeOK, BusyRuns, Escape
  <2> QED BY <1>8, <2>3, <2>4, SpendType DEF MarkCompiling, TypeOK, broker
<1>9. ASSUME NEW w \in Workers, LoadTests(w) PROVE TypeOK'
  <2>1. run[w] \in BusyRuns BY <1>9, BusyRun DEF LoadTests
  <2>2. run' \in [Workers -> IdleRuns \cup BusyRuns]
    BY <1>9, <2>1 DEF LoadTests, TypeOK, BusyRuns, Escape, TryPhases
  <2> QED BY <1>9, <2>2, SpendType DEF LoadTests, TypeOK, database, broker
<1>10. ASSUME NEW w \in Workers, CreateSandbox(w) PROVE TypeOK'
  <2>1. run[w] \in BusyRuns BY <1>10, BusyRun DEF CreateSandbox
  <2>2. RunId(w) \in RunIds BY <2>1 DEF RunId, RunIds, Sub, BusyRuns, Message
  <2>3. run' \in [Workers -> IdleRuns \cup BusyRuns]
    BY <1>10, <2>1 DEF CreateSandbox, TypeOK, BusyRuns, Except, TryPhases
  <2> QED BY <1>10, <2>2, <2>3, SpendType DEF CreateSandbox, TypeOK, database, broker
<1>11. ASSUME NEW w \in Workers, Compile(w) PROVE TypeOK'
  <2>1. run[w] \in BusyRuns BY <1>11, BusyRun DEF Compile
  <2>2. run' \in [Workers -> IdleRuns \cup BusyRuns]
    BY <1>11, <2>1 DEF Compile, TypeOK, BusyRuns, Except, TryPhases
  <2> QED BY <1>11, <2>2, SpendType DEF Compile, TypeOK, database, broker
<1>12. ASSUME NEW w \in Workers, CommitCompilationError(w) PROVE TypeOK'
  <2>1. run[w] \in BusyRuns BY <1>12, BusyRun DEF CommitCompilationError, TryPhases
  <2>2. run[w].verdict \in Verdicts /\ "COMPILATION_ERROR" \in Statuses
    BY <2>1 DEF BusyRuns, Statuses, Final
  <2>3. row' \in [Submissions -> Rows]
    BY <1>12, <2>2, WriteRowType DEF CommitCompilationError, TypeOK
  <2>4. run' \in [Workers -> IdleRuns \cup BusyRuns]
    BY <1>12, <2>1, <2>2 DEF CommitCompilationError, TypeOK, BusyRuns, Except
  <2> QED BY <1>12, <2>3, <2>4, SpendType DEF CommitCompilationError, TypeOK, broker
<1>13. ASSUME NEW w \in Workers, CommitRunning(w) PROVE TypeOK'
  <2>1. run[w] \in BusyRuns BY <1>13, BusyRun DEF CommitRunning
  <2>2. run[w].verdict \in Verdicts /\ "RUNNING" \in Statuses BY <2>1 DEF BusyRuns, Statuses
  <2>3. row' \in [Submissions -> Rows]
    BY <1>13, <2>2, WriteRowType DEF CommitRunning, TypeOK
  <2>4. run' \in [Workers -> IdleRuns \cup BusyRuns]
    BY <1>13, <2>1, <2>2 DEF CommitRunning, TypeOK, BusyRuns, Except, TryPhases
  <2> QED BY <1>13, <2>3, <2>4, SpendType DEF CommitRunning, TypeOK, broker
<1>14. ASSUME NEW w \in Workers, RunTest(w) PROVE TypeOK'
  <2>1. run[w] \in BusyRuns BY <1>14, BusyRun DEF RunTest
  <2>2. run' \in [Workers -> IdleRuns \cup BusyRuns]
    <3>1. CASE \E t \in run[w].left : run' = [run EXCEPT ![w].left = @ \ {t}]
      BY <2>1, <3>1 DEF TypeOK, BusyRuns
    <3>2. ASSUME NEW t \in run[w].left, NEW o \in Outcomes,
                 run' = [run EXCEPT ![w].left = @ \ {t},
                            ![w].pending = @ \cup {[test |-> t, status |-> o]},
                            ![w].worst = IF o = "ACCEPTED" THEN @ ELSE o]
          PROVE  run' \in [Workers -> IdleRuns \cup BusyRuns]
      <4>1. t \in Tests /\ o \in ExecStatuses BY <2>1 DEF BusyRuns
      <4> DEFINE left == run[w].left \ {t}
                 pending == run[w].pending \cup {[test |-> t, status |-> o]}
                 worst == IF o = "ACCEPTED" THEN run[w].worst ELSE o
      <4>2. /\ left \in SUBSET Tests
            /\ pending \in SUBSET [test : Tests, status : ExecStatuses]
            /\ worst \in ExecStatuses
        BY <2>1, <4>1 DEF BusyRuns
      <4>3. run' = [run EXCEPT ![w] =
                      [run[w] EXCEPT !.left = left, !.pending = pending, !.worst = worst]]
        BY <2>1, <3>2 DEF TypeOK
      <4> HIDE DEF left, pending, worst
      <4>4. [run[w] EXCEPT !.left = left, !.pending = pending, !.worst = worst] \in BusyRuns
        BY <2>1, <4>2 DEF BusyRuns
      <4> QED BY <4>3, <4>4 DEF TypeOK
    <3>3. CASE Except(w, FALSE) BY <2>1, <3>3 DEF TypeOK, BusyRuns, Except
    <3> QED BY <1>14, <3>1, <3>2, <3>3 DEF RunTest
  <2> QED BY <1>14, <2>2, SpendType DEF RunTest, TypeOK, database, broker
<1>15. ASSUME NEW w \in Workers, CommitVerdict(w) PROVE TypeOK'
  <2>1. run[w] \in BusyRuns BY <1>15, BusyRun DEF CommitVerdict
  <2>2. run[w].worst \in Statuses /\ run[w].worst \in Verdicts
    BY <2>1 DEF BusyRuns, Statuses, Final, Verdicts
  <2>3. row' \in [Submissions -> Rows] /\ results' \in SUBSET Results
    BY <1>15, <2>2, WriteRowType, WriteResultsType DEF CommitVerdict, TypeOK
  <2>4. run' \in [Workers -> IdleRuns \cup BusyRuns]
    BY <1>15, <2>1, <2>2 DEF CommitVerdict, TypeOK, BusyRuns, Except
  <2> QED BY <1>15, <2>3, <2>4, SpendType DEF CommitVerdict, TypeOK, broker
<1>16. ASSUME NEW w \in Workers, HandleException(w) PROVE TypeOK'
  <2>1. run[w] \in BusyRuns BY <1>16, BusyRun DEF HandleException
  <2>2. "RUNTIME_ERROR" \in Statuses /\ "JUDGE_ERROR" \in Verdicts
    BY DEF Statuses, Final, ExecStatuses, Verdicts
  <2>3. row' \in [Submissions -> Rows] /\ results' \in SUBSET Results
    BY <1>16, <2>2, WriteRowType, WriteResultsType DEF HandleException, TypeOK
  <2>4. run' \in [Workers -> IdleRuns \cup BusyRuns]
    BY <1>16, <2>1, <2>2 DEF HandleException, TypeOK, BusyRuns
  <2> QED BY <1>16, <2>3, <2>4, SpendType DEF HandleException, TypeOK, broker
<1>17. ASSUME NEW w \in Workers, DestroySandbox(w) PROVE TypeOK'
  <2>1. run[w] \in BusyRuns BY <1>17, BusyRun DEF DestroySandbox
  <2>2. run' \in [Workers -> IdleRuns \cup BusyRuns]
    BY <1>17, <2>1 DEF DestroySandbox, TypeOK, BusyRuns, Escape
  <2> QED BY <1>17, <2>2, SpendType DEF DestroySandbox, TypeOK, database, broker
<1>18. ASSUME NEW w \in Workers, TaskStep(w) PROVE TypeOK'
  <2>1. run[w] \in BusyRuns
    BY <1>18, BusyRun DEF TaskStep, Complete, Retry, AcknowledgeRetried, GiveUp
  <2>2. CASE Complete(w) BY <2>2 DEF Complete, Acknowledge, TypeOK, IdleRuns, database
  <2>3. CASE Retry(w)
    <3>1. [sub |-> Sub(w), retries |-> run[w].msg.retries + 1, by |-> run[w].no] \in Message
      BY <2>1, <2>3 DEF Retry, BusyRuns, Message, MaxRetries, Sub
    <3>2. run' \in [Workers -> IdleRuns \cup BusyRuns]
      BY <2>1, <2>3 DEF Retry, TypeOK, BusyRuns
    <3> QED BY <2>3, <3>1, <3>2 DEF Retry, TypeOK, database
  <2>4. CASE AcknowledgeRetried(w)
    BY <2>4 DEF AcknowledgeRetried, Acknowledge, TypeOK, IdleRuns, database
  <2>5. CASE GiveUp(w)
    <3>1. run[w].msg \in Message BY <2>1 DEF BusyRuns
    <3> QED BY <2>5, <3>1, SpendType DEF GiveUp, Acknowledge, TypeOK, IdleRuns, database
  <2> QED BY <1>18, <2>2, <2>3, <2>4, <2>5 DEF TaskStep
<1>19. ASSUME NEW w \in Workers, Crash(w) PROVE TypeOK'
  BY <1>19, SpendType DEF Crash, TypeOK, IdleRuns, database, broker
<1>20. ASSUME NEW m \in unacked, Redeliver(m) \/ RedeliverEarly(m) PROVE TypeOK'
  BY <1>20, SpendType DEF Redeliver, RedeliverEarly, Requeue, TypeOK, database
<1>21. CASE UNCHANGED vars BY <1>21 DEF vars, TypeOK
<1> QED
  BY <1>1, <1>2, <1>3, <1>4, <1>5, <1>6, <1>7, <1>8, <1>9, <1>10, <1>11, <1>12, <1>13,
     <1>14, <1>15, <1>16, <1>17, <1>18, <1>19, <1>20, <1>21
  DEF Next, ApiStep, JudgeStep

(* The state of the pipeline is always well typed, whatever fails. *)
THEOREM TypeCorrect == Spec => []TypeOK
<1>1. Init => TypeOK BY TypeInit
<1>2. TypeOK /\ [Next]_vars => TypeOK' BY TypeStep
<1> QED BY <1>1, <1>2, PTL DEF Spec

(***************************************************************************)
(* What the steps of a run leave alone                                     *)
(***************************************************************************)

(* A step of judge_submission keeps the identity of its run, touches no     *)
(* other run and no other submission's row, and publishes results only from *)
(* a phase after which the run publishes nothing more.                      *)
LEMMA JudgeFrame ==
  ASSUME TypeOK, NEW w \in Workers, JudgeStep(w)
  PROVE  /\ run[w] \in BusyRuns
         /\ run' \in [Workers -> IdleRuns \cup BusyRuns]
         /\ run'[w].phase # "idle"
         /\ run'[w].msg = run[w].msg /\ run'[w].no = run[w].no
         /\ \A v \in Workers : v # w => run'[v] = run[v]
         /\ UNCHANGED <<api, queue, unacked, starts, tests>>
         /\ \A s \in Submissions : s # Sub(w) => row'[s] = row[s]
         /\ \/ results' = results /\ (MayReport(w)' => MayReport(w))
            \/ results' = results \cup PendingRows(w) /\ MayReport(w) /\ ~MayReport(w)'
<1> USE DEF MayReport, Working, TryPhases, WriteRow, WriteResults, Except, Escape, broker, database
<1>0. run \in [Workers -> IdleRuns \cup BusyRuns] BY DEF TypeOK
<1>1. run[w] \in BusyRuns
  BY BusyRun DEF JudgeStep, Fetch, MarkCompiling, LoadTests, CreateSandbox, Compile,
     CommitCompilationError, CommitRunning, RunTest, CommitVerdict, HandleException,
     DestroySandbox
<1>2. run' \in [Workers -> IdleRuns \cup BusyRuns]
  BY TypeStep DEF Next, TypeOK
<1>3. row \in [Submissions -> Rows] BY DEF TypeOK
<1>4. CASE Fetch(w) BY <1>0, <1>1, <1>2, <1>3, <1>4 DEF Fetch, BusyRuns
<1>5. CASE MarkCompiling(w) BY <1>0, <1>1, <1>2, <1>3, <1>5 DEF MarkCompiling, BusyRuns
<1>6. CASE LoadTests(w) BY <1>0, <1>1, <1>2, <1>3, <1>6 DEF LoadTests, BusyRuns
<1>7. CASE CreateSandbox(w) BY <1>0, <1>1, <1>2, <1>3, <1>7 DEF CreateSandbox, BusyRuns
<1>8. CASE Compile(w) BY <1>0, <1>1, <1>2, <1>3, <1>8 DEF Compile, BusyRuns
<1>9. CASE CommitCompilationError(w)
  BY <1>0, <1>1, <1>2, <1>3, <1>9 DEF CommitCompilationError, BusyRuns
<1>10. CASE CommitRunning(w) BY <1>0, <1>1, <1>2, <1>3, <1>10 DEF CommitRunning, BusyRuns
<1>11. CASE RunTest(w)
  <2>1. /\ run[w].phase = "test"
        /\ run'[w].phase \in {"test", "handler"}
        /\ run'[w].msg = run[w].msg /\ run'[w].no = run[w].no
        /\ \A v \in Workers : v # w => run'[v] = run[v]
    <3>1. CASE Except(w, FALSE) BY <1>0, <1>1, <1>11, <3>1 DEF RunTest, BusyRuns
    <3>2. CASE \E t \in run[w].left : run' = [run EXCEPT ![w].left = @ \ {t}]
      BY <1>0, <1>1, <1>11, <3>2 DEF RunTest, BusyRuns, At
    <3>3. CASE \E t \in run[w].left, o \in Outcomes :
                 run' = [run EXCEPT ![w].left = @ \ {t},
                           ![w].pending = @ \cup {[test |-> t, status |-> o]},
                           ![w].worst = IF o = "ACCEPTED" THEN @ ELSE o]
      <4>1. PICK t \in run[w].left, o \in Outcomes :
               run' = [run EXCEPT ![w].left = @ \ {t},
                         ![w].pending = @ \cup {[test |-> t, status |-> o]},
                         ![w].worst = IF o = "ACCEPTED" THEN @ ELSE o]
        BY <3>3
      <4>2. \A v \in Workers : v # w => run'[v] = run[v] BY <1>0, <4>1
      <4>3. /\ run'[w].phase = run[w].phase
            /\ run'[w].msg = run[w].msg /\ run'[w].no = run[w].no
        BY <1>0, <1>1, <4>1 DEF BusyRuns
      <4> QED BY <1>11, <4>2, <4>3 DEF RunTest, At
    <3> QED BY <1>11, <3>1, <3>2, <3>3 DEF RunTest
  <2>2. UNCHANGED <<api, queue, unacked, starts, tests, row, results>>
    BY <1>11 DEF RunTest
  <2> QED BY <1>1, <1>2, <2>1, <2>2
<1>12. CASE CommitVerdict(w)
  <2>1. /\ run'[w].phase \in {"cleanup", "handler"}
        /\ run'[w].phase = "handler" => run'[w].broken
        /\ run'[w].msg = run[w].msg /\ run'[w].no = run[w].no
        /\ \A v \in Workers : v # w => run'[v] = run[v]
    BY <1>0, <1>1, <1>12 DEF CommitVerdict, BusyRuns
  <2>2. /\ UNCHANGED <<api, queue, unacked, starts, tests>>
        /\ results' = results \/ results' = results \cup PendingRows(w)
        /\ \A s \in Submissions : s # Sub(w) => row'[s] = row[s]
        /\ run[w].phase = "test"
    BY <1>3, <1>12 DEF CommitVerdict
  <2> QED BY <1>1, <1>2, <2>1, <2>2
<1>13. CASE HandleException(w) BY <1>0, <1>1, <1>2, <1>3, <1>13 DEF HandleException, BusyRuns
<1>14. CASE DestroySandbox(w) BY <1>0, <1>1, <1>2, <1>3, <1>14 DEF DestroySandbox, BusyRuns
<1> QED
  BY <1>4, <1>5, <1>6, <1>7, <1>8, <1>9, <1>10, <1>11, <1>12, <1>13, <1>14 DEF JudgeStep

(* What a step of judge_submission writes: a status on the way (the verdict *)
(* as the session has it), or a final status together with the results.     *)
LEMMA JudgeWrites ==
  ASSUME NEW w \in Workers, JudgeStep(w)
  PROVE  \/ UNCHANGED <<row, results>>
         \/ /\ UNCHANGED results
            /\ \/ At(w, "mark") /\ WriteRow(w, "COMPILING", run[w].verdict)
               \/ At(w, "reject") /\ WriteRow(w, "COMPILATION_ERROR", run[w].verdict)
               \/ At(w, "accept") /\ WriteRow(w, "RUNNING", run[w].verdict)
         \/ /\ WriteResults(w)
            /\ \/ At(w, "test") /\ run[w].left = {} /\ WriteRow(w, run[w].worst, run[w].worst)
               \/ At(w, "handler") /\ ~run[w].broken /\ WriteRow(w, "RUNTIME_ERROR", "JUDGE_ERROR")
<1> USE DEF database
<1>1. CASE \/ Fetch(w) \/ LoadTests(w) \/ CreateSandbox(w) \/ Compile(w) \/ RunTest(w)
           \/ DestroySandbox(w)
  BY <1>1 DEF Fetch, LoadTests, CreateSandbox, Compile, RunTest, DestroySandbox
<1>2. CASE MarkCompiling(w) BY <1>2 DEF MarkCompiling
<1>3. CASE CommitCompilationError(w) BY <1>3 DEF CommitCompilationError
<1>4. CASE CommitRunning(w) BY <1>4 DEF CommitRunning
<1>5. CASE CommitVerdict(w) BY <1>5 DEF CommitVerdict
<1>6. CASE HandleException(w) BY <1>6 DEF HandleException
<1> QED BY <1>1, <1>2, <1>3, <1>4, <1>5, <1>6 DEF JudgeStep

(* A step of the task around it ends the run or leaves it to acknowledge;   *)
(* what it publishes is about the same submission.                          *)
LEMMA TaskFrame ==
  ASSUME TypeOK, NEW w \in Workers, TaskStep(w) \/ Crash(w)
  PROVE  /\ run[w] \in BusyRuns
         /\ \A v \in Workers : v # w => run'[v] = run[v]
         /\ \/ run'[w] = NoRun
            \/ /\ run'[w].phase = "ack"
               /\ run'[w].msg = run[w].msg /\ run'[w].no = run[w].no
         /\ UNCHANGED <<api, row, tests, results, starts>>
         /\ \A m \in queue' \cup unacked' : m \in queue \cup unacked \/ m.sub = Sub(w)
<1> USE DEF database, broker, Acknowledge
<1>0. run \in [Workers -> IdleRuns \cup BusyRuns] BY DEF TypeOK
<1>1. run[w] \in BusyRuns
  BY BusyRun DEF TaskStep, Complete, Retry, AcknowledgeRetried, GiveUp, Crash
<1>2. CASE Complete(w) \/ AcknowledgeRetried(w) \/ GiveUp(w) \/ Crash(w)
  BY <1>0, <1>1, <1>2 DEF Complete, AcknowledgeRetried, GiveUp, Crash
<1>3. CASE Retry(w) BY <1>0, <1>1, <1>3 DEF Retry, BusyRuns
<1> QED BY <1>1, <1>2, <1>3 DEF TaskStep

(* A delivery starts a run with a number of its own.                        *)
LEMMA DeliverFrame ==
  ASSUME TypeOK, NEW w \in Workers, NEW m \in queue, Deliver(w, m)
  PROVE  /\ m \in Message
         /\ run'[w] = RunOf("fetch", m, starts[m.sub] + 1)
         /\ \A v \in Workers : v # w => run'[v] = run[v]
         /\ starts' = [starts EXCEPT ![m.sub] = @ + 1]
         /\ UNCHANGED <<api, row, tests, results>>
         /\ queue' \cup unacked' = queue \cup unacked
BY DEF Deliver, TypeOK, database

(* Everything else leaves the runs and the published results alone.         *)
LEMMA OtherFrame ==
  ASSUME TypeOK, Next,
         \A w \in Workers : ~JudgeStep(w) /\ ~TaskStep(w) /\ ~Crash(w),
         \A w \in Workers, m \in queue : ~Deliver(w, m)
  PROVE  /\ UNCHANGED <<run, starts, results>>
         /\ tests' \subseteq tests
         /\ \/ UNCHANGED row /\ UNCHANGED <<api, queue, unacked>>
            \/ UNCHANGED row /\ UNCHANGED api /\ queue' \cup unacked' = queue \cup unacked
            \/ UNCHANGED row /\ \E s \in Submissions : Enqueue(s) \/ EnqueueFails(s)
            \/ \E s \in Submissions : CreateSubmission(s)
<1> USE DEF database, broker
<1>1. CASE \E s \in Submissions : ApiStep(s)
  BY <1>1 DEF ApiStep, CreateSubmission, Enqueue, EnqueueFails, Rejudge
<1>2. CASE \E t \in Tests : DeleteTestCase(t) BY <1>2 DEF DeleteTestCase
<1>3. CASE \E m \in unacked : Redeliver(m) \/ RedeliverEarly(m)
  BY <1>3 DEF Redeliver, RedeliverEarly, Requeue
<1> QED BY <1>1, <1>2, <1>3 DEF Next

(***************************************************************************)
(* The inductive invariant VerdictInv, one lemma per conjunct              *)
(***************************************************************************)
LEMMA RunsAreDistinctStep ==
  ASSUME TypeOK, RunsAreDistinct, [Next]_vars
  PROVE  RunsAreDistinct'
<1> USE DEF RunsAreDistinct, Sub
<1>0. /\ run \in [Workers -> IdleRuns \cup BusyRuns]
      /\ starts \in [Submissions -> Nat] /\ results \in SUBSET Results
  BY DEF TypeOK
<1>1. ASSUME NEW w \in Workers, JudgeStep(w) PROVE RunsAreDistinct'
  <2>1. \A v \in Workers :
          /\ run'[v].msg = run[v].msg /\ run'[v].no = run[v].no
          /\ run'[v].phase # "idle" => run[v].phase # "idle"
    BY <1>1, JudgeFrame DEF BusyRuns
  <2>2. \A r \in results' : r \in results \/ (r.sub = Sub(w) /\ r.no = run[w].no)
    BY <1>1, JudgeFrame DEF PendingRows
  <2>3. run[w].phase # "idle" /\ starts' = starts BY <1>1, JudgeFrame DEF BusyRuns
  <2> QED BY <2>1, <2>2, <2>3
<1>2. ASSUME NEW w \in Workers, TaskStep(w) \/ Crash(w) PROVE RunsAreDistinct'
  <2>1. \A v \in Workers : run'[v].phase # "idle" =>
          /\ run'[v].msg = run[v].msg /\ run'[v].no = run[v].no
          /\ run[v].phase # "idle"
    BY <1>2, TaskFrame DEF BusyRuns, NoRun, RunOf
  <2> QED BY <1>2, <2>1, TaskFrame
<1>3. ASSUME NEW w \in Workers, NEW m \in queue, Deliver(w, m) PROVE RunsAreDistinct'
  <2>0. run'[w].msg = m /\ run'[w].no = starts[m.sub] + 1
    <3>1. run'[w] = RunOf("fetch", m, starts[m.sub] + 1) BY <1>3, DeliverFrame
    <3> QED BY <3>1 DEF RunOf
  <2>1. /\ run'[w].msg = m /\ run'[w].no = starts[m.sub] + 1
        /\ \A v \in Workers : v # w => run'[v] = run[v]
        /\ m.sub \in Submissions /\ results' = results
        /\ starts' = [starts EXCEPT ![m.sub] = @ + 1]
    BY <1>3, <2>0, DeliverFrame DEF Message
  <2>2. \A v \in Workers : run[v].phase # "idle" => Sub(v) \in Submissions /\ run[v].no \in Nat
    BY <1>0 DEF IdleRuns, BusyRuns, NoRun, RunOf, Message
  <2>3. \A s \in Submissions : starts[s] \in Nat /\ starts'[s] \in Nat /\ starts[s] <= starts'[s]
    BY <1>0, <2>1
  <2>4. \A r \in results : r.no \in Nat /\ r.sub \in Submissions BY <1>0 DEF Results
  <2>5. starts'[m.sub] = starts[m.sub] + 1 BY <1>0, <2>1
  <2>6. \A v \in Workers : v # w /\ run[v].phase # "idle" =>
          run[v].no <= starts'[Sub(v)] /\ (Sub(v) = m.sub => run[v].no # run'[w].no)
    BY <2>1, <2>2, <2>3, <2>5
  <2>7. \A r \in results' : r.no <= starts'[r.sub] BY <2>1, <2>3, <2>4
  <2> HIDE DEF RunsAreDistinct
  <2>8. \A u, v \in Workers :
          run'[u].phase # "idle" /\ run'[v].phase # "idle" /\ u # v
            /\ run'[u].msg.sub = run'[v].msg.sub => run'[u].no # run'[v].no
    BY <2>1, <2>6 DEF RunsAreDistinct
  <2>9. \A v \in Workers : run'[v].phase # "idle" => run'[v].no <= starts'[run'[v].msg.sub]
    BY <2>1, <2>3, <2>5, <2>6
  <2> QED BY <2>7, <2>8, <2>9 DEF RunsAreDistinct
<1>4. CASE /\ Next
           /\ \A w \in Workers : ~JudgeStep(w) /\ ~TaskStep(w) /\ ~Crash(w)
           /\ \A w \in Workers, m \in queue : ~Deliver(w, m)
  BY <1>4, OtherFrame
<1>5. CASE UNCHANGED vars BY <1>5 DEF vars
<1> QED BY <1>1, <1>2, <1>3, <1>4, <1>5

LEMMA UnreportedStep ==
  ASSUME TypeOK, RunsAreDistinct, Unreported, [Next]_vars
  PROVE  Unreported'
<1> USE DEF Unreported, Sub
<1>0. /\ run \in [Workers -> IdleRuns \cup BusyRuns]
      /\ starts \in [Submissions -> Nat] /\ results \in SUBSET Results
  BY DEF TypeOK
<1>1. ASSUME NEW w \in Workers, JudgeStep(w) PROVE Unreported'
  <2>1. \A v \in Workers :
          /\ run'[v].msg = run[v].msg /\ run'[v].no = run[v].no
          /\ MayReport(v)' => MayReport(v) /\ run[v].phase # "idle"
    BY <1>1, JudgeFrame DEF BusyRuns, MayReport, Working, TryPhases
  <2>2. CASE results' = results BY <2>1, <2>2
  <2>3. CASE results' = results \cup PendingRows(w) /\ MayReport(w) /\ ~MayReport(w)'
    <3>1. \A r \in results' : r \in results \/ (r.sub = Sub(w) /\ r.no = run[w].no)
      BY <2>3 DEF PendingRows
    <3>2. \A v \in Workers : MayReport(v)' => v # w BY <2>3
    <3>3. run[w].phase # "idle" BY <1>1, JudgeFrame DEF BusyRuns
    <3> QED BY <2>1, <3>1, <3>2, <3>3 DEF RunsAreDistinct
  <2> QED BY <1>1, <2>2, <2>3, JudgeFrame
<1>2. ASSUME NEW w \in Workers, TaskStep(w) \/ Crash(w) PROVE Unreported'
  <2>1. \A v \in Workers : MayReport(v)' => run'[v] = run[v]
    BY <1>2, TaskFrame DEF MayReport, Working, TryPhases, NoRun, RunOf
  <2> QED BY <1>2, <2>1, TaskFrame DEF MayReport
<1>3. ASSUME NEW w \in Workers, NEW m \in queue, Deliver(w, m) PROVE Unreported'
  <2>0. run'[w].msg = m /\ run'[w].no = starts[m.sub] + 1
    <3>1. run'[w] = RunOf("fetch", m, starts[m.sub] + 1) BY <1>3, DeliverFrame
    <3> QED BY <3>1 DEF RunOf
  <2>1. /\ run'[w].msg = m /\ run'[w].no = starts[m.sub] + 1
        /\ \A v \in Workers : v # w => run'[v] = run[v]
        /\ m.sub \in Submissions /\ results' = results
    BY <1>3, <2>0, DeliverFrame DEF Message
  <2>2. \A r \in results : r.no \in Nat /\ r.no <= starts[r.sub]
    BY <1>0 DEF Results, RunsAreDistinct
  <2>3. \A r \in results : r.sub = m.sub => r.no # run'[w].no BY <1>0, <2>1, <2>2
  <2> QED BY <2>1, <2>3 DEF MayReport
<1>4. CASE /\ Next
           /\ \A w \in Workers : ~JudgeStep(w) /\ ~TaskStep(w) /\ ~Crash(w)
           /\ \A w \in Workers, m \in queue : ~Deliver(w, m)
  BY <1>4, OtherFrame DEF MayReport
<1>5. CASE UNCHANGED vars BY <1>5 DEF vars, MayReport
<1> QED BY <1>1, <1>2, <1>3, <1>4, <1>5

(* How the session's copy of the status moves.                              *)
LEMMA StatusMoves ==
  ASSUME TypeOK, NEW w \in Workers, JudgeStep(w)
  PROVE  /\ run'[w].phase = "mark" => row' = row /\ run'[w].status = row[Sub(w)].status
         /\ run'[w].phase \in TryPhases \cup {"load", "handler"} =>
              \/ /\ run[w].phase \in TryPhases \cup {"load", "handler"}
                 /\ run'[w].status \in {run[w].status, "RUNNING"}
              \/ /\ At(w, "mark") /\ run'[w].status = "COMPILING"
                 /\ WriteRow(w, "COMPILING", run[w].verdict)
<1> USE DEF TryPhases, Except, Escape, database
<1>0. run \in [Workers -> IdleRuns \cup BusyRuns] BY DEF TypeOK
<1>1. run[w] \in BusyRuns BY JudgeFrame
<1>2. CASE Fetch(w) BY <1>0, <1>1, <1>2 DEF Fetch, BusyRuns
<1>3. CASE MarkCompiling(w) BY <1>0, <1>1, <1>3 DEF MarkCompiling, BusyRuns
<1>4. CASE LoadTests(w) BY <1>0, <1>1, <1>4 DEF LoadTests, BusyRuns
<1>5. CASE CreateSandbox(w) BY <1>0, <1>1, <1>5 DEF CreateSandbox, BusyRuns
<1>6. CASE Compile(w) BY <1>0, <1>1, <1>6 DEF Compile, BusyRuns
<1>7. CASE CommitCompilationError(w) BY <1>0, <1>1, <1>7 DEF CommitCompilationError, BusyRuns
<1>8. CASE CommitRunning(w) BY <1>0, <1>1, <1>8 DEF CommitRunning, BusyRuns
<1>9. CASE RunTest(w)
  <2>1. run[w].phase = "test" BY <1>9 DEF RunTest
  <2>2. CASE Except(w, FALSE) BY <1>0, <1>1, <2>1, <2>2 DEF BusyRuns
  <2>3. CASE \E t \in run[w].left : run' = [run EXCEPT ![w].left = @ \ {t}]
    BY <1>0, <1>1, <2>1, <2>3 DEF BusyRuns
  <2>4. ASSUME NEW t \in run[w].left, NEW o \in Outcomes,
               run' = [run EXCEPT ![w].left = @ \ {t},
                         ![w].pending = @ \cup {[test |-> t, status |-> o]},
                         ![w].worst = IF o = "ACCEPTED" THEN @ ELSE o]
        PROVE  run'[w].phase = "test" /\ run'[w].status = run[w].status
    BY <1>0, <1>1, <2>1, <2>4 DEF BusyRuns
  <2> QED BY <1>9, <2>1, <2>2, <2>3, <2>4 DEF RunTest
<1>10. CASE CommitVerdict(w)
  <2>1. run[w].phase = "test" BY <1>10 DEF CommitVerdict
  <2>2. CASE Except(w, TRUE) BY <1>0, <1>1, <2>1, <2>2 DEF BusyRuns
  <2>3. CASE run' = [run EXCEPT ![w].phase = "cleanup", ![w].status = run[w].worst,
                       ![w].verdict = run[w].worst, ![w].pending = {}]
    BY <1>0, <1>1, <2>3 DEF BusyRuns
  <2> QED BY <1>10, <2>2, <2>3 DEF CommitVerdict
<1>11. CASE HandleException(w) BY <1>0, <1>1, <1>11 DEF HandleException, BusyRuns
<1>12. CASE DestroySandbox(w) BY <1>0, <1>1, <1>12 DEF DestroySandbox, BusyRuns
<1> QED
  BY <1>2, <1>3, <1>4, <1>5, <1>6, <1>7, <1>8, <1>9, <1>10, <1>11, <1>12 DEF JudgeStep

(* A commit that says something says a status other than QUEUED and ABSENT. *)
LEMMA RowMoves ==
  ASSUME TypeOK, NEW w \in Workers, JudgeStep(w), row' # row
  PROVE  /\ Sub(w) \in Submissions
         /\ \A s \in Submissions : s # Sub(w) => row'[s] = row[s]
         /\ \/ row'[Sub(w)].status = row[Sub(w)].status
            \/ row'[Sub(w)].status \in Final \cup {"COMPILING", "RUNNING"}
<1>1. run[w] \in BusyRuns BY JudgeFrame
<1>2. Sub(w) \in Submissions BY <1>1 DEF Sub, BusyRuns, Message
<1>3. run[w].worst \in ExecStatuses BY <1>1 DEF BusyRuns
<1>4. ASSUME NEW st \in Final \cup {"COMPILING", "RUNNING"}, NEW v, WriteRow(w, st, v)
      PROVE  row'[Sub(w)].status \in {row[Sub(w)].status, st}
  BY <1>2, <1>4 DEF WriteRow, TypeOK
<1>5. \E st \in Final \cup {"COMPILING", "RUNNING"}, v \in Verdicts : WriteRow(w, st, v)
  <2>1. run[w].verdict \in Verdicts BY <1>1 DEF BusyRuns
  <2> QED BY <1>3, <2>1, JudgeWrites DEF Final, ExecStatuses, Verdicts
<1> QED BY <1>2, <1>4, <1>5, JudgeFrame

LEMMA StartedStep ==
  ASSUME TypeOK, Started, [Next]_vars
  PROVE  Started'
<1> USE DEF Started, Sub
<1>0. /\ run \in [Workers -> IdleRuns \cup BusyRuns]
      /\ row \in [Submissions -> Rows]
      /\ api \in [Submissions -> {"none", "committed", "answered", "failed"}]
  BY DEF TypeOK
<1>1. ASSUME NEW w \in Workers, JudgeStep(w) PROVE Started'
  <2>1. /\ run[w].phase # "idle"
        /\ run'[w].msg = run[w].msg
        /\ \A v \in Workers : v # w => run'[v] = run[v]
        /\ UNCHANGED <<api, queue, unacked>>
    BY <1>1, JudgeFrame DEF BusyRuns
  <2>2. \A s \in Submissions :
          \/ row'[s].status = row[s].status
          \/ s = Sub(w) /\ row'[s].status \in Final \cup {"COMPILING", "RUNNING"}
    BY <1>1, RowMoves
  <2>3. \A v \in Workers : run[v].phase # "idle" => Sub(v) \in Submissions
    BY <1>0 DEF IdleRuns, BusyRuns, NoRun, RunOf, Message
  <2>4. \A s \in Submissions : row[s].status # "QUEUED" => row'[s].status # "QUEUED"
    BY <2>2 DEF Final, ExecStatuses
  <2>5. \A s \in Submissions :
          /\ api[s] = "none" => row'[s].status = "ABSENT"
          /\ api[s] # "none" => row'[s].status # "ABSENT"
    BY <2>1, <2>2 DEF Final, ExecStatuses
  <2>6. run'[w].phase = "mark" /\ run'[w].status = "COMPILING" => row'[Sub(w)].status # "QUEUED"
    BY <1>1, StatusMoves
  <2>7. run'[w].phase \in TryPhases \cup {"load", "handler"} =>
          run'[w].status \in {"COMPILING", "RUNNING"} /\ row'[Sub(w)].status # "QUEUED"
    <3>1. CASE /\ At(w, "mark") /\ run'[w].status = "COMPILING"
               /\ WriteRow(w, "COMPILING", run[w].verdict)
      <4>1. row'[Sub(w)].status =
              IF run[w].status = "COMPILING" THEN row[Sub(w)].status ELSE "COMPILING"
        BY <1>0, <2>1, <2>3, <3>1 DEF WriteRow
      <4> QED BY <3>1, <4>1
    <3>2. CASE /\ run[w].phase \in TryPhases \cup {"load", "handler"}
               /\ run'[w].status \in {run[w].status, "RUNNING"}
      BY <2>1, <2>3, <2>4, <3>2
    <3> QED BY <1>1, <3>1, <3>2, StatusMoves
  <2>8. \A v \in Workers : v # w /\ run'[v].phase = "mark" /\ run'[v].status = "COMPILING" =>
          row'[run'[v].msg.sub].status # "QUEUED"
    BY <2>1, <2>3, <2>4
  <2>9. \A v \in Workers : v # w /\ run'[v].phase \in TryPhases \cup {"load", "handler"} =>
          /\ run'[v].status \in {"COMPILING", "RUNNING"}
          /\ row'[run'[v].msg.sub].status # "QUEUED"
    BY <2>1, <2>3, <2>4 DEF TryPhases
  <2>10. \A v \in Workers : run'[v].phase # "idle" => api'[run'[v].msg.sub] = "answered"
    BY <2>1
  <2> QED BY <2>1, <2>5, <2>6, <2>7, <2>8, <2>9, <2>10
<1>2. ASSUME NEW w \in Workers, TaskStep(w) \/ Crash(w) PROVE Started'
  <2>1. \A v \in Workers : run'[v].phase \notin {"idle", "ack"} => run'[v] = run[v]
    BY <1>2, TaskFrame DEF NoRun, RunOf
  <2>2. \A v \in Workers : run'[v].phase # "idle" =>
          run'[v].msg = run[v].msg /\ run[v].phase # "idle"
    BY <1>2, TaskFrame DEF BusyRuns, NoRun, RunOf
  <2>3. run[w].phase # "idle" BY <1>2, TaskFrame DEF BusyRuns
  <2> QED BY <1>2, <2>1, <2>2, <2>3, TaskFrame DEF TryPhases
<1>3. ASSUME NEW w \in Workers, NEW m \in queue, Deliver(w, m) PROVE Started'
  <2>1. run'[w].msg = m /\ run'[w].phase = "fetch"
    <3>1. run'[w] = RunOf("fetch", m, starts[m.sub] + 1) BY <1>3, DeliverFrame
    <3> QED BY <3>1 DEF RunOf
  <2> QED BY <1>3, <2>1, DeliverFrame DEF TryPhases
<1>4. CASE /\ Next
           /\ \A w \in Workers : ~JudgeStep(w) /\ ~TaskStep(w) /\ ~Crash(w)
           /\ \A w \in Workers, m \in queue : ~Deliver(w, m)
  <2>1. CASE UNCHANGED <<row, api>> /\ queue' \cup unacked' = queue \cup unacked
    BY <1>4, <2>1, OtherFrame
  <2>2. ASSUME NEW s \in Submissions, Enqueue(s) \/ EnqueueFails(s), UNCHANGED row
        PROVE  Started'
    <3>1. /\ api[s] = "committed"
          /\ \A r \in Submissions : api'[r] = api[r] \/ (r = s /\ api'[r] \in {"answered", "failed"})
          /\ \A m \in queue' \cup unacked' : m \in queue \cup unacked \/ (m.sub = s /\ api'[s] = "answered")
          /\ UNCHANGED run
      BY <1>0, <2>2 DEF Enqueue, EnqueueFails, broker
    <3>2. /\ \A m \in queue \cup unacked : m.sub \in Submissions
          /\ \A v \in Workers : run[v].phase # "idle" => Sub(v) \in Submissions
      BY <1>0 DEF TypeOK, IdleRuns, BusyRuns, NoRun, RunOf, Message
    <3> QED BY <2>2, <3>1, <3>2
  <2>3. ASSUME NEW s \in Submissions, CreateSubmission(s) PROVE Started'
    <3>1. /\ api[s] = "none"
          /\ \A r \in Submissions : r # s => api'[r] = api[r] /\ row'[r] = row[r]
          /\ api'[s] = "committed" /\ row'[s].status = "QUEUED"
          /\ UNCHANGED <<run, queue, unacked>>
      BY <1>0, <2>3 DEF CreateSubmission, broker, Rows
    <3>2. /\ \A m \in queue \cup unacked : m.sub \in Submissions
          /\ \A v \in Workers : run[v].phase # "idle" => Sub(v) \in Submissions
      BY <1>0 DEF TypeOK, IdleRuns, BusyRuns, NoRun, RunOf, Message
    <3> QED BY <3>1, <3>2 DEF TryPhases
  <2> QED BY <1>4, <2>1, <2>2, <2>3, OtherFrame
<1>5. CASE UNCHANGED vars BY <1>5 DEF vars
<1> QED BY <1>1, <1>2, <1>3, <1>4, <1>5

(* How the loop over the test cases moves.                                  *)
LEMMA LoopMoves ==
  ASSUME TypeOK, NEW w \in Workers, JudgeStep(w)
  PROVE  /\ run'[w].phase \in {"fetch", "mark", "load"} =>
              /\ run[w].phase \in {"fetch", "mark", "load"}
              /\ run'[w].pending = run[w].pending /\ run'[w].worst = run[w].worst
         /\ run'[w].phase \in TryPhases =>
              \/ /\ At(w, "load") /\ run'[w].left = tests
                 /\ run'[w].pending = run[w].pending /\ run'[w].worst = run[w].worst
              \/ /\ run[w].phase \in TryPhases /\ run'[w].left = run[w].left
                 /\ run'[w].pending = run[w].pending /\ run'[w].worst = run[w].worst
              \/ /\ At(w, "test")
                 /\ \E t \in run[w].left :
                      /\ run'[w].left = run[w].left \ {t}
                      /\ \/ /\ t \notin Verifiable
                            /\ run'[w].pending = run[w].pending /\ run'[w].worst = run[w].worst
                         \/ \E o \in Outcomes :
                              /\ run'[w].pending = run[w].pending \cup {[test |-> t, status |-> o]}
                              /\ run'[w].worst = IF o = "ACCEPTED" THEN run[w].worst ELSE o
<1> USE DEF TryPhases, Except, Escape, database
<1>0. run \in [Workers -> IdleRuns \cup BusyRuns] BY DEF TypeOK
<1>1. run[w] \in BusyRuns BY JudgeFrame
<1>2. CASE Fetch(w) BY <1>0, <1>1, <1>2 DEF Fetch, BusyRuns
<1>3. CASE MarkCompiling(w) BY <1>0, <1>1, <1>3 DEF MarkCompiling, BusyRuns
<1>4. CASE LoadTests(w) BY <1>0, <1>1, <1>4 DEF LoadTests, BusyRuns
<1>5. CASE CreateSandbox(w) BY <1>0, <1>1, <1>5 DEF CreateSandbox, BusyRuns
<1>6. CASE Compile(w) BY <1>0, <1>1, <1>6 DEF Compile, BusyRuns
<1>7. CASE CommitCompilationError(w) BY <1>0, <1>1, <1>7 DEF CommitCompilationError, BusyRuns
<1>8. CASE CommitRunning(w) BY <1>0, <1>1, <1>8 DEF CommitRunning, BusyRuns
<1>9. CASE RunTest(w)
  <2>1. run[w].phase = "test" BY <1>9 DEF RunTest
  <2>2. CASE Except(w, FALSE) BY <1>0, <1>1, <2>1, <2>2 DEF BusyRuns
  <2>3. ASSUME NEW t \in run[w].left, t \notin Verifiable,
               run' = [run EXCEPT ![w].left = @ \ {t}]
        PROVE  /\ run'[w].phase = "test" /\ run'[w].left = run[w].left \ {t}
               /\ run'[w].pending = run[w].pending /\ run'[w].worst = run[w].worst
    BY <1>0, <1>1, <2>1, <2>3 DEF BusyRuns
  <2>4. ASSUME NEW t \in run[w].left, NEW o \in Outcomes,
               run' = [run EXCEPT ![w].left = @ \ {t},
                         ![w].pending = @ \cup {[test |-> t, status |-> o]},
                         ![w].worst = IF o = "ACCEPTED" THEN @ ELSE o]
        PROVE  /\ run'[w].phase = "test" /\ run'[w].left = run[w].left \ {t}
               /\ run'[w].pending = run[w].pending \cup {[test |-> t, status |-> o]}
               /\ run'[w].worst = IF o = "ACCEPTED" THEN run[w].worst ELSE o
    BY <1>0, <1>1, <2>1, <2>4 DEF BusyRuns
  <2> QED BY <1>9, <2>1, <2>2, <2>3, <2>4 DEF RunTest
<1>10. CASE CommitVerdict(w)
  <2>1. CASE Except(w, TRUE) BY <1>0, <1>1, <2>1 DEF BusyRuns
  <2>2. CASE run' = [run EXCEPT ![w].phase = "cleanup", ![w].status = run[w].worst,
                       ![w].verdict = run[w].worst, ![w].pending = {}]
    BY <1>0, <1>1, <2>2 DEF BusyRuns
  <2> QED BY <1>10, <2>1, <2>2 DEF CommitVerdict
<1>11. CASE HandleException(w) BY <1>0, <1>1, <1>11 DEF HandleException, BusyRuns
<1>12. CASE DestroySandbox(w) BY <1>0, <1>1, <1>12 DEF DestroySandbox, BusyRuns
<1> QED
  BY <1>2, <1>3, <1>4, <1>5, <1>6, <1>7, <1>8, <1>9, <1>10, <1>11, <1>12 DEF JudgeStep

LEMMA CollectedStep ==
  ASSUME TypeOK, Collected, [Next]_vars
  PROVE  Collected'
<1> USE DEF Collected
<1>0. run \in [Workers -> IdleRuns \cup BusyRuns] BY DEF TypeOK
<1>1. ASSUME NEW w \in Workers, JudgeStep(w) PROVE Collected'
  <2>1. tests' = tests /\ \A v \in Workers : v # w => run'[v] = run[v]
    BY <1>1, JudgeFrame
  <2>2. run'[w].phase \in {"fetch", "mark", "load"} =>
          run'[w].pending = {} /\ run'[w].worst = "ACCEPTED"
    BY <1>1, LoopMoves
  <2>3. ASSUME run'[w].phase \in TryPhases
        PROVE  /\ \A t \in tests \cap Verifiable :
                    t \in run'[w].left \/ \E p \in run'[w].pending : p.test = t
               /\ IF run'[w].worst = "ACCEPTED"
                    THEN \A p \in run'[w].pending : p.status = "ACCEPTED"
                    ELSE \E p \in run'[w].pending : p.status = run'[w].worst
    <3>1. CASE /\ At(w, "load") /\ run'[w].left = tests
               /\ run'[w].pending = run[w].pending /\ run'[w].worst = run[w].worst
      BY <3>1
    <3>2. CASE /\ run[w].phase \in TryPhases /\ run'[w].left = run[w].left
               /\ run'[w].pending = run[w].pending /\ run'[w].worst = run[w].worst
      BY <3>2
    <3>3. ASSUME NEW t \in run[w].left, t \notin Verifiable, At(w, "test"),
                 run'[w].left = run[w].left \ {t},
                 run'[w].pending = run[w].pending, run'[w].worst = run[w].worst
          PROVE  /\ \A u \in tests \cap Verifiable :
                      u \in run'[w].left \/ \E p \in run'[w].pending : p.test = u
                 /\ IF run'[w].worst = "ACCEPTED"
                      THEN \A p \in run'[w].pending : p.status = "ACCEPTED"
                      ELSE \E p \in run'[w].pending : p.status = run'[w].worst
      BY <3>3 DEF TryPhases
    <3>4. ASSUME NEW t \in run[w].left, NEW o \in Outcomes, At(w, "test"),
                 run'[w].left = run[w].left \ {t},
                 run'[w].pending = run[w].pending \cup {[test |-> t, status |-> o]},
                 run'[w].worst = IF o = "ACCEPTED" THEN run[w].worst ELSE o
          PROVE  /\ \A u \in tests \cap Verifiable :
                      u \in run'[w].left \/ \E p \in run'[w].pending : p.test = u
                 /\ IF run'[w].worst = "ACCEPTED"
                      THEN \A p \in run'[w].pending : p.status = "ACCEPTED"
                      ELSE \E p \in run'[w].pending : p.status = run'[w].worst
      <4> DEFINE p0 == [test |-> t, status |-> o]
      <4>1. run[w].phase \in TryPhases BY <3>4 DEF TryPhases
      <4>2. p0.test = t /\ p0.status = o OBVIOUS
      <4>3. \A q : q \in run'[w].pending <=> q \in run[w].pending \/ q = p0 BY <3>4
      <4> HIDE DEF p0
      <4>4. \A u \in tests \cap Verifiable :
              u \in run'[w].left \/ \E p \in run'[w].pending : p.test = u
        BY <3>4, <4>1, <4>2, <4>3
      <4>5. IF run'[w].worst = "ACCEPTED"
              THEN \A p \in run'[w].pending : p.status = "ACCEPTED"
              ELSE \E p \in run'[w].pending : p.status = run'[w].worst
        <5>1. CASE o = "ACCEPTED" BY <3>4, <4>1, <4>2, <4>3, <5>1
        <5>2. CASE o # "ACCEPTED" BY <3>4, <4>2, <4>3, <5>2
        <5> QED BY <5>1, <5>2
      <4> QED BY <4>4, <4>5
    <3> QED BY <1>1, <2>3, <3>1, <3>2, <3>3, <3>4, LoopMoves
  <2> QED BY <2>1, <2>2, <2>3
<1>2. ASSUME NEW w \in Workers, TaskStep(w) \/ Crash(w) PROVE Collected'
  <2>1. \A v \in Workers : run'[v].phase \notin {"idle", "ack"} => run'[v] = run[v]
    BY <1>2, TaskFrame DEF NoRun, RunOf
  <2> QED BY <1>2, <2>1, TaskFrame DEF TryPhases
<1>3. ASSUME NEW w \in Workers, NEW m \in queue, Deliver(w, m) PROVE Collected'
  <2>1. run'[w].phase = "fetch" /\ run'[w].pending = {} /\ run'[w].worst = "ACCEPTED"
    <3>1. run'[w] = RunOf("fetch", m, starts[m.sub] + 1) BY <1>3, DeliverFrame
    <3> QED BY <3>1 DEF RunOf
  <2> QED BY <1>3, <2>1, DeliverFrame DEF TryPhases
<1>4. CASE /\ Next
           /\ \A w \in Workers : ~JudgeStep(w) /\ ~TaskStep(w) /\ ~Crash(w)
           /\ \A w \in Workers, m \in queue : ~Deliver(w, m)
  BY <1>4, OtherFrame
<1>5. CASE UNCHANGED vars BY <1>5 DEF vars
<1> QED BY <1>1, <1>2, <1>3, <1>4, <1>5

(* What a step of judge_submission does to the row of its submission: only  *)
(* the commit after the loop and the one in the except clause publish       *)
(* results, under the run's number and with a status the run writes; a run  *)
(* gets there only when the row has left QUEUED.                            *)
LEMMA VerdictWrites ==
  ASSUME TypeOK, Started, Unreported, NEW w \in Workers, JudgeStep(w)
  PROVE  LET s == Sub(w) IN
         /\ s \in Submissions
         /\ row[s].status # "ABSENT"
         /\ \A r \in Submissions : r # s => row'[r] = row[r]
         /\ \A r \in results' : r \in results \/ (r.sub = s /\ r.no = run[w].no)
         /\ \/ results' = results /\ row'[s].status = row[s].status /\ row'[s].by = row[s].by
            \/ results' = results /\ row'[s].status \in {"COMPILING", "RUNNING"}
            \/ /\ results' = results /\ row'[s].status = "COMPILATION_ERROR"
               /\ row[s].status # "QUEUED"
            \/ /\ row[s].status # "QUEUED"
               /\ row'[s].by = run[w].no
               /\ \/ At(w, "test") /\ run[w].left = {} /\ row'[s].status = run[w].worst
                  \/ row'[s].status = "RUNTIME_ERROR"
               /\ results' = results \cup PendingRows(w)
               /\ \A r \in results : r.sub = s => r.no # run[w].no
<1>1. run[w] \in BusyRuns BY JudgeFrame
<1>2. Sub(w) \in Submissions BY <1>1 DEF Sub, BusyRuns, Message
<1>3. run[w].worst \in ExecStatuses BY <1>1 DEF BusyRuns
<1>4. \A r \in PendingRows(w) : r.sub = Sub(w) /\ r.no = run[w].no BY DEF PendingRows
<1>5. row \in [Submissions -> Rows] BY DEF TypeOK
<1>6. ASSUME NEW st, NEW v, WriteRow(w, st, v)
      PROVE  /\ row'[Sub(w)].status = IF run[w].status = st THEN row[Sub(w)].status ELSE st
             /\ row'[Sub(w)].by = IF run[w].status = st THEN row[Sub(w)].by ELSE run[w].no
  BY <1>2, <1>5, <1>6 DEF WriteRow
<1>7. row[Sub(w)].status # "ABSENT" BY <1>1, <1>2 DEF Started, BusyRuns
<1>8. CASE UNCHANGED <<row, results>> BY <1>2, <1>7, <1>8
<1>9. CASE /\ UNCHANGED results
           /\ WriteRow(w, "COMPILING", run[w].verdict) \/ WriteRow(w, "RUNNING", run[w].verdict)
  BY <1>2, <1>6, <1>7, <1>9, JudgeFrame
<1>10. CASE /\ UNCHANGED results /\ At(w, "reject")
            /\ WriteRow(w, "COMPILATION_ERROR", run[w].verdict)
  <2>1. row[Sub(w)].status # "QUEUED" BY <1>10 DEF Started, TryPhases
  <2> QED BY <1>2, <1>6, <1>7, <1>10, <2>1, JudgeFrame
<1>11. CASE /\ WriteResults(w) /\ At(w, "test") /\ run[w].left = {}
            /\ WriteRow(w, run[w].worst, run[w].worst)
  <2>1. run[w].status # run[w].worst /\ row[Sub(w)].status # "QUEUED"
    BY <1>3, <1>11 DEF Started, TryPhases, ExecStatuses
  <2>2. MayReport(w) BY <1>11 DEF MayReport, Working, TryPhases
  <2> QED BY <1>2, <1>4, <1>6, <1>7, <1>11, <2>1, <2>2, JudgeFrame DEF WriteResults, Unreported
<1>12. CASE /\ WriteResults(w) /\ At(w, "handler") /\ ~run[w].broken
            /\ WriteRow(w, "RUNTIME_ERROR", "JUDGE_ERROR")
  <2>1. run[w].status # "RUNTIME_ERROR" /\ row[Sub(w)].status # "QUEUED" BY <1>12 DEF Started
  <2>2. MayReport(w) BY <1>12 DEF MayReport
  <2> QED BY <1>2, <1>4, <1>6, <1>7, <1>12, <2>1, <2>2, JudgeFrame DEF WriteResults, Unreported
<1> QED BY <1>8, <1>9, <1>10, <1>11, <1>12, JudgeWrites

LEMMA AcceptedStep ==
  ASSUME TypeOK, Started, Unreported, Collected, AcceptedIsEarned, [Next]_vars
  PROVE  AcceptedIsEarned'
<1> USE DEF AcceptedIsEarned
<1>1. ASSUME NEW w \in Workers, JudgeStep(w) PROVE AcceptedIsEarned'
  <2> SUFFICES ASSUME NEW s \in Submissions, row'[s].status = "ACCEPTED"
               PROVE  /\ \A r \in results' : r.sub = s /\ r.no = row'[s].by => r.status = "ACCEPTED"
                      /\ \A t \in tests \cap Verifiable :
                           [sub |-> s, no |-> row'[s].by, test |-> t, status |-> "ACCEPTED"] \in results'
    BY <1>1, JudgeFrame
  <2>1. results \subseteq results' BY <1>1, JudgeFrame
  <2>2. CASE s # Sub(w) BY <1>1, <2>1, <2>2, VerdictWrites
  <2>3. CASE s = Sub(w) /\ results' = results /\ row'[s].status = row[s].status /\ row'[s].by = row[s].by
    BY <2>3
  <2>4. CASE /\ s = Sub(w) /\ At(w, "test") /\ run[w].left = {}
             /\ row'[s].status = run[w].worst /\ row'[s].by = run[w].no
             /\ results' = results \cup PendingRows(w)
             /\ \A r \in results : r.sub = s => r.no # run[w].no
    <3>1. /\ \A t \in tests \cap Verifiable : \E p \in run[w].pending : p.test = t
          /\ \A p \in run[w].pending : p.status = "ACCEPTED"
      BY <2>4 DEF Collected, TryPhases
    <3>2. \A r \in PendingRows(w) : r.status = "ACCEPTED" BY <3>1 DEF PendingRows
    <3>3. ASSUME NEW t \in tests \cap Verifiable
          PROVE  [sub |-> s, no |-> run[w].no, test |-> t, status |-> "ACCEPTED"] \in PendingRows(w)
      BY <2>4, <3>1 DEF PendingRows
    <3> QED BY <2>4, <3>2, <3>3
  <2> QED BY <1>1, <2>2, <2>3, <2>4, VerdictWrites
<1>2. CASE UNCHANGED <<row, results, tests>> BY <1>2
<1>3. CASE /\ Next
           /\ \A w \in Workers : ~JudgeStep(w) /\ ~TaskStep(w) /\ ~Crash(w)
           /\ \A w \in Workers, m \in queue : ~Deliver(w, m)
  <2>1. CASE UNCHANGED row BY <1>3, <2>1, OtherFrame
  <2>2. ASSUME NEW s \in Submissions, CreateSubmission(s) PROVE AcceptedIsEarned'
    <3>1. /\ \A r \in Submissions : r # s => row'[r] = row[r]
          /\ row'[s].status = "QUEUED"
      BY <2>2 DEF CreateSubmission, TypeOK, Rows
    <3> QED BY <1>3, <3>1, OtherFrame
  <2> QED BY <1>3, <2>1, <2>2, OtherFrame
<1> QED BY <1>1, <1>2, <1>3, TaskFrame, DeliverFrame DEF vars

LEMMA FailureStep ==
  ASSUME TypeOK, Started, Unreported, Collected, FailureIsWitnessed, [Next]_vars
  PROVE  FailureIsWitnessed'
<1> USE DEF FailureIsWitnessed
<1>1. ASSUME NEW w \in Workers, JudgeStep(w) PROVE FailureIsWitnessed'
  <2> SUFFICES ASSUME NEW s \in Submissions,
                      row'[s].status \in {"WRONG_ANSWER", "TIME_LIMIT_EXCEEDED"}
               PROVE  \E r \in results' : r.sub = s /\ r.no = row'[s].by /\ r.status = row'[s].status
    OBVIOUS
  <2>1. results \subseteq results' BY <1>1, JudgeFrame
  <2>2. CASE s # Sub(w) BY <1>1, <2>1, <2>2, VerdictWrites
  <2>3. CASE s = Sub(w) /\ results' = results /\ row'[s].status = row[s].status /\ row'[s].by = row[s].by
    BY <2>3
  <2>4. CASE /\ s = Sub(w) /\ At(w, "test")
             /\ row'[s].status = run[w].worst /\ row'[s].by = run[w].no
             /\ results' = results \cup PendingRows(w)
    <3>1. PICK p \in run[w].pending : p.status = run[w].worst
      BY <2>4 DEF Collected, TryPhases
    <3> DEFINE r == [sub |-> Sub(w), no |-> run[w].no, test |-> p.test, status |-> p.status]
    <3>2. r \in PendingRows(w) BY DEF PendingRows
    <3>3. r.sub = s /\ r.no = row'[s].by /\ r.status = row'[s].status BY <2>4, <3>1
    <3> QED BY <2>4, <3>2, <3>3
  <2> QED BY <1>1, <2>2, <2>3, <2>4, VerdictWrites
<1>2. CASE UNCHANGED <<row, results, tests>> BY <1>2
<1>3. CASE /\ Next
           /\ \A w \in Workers : ~JudgeStep(w) /\ ~TaskStep(w) /\ ~Crash(w)
           /\ \A w \in Workers, m \in queue : ~Deliver(w, m)
  <2>1. CASE UNCHANGED row BY <1>3, <2>1, OtherFrame
  <2>2. ASSUME NEW s \in Submissions, CreateSubmission(s) PROVE FailureIsWitnessed'
    <3>1. /\ \A r \in Submissions : r # s => row'[r] = row[r]
          /\ row'[s].status = "QUEUED"
      BY <2>2 DEF CreateSubmission, TypeOK, Rows
    <3> QED BY <1>3, <3>1, OtherFrame
  <2> QED BY <1>3, <2>1, <2>2, OtherFrame
<1> QED BY <1>1, <1>2, <1>3, TaskFrame, DeliverFrame DEF vars

LEMMA VerdictInvInductive ==
  /\ Init => VerdictInv
  /\ VerdictInv /\ [Next]_vars => VerdictInv'
<1>1. ASSUME Init PROVE VerdictInv
  <2>1. \A w \in Workers : run[w].phase = "idle" BY <1>1 DEF Init, NoRun, RunOf
  <2>2. \A s \in Submissions : row[s].status = "ABSENT" BY <1>1 DEF Init
  <2>3. TypeOK BY <1>1, TypeInit
  <2>4. RunsAreDistinct /\ Unreported BY <1>1, <2>1 DEF Init, RunsAreDistinct, Unreported
  <2>5. Started BY <1>1, <2>1, <2>2 DEF Init, Started, TryPhases
  <2>6. Collected BY <2>1 DEF Collected, TryPhases
  <2>7. AcceptedIsEarned /\ FailureIsWitnessed
    BY <2>2 DEF AcceptedIsEarned, FailureIsWitnessed
  <2> QED BY <2>3, <2>4, <2>5, <2>6, <2>7 DEF VerdictInv
<1>2. ASSUME VerdictInv, [Next]_vars PROVE VerdictInv'
  BY <1>2, TypeStep, RunsAreDistinctStep, UnreportedStep, StartedStep, CollectedStep,
     AcceptedStep, FailureStep DEF VerdictInv
<1> QED BY <1>1, <1>2

(* ACCEPTED is earned in the run that wrote it, however often a submission  *)
(* is judged again, by however many workers at once, and whatever fails.    *)
THEOREM AcceptedEarned == Spec => []AcceptedIsEarned
<1>1. VerdictInv => AcceptedIsEarned BY DEF VerdictInv
<1> QED BY <1>1, VerdictInvInductive, PTL DEF Spec

(* WRONG_ANSWER and TIME_LIMIT_EXCEEDED are witnessed by a test case of the *)
(* run that wrote them.                                                     *)
THEOREM FailureWitnessed == Spec => []FailureIsWitnessed
<1>1. VerdictInv => FailureIsWitnessed BY DEF VerdictInv
<1> QED BY <1>1, VerdictInvInductive, PTL DEF Spec

(* Whatever is published about a submission appears in the commit that      *)
(* writes its final status, and comes from the run that writes it.          *)
THEOREM ReportsComplete == Spec => ResultsComeWithFinalStatus
<1> DEFINE Published == \A r \in results' \ results :
                          row'[r.sub].status \in Final /\ row'[r.sub].by = r.no
<1>1. ASSUME VerdictInv, [Next]_vars PROVE Published
  <2>1. ASSUME NEW w \in Workers, JudgeStep(w) PROVE Published
    <3>1. TypeOK /\ Started /\ Unreported BY <1>1 DEF VerdictInv
    <3>2. run[w].worst \in Final BY <2>1, <3>1, JudgeFrame DEF BusyRuns, Final
    <3> QED BY <2>1, <3>1, <3>2, VerdictWrites DEF Final, ExecStatuses
  <2>2. CASE UNCHANGED results BY <2>2
  <2>3. CASE \A w \in Workers : ~JudgeStep(w) /\ ~TaskStep(w) /\ ~Crash(w)
    BY <1>1, <2>2, <2>3, OtherFrame, DeliverFrame DEF VerdictInv, vars
  <2> QED BY <1>1, <2>1, <2>2, <2>3, TaskFrame DEF VerdictInv
<1>2. VerdictInv /\ [Next]_vars => [Published]_vars BY <1>1
<1> HIDE DEF Published
<1>3. Spec => [][Published]_vars BY <1>2, VerdictInvInductive, PTL DEF Spec
<1> QED BY <1>3 DEF Published, ResultsComeWithFinalStatus

(***************************************************************************)
(* The pipeline implements the life cycle of a submission                  *)
(***************************************************************************)
LEMMA PhaseOfValues ==
  /\ PhaseOf("ABSENT") = "none"
  /\ PhaseOf("QUEUED") = "queued"
  /\ \A st \in {"COMPILING", "RUNNING"} : PhaseOf(st) = "judging"
  /\ \A st \in Final : PhaseOf(st) = "judged"
BY DEF PhaseOf, Final, ExecStatuses

LEMMA LifecycleInitially == Init => Lifecycle!LifecycleInit
BY PhaseOfValues DEF Init, Lifecycle!LifecycleInit

LEMMA LifecycleStep ==
  VerdictInv /\ [Next]_vars => [Lifecycle!LifecycleNext]_(Lifecycle!lifecycleVars)
<1> SUFFICES ASSUME VerdictInv, [Next]_vars
             PROVE  Lifecycle!LifecycleNext \/ UNCHANGED Lifecycle!lifecycleVars
  OBVIOUS
<1> DEFINE ph == [s \in Submissions |-> PhaseOf(row[s].status)]
<1>0. TypeOK /\ Started /\ Unreported BY DEF VerdictInv
<1>1. ASSUME NEW w \in Workers, JudgeStep(w)
      PROVE  Lifecycle!LifecycleNext \/ UNCHANGED Lifecycle!lifecycleVars
  <2> DEFINE s == Sub(w)
  <2>1. /\ s \in Submissions
        /\ \A r \in Submissions : r # s => row'[r] = row[r]
        /\ row[s].status \in Statuses \ {"ABSENT"}
    BY <1>0, <1>1, VerdictWrites DEF TypeOK, Rows
  <2>2. /\ ph[s] \in {"queued", "judging", "judged"}
        /\ row[s].status # "QUEUED" => ph[s] \in {"judging", "judged"}
    BY <2>1, PhaseOfValues DEF Statuses
  <2>3. ph' = [ph EXCEPT ![s] = PhaseOf(row'[s].status)] BY <2>1
  <2>4. CASE results' = results /\ row'[s].status = row[s].status
    BY <2>1, <2>4 DEF Lifecycle!lifecycleVars
  <2>5. CASE results' = results /\ row'[s].status \in {"COMPILING", "RUNNING"}
    <3>1. PhaseOf(row'[s].status) = "judging" BY <2>5, PhaseOfValues
    <3>2. CASE ph[s] = "judging" BY <2>3, <2>5, <3>1, <3>2 DEF Lifecycle!lifecycleVars
    <3>3. CASE ph[s] # "judging"
      <4>1. Lifecycle!Judge(s)
        BY <2>2, <2>3, <2>5, <3>1, <3>3 DEF Lifecycle!Judge, Lifecycle!SetPhase
      <4> QED BY <2>1, <4>1 DEF Lifecycle!LifecycleNext
    <3> QED BY <3>2, <3>3
  <2>6. CASE /\ row[s].status # "QUEUED"
             /\ row'[s].status \in Final
             /\ results \subseteq results'
             /\ \A r \in results' \ results : r.sub = s /\ r.no = run[w].no
             /\ \/ results' = results
                \/ \A r \in results : r.sub = s => r.no # run[w].no
    <3>1. PhaseOf(row'[s].status) = "judged" BY <2>6, PhaseOfValues
    <3>2. Lifecycle!Conclude(s)
      BY <2>2, <2>3, <2>6, <3>1 DEF Lifecycle!Conclude, Lifecycle!SetPhase
    <3> QED BY <2>1, <3>2 DEF Lifecycle!LifecycleNext
  <2>7. run[w].worst \in Final BY <1>0, <1>1, JudgeFrame DEF BusyRuns, Final
  <2> HIDE DEF ph
  <2> QED BY <1>0, <1>1, <2>4, <2>5, <2>6, <2>7, VerdictWrites DEF Final, ExecStatuses
<1>2. CASE UNCHANGED <<row, results>> BY <1>2 DEF Lifecycle!lifecycleVars
<1>3. ASSUME NEW s \in Submissions, CreateSubmission(s) PROVE Lifecycle!LifecycleNext
  <2>1. /\ row[s].status = "ABSENT" /\ row'[s].status = "QUEUED"
        /\ \A r \in Submissions : r # s => row'[r] = row[r]
        /\ results' = results
    BY <1>0, <1>3 DEF CreateSubmission, Started, TypeOK, Rows
  <2>2. ph[s] = "none" /\ ph' = [ph EXCEPT ![s] = "queued"] BY <2>1, PhaseOfValues
  <2>3. Lifecycle!Queue(s) BY <2>1, <2>2 DEF Lifecycle!Queue, Lifecycle!SetPhase
  <2> QED BY <2>3 DEF Lifecycle!LifecycleNext
<1>4. CASE \A w \in Workers : ~JudgeStep(w) /\ ~TaskStep(w) /\ ~Crash(w)
  BY <1>0, <1>2, <1>3, <1>4, OtherFrame, DeliverFrame DEF vars
<1> QED BY <1>0, <1>1, <1>2, <1>4, TaskFrame

(* The pipeline, with its workers, messages, containers and failures,       *)
(* implements the life cycle the API and the front end rely on.             *)
THEOREM PipelineImplementsLifecycle == Spec => ImplementsLifecycle
BY LifecycleInitially, LifecycleStep, VerdictInvInductive, PTL
DEF Spec, ImplementsLifecycle, Lifecycle!LifecycleSpec

(***************************************************************************)
(* At-least-once judging                                                   *)
(***************************************************************************)
LEMMA SlowIsForever ==
  ASSUME TypeOK, [Next]_vars, spent'["slow"] = 0
  PROVE  /\ spent["slow"] = 0
         /\ \A m \in unacked : ~RedeliverEarly(m)
<1>0. spent \in [FaultKinds -> Nat] BY DEF TypeOK
<1>1. ASSUME NEW k \in FaultKinds, Spend(k)
      PROVE  spent["slow"] = 0 /\ k # "slow"
  BY <1>0, <1>1 DEF Spend
<1>2. \A m \in unacked : ~RedeliverEarly(m) BY <1>1 DEF RedeliverEarly
<1>3. CASE \E s \in Submissions : ApiStep(s)
  BY <1>1, <1>2, <1>3 DEF ApiStep, CreateSubmission, Enqueue, EnqueueFails, Rejudge
<1>4. CASE \E t \in Tests : DeleteTestCase(t) BY <1>1, <1>2, <1>4 DEF DeleteTestCase
<1>5. CASE \E w \in Workers, m \in queue : Deliver(w, m) BY <1>2, <1>5 DEF Deliver
<1>6. ASSUME NEW w \in Workers, JudgeStep(w) PROVE spent["slow"] = 0
  BY <1>1, <1>6 DEF JudgeStep, Fetch, MarkCompiling, LoadTests, CreateSandbox, Compile,
     CommitCompilationError, CommitRunning, RunTest, CommitVerdict, HandleException,
     DestroySandbox
<1>7. ASSUME NEW w \in Workers, TaskStep(w) \/ Crash(w) PROVE spent["slow"] = 0
  BY <1>1, <1>7 DEF TaskStep, Complete, Retry, AcknowledgeRetried, GiveUp, Crash
<1>8. CASE \E m \in unacked : Redeliver(m) BY <1>2, <1>8 DEF Redeliver, Requeue
<1>9. CASE UNCHANGED vars BY <1>2, <1>9 DEF vars
<1> QED BY <1>2, <1>3, <1>4, <1>5, <1>6, <1>7, <1>8, <1>9 DEF Next

(* A run that is done has just made its submission final, or was done.      *)
LEMMA DoneMoves ==
  ASSUME TypeOK, Started, NEW w \in Workers, JudgeStep(w)
  PROVE  /\ run'[w].phase # "ack" /\ run[w].phase # "ack"
         /\ \/ Undone(w)'
            \/ row'[Sub(w)].status \in Final
            \/ ~Undone(w) /\ row' = row
<1> USE DEF Undone, Except, Escape, database
<1>0. run \in [Workers -> IdleRuns \cup BusyRuns] BY DEF TypeOK
<1>1. run[w] \in BusyRuns BY JudgeFrame
<1>2. Sub(w) \in Submissions BY <1>1 DEF Sub, BusyRuns, Message
<1>3. run[w].worst \in ExecStatuses BY <1>1 DEF BusyRuns
<1>4. ASSUME NEW st \in Final, NEW v, WriteRow(w, st, v),
             run[w].phase \in TryPhases \cup {"handler"}
      PROVE  row'[Sub(w)].status \in Final
  <2>1. run[w].status # st BY <1>4 DEF Started, Final, ExecStatuses
  <2> QED BY <1>2, <1>4, <2>1 DEF WriteRow, TypeOK
<1>5. CASE Fetch(w) BY <1>0, <1>1, <1>5 DEF Fetch, BusyRuns
<1>6. CASE MarkCompiling(w) BY <1>0, <1>1, <1>6 DEF MarkCompiling, BusyRuns
<1>7. CASE LoadTests(w) BY <1>0, <1>1, <1>7 DEF LoadTests, BusyRuns
<1>8. CASE CreateSandbox(w) BY <1>0, <1>1, <1>8 DEF CreateSandbox, BusyRuns
<1>9. CASE Compile(w) BY <1>0, <1>1, <1>9 DEF Compile, BusyRuns
<1>10. CASE CommitCompilationError(w)
  <2>1. run[w].phase = "reject" BY <1>10 DEF CommitCompilationError
  <2>2. CASE WriteRow(w, "COMPILATION_ERROR", run[w].verdict)
    <3>1. row'[Sub(w)].status \in Final BY <1>4, <2>1, <2>2 DEF Final, TryPhases
    <3>2. run'[w].phase # "ack" BY <1>0, <1>1, <1>10 DEF CommitCompilationError, BusyRuns
    <3> QED BY <2>1, <3>1, <3>2
  <2>3. CASE Except(w, TRUE) BY <1>0, <1>1, <2>1, <2>3 DEF BusyRuns
  <2> QED BY <1>10, <2>2, <2>3 DEF CommitCompilationError
<1>11. CASE CommitRunning(w) BY <1>0, <1>1, <1>11 DEF CommitRunning, BusyRuns
<1>12. CASE RunTest(w)
  <2>1. run[w].phase = "test" BY <1>12 DEF RunTest
  <2>2. CASE Except(w, FALSE) BY <1>0, <1>1, <2>1, <2>2 DEF BusyRuns
  <2>3. CASE run'[w].phase = "test" BY <2>1, <2>3
  <2>4. ASSUME NEW t \in run[w].left, run' = [run EXCEPT ![w].left = @ \ {t}]
        PROVE  run'[w].phase = "test"
    BY <1>0, <1>1, <2>1, <2>4 DEF BusyRuns
  <2>5. ASSUME NEW t \in run[w].left, NEW o \in Outcomes,
               run' = [run EXCEPT ![w].left = @ \ {t},
                         ![w].pending = @ \cup {[test |-> t, status |-> o]},
                         ![w].worst = IF o = "ACCEPTED" THEN @ ELSE o]
        PROVE  run'[w].phase = "test"
    BY <1>0, <1>1, <2>1, <2>5 DEF BusyRuns
  <2> QED BY <1>12, <2>2, <2>3, <2>4, <2>5 DEF RunTest
<1>13. CASE CommitVerdict(w)
  <2>1. run[w].phase = "test" BY <1>13 DEF CommitVerdict
  <2>2. CASE Except(w, TRUE) BY <1>0, <1>1, <2>1, <2>2 DEF BusyRuns
  <2>3. CASE /\ WriteRow(w, run[w].worst, run[w].worst)
             /\ run' = [run EXCEPT ![w].phase = "cleanup", ![w].status = run[w].worst,
                          ![w].verdict = run[w].worst, ![w].pending = {}]
    <3>1. row'[Sub(w)].status \in Final BY <1>3, <1>4, <2>1, <2>3 DEF Final, TryPhases
    <3>2. run'[w].phase # "ack" BY <1>0, <1>1, <2>3 DEF BusyRuns
    <3> QED BY <2>1, <3>1, <3>2
  <2> QED BY <1>13, <2>2, <2>3 DEF CommitVerdict
<1>14. CASE HandleException(w)
  <2>1. run[w].phase = "handler" BY <1>14 DEF HandleException
  <2>2. CASE run' = [run EXCEPT ![w].phase = "cleanup", ![w].raised = TRUE]
    BY <1>0, <1>1, <2>1, <2>2 DEF BusyRuns
  <2>3. CASE /\ WriteRow(w, "RUNTIME_ERROR", "JUDGE_ERROR")
             /\ run' = [run EXCEPT ![w].phase = "cleanup", ![w].status = "RUNTIME_ERROR",
                          ![w].verdict = "JUDGE_ERROR", ![w].pending = {}]
    <3>1. row'[Sub(w)].status \in Final BY <1>4, <2>1, <2>3 DEF Final, ExecStatuses
    <3>2. run'[w].phase # "ack" BY <1>0, <1>1, <2>3 DEF BusyRuns
    <3> QED BY <2>1, <3>1, <3>2
  <2> QED BY <1>14, <2>2, <2>3 DEF HandleException
<1>15. CASE DestroySandbox(w) BY <1>0, <1>1, <1>15 DEF DestroySandbox, BusyRuns
<1> QED
  BY <1>5, <1>6, <1>7, <1>8, <1>9, <1>10, <1>11, <1>12, <1>13, <1>14, <1>15 DEF JudgeStep

(* What ends a run, and which message that removes.                         *)
Ends(w) ==
  /\ run' = [run EXCEPT ![w] = NoRun]
  /\ queue' = queue
  /\ UNCHANGED <<api, row, starts>>
  /\ \/ unacked' = unacked /\ abandoned' = abandoned
     \/ /\ unacked' = unacked \ {run[w].msg}
        /\ \/ ~Undone(w) /\ abandoned' = abandoned
           \/ abandoned' = abandoned \cup {run[w].msg}

LEMMA EndCases ==
  ASSUME TypeOK, NEW w \in Workers, TaskStep(w) \/ Crash(w)
  PROVE  run[w] \in BusyRuns /\ (Ends(w) \/ Retry(w))
<1>1. run[w] \in BusyRuns BY TaskFrame
<1> QED
  BY <1>1 DEF TaskStep, Complete, AcknowledgeRetried, GiveUp, Crash, Ends, Acknowledge, Undone,
     database, broker, BusyRuns

LEMMA HeldOnceStep ==
  ASSUME VerdictInv, HeldOnce, ChildrenAreNew, [Next]_vars
  PROVE  HeldOnce'
<1> SUFFICES ASSUME spent'["slow"] = 0
             PROVE  \A w \in Workers : run'[w].phase # "idle" =>
                      /\ run'[w].msg \in unacked' \ queue'
                      /\ \A v \in Workers : v # w /\ run'[v].phase # "idle" =>
                           run'[v].msg # run'[w].msg
  BY DEF HeldOnce, Holds
<1>0. /\ TypeOK /\ Started /\ RunsAreDistinct
      /\ run \in [Workers -> IdleRuns \cup BusyRuns]
      /\ \A w \in Workers : run[w].phase # "idle" =>
           /\ run[w].msg \in unacked \ queue
           /\ \A v \in Workers : v # w /\ run[v].phase # "idle" => run[v].msg # run[w].msg
  BY SlowIsForever DEF VerdictInv, TypeOK, HeldOnce, Holds
<1>1. ASSUME NEW w \in Workers, JudgeStep(w)
      PROVE  /\ queue' = queue /\ unacked' = unacked
             /\ \A v \in Workers : run'[v].phase # "idle" =>
                  run[v].phase # "idle" /\ run'[v].msg = run[v].msg
  BY <1>0, <1>1, JudgeFrame DEF BusyRuns
<1>2. ASSUME NEW w \in Workers, Ends(w), run[w].phase # "idle"
      PROVE  /\ queue' = queue
             /\ \A v \in Workers : run'[v].phase # "idle" =>
                  v # w /\ run[v].phase # "idle" /\ run'[v].msg = run[v].msg /\ run[v].msg \in unacked'
  BY <1>0, <1>2 DEF Ends, NoRun, RunOf
<1>3. ASSUME NEW w \in Workers, Retry(w)
      PROVE  /\ unacked' = unacked
             /\ \A v \in Workers : run'[v].phase # "idle" =>
                  run[v].phase # "idle" /\ run'[v].msg = run[v].msg /\ run[v].msg \notin queue'
  <2>1. run[w] \in BusyRuns BY <1>0, <1>3, TaskFrame DEF TaskStep
  <2> DEFINE child == [sub |-> Sub(w), retries |-> run[w].msg.retries + 1, by |-> run[w].no]
  <2>2. child.sub = Sub(w) /\ child.by = run[w].no OBVIOUS
  <2>3. child \notin unacked BY <1>3, <2>2 DEF ChildrenAreNew, Retry
  <2>4. queue' = queue \cup {child} /\ unacked' = unacked BY <1>3 DEF Retry
  <2> HIDE DEF child
  <2>5. \A v \in Workers : run'[v].phase # "idle" =>
          run[v].phase # "idle" /\ run'[v].msg = run[v].msg
    BY <1>0, <1>3, <2>1, TaskFrame DEF TaskStep, BusyRuns, NoRun, RunOf
  <2> QED BY <1>0, <2>3, <2>4, <2>5
<1>4. ASSUME NEW w \in Workers, NEW m \in queue, Deliver(w, m)
      PROVE  /\ queue' = queue \ {m} /\ unacked' = unacked \cup {m}
             /\ run'[w].msg = m
             /\ \A v \in Workers : v # w => run'[v] = run[v]
  <2>1. run'[w] = RunOf("fetch", m, starts[m.sub] + 1) BY <1>0, <1>4, DeliverFrame
  <2> QED BY <1>0, <1>4, <2>1, DeliverFrame DEF Deliver, RunOf
<1>5. ASSUME NEW m \in unacked, Redeliver(m)
      PROVE  /\ queue' = queue \cup {m} /\ unacked' = unacked \ {m} /\ run' = run
             /\ \A v \in Workers : run[v].phase # "idle" => run[v].msg # m
  BY <1>5 DEF Redeliver, Requeue, Holds
<1>6. ASSUME NEW s \in Submissions, Enqueue(s)
      PROVE  /\ unacked' = unacked /\ run' = run
             /\ \A v \in Workers : run[v].phase # "idle" => run[v].msg \notin queue'
  <2>1. \A v \in Workers : run[v].phase # "idle" => Sub(v) # s BY <1>0, <1>6 DEF Started, Enqueue
  <2> QED BY <1>0, <1>6, <2>1 DEF Enqueue, Sub
<1>7. CASE UNCHANGED <<run, queue, unacked>> BY <1>0, <1>7
<1>8. ASSUME NEW s \in Submissions, ApiStep(s), ~Enqueue(s) PROVE UNCHANGED <<run, queue, unacked>>
  BY <1>8 DEF ApiStep, CreateSubmission, EnqueueFails, Rejudge, broker
<1>9. ASSUME NEW t \in Tests, DeleteTestCase(t) PROVE UNCHANGED <<run, queue, unacked>>
  BY <1>9 DEF DeleteTestCase, broker
<1>10. CASE \E w \in Workers : JudgeStep(w) BY <1>0, <1>1, <1>10
<1>11. CASE \E w \in Workers : TaskStep(w) \/ Crash(w)
  <2>1. PICK w \in Workers : TaskStep(w) \/ Crash(w) BY <1>11
  <2>2. run[w].phase # "idle" /\ (Ends(w) \/ Retry(w)) BY <1>0, <2>1, EndCases DEF BusyRuns
  <2>3. CASE Ends(w) BY <1>0, <1>2, <2>2, <2>3
  <2>4. CASE Retry(w) BY <1>0, <1>3, <2>4
  <2> QED BY <2>2, <2>3, <2>4
<1>12. CASE \E w \in Workers, m \in queue : Deliver(w, m) BY <1>0, <1>4, <1>12
<1>13. CASE \E m \in unacked : Redeliver(m) BY <1>0, <1>5, <1>13
<1>14. CASE \E s \in Submissions : Enqueue(s) BY <1>0, <1>6, <1>14
<1> QED
  BY <1>0, <1>7, <1>8, <1>9, <1>10, <1>11, <1>12, <1>13, <1>14, SlowIsForever DEF Next, vars

LEMMA ChildrenAreNewStep ==
  ASSUME VerdictInv, ChildrenAreNew, [Next]_vars
  PROVE  ChildrenAreNew'
<1> USE DEF ChildrenAreNew
<1>0. /\ TypeOK /\ Started /\ RunsAreDistinct
      /\ run \in [Workers -> IdleRuns \cup BusyRuns]
      /\ starts \in [Submissions -> Nat]
      /\ queue \subseteq Message /\ unacked \subseteq Message
  BY DEF VerdictInv, TypeOK
<1>1. \A m \in queue \cup unacked : m.sub \in Submissions /\ m.by \in Nat BY <1>0 DEF Message
<1>2. \A w \in Workers : run[w].phase # "idle" => Sub(w) \in Submissions /\ run[w].no \in Nat
  BY <1>0 DEF IdleRuns, BusyRuns, NoRun, RunOf, Message, Sub
<1>3. ASSUME NEW w \in Workers, JudgeStep(w) PROVE ChildrenAreNew'
  <2>1. \A v \in Workers : run'[v].phase \notin {"idle", "ack"} =>
          /\ run[v].phase \notin {"idle", "ack"}
          /\ run'[v].msg = run[v].msg /\ run'[v].no = run[v].no
    BY <1>0, <1>3, JudgeFrame, DoneMoves DEF BusyRuns
  <2> QED BY <1>0, <1>3, <2>1, JudgeFrame DEF Sub
<1>4. ASSUME NEW w \in Workers, Ends(w) PROVE ChildrenAreNew'
  <2>1. \A v \in Workers : run'[v].phase \notin {"idle", "ack"} => run'[v] = run[v]
    BY <1>0, <1>4 DEF Ends, NoRun, RunOf
  <2> QED BY <1>4, <2>1 DEF Ends, Sub
<1>5. ASSUME NEW w \in Workers, Retry(w) PROVE ChildrenAreNew'
  <2>1. run[w] \in BusyRuns BY <1>0, <1>5, TaskFrame DEF TaskStep
  <2> DEFINE child == [sub |-> Sub(w), retries |-> run[w].msg.retries + 1, by |-> run[w].no]
  <2>2. child.sub = Sub(w) /\ child.by = run[w].no OBVIOUS
  <2>3. queue' = queue \cup {child} /\ unacked' = unacked /\ starts' = starts BY <1>5 DEF Retry
  <2> HIDE DEF child
  <2>4. \A v \in Workers : run'[v].phase \notin {"idle", "ack"} =>
          v # w /\ run'[v] = run[v] /\ run[v].phase # "idle"
    BY <1>0, <1>5, <2>1, TaskFrame DEF TaskStep, NoRun, RunOf
  <2>5. child.by <= starts[child.sub] BY <1>0, <2>1, <2>2 DEF RunsAreDistinct, BusyRuns
  <2>6. \A v \in Workers : v # w /\ run[v].phase # "idle" /\ Sub(v) = child.sub => child.by # run[v].no
    BY <1>0, <2>1, <2>2 DEF RunsAreDistinct, BusyRuns
  <2>7. \A v \in Workers : run'[v].phase \notin {"idle", "ack"} =>
          \A m \in queue' \cup unacked' : m.sub = run'[v].msg.sub => m.by # run'[v].no
    BY <2>3, <2>4, <2>6 DEF Sub
  <2>8. \A m \in queue' \cup unacked' : m.by <= starts'[m.sub] BY <2>3, <2>5
  <2> QED BY <2>7, <2>8 DEF Sub
<1>6. ASSUME NEW w \in Workers, NEW m \in queue, Deliver(w, m) PROVE ChildrenAreNew'
  <2>1. run'[w].msg = m /\ run'[w].no = starts[m.sub] + 1
    <3>1. run'[w] = RunOf("fetch", m, starts[m.sub] + 1) BY <1>0, <1>6, DeliverFrame
    <3> QED BY <3>1 DEF RunOf
  <2>2. /\ queue' \cup unacked' = queue \cup unacked
        /\ \A v \in Workers : v # w => run'[v] = run[v]
        /\ starts' = [starts EXCEPT ![m.sub] = @ + 1]
        /\ m.sub \in Submissions
    BY <1>0, <1>1, <1>6, DeliverFrame
  <2>3. \A s \in Submissions : starts[s] \in Nat /\ starts'[s] \in Nat /\ starts[s] <= starts'[s]
    BY <1>0, <2>2
  <2>4. \A c \in queue' \cup unacked' : c.by <= starts'[c.sub] BY <1>1, <2>2, <2>3
  <2>5. \A c \in queue' \cup unacked' : c.sub = m.sub => c.by # run'[w].no
    BY <1>1, <2>1, <2>2, <2>3
  <2> QED BY <2>1, <2>2, <2>4, <2>5 DEF Sub
<1>7. ASSUME NEW s \in Submissions, Enqueue(s) PROVE ChildrenAreNew'
  <2> DEFINE m0 == [sub |-> s, retries |-> 0, by |-> 0]
  <2>1. m0.sub = s /\ m0.by = 0 OBVIOUS
  <2>2. queue' = queue \cup {m0} /\ UNCHANGED <<unacked, run, starts>> BY <1>7 DEF Enqueue
  <2> HIDE DEF m0
  <2>3. \A v \in Workers : run[v].phase # "idle" => Sub(v) # s BY <1>0, <1>7 DEF Started, Enqueue
  <2> QED BY <1>0, <2>1, <2>2, <2>3 DEF Sub
<1>8. CASE UNCHANGED <<run, starts>> /\ queue' \cup unacked' = queue \cup unacked
  BY <1>8 DEF Sub
<1>9. ASSUME NEW m \in unacked, Redeliver(m) \/ RedeliverEarly(m)
      PROVE  UNCHANGED <<run, starts>> /\ queue' \cup unacked' = queue \cup unacked
  BY <1>9 DEF Redeliver, RedeliverEarly, Requeue
<1>10. ASSUME NEW s \in Submissions, ApiStep(s), ~Enqueue(s)
       PROVE  UNCHANGED <<run, starts, queue, unacked>>
  BY <1>10 DEF ApiStep, CreateSubmission, EnqueueFails, Rejudge, broker
<1>11. ASSUME NEW t \in Tests, DeleteTestCase(t) PROVE UNCHANGED <<run, starts, queue, unacked>>
  BY <1>11 DEF DeleteTestCase, broker
<1>12. ASSUME NEW w \in Workers, TaskStep(w) \/ Crash(w) PROVE ChildrenAreNew'
  BY <1>0, <1>4, <1>5, <1>12, EndCases
<1> HIDE DEF ChildrenAreNew
<1>13. CASE Next BY <1>3, <1>6, <1>7, <1>8, <1>9, <1>10, <1>11, <1>12, <1>13 DEF Next
<1> QED BY <1>8, <1>13 DEF vars

LEMMA NothingIsForgottenStep ==
  ASSUME VerdictInv, HeldOnce, ChildrenAreNew, NothingIsForgotten, [Next]_vars
  PROVE  NothingIsForgotten'
<1> SUFFICES ASSUME spent'["slow"] = 0,
                    NEW s \in Submissions, api'[s] = "answered", row'[s].status \notin Final
             PROVE  StillToRun(s)' \/ GivenUp(s)'
  BY DEF NothingIsForgotten
<1> USE DEF StillToRun, GivenUp, Holds
<1>0. /\ TypeOK /\ Started /\ RunsAreDistinct
      /\ run \in [Workers -> IdleRuns \cup BusyRuns]
      /\ \A w \in Workers : run[w].phase # "idle" =>
           /\ run[w].msg \in unacked \ queue
           /\ \A v \in Workers : v # w /\ run[v].phase # "idle" => run[v].msg # run[w].msg
      /\ api[s] = "answered" /\ row[s].status \notin Final => StillToRun(s) \/ GivenUp(s)
  BY SlowIsForever DEF VerdictInv, TypeOK, HeldOnce, NothingIsForgotten
<1>1. CASE \E w \in Workers : JudgeStep(w)
  <2>1. PICK w \in Workers : JudgeStep(w) BY <1>1
  <2>2. /\ run[w].phase # "idle" /\ run'[w].phase # "idle" /\ run'[w].msg = run[w].msg
        /\ \A v \in Workers : v # w => run'[v] = run[v]
        /\ UNCHANGED <<api, queue, unacked>> /\ abandoned' = abandoned
    <3>1. abandoned' = abandoned
      BY <2>1 DEF JudgeStep, Fetch, MarkCompiling, LoadTests, CreateSandbox, Compile, broker,
         CommitCompilationError, CommitRunning, RunTest, CommitVerdict, HandleException,
         DestroySandbox
    <3> QED BY <1>0, <2>1, <3>1, JudgeFrame DEF BusyRuns
  <2>3. CASE s # Sub(w)
    <3>1. row'[s] = row[s] BY <1>0, <2>1, <2>3, JudgeFrame
    <3>2. CASE GivenUp(s) BY <2>2, <3>2
    <3>3. CASE StillToRun(s)
      <4>1. PICK m \in queue \cup unacked :
              m.sub = s /\ \A v \in Workers : Holds(v, m) => Undone(v)
        BY <3>3
      <4>2. run[w].msg # m BY <2>3, <4>1 DEF Sub
      <4> QED BY <2>2, <4>1, <4>2 DEF Undone
    <3> QED BY <1>0, <2>2, <3>1, <3>2, <3>3
  <2>4. CASE s = Sub(w) /\ Undone(w)'
    <3>1. \A v \in Workers : run'[v].phase # "idle" /\ run'[v].msg = run[w].msg => v = w
      BY <1>0, <2>2
    <3> QED BY <1>0, <2>2, <2>4, <3>1 DEF Sub
  <2>5. CASE s = Sub(w) /\ ~Undone(w) /\ row' = row
    <3>1. CASE GivenUp(s) BY <2>2, <3>1
    <3>2. CASE StillToRun(s)
      <4>1. PICK m \in queue \cup unacked :
              m.sub = s /\ \A v \in Workers : Holds(v, m) => Undone(v)
        BY <3>2
      <4>2. run[w].msg # m BY <2>2, <2>5, <4>1
      <4> QED BY <2>2, <4>1, <4>2 DEF Undone
    <3> QED BY <1>0, <2>2, <2>5, <3>1, <3>2
  <2> QED BY <1>0, <2>1, <2>3, <2>4, <2>5, DoneMoves
<1>2. ASSUME NEW w \in Workers, Ends(w), run[w].phase # "idle"
      PROVE  StillToRun(s)' \/ GivenUp(s)'
  <2>1. /\ run'[w].phase = "idle" /\ \A v \in Workers : v # w => run'[v] = run[v]
        /\ UNCHANGED <<api, row, queue>> /\ abandoned \subseteq abandoned'
    BY <1>0, <1>2 DEF Ends, NoRun, RunOf
  <2>2. CASE GivenUp(s) BY <2>1, <2>2
  <2>3. CASE StillToRun(s)
    <3>1. PICK m \in queue \cup unacked :
            m.sub = s /\ \A v \in Workers : Holds(v, m) => Undone(v)
      BY <2>3
    <3>2. \A v \in Workers : run'[v].phase # "idle" /\ run'[v].msg = m => Undone(v)'
      BY <2>1, <3>1 DEF Undone
    <3>3. m \in queue' \cup unacked' \/ m \in abandoned'
      BY <1>2, <3>1 DEF Ends
    <3> QED BY <3>1, <3>2, <3>3
  <2> QED BY <1>0, <2>1, <2>2, <2>3
<1>3. ASSUME NEW w \in Workers, Retry(w) PROVE StillToRun(s)' \/ GivenUp(s)'
  <2>1. run[w] \in BusyRuns BY <1>0, <1>3, TaskFrame DEF TaskStep
  <2> DEFINE child == [sub |-> Sub(w), retries |-> run[w].msg.retries + 1, by |-> run[w].no]
  <2>2. child.sub = Sub(w) /\ child.by = run[w].no OBVIOUS
  <2>3. /\ queue' = queue \cup {child} /\ unacked' = unacked /\ abandoned' = abandoned
        /\ UNCHANGED <<api, row>>
    BY <1>3 DEF Retry, database
  <2>4. child \notin unacked BY <1>3, <2>2 DEF ChildrenAreNew, Retry
  <2> HIDE DEF child
  <2>5. /\ run[w].phase # "idle" /\ run'[w].msg = run[w].msg
        /\ \A v \in Workers : v # w => run'[v] = run[v]
        /\ run'[w].phase = "ack"
    BY <1>0, <1>3, <2>1, TaskFrame DEF TaskStep, BusyRuns, Retry
  <2>6. CASE s = Sub(w)
    <3>1. \A v \in Workers : run'[v].phase # "idle" => run'[v].msg # child
      BY <1>0, <2>4, <2>5
    <3> QED BY <2>2, <2>3, <2>6, <3>1
  <2>7. CASE s # Sub(w) /\ GivenUp(s) BY <2>3, <2>7
  <2>8. CASE s # Sub(w) /\ StillToRun(s)
    <3>1. PICK m \in queue \cup unacked :
            m.sub = s /\ \A v \in Workers : Holds(v, m) => Undone(v)
      BY <2>8
    <3>2. run'[w].msg # m BY <2>5, <2>8, <3>1 DEF Sub
    <3> QED BY <2>3, <2>5, <3>1, <3>2 DEF Undone
  <2> QED BY <1>0, <2>3, <2>6, <2>7, <2>8
<1>4. ASSUME NEW w \in Workers, NEW m \in queue, Deliver(w, m) PROVE StillToRun(s)' \/ GivenUp(s)'
  <2>1. run'[w].phase = "fetch" /\ run[w].phase = "idle"
    <3>1. run'[w] = RunOf("fetch", m, starts[m.sub] + 1) BY <1>0, <1>4, DeliverFrame
    <3> QED BY <1>4, <3>1 DEF RunOf, Deliver
  <2>2. /\ queue' \cup unacked' = queue \cup unacked /\ abandoned' = abandoned
        /\ UNCHANGED <<api, row>>
        /\ \A v \in Workers : v # w => run'[v] = run[v]
    BY <1>0, <1>4, DeliverFrame DEF Deliver
  <2> QED BY <1>0, <2>1, <2>2 DEF Undone
<1>5. ASSUME NEW r \in Submissions, Enqueue(r) PROVE StillToRun(s)' \/ GivenUp(s)'
  <2> DEFINE m0 == [sub |-> r, retries |-> 0, by |-> 0]
  <2>1. m0.sub = r OBVIOUS
  <2>2. /\ queue' = queue \cup {m0} /\ UNCHANGED <<unacked, abandoned, run, row>>
        /\ \A q \in Submissions : q # r => api'[q] = api[q]
        /\ api[r] = "committed"
    BY <1>0, <1>5 DEF Enqueue, database, TypeOK
  <2> HIDE DEF m0
  <2>3. CASE s = r
    <3>1. \A v \in Workers : run[v].phase # "idle" => run[v].msg # m0
      BY <1>0, <2>1, <2>2 DEF Started, Sub
    <3> QED BY <2>1, <2>2, <2>3, <3>1
  <2>4. CASE s # r BY <1>0, <2>2, <2>4 DEF Undone
  <2> QED BY <2>3, <2>4
<1>6. CASE /\ UNCHANGED <<run, abandoned>>
           /\ queue' \cup unacked' = queue \cup unacked
           /\ api[s] = "answered" /\ row[s].status \notin Final
  BY <1>0, <1>6 DEF Undone
<1>7. ASSUME NEW m \in unacked, Redeliver(m) \/ RedeliverEarly(m)
      PROVE  UNCHANGED <<run, abandoned, api, row>> /\ queue' \cup unacked' = queue \cup unacked
  BY <1>7 DEF Redeliver, RedeliverEarly, Requeue, database
<1>8. ASSUME NEW r \in Submissions, ApiStep(r), ~Enqueue(r)
      PROVE  /\ UNCHANGED <<run, abandoned, queue, unacked>>
             /\ api[s] = "answered" /\ row[s].status \notin Final
  <2>1. CASE CreateSubmission(r)
    <3>1. /\ UNCHANGED <<run, abandoned, queue, unacked>>
          /\ \A q \in Submissions : q # r => api'[q] = api[q] /\ row'[q] = row[q]
          /\ api'[r] = "committed"
      BY <1>0, <2>1 DEF CreateSubmission, broker, TypeOK
    <3> QED BY <3>1
  <2>2. CASE EnqueueFails(r)
    <3>1. /\ UNCHANGED <<run, abandoned, queue, unacked, row>>
          /\ \A q \in Submissions : q # r => api'[q] = api[q]
          /\ api'[r] = "failed"
      BY <1>0, <2>2 DEF EnqueueFails, broker, database, TypeOK
    <3> QED BY <3>1
  <2>3. CASE Rejudge(r) BY <2>3 DEF Rejudge, broker, database
  <2> QED BY <1>8, <2>1, <2>2, <2>3 DEF ApiStep
<1>9. ASSUME NEW t \in Tests, DeleteTestCase(t)
      PROVE  UNCHANGED <<run, abandoned, queue, unacked, api, row>>
  BY <1>9 DEF DeleteTestCase, broker
<1>10. ASSUME NEW w \in Workers, TaskStep(w) \/ Crash(w) PROVE StillToRun(s)' \/ GivenUp(s)'
  BY <1>0, <1>2, <1>3, <1>10, EndCases DEF BusyRuns
<1>11. CASE UNCHANGED vars BY <1>6, <1>11 DEF vars
<1> HIDE DEF StillToRun, GivenUp
<1>12. CASE Next BY <1>1, <1>4, <1>5, <1>6, <1>7, <1>8, <1>9, <1>10, <1>12 DEF Next
<1> QED BY <1>11, <1>12

LEMMA DeliveryInvInductive ==
  /\ Init => DeliveryInv
  /\ DeliveryInv /\ [Next]_vars => DeliveryInv'
<1>1. ASSUME Init PROVE DeliveryInv
  <2>1. \A w \in Workers : run[w].phase = "idle" BY <1>1 DEF Init, NoRun, RunOf
  <2>2. HeldOnce /\ ChildrenAreNew BY <1>1, <2>1 DEF Init, HeldOnce, ChildrenAreNew
  <2>3. NothingIsForgotten BY <1>1 DEF Init, NothingIsForgotten
  <2> QED BY <1>1, <2>2, <2>3, VerdictInvInductive DEF DeliveryInv
<1>2. ASSUME DeliveryInv, [Next]_vars PROVE DeliveryInv'
  BY <1>2, VerdictInvInductive, HeldOnceStep, ChildrenAreNewStep, NothingIsForgottenStep
  DEF DeliveryInv
<1> QED BY <1>1, <1>2

(* No submission the API has answered for is forgotten, whatever crashes    *)
(* and fails, as long as the broker gives no message back early.            *)
THEOREM JudgedAtLeastOnce == Spec => []AtLeastOnce
<1>1. DeliveryInv => AtLeastOnce
  BY DEF DeliveryInv, NothingIsForgotten, AtLeastOnce, StillToRun, Pending
<1> QED BY <1>1, DeliveryInvInductive, PTL DEF Spec

(***************************************************************************)
(* Counting failures                                                       *)
(***************************************************************************)

(* A set that is at most one element larger than another.                   *)
LEMMA NoLarger ==
  ASSUME NEW S, IsFiniteSet(S), NEW T, T \subseteq S
  PROVE  IsFiniteSet(T) /\ Cardinality(T) \in Nat /\ Cardinality(S) \in Nat
           /\ Cardinality(T) <= Cardinality(S)
BY FS_Subset, FS_CardinalityType

LEMMA OneLarger ==
  ASSUME NEW S, IsFiniteSet(S), NEW x, NEW T, T \subseteq S \cup {x}
  PROVE  IsFiniteSet(T) /\ Cardinality(T) \in Nat /\ Cardinality(S) \in Nat
           /\ Cardinality(T) <= Cardinality(S) + 1
<1>1. /\ IsFiniteSet(S \cup {x})
      /\ Cardinality(S \cup {x}) <= Cardinality(S) + 1
      /\ Cardinality(S) \in Nat
  BY FS_AddElement, FS_CardinalityType
<1>2. /\ IsFiniteSet(T) /\ Cardinality(T) \in Nat
      /\ Cardinality(T) <= Cardinality(S \cup {x}) /\ Cardinality(S \cup {x}) \in Nat
  BY <1>1, NoLarger
<1> QED BY <1>1, <1>2

LEMMA OneSmaller ==
  ASSUME NEW S, IsFiniteSet(S), NEW x \in S, NEW T, T \subseteq S \ {x}
  PROVE  IsFiniteSet(T) /\ Cardinality(T) \in Nat /\ Cardinality(S) \in Nat
           /\ Cardinality(T) + 1 <= Cardinality(S)
<1>1. /\ IsFiniteSet(S \ {x})
      /\ Cardinality(S \ {x}) = Cardinality(S) - 1
      /\ Cardinality(S) \in Nat
  BY FS_RemoveElement, FS_CardinalityType
<1>2. /\ IsFiniteSet(T) /\ Cardinality(T) \in Nat
      /\ Cardinality(T) <= Cardinality(S \ {x})
  BY <1>1, NoLarger
<1> QED BY <1>1, <1>2

LEMMA SpendGrows ==
  ASSUME spent \in [FaultKinds -> Nat], NEW k \in FaultKinds, Spend(k)
  PROVE  /\ \A f \in FaultKinds : spent'[f] \in Nat /\ spent'[f] >= spent[f]
         /\ spent'[k] = spent[k] + 1
BY DEF Spend

(* A failure that happened is never forgotten.                              *)
LEMMA SpentGrows ==
  ASSUME TypeOK, [Next]_vars
  PROVE  \A f \in FaultKinds : spent[f] \in Nat /\ spent'[f] \in Nat /\ spent'[f] >= spent[f]
<1>0. spent \in [FaultKinds -> Nat] BY DEF TypeOK
<1> DEFINE Grow == \A f \in FaultKinds : spent[f] \in Nat /\ spent'[f] \in Nat /\ spent'[f] >= spent[f]
<1> SUFFICES Grow
  OBVIOUS
<1>1. ASSUME NEW k \in FaultKinds, Spend(k) PROVE Grow
  BY <1>0, <1>1, SpendGrows
<1>2. CASE UNCHANGED spent
  BY <1>0, <1>2
<1> HIDE DEF Grow
<1>3. CASE \E s \in Submissions : ApiStep(s)
  BY <1>1, <1>2, <1>3 DEF ApiStep, CreateSubmission, Enqueue, EnqueueFails, Rejudge
<1>4. CASE \E t \in Tests : DeleteTestCase(t) BY <1>1, <1>4 DEF DeleteTestCase
<1>5. CASE \E w \in Workers, m \in queue : Deliver(w, m) BY <1>2, <1>5 DEF Deliver
<1>6. ASSUME NEW w \in Workers, JudgeStep(w) PROVE Grow
  BY <1>1, <1>2, <1>6 DEF JudgeStep, Fetch, MarkCompiling, LoadTests, CreateSandbox, Compile,
     CommitCompilationError, CommitRunning, RunTest, CommitVerdict, HandleException,
     DestroySandbox
<1>7. ASSUME NEW w \in Workers, TaskStep(w) \/ Crash(w) PROVE Grow
  BY <1>1, <1>2, <1>7 DEF TaskStep, Complete, Retry, AcknowledgeRetried, GiveUp, Crash
<1>8. CASE \E m \in unacked : Redeliver(m) \/ RedeliverEarly(m)
  BY <1>1, <1>2, <1>8 DEF Redeliver, RedeliverEarly, Requeue
<1>9. CASE UNCHANGED vars BY <1>2, <1>9 DEF vars
<1>10. CASE Next BY <1>3, <1>4, <1>5, <1>6, <1>7, <1>8, <1>10 DEF Next
<1> QED BY <1>9, <1>10

(***************************************************************************)
(* Containers nobody will remove                                           *)
(***************************************************************************)

(* A step that lets no run forget its container adds nothing to Stray.      *)
LEMMA NothingStrays ==
  ASSUME boxes' \subseteq boxes,
         \A w \in Workers, b \in boxes' : WillDestroy(w, b) => WillDestroy(w, b)'
  PROVE  Stray' \subseteq Stray
BY DEF Stray

(* A run in its own stretch of judge_submission changes nothing about the   *)
(* containers of the others.                                               *)
LEMMA OthersDestroy ==
  ASSUME NEW w \in Workers, \A v \in Workers : v # w => run'[v] = run[v],
         boxes' \subseteq boxes \cup {RunId(w)},
         \A b : WillDestroy(w, b) => WillDestroy(w, b)' \/ b \notin boxes' \/ b = RunId(w)
  PROVE  Stray' \subseteq Stray \cup {RunId(w)}
<1>1. \A b : \A v \in Workers : v # w => (WillDestroy(v, b) <=> WillDestroy(v, b)')
  BY DEF WillDestroy, RunId, Sub
<1> QED BY <1>1 DEF Stray

(* A run adds to the containers nobody will remove only when a Docker call  *)
(* fails, and then one.                                                     *)
LEMMA JudgeStrays ==
  ASSUME TypeOK, NEW w \in Workers, JudgeStep(w)
  PROVE  \/ Stray' \subseteq Stray
         \/ /\ Stray' \subseteq Stray \cup {RunId(w)}
            /\ spent'["docker"] = spent["docker"] + 1
<1>0. /\ run[w] \in BusyRuns /\ run' \in [Workers -> IdleRuns \cup BusyRuns]
      /\ run'[w].msg = run[w].msg /\ run'[w].no = run[w].no
      /\ \A v \in Workers : v # w => run'[v] = run[v]
      /\ run \in [Workers -> IdleRuns \cup BusyRuns]
      /\ spent \in [FaultKinds -> Nat]
  BY JudgeFrame DEF TypeOK
<1>1. \A b : WillDestroy(w, b) => b = RunId(w)
  BY DEF WillDestroy
<1>2. RunId(w)' = RunId(w)
  BY <1>0 DEF RunId, Sub
<1>3. ASSUME NEW v \in Workers, NEW b, WillDestroy(v, b), v # w
      PROVE  WillDestroy(v, b)'
  BY <1>0, <1>3 DEF WillDestroy, RunId, Sub
<1>4. ASSUME boxes' \subseteq boxes,
             WillDestroy(w, RunId(w)) /\ RunId(w) \in boxes' => WillDestroy(w, RunId(w))'
      PROVE  Stray' \subseteq Stray
  <2>1. ASSUME NEW v \in Workers, NEW b \in boxes', WillDestroy(v, b)
        PROVE  WillDestroy(v, b)'
    BY <1>1, <1>2, <1>3, <1>4, <2>1 DEF WillDestroy
  <2> QED BY <1>4, <2>1, NothingStrays
<1>5. ASSUME boxes' \subseteq boxes \cup {RunId(w)}
      PROVE  Stray' \subseteq Stray \cup {RunId(w)}
  BY <1>0, <1>1, <1>5, OthersDestroy
<1>6. CASE Fetch(w) \/ MarkCompiling(w) \/ LoadTests(w)
  <2>1. /\ boxes' = boxes
        /\ ~WillDestroy(w, RunId(w))
    BY <1>6 DEF Fetch, MarkCompiling, LoadTests, WillDestroy, TryPhases
  <2> QED BY <1>4, <2>1
<1>7. CASE \/ Compile(w) \/ CommitCompilationError(w) \/ CommitRunning(w) \/ RunTest(w)
           \/ CommitVerdict(w) \/ HandleException(w)
  <2>1. /\ boxes' = boxes
        /\ run'[w].phase \in TryPhases \cup {"handler", "cleanup"}
        /\ run'[w].box = run[w].box
    <3> USE DEF Except, TryPhases
    <3>1. CASE Compile(w) BY <1>0, <3>1 DEF Compile, BusyRuns
    <3>2. CASE CommitCompilationError(w) BY <1>0, <3>2 DEF CommitCompilationError, BusyRuns
    <3>3. CASE CommitRunning(w) BY <1>0, <3>3 DEF CommitRunning, BusyRuns
    <3>4. CASE RunTest(w)
      <4>1. run[w].phase = "test" /\ boxes' = boxes BY <3>4 DEF RunTest
      <4>2. ASSUME NEW t \in run[w].left, run' = [run EXCEPT ![w].left = @ \ {t}]
            PROVE  run'[w].phase = "test" /\ run'[w].box = run[w].box
        BY <1>0, <4>1, <4>2 DEF BusyRuns
      <4>3. ASSUME NEW t \in run[w].left, NEW o \in Outcomes,
                   run' = [run EXCEPT ![w].left = @ \ {t},
                             ![w].pending = @ \cup {[test |-> t, status |-> o]},
                             ![w].worst = IF o = "ACCEPTED" THEN @ ELSE o]
            PROVE  run'[w].phase = "test" /\ run'[w].box = run[w].box
        BY <1>0, <4>1, <4>3 DEF BusyRuns
      <4>4. CASE Except(w, FALSE) BY <1>0, <4>1, <4>4 DEF BusyRuns
      <4> QED BY <3>4, <4>1, <4>2, <4>3, <4>4 DEF RunTest
    <3>5. CASE CommitVerdict(w) BY <1>0, <3>5 DEF CommitVerdict, BusyRuns
    <3>6. CASE HandleException(w) BY <1>0, <3>6 DEF HandleException, BusyRuns
    <3> QED BY <1>7, <3>1, <3>2, <3>3, <3>4, <3>5, <3>6
  <2>2. WillDestroy(w, RunId(w)) => WillDestroy(w, RunId(w))'
    BY <1>2, <2>1 DEF WillDestroy
  <2> QED BY <1>4, <2>1, <2>2
<1>8. CASE CreateSandbox(w)
  <2>1. CASE /\ boxes' = boxes \cup {RunId(w)}
             /\ run' = [run EXCEPT ![w].phase = "build", ![w].box = TRUE]
    <3>1. run'[w].phase = "build" /\ run'[w].box BY <1>0, <2>1 DEF BusyRuns
    <3>2. WillDestroy(w, RunId(w))' BY <1>2, <3>1 DEF WillDestroy, TryPhases
    <3>3. RunId(w) \notin Stray' BY <1>2, <3>2 DEF Stray
    <3> QED BY <1>5, <2>1, <3>3
  <2>2. CASE Spend("docker") /\ boxes' \in {boxes, boxes \cup {RunId(w)}}
    <3>1. boxes' \subseteq boxes \cup {RunId(w)} BY <2>2
    <3> QED BY <1>0, <1>5, <2>2, <3>1, SpendGrows
  <2> QED BY <1>8, <2>1, <2>2 DEF CreateSandbox
<1>9. CASE DestroySandbox(w)
  <2>1. CASE boxes' = IF run[w].box THEN boxes \ {RunId(w)} ELSE boxes
    <3>1. boxes' \subseteq boxes /\ (run[w].box => RunId(w) \notin boxes') BY <2>1
    <3> QED BY <1>4, <3>1 DEF WillDestroy
  <2>2. CASE Spend("docker") /\ UNCHANGED boxes
    BY <1>0, <1>5, <2>2, SpendGrows
  <2> QED BY <1>9, <2>1, <2>2 DEF DestroySandbox
<1> QED BY <1>6, <1>7, <1>8, <1>9 DEF JudgeStep

LEMMA LeakInvInductive == LeakInv /\ [Next]_vars => LeakInv'
<1> SUFFICES ASSUME LeakInv, [Next]_vars PROVE LeakInv'
  OBVIOUS
<1>0. /\ TypeOK /\ TypeOK'
      /\ run \in [Workers -> IdleRuns \cup BusyRuns]
      /\ spent \in [FaultKinds -> Nat]
      /\ IsFiniteSet(Stray) /\ Cardinality(Stray) <= spent["crash"] + spent["docker"]
  BY TypeStep DEF LeakInv, TypeOK
<1>1. \A f \in FaultKinds : spent[f] \in Nat /\ spent'[f] \in Nat /\ spent'[f] >= spent[f]
  BY <1>0, SpentGrows
<1>2. ASSUME Stray' \subseteq Stray PROVE LeakInv'
  <2>1. /\ IsFiniteSet(Stray') /\ Cardinality(Stray') \in Nat /\ Cardinality(Stray) \in Nat
        /\ Cardinality(Stray') <= Cardinality(Stray)
    BY <1>0, <1>2, NoLarger
  <2> QED BY <1>0, <1>1, <2>1 DEF LeakInv
<1>3. ASSUME NEW b, Stray' \subseteq Stray \cup {b},
             NEW k \in {"crash", "docker"}, spent'[k] = spent[k] + 1
      PROVE  LeakInv'
  <2>1. /\ IsFiniteSet(Stray') /\ Cardinality(Stray') \in Nat /\ Cardinality(Stray) \in Nat
        /\ Cardinality(Stray') <= Cardinality(Stray) + 1
    BY <1>0, <1>3, OneLarger
  <2>2. spent'["crash"] + spent'["docker"] >= spent["crash"] + spent["docker"] + 1
    BY <1>1, <1>3
  <2> QED BY <1>0, <1>1, <2>1, <2>2 DEF LeakInv
<1>4. ASSUME NEW w \in Workers, JudgeStep(w) PROVE LeakInv'
  BY <1>0, <1>2, <1>3, <1>4, JudgeStrays
<1>5. ASSUME NEW w \in Workers, Crash(w) PROVE LeakInv'
  <2>1. /\ boxes' = boxes /\ Spend("crash")
        /\ \A v \in Workers : v # w => run'[v] = run[v]
    BY <1>0, <1>5 DEF Crash
  <2>2. Stray' \subseteq Stray \cup {RunId(w)}
    BY <2>1, OthersDestroy DEF WillDestroy
  <2>3. spent'["crash"] = spent["crash"] + 1 BY <1>0, <2>1, SpendGrows
  <2> QED BY <1>3, <2>2, <2>3
<1>6. ASSUME NEW w \in Workers, TaskStep(w) PROVE LeakInv'
  <2>1. boxes' = boxes /\ run[w].phase \in {"leave", "ack"}
    BY <1>6 DEF TaskStep, Complete, Retry, AcknowledgeRetried, GiveUp
  <2>2. \A v \in Workers : v # w => run'[v] = run[v] BY <1>0, <1>6, TaskFrame
  <2>3. \A b : \A v \in Workers : WillDestroy(v, b) => WillDestroy(v, b)'
    BY <2>1, <2>2 DEF WillDestroy, RunId, Sub, TryPhases
  <2> QED BY <1>2, <2>1, <2>3, NothingStrays
<1>7. ASSUME NEW w \in Workers, NEW m \in queue, Deliver(w, m) PROVE LeakInv'
  <2>1. boxes' = boxes /\ run[w].phase = "idle" BY <1>7 DEF Deliver
  <2>2. \A v \in Workers : v # w => run'[v] = run[v] BY <1>0, <1>7, DeliverFrame
  <2>3. \A b : \A v \in Workers : WillDestroy(v, b) => WillDestroy(v, b)'
    BY <2>1, <2>2 DEF WillDestroy, RunId, Sub, TryPhases
  <2> QED BY <1>2, <2>1, <2>3, NothingStrays
<1>8. ASSUME UNCHANGED <<run, boxes>> PROVE LeakInv'
  <2>1. \A b : \A v \in Workers : WillDestroy(v, b) => WillDestroy(v, b)'
    BY <1>8 DEF WillDestroy, RunId, Sub
  <2> QED BY <1>2, <1>8, <2>1, NothingStrays
<1>9. ASSUME NEW s \in Submissions, ApiStep(s) PROVE UNCHANGED <<run, boxes>>
  BY <1>9 DEF ApiStep, CreateSubmission, Enqueue, EnqueueFails, Rejudge
<1>10. ASSUME NEW t \in Tests, DeleteTestCase(t) PROVE UNCHANGED <<run, boxes>>
  BY <1>10 DEF DeleteTestCase
<1>11. ASSUME NEW m \in unacked, Redeliver(m) \/ RedeliverEarly(m) PROVE UNCHANGED <<run, boxes>>
  BY <1>11 DEF Redeliver, RedeliverEarly, Requeue
<1>12. CASE Next
  BY <1>4, <1>5, <1>6, <1>7, <1>8, <1>9, <1>10, <1>11, <1>12 DEF Next
<1>13. CASE UNCHANGED vars
  BY <1>8, <1>13 DEF vars
<1> QED BY <1>12, <1>13

(* However runs, crashes and failing Docker calls interleave, a container   *)
(* nobody owns is the trace of one of them: the finally clause of           *)
(* judge_submission covers every other way out.                             *)
THEOREM LeaksHaveCauses == Spec => []LeaksAreExplained
<1>1. Init => LeakInv
  <2> SUFFICES ASSUME Init PROVE LeakInv
    OBVIOUS
  <2>1. Stray = {} BY DEF Init, Stray
  <2>2. spent["crash"] = 0 /\ spent["docker"] = 0 BY DEF Init
  <2> QED BY <2>1, <2>2, TypeInit, FS_EmptySet DEF LeakInv
<1>2. LeakInv => LeaksAreExplained
  <2> SUFFICES ASSUME LeakInv PROVE LeaksAreExplained
    OBVIOUS
  <2>1. {b \in boxes : ~Owned(b)} \subseteq Stray
    BY DEF Stray, Owned, WillDestroy, TryPhases
  <2>2. /\ Cardinality({b \in boxes : ~Owned(b)}) \in Nat /\ Cardinality(Stray) \in Nat
        /\ Cardinality({b \in boxes : ~Owned(b)}) <= Cardinality(Stray)
    BY <2>1, NoLarger DEF LeakInv
  <2>3. spent["crash"] \in Nat /\ spent["docker"] \in Nat
    BY DEF LeakInv, TypeOK
  <2> QED BY <2>2, <2>3 DEF LeakInv, LeaksAreExplained
<1> QED BY <1>1, <1>2, LeakInvInductive, PTL DEF Spec

(***************************************************************************)
(* Runs and what pays for them                                             *)
(***************************************************************************)

(* The ways a step can leave the count of a submission in balance: nothing  *)
(* is added; one is added and paid for; a failing run publishes its         *)
(* successor; a message that waits becomes a run.                           *)
LEMMA NothingAdded ==
  ASSUME NEW s \in Submissions, Counted(s), TypeOK, TypeOK',
         Waiting(s)' \subseteq Waiting(s), Failing(s)' \subseteq Failing(s),
         starts'[s] = starts[s], Requested(s)' >= Requested(s), Failures' >= Failures
  PROVE  Counted(s)'
<1>1. /\ starts[s] \in Nat /\ Requested(s) \in Nat /\ Requested(s)' \in Nat
      /\ Failures \in Nat /\ Failures' \in Nat
  BY DEF TypeOK, Requested, Failures
<1>2. /\ IsFiniteSet(Waiting(s)') /\ Cardinality(Waiting(s)') \in Nat
      /\ Cardinality(Waiting(s)) \in Nat
      /\ Cardinality(Waiting(s)') <= Cardinality(Waiting(s))
  BY NoLarger DEF Counted
<1>3. /\ IsFiniteSet(Failing(s)') /\ Cardinality(Failing(s)') \in Nat
      /\ Cardinality(Failing(s)) \in Nat
      /\ Cardinality(Failing(s)') <= Cardinality(Failing(s))
  BY NoLarger DEF Counted
<1> QED BY <1>1, <1>2, <1>3 DEF Counted

LEMMA OneAddedAndPaid ==
  ASSUME NEW s \in Submissions, Counted(s), TypeOK, TypeOK', NEW x,
         \/ Waiting(s)' \subseteq Waiting(s) \cup {x} /\ Failing(s)' \subseteq Failing(s)
         \/ Waiting(s)' \subseteq Waiting(s) /\ Failing(s)' \subseteq Failing(s) \cup {x},
         starts'[s] = starts[s],
         Requested(s)' + Failures' >= Requested(s) + Failures + 1
  PROVE  Counted(s)'
<1>1. /\ starts[s] \in Nat /\ Requested(s) \in Nat /\ Requested(s)' \in Nat
      /\ Failures \in Nat /\ Failures' \in Nat
      /\ IsFiniteSet(Waiting(s)) /\ IsFiniteSet(Failing(s))
  BY DEF TypeOK, Requested, Failures, Counted
<1>2. CASE Waiting(s)' \subseteq Waiting(s) \cup {x} /\ Failing(s)' \subseteq Failing(s)
  <2>1. /\ IsFiniteSet(Waiting(s)') /\ Cardinality(Waiting(s)') \in Nat
        /\ Cardinality(Waiting(s)) \in Nat
        /\ Cardinality(Waiting(s)') <= Cardinality(Waiting(s)) + 1
    BY <1>1, <1>2, OneLarger
  <2>2. /\ IsFiniteSet(Failing(s)') /\ Cardinality(Failing(s)') \in Nat
        /\ Cardinality(Failing(s)) \in Nat
        /\ Cardinality(Failing(s)') <= Cardinality(Failing(s))
    BY <1>1, <1>2, NoLarger
  <2> QED BY <1>1, <2>1, <2>2 DEF Counted
<1>3. CASE Waiting(s)' \subseteq Waiting(s) /\ Failing(s)' \subseteq Failing(s) \cup {x}
  <2>1. /\ IsFiniteSet(Waiting(s)') /\ Cardinality(Waiting(s)') \in Nat
        /\ Cardinality(Waiting(s)) \in Nat
        /\ Cardinality(Waiting(s)') <= Cardinality(Waiting(s))
    BY <1>1, <1>3, NoLarger
  <2>2. /\ IsFiniteSet(Failing(s)') /\ Cardinality(Failing(s)') \in Nat
        /\ Cardinality(Failing(s)) \in Nat
        /\ Cardinality(Failing(s)') <= Cardinality(Failing(s)) + 1
    BY <1>1, <1>3, OneLarger
  <2> QED BY <1>1, <2>1, <2>2 DEF Counted
<1> QED BY <1>2, <1>3

LEMMA FailurePublished ==
  ASSUME NEW s \in Submissions, Counted(s), TypeOK, TypeOK', NEW m, NEW w \in Failing(s),
         Waiting(s)' \subseteq Waiting(s) \cup {m}, Failing(s)' \subseteq Failing(s) \ {w},
         starts'[s] = starts[s], Requested(s)' = Requested(s), Failures' >= Failures
  PROVE  Counted(s)'
<1>1. /\ starts[s] \in Nat /\ Requested(s) \in Nat
      /\ Failures \in Nat /\ Failures' \in Nat
      /\ IsFiniteSet(Waiting(s)) /\ IsFiniteSet(Failing(s))
  BY DEF TypeOK, Requested, Failures, Counted
<1>2. /\ IsFiniteSet(Waiting(s)') /\ Cardinality(Waiting(s)') \in Nat
      /\ Cardinality(Waiting(s)) \in Nat
      /\ Cardinality(Waiting(s)') <= Cardinality(Waiting(s)) + 1
  BY <1>1, OneLarger
<1>3. /\ IsFiniteSet(Failing(s)') /\ Cardinality(Failing(s)') \in Nat
      /\ Cardinality(Failing(s)) \in Nat
      /\ Cardinality(Failing(s)') + 1 <= Cardinality(Failing(s))
  BY <1>1, OneSmaller
<1> QED BY <1>1, <1>2, <1>3 DEF Counted

LEMMA WaitingStarted ==
  ASSUME NEW s \in Submissions, Counted(s), TypeOK, TypeOK', NEW m \in Waiting(s),
         Waiting(s)' \subseteq Waiting(s) \ {m}, Failing(s)' \subseteq Failing(s),
         starts'[s] = starts[s] + 1, Requested(s)' = Requested(s), Failures' >= Failures
  PROVE  Counted(s)'
<1>1. /\ starts[s] \in Nat /\ Requested(s) \in Nat
      /\ Failures \in Nat /\ Failures' \in Nat
      /\ IsFiniteSet(Waiting(s)) /\ IsFiniteSet(Failing(s))
  BY DEF TypeOK, Requested, Failures, Counted
<1>2. /\ IsFiniteSet(Waiting(s)') /\ Cardinality(Waiting(s)') \in Nat
      /\ Cardinality(Waiting(s)) \in Nat
      /\ Cardinality(Waiting(s)') + 1 <= Cardinality(Waiting(s))
  BY <1>1, OneSmaller
<1>3. /\ IsFiniteSet(Failing(s)') /\ Cardinality(Failing(s)') \in Nat
      /\ Cardinality(Failing(s)) \in Nat
      /\ Cardinality(Failing(s)') <= Cardinality(Failing(s))
  BY <1>1, NoLarger
<1> QED BY <1>1, <1>2, <1>3 DEF Counted

(* Without deleted test cases a run starts to fail only with a failed call  *)
(* to Docker or to the database.                                           *)
LEMMA FailuresAreSpent ==
  ASSUME TypeOK, tests = Tests, NEW w \in Workers, JudgeStep(w),
         run'[w].raised \/ run'[w].broken, ~run[w].raised, ~run[w].broken
  PROVE  \E k \in {"docker", "db"} : Spend(k)
<1>1. /\ run[w] \in BusyRuns
      /\ run \in [Workers -> IdleRuns \cup BusyRuns]
  BY JudgeFrame DEF TypeOK
<1>2. ForeignKeysOK(w)
  BY <1>1 DEF ForeignKeysOK, BusyRuns
<1> SUFFICES ASSUME ~Spend("docker"), ~Spend("db")
             PROVE  ~run'[w].raised /\ ~run'[w].broken
  OBVIOUS
<1> USE DEF Except, Escape
<1>3. CASE Fetch(w) BY <1>1, <1>3 DEF Fetch, BusyRuns
<1>4. CASE MarkCompiling(w) BY <1>1, <1>4 DEF MarkCompiling, BusyRuns
<1>5. CASE LoadTests(w) BY <1>1, <1>5 DEF LoadTests, BusyRuns
<1>6. CASE CreateSandbox(w) BY <1>1, <1>6 DEF CreateSandbox, BusyRuns
<1>7. CASE Compile(w) BY <1>1, <1>7 DEF Compile, BusyRuns
<1>8. CASE CommitCompilationError(w) BY <1>1, <1>8 DEF CommitCompilationError, BusyRuns
<1>9. CASE CommitRunning(w) BY <1>1, <1>9 DEF CommitRunning, BusyRuns
<1>10. CASE RunTest(w)
  <2>1. ASSUME NEW t \in run[w].left, run' = [run EXCEPT ![w].left = @ \ {t}]
        PROVE  run'[w].raised = run[w].raised /\ run'[w].broken = run[w].broken
    BY <1>1, <2>1 DEF BusyRuns
  <2>2. ASSUME NEW t \in run[w].left, NEW o \in Outcomes,
               run' = [run EXCEPT ![w].left = @ \ {t},
                         ![w].pending = @ \cup {[test |-> t, status |-> o]},
                         ![w].worst = IF o = "ACCEPTED" THEN @ ELSE o]
        PROVE  run'[w].raised = run[w].raised /\ run'[w].broken = run[w].broken
    BY <1>1, <2>2 DEF BusyRuns
  <2> QED BY <1>10, <2>1, <2>2 DEF RunTest
<1>11. CASE CommitVerdict(w) BY <1>1, <1>2, <1>11 DEF CommitVerdict, BusyRuns
<1>12. CASE HandleException(w) BY <1>1, <1>2, <1>12 DEF HandleException, BusyRuns
<1>13. CASE DestroySandbox(w) BY <1>1, <1>13 DEF DestroySandbox, BusyRuns
<1> QED
  BY <1>3, <1>4, <1>5, <1>6, <1>7, <1>8, <1>9, <1>10, <1>11, <1>12, <1>13 DEF JudgeStep

(* No step of judge_submission is one of an idle run or of one that waits   *)
(* for its acknowledgement.                                                *)
LEMMA JudgePhases ==
  ASSUME NEW w \in Workers, JudgeStep(w)
  PROVE  run[w].phase \notin {"idle", "leave", "ack"}
BY DEF JudgeStep, Fetch, MarkCompiling, LoadTests, CreateSandbox, Compile,
   CommitCompilationError, CommitRunning, RunTest, CommitVerdict, HandleException,
   DestroySandbox

LEMMA RerunInvInductive == RerunInv /\ [Next]_vars => RerunInv'
<1> SUFFICES ASSUME RerunInv, [Next]_vars, spent'["delete"] = 0
             PROVE  tests' = Tests /\ \A s \in Submissions : Counted(s)'
  BY TypeStep DEF RerunInv
<1>0. /\ TypeOK /\ TypeOK'
      /\ run \in [Workers -> IdleRuns \cup BusyRuns]
      /\ spent \in [FaultKinds -> Nat]
      /\ starts \in [Submissions -> Nat]
      /\ api \in [Submissions -> {"none", "committed", "answered", "failed"}]
      /\ queue \subseteq Message /\ unacked \subseteq Message
  BY TypeStep DEF RerunInv, TypeOK
<1>1. \A f \in FaultKinds : spent[f] \in Nat /\ spent'[f] \in Nat /\ spent'[f] >= spent[f]
  BY <1>0, SpentGrows
<1>2. /\ Failures \in Nat /\ Failures' \in Nat /\ Failures' >= Failures
      /\ \A k \in {"crash", "slow", "docker", "db"} : Spend(k) => Failures' >= Failures + 1
  <2>1. ASSUME NEW k \in {"crash", "slow", "docker", "db"}, Spend(k)
        PROVE  Failures' >= Failures + 1
    <3>1. spent'[k] = spent[k] + 1 BY <1>0, <2>1, SpendGrows
    <3> QED BY <1>1, <3>1 DEF Failures
  <2> QED BY <1>1, <2>1 DEF Failures
<1>3. tests = Tests /\ \A s \in Submissions : Counted(s)
  BY <1>1 DEF RerunInv
<1>4. \A w \in Workers : run[w].phase # "idle" => run[w] \in BusyRuns
  BY <1>0 DEF IdleRuns, NoRun, RunOf
<1>5. ASSUME NEW w \in Workers, JudgeStep(w)
      PROVE  tests' = Tests /\ \A s \in Submissions : Counted(s)'
  <2>1. /\ run[w].phase \notin {"idle", "leave", "ack"} /\ run'[w].phase # "idle"
        /\ run'[w].msg = run[w].msg
        /\ \A v \in Workers : v # w => run'[v] = run[v]
        /\ UNCHANGED <<api, queue, unacked, starts, tests>>
    BY <1>0, <1>5, JudgeFrame, JudgePhases
  <2> SUFFICES ASSUME NEW s \in Submissions PROVE Counted(s)'
    BY <1>3, <2>1
  <2>2. \A m : \A v \in Workers : Holds(v, m)' <=> Holds(v, m)
    BY <2>1 DEF Holds
  <2>3. Waiting(s)' \subseteq Waiting(s)
    BY <2>1, <2>2 DEF Waiting
  <2>4. Requested(s)' = Requested(s) /\ Requested(s) \in Nat
    BY <2>1 DEF Requested
  <2>5. CASE (run'[w].raised \/ run'[w].broken) => (run[w].raised \/ run[w].broken)
    <3>1. Failing(s)' \subseteq Failing(s)
      BY <2>1, <2>5 DEF Failing, Sub
    <3> QED BY <1>0, <1>2, <1>3, <2>1, <2>3, <2>4, <3>1, NothingAdded
  <2>6. CASE (run'[w].raised \/ run'[w].broken) /\ ~(run[w].raised \/ run[w].broken)
    <3>1. Failures' >= Failures + 1
      BY <1>0, <1>2, <1>3, <1>5, <2>6, FailuresAreSpent
    <3>2. Failing(s)' \subseteq Failing(s) \cup {w}
      BY <2>1 DEF Failing, Sub
    <3>3. Requested(s)' + Failures' >= Requested(s) + Failures + 1
      BY <1>2, <2>4, <3>1
    <3> QED BY <1>0, <1>3, <2>1, <2>3, <3>2, <3>3, OneAddedAndPaid
  <2> QED BY <2>5, <2>6
<1>6. ASSUME NEW w \in Workers, Crash(w)
      PROVE  tests' = Tests /\ \A s \in Submissions : Counted(s)'
  <2>1. /\ Spend("crash") /\ run[w].phase # "idle"
        /\ run' = [run EXCEPT ![w] = NoRun]
        /\ UNCHANGED <<api, queue, unacked, starts, tests>>
    BY <1>6 DEF Crash, database, broker
  <2> SUFFICES ASSUME NEW s \in Submissions PROVE Counted(s)'
    BY <1>3, <2>1
  <2>2. run'[w].phase = "idle" /\ \A v \in Workers : v # w => run'[v] = run[v]
    BY <1>0, <2>1 DEF NoRun, RunOf
  <2>3. Waiting(s)' \subseteq Waiting(s) \cup {run[w].msg}
    <3>1. \A m : \A v \in Workers : m # run[w].msg /\ Holds(v, m) => Holds(v, m)'
      BY <2>2 DEF Holds
    <3> QED BY <2>1, <3>1 DEF Waiting
  <2>4. Failing(s)' \subseteq Failing(s)
    BY <2>2 DEF Failing, Sub
  <2>5. Requested(s)' = Requested(s) /\ Requested(s) \in Nat
    BY <2>1 DEF Requested
  <2>6. Failures' >= Failures + 1
    BY <1>2, <2>1
  <2>7. Requested(s)' + Failures' >= Requested(s) + Failures + 1
    BY <1>2, <2>5, <2>6
  <2> QED BY <1>0, <1>3, <2>1, <2>3, <2>4, <2>7, OneAddedAndPaid
<1>7. ASSUME NEW w \in Workers, Complete(w) \/ AcknowledgeRetried(w) \/ GiveUp(w)
      PROVE  tests' = Tests /\ \A s \in Submissions : Counted(s)'
  <2>1. /\ run[w].phase # "idle"
        /\ run' = [run EXCEPT ![w] = NoRun]
        /\ unacked' = unacked \ {run[w].msg}
        /\ UNCHANGED <<api, queue, starts, tests>>
    BY <1>7 DEF Complete, AcknowledgeRetried, GiveUp, Acknowledge, database
  <2> SUFFICES ASSUME NEW s \in Submissions PROVE Counted(s)'
    BY <1>3, <2>1
  <2>2. run'[w].phase = "idle" /\ \A v \in Workers : v # w => run'[v] = run[v]
    BY <1>0, <2>1 DEF NoRun, RunOf
  <2>3. Waiting(s)' \subseteq Waiting(s)
    <3>1. \A m : \A v \in Workers : m # run[w].msg /\ Holds(v, m) => Holds(v, m)'
      BY <2>2 DEF Holds
    <3>2. ASSUME NEW m \in Waiting(s)'
          PROVE  m \in Waiting(s)
      <4>1. CASE m \in queue BY <2>1, <3>2, <4>1 DEF Waiting
      <4>2. CASE m \notin queue
        <5>1. m \in unacked' /\ m.sub = s /\ \A v \in Workers : ~Holds(v, m)'
          BY <2>1, <3>2, <4>2 DEF Waiting
        <5>2. \A v \in Workers : ~Holds(v, m) BY <2>1, <3>1, <5>1
        <5> QED BY <2>1, <5>1, <5>2 DEF Waiting
      <4> QED BY <4>1, <4>2
    <3> QED BY <3>2
  <2>4. Failing(s)' \subseteq Failing(s)
    BY <2>2 DEF Failing, Sub
  <2>5. Requested(s)' >= Requested(s)
    BY <2>1 DEF Requested
  <2> QED BY <1>0, <1>2, <1>3, <2>1, <2>3, <2>4, <2>5, NothingAdded
<1>8. ASSUME NEW w \in Workers, Retry(w)
      PROVE  tests' = Tests /\ \A s \in Submissions : Counted(s)'
  <2> DEFINE child == [sub |-> Sub(w), retries |-> run[w].msg.retries + 1, by |-> run[w].no]
  <2>1. /\ run[w].phase = "leave" /\ run[w].raised
        /\ queue' = queue \cup {child}
        /\ run' = [run EXCEPT ![w].phase = "ack"]
        /\ UNCHANGED <<api, unacked, starts, tests>>
    BY <1>8 DEF Retry, database
  <2>2. child.sub = Sub(w) OBVIOUS
  <2> HIDE DEF child
  <2> SUFFICES ASSUME NEW s \in Submissions PROVE Counted(s)'
    BY <1>3, <2>1
  <2>3. /\ run'[w].phase = "ack" /\ run'[w].msg = run[w].msg
        /\ \A v \in Workers : v # w => run'[v] = run[v]
    BY <1>0, <1>4, <2>1 DEF BusyRuns
  <2>4. \A m : \A v \in Workers : Holds(v, m)' <=> Holds(v, m)
    BY <2>1, <2>3 DEF Holds
  <2>5. Requested(s)' = Requested(s) /\ starts'[s] = starts[s]
    BY <2>1 DEF Requested
  <2>6. CASE s = Sub(w)
    <3>1. Waiting(s)' \subseteq Waiting(s) \cup {child}
      BY <2>1, <2>4 DEF Waiting
    <3>2. w \in Failing(s) /\ Failing(s)' \subseteq Failing(s) \ {w}
      BY <2>1, <2>3, <2>6 DEF Failing, Sub
    <3> QED BY <1>0, <1>2, <1>3, <2>5, <3>1, <3>2, FailurePublished
  <2>7. CASE s # Sub(w)
    <3>1. Waiting(s)' \subseteq Waiting(s)
      BY <2>1, <2>2, <2>4, <2>7 DEF Waiting
    <3>2. Failing(s)' \subseteq Failing(s)
      BY <2>3 DEF Failing, Sub
    <3>3. Requested(s)' >= Requested(s)
      BY <2>5 DEF Requested
    <3> QED BY <1>0, <1>2, <1>3, <2>5, <3>1, <3>2, <3>3, NothingAdded
  <2> QED BY <2>6, <2>7
<1>9. ASSUME NEW w \in Workers, NEW m \in queue, Deliver(w, m)
      PROVE  tests' = Tests /\ \A s \in Submissions : Counted(s)'
  <2>1. /\ run[w].phase = "idle"
        /\ queue' = queue \ {m} /\ unacked' = unacked \cup {m}
        /\ starts' = [starts EXCEPT ![m.sub] = @ + 1]
        /\ UNCHANGED <<api, tests, spent>>
    BY <1>9 DEF Deliver, database
  <2>2. /\ run'[w] = RunOf("fetch", m, starts[m.sub] + 1)
        /\ \A v \in Workers : v # w => run'[v] = run[v]
        /\ m \in Message
    BY <1>0, <1>9, DeliverFrame
  <2>3. /\ run'[w].phase = "fetch" /\ run'[w].msg = m
        /\ ~run'[w].raised /\ ~run'[w].broken
    BY <2>2 DEF RunOf
  <2>4. m.sub \in Submissions BY <2>2 DEF Message
  <2> SUFFICES ASSUME NEW s \in Submissions PROVE Counted(s)'
    BY <1>3, <2>1
  <2>5. /\ Holds(w, m)'
        /\ \A c : \A v \in Workers : Holds(v, c) => Holds(v, c)'
    BY <2>1, <2>2, <2>3 DEF Holds
  <2>6. Waiting(s)' \subseteq Waiting(s) \ {m}
    BY <2>1, <2>5 DEF Waiting
  <2>7. Failing(s)' \subseteq Failing(s)
    BY <2>2, <2>3 DEF Failing, Sub
  <2>8. Requested(s)' = Requested(s) /\ Requested(s)' >= Requested(s) /\ Failures' = Failures
    BY <2>1 DEF Requested, Failures
  <2>9. CASE s = m.sub
    <3>1. m \in Waiting(s) BY <2>9 DEF Waiting
    <3>2. starts'[s] = starts[s] + 1 BY <1>0, <2>1, <2>9
    <3> QED BY <1>0, <1>2, <1>3, <2>6, <2>7, <2>8, <3>1, <3>2, WaitingStarted
  <2>10. CASE s # m.sub
    <3>1. starts'[s] = starts[s] BY <1>0, <2>1, <2>10
    <3> QED BY <1>0, <1>2, <1>3, <2>6, <2>7, <2>8, <3>1, NothingAdded
  <2> QED BY <2>9, <2>10
<1>10. ASSUME NEW m \in unacked, Requeue(m),
              \/ (\A w \in Workers : ~Holds(w, m)) /\ UNCHANGED spent
              \/ Spend("slow")
       PROVE  tests' = Tests /\ \A s \in Submissions : Counted(s)'
  <2>1. /\ unacked' = unacked \ {m} /\ queue' = queue \cup {m}
        /\ UNCHANGED <<api, tests, run, starts>>
    BY <1>10 DEF Requeue, database
  <2> SUFFICES ASSUME NEW s \in Submissions PROVE Counted(s)'
    BY <1>3, <2>1
  <2>2. \A c : \A v \in Workers : Holds(v, c)' <=> Holds(v, c)
    BY <2>1 DEF Holds
  <2>3. Failing(s)' \subseteq Failing(s) /\ Requested(s)' = Requested(s) /\ Requested(s) \in Nat
    BY <2>1 DEF Failing, Sub, Requested
  <2>4. CASE \A w \in Workers : ~Holds(w, m)
    <3>1. Waiting(s)' \subseteq Waiting(s)
      BY <2>1, <2>2, <2>4 DEF Waiting
    <3> QED BY <1>0, <1>2, <1>3, <2>1, <2>3, <3>1, NothingAdded
  <2>5. CASE Spend("slow")
    <3>1. Waiting(s)' \subseteq Waiting(s) \cup {m}
      BY <2>1, <2>2 DEF Waiting
    <3>2. Requested(s)' + Failures' >= Requested(s) + Failures + 1
      BY <1>2, <2>3, <2>5
    <3> QED BY <1>0, <1>3, <2>1, <2>3, <3>1, <3>2, OneAddedAndPaid
  <2> QED BY <1>10, <2>4, <2>5
<1>11. ASSUME NEW p \in Submissions, Enqueue(p)
       PROVE  tests' = Tests /\ \A s \in Submissions : Counted(s)'
  <2> DEFINE m0 == [sub |-> p, retries |-> 0, by |-> 0]
  <2>1. /\ api[p] = "committed" /\ api' = [api EXCEPT ![p] = "answered"]
        /\ queue' = queue \cup {m0}
        /\ UNCHANGED <<tests, unacked, run, starts>>
    BY <1>11 DEF Enqueue, database
  <2>2. m0.sub = p OBVIOUS
  <2> HIDE DEF m0
  <2> SUFFICES ASSUME NEW s \in Submissions PROVE Counted(s)'
    BY <1>3, <2>1
  <2>3. \A c : \A v \in Workers : Holds(v, c)' <=> Holds(v, c)
    BY <2>1 DEF Holds
  <2>4. Failing(s)' \subseteq Failing(s)
    BY <2>1 DEF Failing, Sub
  <2>5. CASE s = p
    <3>1. Waiting(s)' \subseteq Waiting(s) \cup {m0}
      BY <2>1, <2>3 DEF Waiting
    <3>2. Requested(s) = 0 /\ Requested(s)' = 1
      <4>1. api[s] # "answered" /\ api'[s] = "answered"
        BY <1>0, <2>1, <2>5
      <4> QED BY <4>1 DEF Requested
    <3>3. Requested(s)' + Failures' >= Requested(s) + Failures + 1
      <4>1. Failures \in Nat /\ Failures' \in Nat /\ Failures' >= Failures
        BY <1>2
      <4>2. Requested(s)' = Requested(s) + 1 /\ Requested(s) \in Nat
        BY <3>2
      <4> QED BY <4>1, <4>2
    <3> QED BY <1>0, <1>3, <2>1, <2>4, <3>1, <3>3, OneAddedAndPaid
  <2>6. CASE s # p
    <3>1. Waiting(s)' \subseteq Waiting(s)
      BY <2>1, <2>2, <2>3, <2>6 DEF Waiting
    <3>2. Requested(s)' >= Requested(s)
      BY <1>0, <2>1, <2>6 DEF Requested
    <3> QED BY <1>0, <1>2, <1>3, <2>1, <2>4, <3>1, <3>2, NothingAdded
  <2> QED BY <2>5, <2>6
<1>12. ASSUME UNCHANGED <<tests, queue, unacked, run, starts>>,
              \A s \in Submissions : api[s] = "answered" => api'[s] = "answered"
       PROVE  tests' = Tests /\ \A s \in Submissions : Counted(s)'
  <2> SUFFICES ASSUME NEW s \in Submissions PROVE Counted(s)'
    BY <1>3, <1>12
  <2>1. \A c : \A v \in Workers : Holds(v, c)' <=> Holds(v, c)
    BY <1>12 DEF Holds
  <2>2. /\ Waiting(s)' \subseteq Waiting(s)
        /\ Failing(s)' \subseteq Failing(s)
    BY <1>12, <2>1 DEF Waiting, Failing, Sub
  <2>3. Requested(s)' >= Requested(s)
    BY <1>12 DEF Requested
  <2> QED BY <1>0, <1>2, <1>3, <1>12, <2>2, <2>3, NothingAdded
<1>13. ASSUME NEW s \in Submissions, ApiStep(s), ~Enqueue(s)
       PROVE  /\ UNCHANGED <<tests, queue, unacked, run, starts>>
              /\ \A p \in Submissions : api[p] = "answered" => api'[p] = "answered"
  BY <1>0, <1>13 DEF ApiStep, CreateSubmission, EnqueueFails, Rejudge, database, broker
<1>14. \A t \in Tests : ~DeleteTestCase(t)
  <2> SUFFICES ASSUME NEW t \in Tests, DeleteTestCase(t) PROVE FALSE
    OBVIOUS
  <2>1. spent'["delete"] = spent["delete"] + 1 BY <1>0, SpendGrows DEF DeleteTestCase
  <2> QED BY <1>1, <2>1
<1>15. CASE \E s \in Submissions : ApiStep(s)
  BY <1>11, <1>12, <1>13, <1>15
<1>16. ASSUME NEW w \in Workers, TaskStep(w)
       PROVE  tests' = Tests /\ \A s \in Submissions : Counted(s)'
  BY <1>7, <1>8, <1>16 DEF TaskStep
<1>17. ASSUME NEW m \in unacked, Redeliver(m) \/ RedeliverEarly(m)
       PROVE  tests' = Tests /\ \A s \in Submissions : Counted(s)'
  BY <1>10, <1>17 DEF Redeliver, RedeliverEarly
<1>18. CASE Next
  BY <1>5, <1>6, <1>9, <1>14, <1>15, <1>16, <1>17, <1>18 DEF Next
<1>19. CASE UNCHANGED vars
  BY <1>12, <1>19 DEF vars
<1> QED BY <1>18, <1>19

(* Every run of a submission but the first is paid for by a failure of its  *)
(* own, however redeliveries, retries and crashes follow each other. What   *)
(* Celery is asked for, late acknowledgement and retries, costs no more.    *)
THEOREM RerunsHaveCauses == Spec => []RerunsAreExplained
<1>1. Init => RerunInv
  <2> SUFFICES ASSUME Init, NEW s \in Submissions PROVE Counted(s)
    BY TypeInit DEF RerunInv, Init
  <2>1. Waiting(s) = {} /\ Failing(s) = {}
    BY DEF Init, Waiting, Failing, NoRun, RunOf
  <2>2. starts[s] = 0 /\ Requested(s) = 0 /\ Failures = 0
    BY DEF Init, Requested, Failures
  <2> QED BY <2>1, <2>2, FS_EmptySet DEF Counted
<1>2. RerunInv => RerunsAreExplained
  <2> SUFFICES ASSUME RerunInv, spent["delete"] = 0, NEW s \in Submissions
               PROVE  starts[s] <= 1 + spent["crash"] + spent["slow"] + spent["docker"] + spent["db"]
    BY DEF RerunsAreExplained
  <2>1. Counted(s) /\ TypeOK BY DEF RerunInv
  <2>2. Cardinality(Waiting(s)) \in Nat /\ Cardinality(Failing(s)) \in Nat
    BY <2>1, FS_CardinalityType DEF Counted
  <2> QED BY <2>1, <2>2 DEF Counted, Requested, Failures, TypeOK
<1> QED BY <1>1, <1>2, RerunInvInductive, PTL DEF Spec
=============================================================================
