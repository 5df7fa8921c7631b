------------------------------ MODULE TestCases -------------------------------
(***************************************************************************)
(* The test cases of one problem: administrators add one, remove one,      *)
(* upload an archive that replaces all of them, and delete the problem,    *)
(* while users submit and judges record results. Rows live in PostgreSQL,  *)
(* the files of an archive in S3 under keys made of the problem and the    *)
(* position in the archive; a rollback takes back the former only.         *)
(*                                                                         *)
(* Every test case is named by the request that made it and its            *)
(* order_index, from which its contents follow. Abstracted: the contents   *)
(* of the files, the checks of an upload's format, submissions to contests. *)
(***************************************************************************)
EXTENDS Transactions, FiniteSetsExt

CONSTANT MaxPairs  \* bound: input and output pairs of an archive

ASSUME MaxPairsAssumption == MaxPairs \in Nat \ {0}

VARIABLES
  req,       \* what each request asks for
  step,      \* where its handler stands
  loaded,    \* the test cases its handler has read
  put,       \* files of its archive in S3 so far
  s3,        \* whose file each S3 key holds
  outcome,   \* how the request ended
  overlapped \* history: requests during which another one was under way

vars == <<db, tx, req, step, loaded, put, s3, outcome, overlapped>>

-----------------------------------------------------------------------------
(* Rows. Those there are at the beginning were made by the seed script or   *)
(* by an earlier upload.                                                   *)

Earlier == {"seed", "archive"}
Makers  == Requests \cup Earlier

(* The rows of a request are not mistaken for earlier ones.                 *)
ASSUME NamesAreFresh == Requests \cap Earlier = {}

Problem == <<"problem">>
Test(by, index) == <<"test", by, index>>
Submission(by)  == <<"submission", by>>

ProblemRow == [id |-> Problem, keys |-> {}, parents |-> {}, cascade |-> FALSE]
TestRow(by, index) ==
  [id |-> Test(by, index), keys |-> {}, parents |-> {Problem}, cascade |-> TRUE]
SubmissionRow(by) ==
  [id |-> Submission(by), keys |-> {}, parents |-> {Problem}, cascade |-> FALSE]

(* Mutation: the results of a test case are deleted with it.               *)
ResultRowCascading(by, s, t) ==
  [id |-> <<"result", by, t>>, keys |-> {}, parents |-> {s, t}, cascade |-> TRUE]

(* The result of test case t for submission s.                             *)
ResultRow(by, s, t) ==
  [id |-> <<"result", by, t>>, keys |-> {}, parents |-> {s, t}, cascade |-> FALSE]

IdsOf(rows, tag) == {id \in Ids(rows) : id[1] = tag}
Tests(rows)       == IdsOf(rows, "test")
Submissions(rows) == IdsOf(rows, "submission")
ResultsOf(rows, t) == {id \in IdsOf(rows, "result") : id[3] = t}

(* Where the text of a test case is: in input_file and output_file (seed),  *)
(* in input_content and output_content (add), or in S3 (upload).           *)
TextIn(t) == CASE t[2] = "seed" -> "file"
               [] t[2] = "archive" -> "s3"
               [] OTHER -> IF req[t[2]].kind = "upload" THEN "s3" ELSE "content"

(* judge_submission compares the checksums with input_file and output_file, *)
(* and skips the test case when they differ.                               *)
Verifies(t) == TextIn(t) = "file"

(* The files of an archive of n pairs, in the order of their upload.        *)
File(k) == <<(k - 1) \div 2, IF k % 2 = 1 THEN "in" ELSE "out">>
NoFile  == <<"none">>
Files   == {File(k) : k \in 1 .. 2 * MaxPairs}

-----------------------------------------------------------------------------
(* Requests                                                                *)

AnyRequest ==
  [kind : {"add", "delete_problem", "submit"}]
    \cup [kind : {"upload"}, pairs : 1 .. MaxPairs]
    \cup [kind : {"remove"}, test : Tests(db)]
    \cup [kind : {"judge"}, submission : Submissions(db)]
NoRequest == [kind |-> "none"]

Active == {r \in Requests : step[r] \notin {"idle", "done"}}

Goto(r, s) ==
  /\ step' = [step EXCEPT ![r] = s]
  /\ UNCHANGED <<db, tx, req, put, s3, outcome, overlapped>>
Run(r, statements, s) ==
  /\ tx' = [tx EXCEPT ![r].todo = statements]
  /\ step' = [step EXCEPT ![r] = s]
  /\ UNCHANGED <<db, req, loaded, put, s3, outcome, overlapped>>

(* An exception: get_db rolls back. S3 keeps what it has.                   *)
Refuse(r, how) ==
  /\ Rollback(r)
  /\ step' = [step EXCEPT ![r] = "done"]
  /\ outcome' = [outcome EXCEPT ![r] = how]
  /\ UNCHANGED <<req, loaded, put, s3, overlapped>>

Begin(r, q) ==
  /\ step[r] = "idle"
  /\ req' = [req EXCEPT ![r] = q]
  /\ step' = [step EXCEPT ![r] = "load"]
  /\ overlapped' = IF Active = {} THEN overlapped ELSE overlapped \cup Active \cup {r}
  /\ UNCHANGED <<db, tx, loaded, put, s3, outcome>>

At(r, s, kind) == step[r] = s /\ req[r].kind = kind

(* get_problem_by_id, or the query for the test case to remove: 404.        *)
NotFound(r) ==
  /\ step[r] = "load"
  /\ \/ req[r].kind \in {"add", "upload", "delete_problem", "submit"} /\ ~Exists(r, Problem)
     \/ req[r].kind = "remove" /\ ~Exists(r, req[r].test)
  /\ Refuse(r, "missing")

(* add_single_test_case_endpoint                                           *)
AddLoad(r) ==
  /\ At(r, "load", "add") /\ Exists(r, Problem)
  /\ Goto(r, "index") /\ UNCHANGED loaded

Indexes(rows) == {t[3] : t \in Tests(rows)}

(* Mutation: the number of test cases is taken for the next index.         *)
AddIndexByCount(r) ==
  /\ step[r] = "index"
  /\ Run(r, <<Insert(TestRow(r, Cardinality(Tests(View(r)))))>>, "run")

AddIndex(r) ==
  /\ step[r] = "index"
  /\ LET next == IF Indexes(View(r)) = {} THEN 0 ELSE Max(Indexes(View(r))) + 1
     IN  Run(r, <<Insert(TestRow(r, next))>>, "run")

(* delete_test_case_endpoint: the test case, then with it its results.      *)
RemoveLoad(r) ==
  /\ At(r, "load", "remove") /\ Exists(r, req[r].test)
  /\ Goto(r, "results") /\ UNCHANGED loaded
(* Results that were loaded are not deleted: their test_case_id would be    *)
(* set to NULL, which the column refuses.                                  *)
RemoveRefused(r) ==
  /\ step[r] = "results" /\ ResultsOf(View(r), req[r].test) # {}
  /\ Refuse(r, "bad_reference")
Remove(r) ==
  /\ step[r] = "results" /\ ResultsOf(View(r), req[r].test) = {}
  /\ Run(r, Delete({req[r].test}), "run")

(* upload_test_cases_endpoint and process_testcase_zip                     *)
(* Mutation: the test cases there are stay.                                *)
UploadWithoutDelete(r) ==
  /\ At(r, "load", "upload") /\ Exists(r, Problem)
  /\ Run(r, <<>>, "clear")

Upload(r) ==
  /\ At(r, "load", "upload") /\ Exists(r, Problem)
  /\ Run(r, <<Clear(Problem, "test")>>, "clear")
Cleared(r) ==
  /\ step[r] = "clear" /\ tx[r].todo = <<>>
  /\ Goto(r, "put") /\ UNCHANGED loaded

(* S3 does not take the file, or the process is lost.                      *)
PutFails(r) ==
  /\ step[r] = "put" /\ put[r] < 2 * req[r].pairs
  /\ Refuse(r, "storage")

PutFile(r) ==
  /\ step[r] = "put" /\ put[r] < 2 * req[r].pairs
  /\ put' = [put EXCEPT ![r] = @ + 1]
  /\ s3' = [s3 EXCEPT ![File(put'[r])] = Test(r, File(put'[r])[1])]
  /\ UNCHANGED <<db, tx, req, step, loaded, outcome, overlapped>>
InsertArchive(r) ==
  /\ step[r] = "put" /\ put[r] = 2 * req[r].pairs
  /\ Run(r, [i \in 1 .. req[r].pairs |-> Insert(TestRow(r, i - 1))], "run")

(* delete_problem: the problem with its test cases, then what else refers   *)
(* to it. Its submissions would lose their problem_id, which the column    *)
(* refuses; the test cases are deleted with it.                            *)
DeleteProblemLoad(r) ==
  /\ At(r, "load", "delete_problem") /\ Exists(r, Problem)
  /\ loaded' = [loaded EXCEPT ![r] = Tests(View(r))]
  /\ Goto(r, "related")
DeleteProblemRefused(r) ==
  /\ step[r] = "related" /\ Submissions(View(r)) # {}
  /\ Refuse(r, "bad_reference")
DeleteProblem(r) ==
  /\ step[r] = "related" /\ Submissions(View(r)) = {}
  /\ Run(r, Delete(loaded[r]) \o Delete({Problem}), "run")

(* create_submission                                                       *)
Submit(r) ==
  /\ At(r, "load", "submit") /\ Exists(r, Problem)
  /\ Run(r, <<Insert(SubmissionRow(r))>>, "run")

(* judge_submission as far as the test cases are concerned: they are read,  *)
(* and much later the results of those executed are inserted.              *)
JudgeLoad(r) ==
  /\ At(r, "load", "judge")
  /\ loaded' = [loaded EXCEPT ![r] = Tests(View(r))]
  /\ Goto(r, "execute")
Executed(r) == {t \in loaded[r] : Verifies(t)}
JudgeRecord(r) ==
  /\ step[r] = "execute"
  /\ \E order \in [1 .. Cardinality(Executed(r)) -> Executed(r)] :
       /\ \A i, j \in DOMAIN order : i < j => order[i] # order[j] /\ order[i][3] <= order[j][3]
       /\ Run(r, [i \in DOMAIN order |-> Insert(ResultRow(r, req[r].submission, order[i]))],
              "run")

RunStatement(r) ==
  /\ Execute(r)
  /\ UNCHANGED <<req, step, loaded, put, s3, outcome, overlapped>>

StatementFails(r) == \E e \in Errors(r) : Refuse(r, e)

BreakDeadlock(r) == Deadlocked(r) /\ Refuse(r, "internal")

Finish(r) ==
  /\ step[r] = "run"
  /\ Commit(r)
  /\ step' = [step EXCEPT ![r] = "done"]
  /\ outcome' = [outcome EXCEPT ![r] = "ok"]
  /\ UNCHANGED <<req, loaded, put, s3, overlapped>>

-----------------------------------------------------------------------------
(* A problem without test cases, with seeded ones, or with those of an      *)
(* archive; perhaps with a submission, judged or not.                      *)
Init ==
  /\ \E by \in Earlier, n \in 0 .. MaxPairs, submitted, judged \in BOOLEAN :
       LET tests == {TestRow(by, i) : i \in 0 .. n - 1}
           submission == IF submitted THEN {SubmissionRow("seed")} ELSE {}
           results == IF submitted /\ judged /\ by = "seed"
                      THEN {ResultRow("seed", Submission("seed"), t.id) : t \in tests} ELSE {}
       IN /\ db = {ProblemRow} \cup tests \cup submission \cup results
          /\ s3 = [f \in Files |-> IF by = "archive" /\ f[1] < n THEN Test(by, f[1])
                                   ELSE NoFile]
  /\ tx = [r \in Requests |-> NoTransaction]
  /\ req = [r \in Requests |-> NoRequest]
  /\ step = [r \in Requests |-> "idle"]
  /\ loaded = [r \in Requests |-> {}]
  /\ put = [r \in Requests |-> 0]
  /\ outcome = [r \in Requests |-> "none"]
  /\ overlapped = {}

Handle(r) ==
  \/ NotFound(r) \/ AddLoad(r) \/ AddIndex(r)
  \/ RemoveLoad(r) \/ RemoveRefused(r) \/ Remove(r)
  \/ Upload(r) \/ Cleared(r) \/ PutFails(r) \/ PutFile(r) \/ InsertArchive(r)
  \/ DeleteProblemLoad(r) \/ DeleteProblemRefused(r) \/ DeleteProblem(r)
  \/ Submit(r) \/ JudgeLoad(r) \/ JudgeRecord(r)
  \/ RunStatement(r) \/ StatementFails(r) \/ Finish(r)

Next ==
  \/ \E r \in Requests : \E q \in AnyRequest : Begin(r, q)
  \/ \E r \in Requests : Handle(r) \/ BreakDeadlock(r)

Spec == Init /\ [][Next]_vars
=============================================================================
