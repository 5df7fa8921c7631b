# Verification of Coding War

Coding War is an online judge: contestants post source code in a browser, workers
compile and run it in Docker containers against the test cases of a problem, and
contests rank their participants on a scoreboard. This directory holds TLA+
models of the parts of it whose correctness depends on the order of concurrent
steps or on failures, in the backend (Python) and in the frontend (TypeScript),
the TLC configurations that check them on small instances, and TLAPS proofs of
the most important properties for instances of every size.

Paths are relative to the repository; `app/` is `backend-py/app/` and `fe/` is
`frontend/src/`.

## 1. The system

### 1.1 Components

| Component | State it keeps | Operations | Talks to |
|---|---|---|---|
| Submission API (`app/routers/submissions.py`, `services/submission_service.py`) | `submissions` rows | `create_submission` (commit, then publish), rejudge, reads | PostgreSQL, the Celery broker |
| Judging pipeline (`app/worker.py`, `services/judge_service.py`) | status and verdict of a submission, `test_case_results`, the session of one run | the task, its retry and its late acknowledgement; the stages of `judge_submission` | broker (Redis), PostgreSQL, Docker, scoreboard cache |
| Sandbox (`services/docker_sandbox.py`, `compilation_service.py`, `execution_service.py`) | containers on the host, executor threads | create, start, exec with a timeout, destroy | Docker daemon |
| Scoring (`services/scoring_service.py`) | none | ACM and IOI score of a participant, sorting | PostgreSQL |
| Scoreboard (`services/scoreboard_service.py`) | two Redis keys per contest | `generate_scoreboard`, `invalidate_scoreboard_cache` | Redis, scoring |
| Contests (`services/contest_service.py`, `routers/contests.py`) | `contests`, `contest_participants`, `contest_problems` | create, update, delete, register, replace problems, `can_submit_to_contest` | PostgreSQL |
| Problems and test cases (`routers/problems.py`, `services/problem_service.py`, `test_case_service.py`, `s3_service.py`) | `problems`, `test_cases`, S3 objects | create, add one test case, delete one, replace all from an archive | PostgreSQL, S3 |
| Accounts (`routers/auth.py`, `services/auth_service.py`, `token_revocation_service.py`) | `users`, revoked token ids in Redis | register, verify, login, refresh, logout, reset | PostgreSQL, Redis |
| Users and administration (`routers/users.py`, `routers/admin.py` and their services) | `users` | change of a profile, change of a role, lists and statistics | PostgreSQL |
| WebSocket server (`services/socket_service.py`) | rooms | join; its emit functions have no caller | |
| Session of the browser (`fe/api/client.ts`, `fe/stores/authStore.ts`) | tokens in localStorage and in each tab's memory, the refresh under way | request with retry, shared refresh, login, logout | the API |
| Submission pages (`fe/pages/problems/ProblemDetailPage.tsx`, `fe/pages/submissions/`, `fe/hooks/queries/useSubmissions.ts`) | the form, the query cache, the poll | submit, resubmit, wait for the verdict, list | the API |
| Scoreboard page (`fe/pages/contests/ScoreboardPage.tsx`, `fe/hooks/useWebSocket.ts`, `fe/api/websocket.ts`) | one socket, its subscription, the board on screen | open, change the contest, subscribe, show an update | the API, the WebSocket server |
| Administrator's pages (`fe/pages/admin/`) | three lists, the fields and test cases of the problem being edited | edit, add, delete, change a role, create a contest | the API |
| Visitor's pages (`fe/pages/Auth/` and `auth/`, `contests/`, `users/`, `ProblemListPage.tsx`) | the forms, a countdown, filter and page number | sign up, verify, reset, register, edit a profile, page and search | the API |

Rate limiting, quotas, e-mail, code validation and internal authentication exist as
code that nothing calls.

### 1.2 How they interact, and what is hard

A submission is **committed as QUEUED and only then published**. From there the
broker owns it: a Celery message is delivered to a worker, kept as
unacknowledged until the task has ended (`task_acks_late`), and given back when
the worker is lost or when the visibility timeout expires, even if the task is
still running. The worker commits `COMPILING`, reads the test cases, creates a
container, compiles, commits `RUNNING`, executes the test cases one after the
other, and commits verdict and result rows in one transaction; an exception in
between becomes `RUNTIME_ERROR`/`JUDGE_ERROR` in the `except` clause and the
container is destroyed in the `finally` clause. An exception that escapes makes
Celery publish a retry, once. What makes this hard is that *each of these steps
can fail or be the last one of its process*, and that two runs of the same
submission can exist at once.

After the commit of a verdict of a contest submission the judge **deletes the
cached scoreboards**. A scoreboard request meanwhile reads the cache, computes
the board with one query per participant and problem, and stores it. A board may
thus be stored after the invalidation that should have removed it, the Redis call
may fail on either side, and a compilation error, a judge error or a new
submission is never followed by an invalidation.

The handlers of **contests and of test cases** share a pattern: they read (a free
slug, an existing registration, the last order index, the related rows), decide,
and write later in the same transaction. `dependencies/database.py` gives each
request one transaction, committed when the handler returns and rolled back by an
exception; `entrypoint.sh` starts four API processes, so that any two requests
interleave between any two statements. What the handler has read may no longer be
true when it writes; only unique keys, foreign keys and row locks of PostgreSQL
stand against that, and where there is no constraint (order indexes, the list of
a contest's problems) nothing does. An archive upload moreover writes to S3, which
no rollback takes back.

In the **browser** every call goes through one client, which repeats it after a
timeout, a 429 or a 5xx answer, and after a 401 refreshes the access token, one
refresh for all the calls of a tab that fail meanwhile. Tabs share localStorage
but each has a store of its own in memory, and the client edits localStorage
behind the store's back, so that *the account may have changed when an answer
arrives*. Above the client, React Query keeps answers as fresh for a while,
marks them stale when a mutation succeeds, and lets one fetch serve whoever mounts
meanwhile; *a fetch that was read by the server before a change may be answered
after it* and then counts as fresh. Calls and timers outlive the page that made
them, a page keeps its state when only its route's parameter changes, and the
user does any of the things the page offers while all of that is under way.

### 1.3 What makes each component correct

* *Judging pipeline*: an answered submission is eventually final; it is never
  lost by a lost worker; its status is earned by the results of one run; a reader
  sees a judgement entirely or not at all; containers and messages do not
  accumulate.
* *Scoreboard*: a cached board is out of date only for a reason one can name;
  contestants and administrators do not get each other's board; ranks are fair;
  the penalty of a problem stops at its first accepted submission.
* *Contests*: at most one registration per user; slugs are unique; nothing refers
  to a contest that is gone; requests fail only for a reason, and end.
* *Test cases*: rows and S3 objects agree; order indexes are distinct; what was
  judged is never lost.
* *Session*: one refresh for simultaneous failures; a session that was ended never
  comes back; tokens do not change their user; a call is carried out again only
  after a fault, and ends.
* *Submission pages*: one submission at a time; the verdict is shown in the end;
  banner and grid agree; a fresh list is complete.
* *Scoreboard page*: updates are not missed; rankings are those of the contest
  named above them; the subscription ends with the page.
* *Administrator's pages*: fields are saved under the problem they were loaded
  from; lists show what is stored once everything is answered.
* *Visitor's pages*: what a form reports is what happened; the badge and the number
  of participants follow the contest; an empty page of problems means that nothing
  matches.

## 2. The modules

| Module | What it holds |
|---|---|
| `Judging` | the pipeline: API, broker, workers, database, containers |
| `SubmissionLifecycle` | the abstract specification: a submission is queued, judged, and gets its reports with a final status |
| `Scoring`, `Scoreboard` | ACM scores, sorting and ranks as pure operators, with no state; cache, requests, judges and the clock |
| `Transactions` | transactions, locks and constraints of PostgreSQL as the services use them, with the invariants every request relies on |
| `Contests`, `Registration` | the handlers of contests, over `Transactions`; the abstract specification: registering is one indivisible step |
| `TestCases` | the handlers of test cases and S3, over `Transactions` |
| `Calls` | what the four models of calls of the browser share: attempts and faults |
| `Session` | tabs, calls, tokens and refreshes of a browser |
| `Submitting` | the problem page, the page of a submission and the list, over `SubmissionLifecycle`, which is what they know of the judge |
| `Leaderboard` | the scoreboard page, its query, its subscription and the socket |
| `Administration` | the dashboard, the page that creates and the page that edits a problem |
| `VisitorPages` | account forms, contests, profiles and the list of problems |
| `<M>Properties` | what must hold of `<M>`, its refinement mapping if it has one, and the inductive invariants |
| `<M>Proofs` | TLAPS proofs (of `Judging`, `Transactions`, `Contests`, `TestCases`, `Administration`, `Visitor`) |
| `BoardsProofs`, `ClientProofs` | TLAPS proofs of two components each: `Leaderboard` and `Scoreboard`; `Session` and `Submitting` |
| `MC<M>` | model values and definitions of constants for TLC |

`SubmissionLifecycle` joins the two halves: `Judging` implements it (checked and
proved), and `Submitting` is built on it.

Operators whose comment begins with *Mutation* are not part of any specification:
each is a plausible wrong version of the definition that follows it, and
`PROJECT.json` pairs it with the property that notices the difference.

### 2.1 Judging

One action is the code between two awaits that matter (a commit, a call of Docker,
a message). The correspondence:

| Variable | Code |
|---|---|
| `row[s]` | the columns `status` and `verdict` of the submission; `by`, which run last wrote the status, is history |
| `tests`, `results` | tables `test_cases` and `test_case_results` |
| `queue`, `unacked`, `abandoned` | the broker's list, its unacknowledged messages, tasks that ended in failure |
| `run[w]` | one worker process: where it stands in `judge_submission_task`, its message, the session's copy of status and verdict, the test cases left, `worst_status`, the result objects not yet committed, whether the session is broken |
| `boxes` | containers that exist |
| `api[s]` | how far the POST of the submission has come |
| `spent` | how many failures of each kind have happened |

Four details of the code decide the properties and are modelled as they are:

* SQLAlchemy writes an attribute only when it differs from the copy the session
  loaded (`expire_on_commit=False`), so `WriteRow` leaves a column alone that the
  run believes to be right already;
* after a failed flush the session refuses the commit of the `except` clause
  (`broken`), and a commit that reports failure may have been applied;
* acknowledging is by delivery tag: the acknowledgement of an old run removes
  the entry of a redelivery of the same message;
* the early return for a compilation error leaves the verdict as it was.

Failures are ordinary actions that spend a **budget**: `crash` (a worker process
is lost), `slow` (the visibility timeout expires under a running task), `docker`,
`db`, `broker` (a call fails), `delete` (an administrator deletes a test case) and
`rejudge`. A configuration says how many of each may happen; the proofs are for
every budget.

Abstracted: source code and outputs (a test case ends with any status of
`Outcomes`), times and memory, logging. The threads of a timed out execution are
not modelled (section 5).

### 2.2 Scoreboard

| Variable | Code |
|---|---|
| `now` | the clock, in lifetimes of a board cached during the contest (30 s) |
| `subs[q]` | the submissions a query finds, for each participant and problem of the contest, by `submitted_at` |
| `invalidating` | judges that have committed a verdict and not yet called `invalidate_scoreboard_cache` |
| `cache[k]` | the keys `scoreboard:<id>:live` and `:frozen` with the lifetime left; `excused` is history |
| `req[c]` | a request: lookup, the queries made so far, the answer |
| `judgings`, `redisErrors` | counters for the bounds `MaxJudgings`, `MaxRedisErrors` |

Scoring tells three kinds of status apart: `ACCEPTED`, other final ones
(`REJECTED`), and those on the way (`PENDING`), which all count as wrong
attempts. The bounds are the constants with names beginning with `Max`, and `End`
for the clock. A judged submission may become pending again, which is what a
second run of the pipeline does.

Abstracted: names and formatting of the board, the set of participants (fixed;
registration closes when the contest starts), and changes of the contest itself.
A relative time in minutes is a tick; only its order and its sum matter.

### 2.3 Transactions

| Variable | Code |
|---|---|
| `db` | the committed rows of all tables |
| `tx[r]` | the transaction of request `r`: rows inserted (`ins`), rows deleted (`del`), the statements the handler has left to execute (`todo`) |

A row is its identity, the unique keys it occupies, the rows its foreign keys point
at, and whether it is deleted with those. A changed row is a deleted and an
inserted row of the same identity. A statement sees the committed rows and its own
changes (READ COMMITTED, the default of `create_async_engine`). Locks have no
variable of their own, because they are a function of the changes not yet
committed: a row that is deleted or changed is locked against everybody, a row
that is referred to by a new row against deletion, a unique key that is claimed
or given up against a second claim. A statement whose lock is taken waits; a
circle of waiting transactions is broken by aborting one of them. A statement
that sees a violated constraint ends the request with an error
(`middleware/error_handler.py`) and a rollback. PostgreSQL and SQLAlchemy's unit of
work are external code, modelled by this behaviour; statements on several rows may
take them in any order.

### 2.4 Contests

| Variable | Code |
|---|---|
| `req[r]`, `step[r]`, `outcome[r]` | what a request asks for, where its handler stands, its answer |
| `counter[r]` | the suffix `_ensure_unique_slug` is trying |
| `stage[c]` | the clock relative to `start_time` and `end_time` |
| `overlapped` | history: requests that were under way together with another |

The requests are create (with problems), edit of the title (a new slug), assignment
of problems, delete, register and submit. `routers/contests.py` and
`contest_service.py` read before they write, and every read that a later write
depends on is an action of its own. Abstracted: all columns but the slug and the
place in time; visibility (contests are public); the existence of problems and
users. A contest made by a request carries the request's name.

### 2.5 TestCases

| Variable | Code |
|---|---|
| `req`, `step`, `outcome`, `overlapped` | as above |
| `loaded[r]` | test cases the handler (delete of the problem, the judge) has read |
| `put[r]`, `s3` | files of the archive uploaded so far; the test case whose file each key holds |

The requests are add, remove, upload, delete the problem, submit and judge; the
judge is reduced to what concerns test cases: it reads them, and much later inserts
the results of those it has executed. A test case is named by the request that
made it and its `order_index`; where its text is follows from that
(`input_file` for seeded ones, `input_content` for added ones, S3 for archives).
Each `put_object` is a step of its own, since the other processes go on meanwhile;
`PutFails` stands for a failing call and for a lost process. A key holds what was
put last. Abstracted: contents, the format checks of an archive before the first
statement, contests that use the problem.

### 2.6 Session

| Variable | Code |
|---|---|
| `stored`, `memory[t]` | the key `auth-storage` of localStorage; the zustand store of a tab, which overwrites the key whole with every `set` |
| `request[r]` | a call of `get`, `post`, `put` or `delete`, a login or a logout: its attempt in `retryRequest`, `_retry`, the token it carries; `executed`, `doubts` are history |
| `refreshing[t]`, `refreshes` | the promise that the client of a tab shares; refresh requests in flight |
| `unloading` | tabs that have set `window.location` and go on until they are reloaded |
| `issued`, `expired`, `sessions`, `ended` | access tokens by their order, the last one that has expired, logins, completed logouts |
| `crossed` | history: a refresh of one session was stored in another |

A session is what a login opens; a user is told apart by the session. `authStore.ts:4`
imports a default export `client.ts` does not have; it is read as the
`apiClient` that is exported. `/auth/logout` lacks the `/api` prefix that every route
has, so that a logout ends the session in this tab and in localStorage only.
An answer may take any time; a fault is an answer that is lost, a 429 or a 5xx.

### 2.7 Submitting

| Variable | Code |
|---|---|
| `phase`, `reports` | the judge, of whom the browser knows what `SubmissionLifecycle` promises; a run's rows are its number and what comes of them |
| `page`, `form` | the page on screen; the state of the problem page: form shown, source, the message after a 429, the mutation, the cooldown |
| `calls` | POSTs under way, with the visit to the page that made them |
| `entry[s]`, `list` | the queries `['submission', s]` and `['submissions', …]`: data, error, and what the server has read for the fetch under way |
| `mounts`, `answered`, `overtaken` | visits to the problem page; history: creations that were answered, and those answered while an older fetch of the list was under way |

`createSubmission` is the POST of the client with its repetitions: an attempt that
was carried out and whose answer was lost leaves a submission nobody was told of.
Its success navigates to the new submission from whatever page is on screen. The
page shows the verdict of the last run over the rows of all runs. Bounds:
`MaxMounts`, `MaxRuns`, `MaxFaults`; `Cooldown` stands for the 30 seconds.

### 2.8 Leaderboard

| Variable | Code |
|---|---|
| `version[c]`, `query[c]` | the board on the server; the query `['scoreboard', c]` |
| `page`, `shown`, `flashed`, `timers` | the contest on screen; the page's own copy of the board, its flashing rows and the timeouts that end them |
| `socket`, `attempts`, `seen` | `wsClient` and its reconnections; `isConnected` as of the last render |
| `handler`, `rooms`, `wire` | the subscription of the page, the room this connection has joined, updates under way |
| `overtaken`, `switched` | history: an older answer replaced a newer board; the page went from one contest to the next |

React renders a page when its state or its query changes; a change of the socket
alone renders nothing, so that the hook subscribes with the *next* render
(`Render`). The server side is **the contract the client is written against**. In the
deployed system it does not hold: the backend's handlers are called
`subscribe_scoreboard` and `subscribe_submission` where the client emits
`subscribe:scoreboard`, nothing calls `emit_scoreboard_update`, and its payload is not
wrapped as the client unwraps it. `Publish` therefore reaches nobody in a deployment,
which is the behaviour of the model in which `rooms` stays empty.

### 2.9 Administration

| Variable | Code |
|---|---|
| `content`, `ids`, `tests`, `testIds`, `role`, `contests` | what is stored: the text of each problem: for which problem it was written, and whether from scratch; its test cases; the ids given to problems and to test cases so far; a user's role; the number of contests |
| `page`, `edit`, `form` | the page on screen; the state of the edit page, with the answers of its own two fetches under way; the create page and the contest form |
| `query[k]` | the lists of users, problems and contests in the query cache |
| `calls`, `made`, `moves` | calls under way with the page that made them; counters for `MaxCalls` and `MaxMoves` |
| `overtaken`, `jumped` | history: an answer read before a change came after it; the edit page went from one problem to the next |

The edit page fetches by hand into its own state and saves by `problemsAPI.update`;
the lists are queries. A call whose page is gone changes nothing of the new one, but
navigates and refetches all the same. An id is never given twice, whatever is deleted:
the columns are UUIDs.

### 2.10 VisitorPages

| Variable | Code |
|---|---|
| `now`, `done` | the clock; what the server has carried out |
| `page`, `form` | the page on screen; status of its form or mutation, whether the profile shows its form |
| `clock` | of the contest page: what it counts down to, what it shows of it, and the time of its last rendering |
| `browse` | filter and page number of the list of problems |
| `query`, `calls`, `sent`, `moves`, `faults` | contest and list of contests in the query cache; calls under way; counters |
| `redirects` | the three-second timers that lead to the login page |
| `overtaken` | history, as above |

The badge, the register button and the link to the scoreboard are functions of the
time of the last rendering. `Buttons` is the arithmetic of the pagination bar.

## 3. What TLC checks

| Run | Instance | Properties (distinct states) |
|---|---|---|
| `judging_verdict` | 1 submission, 2 workers, 3 test cases (one fails its checksum), 1 redelivery under a running task, 1 Docker error, 1 refused message, 1 deleted test case | `AcceptedIsEarned`, `FailureIsWitnessed`, `RerunsAreExplained`, `ResultsComeWithFinalStatus` |
| `judging_live` | 2 workers, 2 test cases, 1 lost worker, 1 database error, 1 rejudge request, with fairness | `LeaksAreExplained`, `AtLeastOnce`, `ImplementsLifecycle`, `EventuallyJudged` |
| `scoreboard_cache` | 2 participants, 1 problem, 2 submissions, 2 verdicts, 1 Redis error, ticks before, during and after contest and freeze | `StaleBoardsAreExplained`, `AudiencesAreKeptApart`, `BoardsAreFair` (870 000) |
| `contests` | 2 requests of any kind, 1 contest, 1 user, lists `<<p1, p2>>`, `<<p2, p1>>`, `<<p1, p1>>`, with fairness | `UniqueKeys`, `NoOrphans`, `SubmittersAreParticipants`, `ErrorsAreExplained`, `ImplementsRegistration`, `EveryRequestEnds` (27 000) |
| `testcases` | 3 requests of any kind, archives of up to 2 pairs | `NoOrphans`, `MixturesAreExplained`, `UploadReplacesAll`, `HistoryStays` (600 000) |
| `session` | 2 tabs, 3 calls of any kind, 2 logins, 3 tokens, 1 fault, with fairness | `OneRefreshPerTab`, `EndedSessionsStayEnded`, `TokenIsTheUsers`, `RepeatsFollowFaults`, `CallsEndOrWaitForARefresh` (230 000) |
| `submitting` | 1 submission judged twice, 2 visits, 2 faults, with fairness | `MissingRowsAreExplained`, `OneSubmissionPerVisit`, `BannerAgreesWithGrid`, `VerdictIsShown` (1 400 000) |
| `leaderboard` | 2 contests, 3 versions of each board, 1 reconnection, 2 faults | `NothingIsLeftBehind`, `UpdatesAreNotMissed`, `RankingsAreOfTheContest` (3 600 000) |
| `administration` | 2 problems, 1 test case, 2 calls, 5 moves, 2 faults | `FormsAreOfTheirProblem`, `ListedTestsExist`, `ListsAreCurrent` (2 500 000) |
| `visitor` | a contest of two instants, 2 calls, 3 moves, 2 faults, 3 filters of 9, 2 and 0 pages | `OutcomesAreTrue`, `BadgeFollowsContest`, `ParticipantsAreCounted`, `PagingIsSound` (920 000) |
| `judging_lost` | the broker refuses one message | **violated**: `QueuedIsInTheBroker` |
| `scoreboard_frozen` | one submission during the freeze | **violated**: `FrozenBoardHidesLateSubmissions` |

The types of the variables are a conjunct of one property of each run
(`ResultsComeWithFinalStatus` has none: `TypeCorrect` is proved). The two violated
properties state what a document of the repository promises; `PROJECT.json` quotes
it (findings).

Many properties *explain* a difference between two parts of the state: they hold but
for named reasons, each of which the code really has. A variable of history
(`excused`, `crossed`, `overtaken`, `jumped`, `switched`) records that the reason has
occurred, never that the difference has. Section 6 lists what these reasons amount
to for a user.

**Bounds.** Two workers are enough for two runs of one submission to interleave,
and the code has no step that involves three. One failure of each kind, two of the
kind a run is about, reach every failure branch, and a failure on the way out of a
failure. Two test cases distinguish the last one from the others; a third puts an
unverifiable one in the middle. Workers are interchangeable (the specification
never compares them), as are the requests of `testcases`, which makes the symmetry
of these safety runs sound; runs with liveness use none. In the scoreboard, two
participants can tie or differ, two submissions of one participant exercise the
penalty, and two ticks of the contest, one of them frozen, a tick before and the
end cover every choice of key and lifetime. Two contest requests suffice because
every property of `Contests` relates a request to one other; the three lists make
assignments that repeat a problem, and that claim the same keys in opposite orders
and so deadlock. Test cases get three requests: an upload, a judge that holds its
old test cases, and a third that adds or deletes meanwhile.

Two tabs and two sessions make one tab act on what the other has replaced; a second
token is one that a refresh brought, the third one that came after the account
changed. `MaxAttempts` is 2 in the runs and 3 in the code: the first attempt and the
last one differ, the ones between do not. Two visits to the problem page are what
a call of the first needs to meet the second; the second run of a submission is
what the page may have missed. Two contests and three versions let an older answer
replace a newer board of the same or of the other contest. Two problems are what a
late answer can confuse; five moves lead from the dashboard to one, back, and to
the other. Nine pages are more than the seven buttons, so that each of their four
layouts occurs; the clock has an instant before, at the start of, at the end of, and
after the contest. The runs stop when their budgets are spent, so none checks
deadlock.

**Fairness.** `judging_live` assumes that the API finishes a request it has begun,
that a live worker keeps executing its task (weak fairness of the worker as a
whole), that *some* idle worker takes *some* message (weak fairness of the pool;
Celery prefetches in order but nothing more is assumed), and that the broker
gives back what a lost worker held (the visibility timeout). It is not assumed
that anybody posts, or which outcome a step has. `contests` assumes that a request
under way goes on and that PostgreSQL breaks deadlocks. `session` assumes that a
request is answered or times out, that the timer between two attempts fires and
that a page that is told to reload does; it assumes nothing of a refresh, which is
the one request without a timeout, and the property says so. `submitting` assumes
that the interval of the poll fires while the page is open and that a fetch is
answered or times out, and nothing of the judge or the user. None assumes that
failures happen or that they stop otherwise than by the budgets.

## 4. What is proved

The theorems hold for every value of the constants that satisfies the assumption of its
module: any set of submissions, workers, requests, tabs, contests, problems and
participants, and any budget. The assumptions are types; that there is a tab, a problem,
a test case, at least one attempt; for contests and test cases that the primary keys of
new rows are new and that a list of problems is a sequence; for the boards that a
contest has finitely many participants and problems; and for the list of problems that
one filter has most matches, which is to filter nothing. `BoardsProofs` and
`ClientProofs` are about two components each and extend both; that is why `Scoreboard`
and `Session` have specifications of a name of their own (`CacheSpec`, `SessionSpec`),
which is `Spec` everywhere else.

| Theorem | Module | Statement |
|---|---|---|
| `TypeCorrect` | `JudgingProofs` | `Spec => []TypeOK` |
| `AcceptedEarned`, `FailureWitnessed` | `JudgingProofs` | `Spec => []AcceptedIsEarned`, `Spec => []FailureIsWitnessed` |
| `ReportsComplete` | `JudgingProofs` | `Spec => ResultsComeWithFinalStatus` |
| `PipelineImplementsLifecycle` | `JudgingProofs` | `Spec => ImplementsLifecycle` (the refinement) |
| `JudgedAtLeastOnce` | `JudgingProofs` | `Spec => []AtLeastOnce` |
| `RerunsHaveCauses`, `LeaksHaveCauses` | `JudgingProofs` | `Spec => []RerunsAreExplained`, `Spec => []LeaksAreExplained` |
| `LocksSuffice`, `KeysStayUnique` | `ContestsProofs` | `Spec => []LockInv`, `Spec => []UniqueKeys` |
| `SubmittersHadRegistered` | `ContestsProofs` | `Spec => []SubmittersAreParticipants` |
| `RegistrationIsAtomic` | `ContestsProofs` | `Spec => ImplementsRegistration` (the refinement) |
| `UnexplainedSucceed`, `OnlyOverlapsFail` | `ContestsProofs` | `Spec => [](RowsInv /\ ErrorsInv)`, `Spec => ErrorsAreExplained` |
| `NothingIsOrphaned` | `ContestsProofs`, `TestCasesProofs` | `Spec => []NoOrphans` |
| `DeletionsAreLimited`, `HistoryIsKept` | `TestCasesProofs` | `Spec => []HistoryInv`, `Spec => HistoryStays` |
| `MixturesHaveCauses` | `TestCasesProofs` | `Spec => []MixturesAreExplained` |
| `UploadsReplaceAll` | `TestCasesProofs` | `Spec => UploadReplacesAll` |
| `AudiencesNeverMix`, `InvalidationIsEnough` | `BoardsProofs` | `CacheSpec => []AudiencesAreKeptApart`, `CacheSpec => []StaleBoardsAreExplained` |
| `EveryBoardIsFair` | `BoardsProofs` | `CacheSpec => []BoardsAreFair` |
| `PenaltiesEndInTime` | `BoardsProofs` | the ACM loop over any list of submissions agrees with a direct definition |
| `RanksDependOnScoresOnly` | `BoardsProofs` | the ranks of any scores count those strictly ahead |
| `RefreshesAreNeverDoubled` | `ClientProofs` | `SessionSpec => []OneRefreshPerTab` |
| `LogoutsAreFinal` | `ClientProofs` | `SessionSpec => []EndedSessionsStayEnded` |
| `TokensAreOfTheirUsers` | `ClientProofs` | `SessionSpec => []TokenIsTheUsers` |
| `RepetitionsHaveACause` | `ClientProofs` | `SessionSpec => []RepeatsFollowFaults` |
| `VisitsSubmitOnce`, `FreshListsAreComplete` | `ClientProofs` | `Spec => []OneSubmissionPerVisit`, `Spec => []MissingRowsAreExplained` |
| `BannersFitGrids` | `ClientProofs` | `Spec => []BannerAgreesWithGrid` |
| `PagesLeaveNothing`, `TitlesFitRankings`, `RoomsMissNothing` | `BoardsProofs` | `Spec => []NothingIsLeftBehind`, `Spec => []RankingsAreOfTheContest`, `Spec => []UpdatesAreNotMissed` |
| `FormsTellTheTruth`, `BadgesLagByATick` | `VisitorProofs` | `Spec => []OutcomesAreTrue`, `Spec => []BadgeFollowsContest` |
| `RegistrationsAreCounted`, `PagesCanBeReached` | `VisitorProofs` | `Spec => []ParticipantsAreCounted`, `Spec => []PagingIsSound` |
| `FormsStayWithTheirProblem` | `AdministrationProofs` | `Spec => []FormsAreOfTheirProblem` |
| `TestListsSettle`, `DashboardSettles` | `AdministrationProofs` | `Spec => []ListedTestsExist`, `Spec => []ListsAreCurrent` |

**Judging.** `VerdictInv` is `AcceptedIsEarned /\ FailureIsWitnessed` with what makes
it inductive: run numbers identify runs (`RunsAreDistinct`); a run that may still
write results has none yet (`Unreported`), so that another run cannot add to the
results a status rests on; past its first commit a run believes the status to be
an intermediate one (`Started`), so that the final status is really written in
spite of `WriteRow`; and the loop has a result for every verifiable test case
behind it and `worst_status` is a summary of them (`Collected`). Each part is a
lemma of its own, with one case per action that can disturb it; frame lemmas
dispose of the others. The refinement and `ReportsComplete` follow from the same
invariant. `DeliveryInv` is about messages: a busy worker is the only holder of its
message as long as nothing is redelivered early (`HeldOnce`), the retry a run may
publish does not exist yet (`ChildrenAreNew`), and a submission that is not final
has a message or was given up (`NothingIsForgotten`), which needs that a run about
to end without an exception has made it final.

The last two theorems count. `RerunsAreExplained` bounds the runs that have started,
but a failure is spent long before the run it leads to starts, so that `RerunInv`
counts the runs to come as well: the messages the broker will deliver (`Waiting`) and
the runs that an exception ends and that may publish another (`Failing`). Each is
paid for by the request or by one failure,
`starts + Waiting + Failing <= Requested + Failures`, and a step only moves a run
from one of the terms on the left to another unless it spends something. A container
whose removal failed is still owned until its run ends, by a step that spends nothing,
so that `LeaksAreExplained` is not inductive; `LeakInv` counts the `Stray` containers
instead, those that no run *will* remove. They include all that are not owned, and
grow only with a lost worker or a failed Docker call.

**Transactions.** `UniqueKeys` and `NoOrphans` are not inductive: they speak of
committed rows, and a commit adds rows that were checked long before. `LockInv` says
that *every transaction could commit now*: its view is free of violations, it
holds every row it deletes, and its changes do not touch those of another
transaction (`Isolated`). A statement preserves it because it waits for the locks,
a commit because the other views differ from the committed rows only in places
the committing transaction has not touched. `TransactionsProofs` proves this once,
statement by statement, for whatever requests; `ContestsProofs` and
`TestCasesProofs` add only that each handler leaves the transactions to those
operations. `HistoryInv` is why no judged result is lost: rows other than test cases
and the problem never cascade (`RowsAreStored`), no transaction has deleted or will
delete anything else (`DeletionsAreHarmless`), and what the handlers have read and
will delete are test cases (`HandlersAreHarmless`). A deletion that would leave a
result without its test case violates a foreign key, so that the request fails
instead.

**Contests.** `ContestInv` says for each kind of request what its transaction may have
added (`Adds`), removed (`Removes`) and planned (`Plans`), and that what it is for is
done or still to be executed: a registration enters its row (`WillEnter`), a deletion
leaves no contest (`WillRemove`), an update puts back what it takes out. With
`LockInv` it shows that a transaction changes the registrations only when it commits
and then as the abstract specification says, which is the refinement: of all the
steps of a registration only `Finish` enters somebody, and since its view holds both
the contest and a row whose key is free, the abstract `Enter` is possible at that
moment although the handler's checks were long before. For
`SubmittersAreParticipants`, a submission is checked early and inserted later, when its
user may be registered no longer. What remains true meanwhile is `MayStill`: the user
is registered or *the contest is gone*, since registrations only go with their
contest and a contest that was known never comes back; and a transaction whose contest
is gone cannot insert a reference to it. The two assumptions exclude names of new rows
that collide with those of initial ones, which UUIDs do, and functions that are not
lists.

That a request ends in a database error only when something explains it
(`OnlyOverlapsFail`) is an argument by contradiction kept as an invariant: as long as
nothing explains an error of a request, there is no other one (`ErrorsInv`), so that
what its handler has looked for is still so, it waits for nobody, and *all the
statements it has still to execute will succeed* (`Succeeds`). For a list of
insertions that means: they do not collide with each other, and whatever row they
collide with is about to be deleted by the statement before them; their contest is
there or inserted first. A renamed contest collides with nothing but its old row; a
deleted one has no children left but those that go with it, once the submissions are
taken off. The handlers check slugs and registrations only; that the remaining keys
are free rests on `RowsInv`: each table has its own kind of key, and a row that
carries the name of a request was made by that request or by one that is done.

**Test cases.** `MixtureInv` is about what a request sees between its statements, in
which others may commit. A request that is `Undisturbed`, beside which no other one adds
test cases, sees only test cases it is going to delete, then none, then its own, if it
uploads; and if it adds one, the index it has computed stays free: others only take test
cases away. So an undisturbed upload ends with its archive and nothing else, which is
`UploadsReplaceAll`, and no undisturbed request makes an index a second time. That the
largest index has a successor which is free needs that a finite set of numbers has a
largest element; its proof is by the well-founded order of finite subsets, since the
library's induction over finite sets takes an operator as a parameter. Files are not
taken back by a rollback, so that the argument about them is by cases: the file of an
upload under way is still there or was replaced by another upload, which both have
disturbed (`FileStands`), and an upload whose files replaced those of a committed test
case either commits, is cut off while it stores files, or fails in the database. The
last case leaves nothing to explain: names are new, so that no insertion collides
(`NewNames`), the only row it refers to is the problem, and whoever deletes the problem
waits for nothing after it, so that there is no deadlock (`UploadsFail`); if the
insertion fails, the problem is gone and its test cases are gone too.

**Scoreboard.** The first two proofs do not look into a score: they hold for any
scoring rule. `AudienceInv` says that a key holds boards of its own audience and that a request
keeps the audience it began with, however the clock moves on while it computes.
`FreshnessInv` is `StaleBoardsAreExplained` with the type of its counter; the
argument is that whatever changes `Current` either goes on to invalidate or excuses
the boards cached and computed meanwhile.

`BoardsAreFair` is about the scores themselves. A board that is answered was computed a
moment ago or lay in the cache, so that `BoardsInv` says of the *cached* boards too that
they have their types and fair ranks; and that what a request has read so far are
results of problems, whatever was judged between its queries. The rest is about the
operators of `Scoring`, and does not mention the state:

* `PenaltiesEndInTime` is the loop over the submissions to one problem. `Found` says
  what the loop knows after each turn, in terms of the first accepted submission up to
  there (`FoundAfterTurn`); it is the function the loop's recursive definition describes,
  and the only one (`AcmProblemFinds`).
* `RanksDependOnScoresOnly` is the sort and the comparison of neighbours. `Before` is an
  order in which ties are alike; the participants can be listed in it (`OrderExists`),
  so that `Sorted` chooses among such lists; a rank is the last position that opens a
  group; between there and the participant all tie (`OneGroup`), and exactly those who
  stand before it are ahead (`AheadOfTheGroup`).
* `SumIsNatural` is the sum over the problems of a participant.

Each of them is an induction over data: on the turns of a loop, on the number of
participants, on the size of the domain of a sum. The induction theorems of the library
take an operator as a parameter, which the provers cannot instantiate. `EveryNumber` says
the same of a *set* of numbers, one that contains 0 and the successor of each of its
elements, and rests on the well-founded order of the naturals (`LeastNumber`, also what
`Min` and `Max` need); the induction hypothesis of each proof is then the definition
of a set. For this, `Sorted` chooses any order the sort may yield, where TLC's
`SortSeq` has no definition a prover could use, and `FinitenessAssumption` says that there
are finitely many participants and problems.

**Session.** `RefreshInv` says that the promise of a tab is its refresh in flight and
that there is only one (`RefreshesAreSingle`), which `RefreshesAreShared` alone does
not keep; and that a call between two attempts has one left. `LogoutsAreFinal` rests
on `SessionsAreOpened`: whatever is stored, in a tab's memory or carried by a call
is of a session that was opened, so that the one a login opens was never ended;
and on the fact that a refresh edits what is stored without touching its user.
`CallsAreCounted` counts executions against faults and attempts for every state of
a call.

**Submitting.** `VisitInv` says that calls belong to visits that took place, one to
each, so that the call of an earlier visit never counts as the present one.
`ListInv` says that the answer under way misses no more than the list may: a
creation that is answered while a fetch is under way is in `overtaken`, any other
one before the fetch has read. `ReportInv` is about the page of a submission: runs are
numbered from 1 without a gap (`Numbered`), and what was read of a submission, whether
shown or under way, is never ahead of the judge and has a last run if it is final
(`Faithful`); a failed run in the grid of an accepted submission is then an earlier
one. `BrowserInv` holds the types this leaves.

**Leaderboard.** `TidyInv` adds the attempts of the socket to `NothingIsLeftBehind`, so
that a page starts from none. `PageInv` says that what is on screen, on the wire and
in the rooms is of the page's contest until it goes to another one. `RoomInv` is the
argument for the updates: a room is joined by a page that listens and only while
connected, and what was published since is *last on the wire, or on screen with
nothing behind it* (`UpToDate`), unless an answer overtook it.

**Visitor's pages.** What a form reports is of the call that was answered last, which may
be the second of its kind; so the proof of `OutcomesAreTrue` has to *count*. `CountInv`
says that calls and timers under way are no more than were sent, and that two calls of
one kind were sent one after the other; the cardinality of a set of calls is what the
lemmas about leaving a page (`UnmountedCalls`) and about answering (`CallReplaced`) are
for, since leaving a page makes calls equal that differed only in whether it is there.
With that, `CallsInv` explains every error beside something that was carried out: a
fault, or a second call. `ClockInv` follows what the interval counts down to: it stops
only when the last rendering is past its target, which is why the badge is a second late
before the target and stands still after it. `QueryInv` is `ParticipantsAreCounted`
without the condition that nothing is under way: between the registration and its answer
nothing is promised, and the answer invalidates both queries before the promise is due.
`BrowseInv` says that only typing leaves the page number behind the matches, and that it
stays positive; that the buttons of `PagingIsSound` then lead to existing pages is
arithmetic, by the layouts of the bar. The assumption on filters is that the list begins
with one: all problems.

**Administrator's pages.** `IdsInv` says that what is shown, edited or created has an id
that was given, so that a new one is of nothing that is still on a page. `FormInv` follows
a text from the answer of the server through the fields, the call and the row: it is of
the problem it is shown with, and *from scratch only for a cause* (`HasCause`), a fault,
or a problem that is gone. The second cause is needed on the way (the page of a deleted
problem shows empty fields) and gone in the property, since what is saved for a problem
that is gone is not stored and its id never comes back. `ListInv` adds to
`ListedTestsExist` what is true before everything is answered: unless an addition is
still to be answered, the list has every test case, and what else it has is about to be
struck out (`Answering`). `QueryInv` says of each list that a change is still to be
answered (`Pending`) or that it is `Current`: fetched, or being fetched, as it is stored.
The lists of users and of contests stay fresh between visits and have to be current
also while no tab shows them; the list of problems is fetched whenever it is mounted and
has to be so only then.

`ListInv` failed at first, and was right to: in the model a test case that had been deleted
could come back under the same name while the answer to its deletion was under way, and
the page struck out the new one. The code cannot do that, since ids are UUIDs; the model
now remembers the ids that were given (`testIds`), as it did for problems.

TLC also checked these invariants on the configurations above.

*Only model-checked*: the four liveness properties, `EventuallyJudged`,
`EveryRequestEnds`, `CallsEndOrWaitForARefresh` and `VerdictIsShown`, since weak fairness
and `ENABLED` are outside the prover's reach. Every invariant and every action property
that a passing run checks is a theorem, and so are both refinements. The two violated
properties are false, and are left to TLC's counterexamples.

## 5. What is not modelled

* The arithmetic of IOI scores: the code fails before it (`calculate_ioi_score`
  uses `func` before the local import that binds it, `scoring_service.py:113`), so
  that every IOI board with a participant and a problem is an error. One request
  shows it; no run is spent on it.
* The rejudge endpoint answers `queued` and queues nothing; it is an action of
  `Judging` that changes nothing but its budget and a history variable.
* The executor threads that a timed out exec leaves behind in `docker_sandbox.py`: the
  next test case runs beside the process of the one before, and the removal of the
  container may have no thread left. What comes of it is a measured time or an
  output, which are data here.
* Edits of a contest's times, freeze and scoring rule, and with them boards cached
  before the edit; visibility; creating and editing problems on the server (one row
  each, with the slugs of `Contests`).
* The list of revoked refresh tokens in Redis, whose check fails open: the endpoint
  that writes it is one the frontend's logout never reaches. Roles in access tokens,
  which a demotion does not change until they expire.
* The emitting half of the WebSocket server and its submission events: no caller in
  the backend, no user of their hook in the frontend.
* Rate limits, quotas, e-mail, code validation, internal authentication: no caller.
* In the frontend: toasts, `ProtectedRoute`, `App`, layout and themes; the statement of
  a problem and the statistics of the dashboard, which are shown as they come;
  `ProblemFilters`, which nothing imports; `ComponentShowcase`, `ApiTest` and
  `WebSocketTest`, demonstrations without a route.
* Rendering, schemas, migrations, container wiring.

## 6. What the models show of the code

Besides the two violated properties, writing and checking the models showed
behaviours that no document excludes or that one request shows, and that a reader of
the code should know. Those that a property tolerates by name say which.

*Judging.* A test case whose checksum does not match is skipped, and skipped ones do
not count: a submission is ACCEPTED although it was not tested on them, where the
design document makes ACCEPTED a matter of all test cases (`judge_service.py:123`;
`AcceptedIsEarned` speaks of verifiable ones). Test cases entered in the
administrator's form are stored inline and never executed (`judge_service.py:119`).
A final status does change when a finished task runs again, and `COMPILING` or
`RUNNING` does remain when a second attempt fails before its first Docker call or
when a run and its redelivery are both lost (design document, 5.14.3).

*Contests and test cases.* Two assignments of problems to a contest at the same time
merge: the delete of the second does not see the rows of the first, and unless they
share a problem the contest ends with both lists (`routers/contests.py:123`). Test
cases added at once share an `order_index`; an archive uploaded at once with another
leaves rows whose files were overwritten (`MixturesAreExplained`).

*Session.* A refresh answered after a logout and a login stores a token of the former
session beside the new user (`TokenIsTheUsers`, `crossed`). A POST that is repeated
after a lost answer is carried out twice (`RepeatsFollowFaults`); its callers submit,
create contests and register with it. A call may wait for a refresh forever
(`CallsEndOrWaitForARefresh`).

*Submission pages.* A submission answered while an older fetch of the list is under
way is missing from it for two minutes (`MissingRowsAreExplained`); rows of the list
stay QUEUED as long. The success of a call whose page was left navigates away from
whatever page is on screen. The cooldown of ten seconds after a success never
matters, since the page is gone by then. A page that shows a verdict polls no more
and does not see a later one (`VerdictIsShown`), and the grid and the text of a
compilation error of an earlier run stay beside those of the last
(`BannerAgreesWithGrid`). The form never sends a contest: what is submitted from
these pages counts in none.

*Scoreboard page.* Real-time updates never arrive (2.8), where the page and the
project's README announce them. An older answer replaces an update
(`UpdatesAreNotMissed`, `overtaken`); after a reconnection nothing is subscribed
before the next render; going from one contest to another leaves the former board
under the new title until the new one arrives (`RankingsAreOfTheContest`).

*Administrator's pages.* When loading a problem failed, its fields are shown empty and
can be saved over it (`FormsAreOfTheirProblem`). Going from one problem to another
in place lets the late answer for the former fill the fields of the latter. Saving
bypasses the mutation that would invalidate the problem page, which shows the old
statement for up to ten minutes.

*Visitor's pages.* A profile is saved with only its user name read, yet a change of
the e-mail address or password is reported as success; a save answered after Cancel
and a second opening closes the new form (`UserProfilePage.tsx:71`). The password
reset sends `newPassword` where `new_password` is required and never succeeds. Under
StrictMode or after a retry a verification is posted twice and reports an error
although it took place (`OutcomesAreTrue`); its timer leads to the login page from
wherever one has gone. A contest page that was open before the start shows "Running"
for good after the end (`BadgeFollowsContest`); the button to register is shown while
the contest runs, when the server refuses. Typing in the search field on a later page
shows an empty list (`PagingIsSound`, `typed`). `router.tsx` imports
`./pages/auth/Login` and `Register` from a directory that is called `Auth`, which
only file systems that ignore case resolve.

## 7. What could follow

Every component with behaviour of its own has a model. Left are: `Sandbox` with
executor threads abandoned by a timeout; edits of a contest under cached boards
(`Contests` with `Scoreboard`); a composition of `Session` and `Submitting`, in which
a call also waits for a refresh. The four liveness properties have no theorem; what could
be proved towards them are measures that the steps of a request or of a call decrease, so
that only the fairness argument would be left to TLC, as `RerunInv` does for `Judging`: the
runs of a submission are bounded by its failures.

## 8. Running

    tlc -config judging_verdict.cfg MCJudging.tla
    tlc -config scoreboard_cache.cfg MCScoreboard.tla
    tlc -config contests.cfg MCContests.tla
    tlc -config testcases.cfg MCTestCases.tla
    tlc -config session.cfg MCSession.tla        # and submitting, leaderboard,
                                                 # administration, visitor
    tlapm JudgingProofs.tla                      # and the other *Proofs modules

Each configuration's first line says what it is for. Every run and every proof
takes at most a few minutes.
