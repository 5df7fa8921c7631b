----------------------------- MODULE Submitting -----------------------------
(***************************************************************************)
(* A user solves problems in the browser: the problem page with its form   *)
(* (ProblemDetailPage), the page that waits for the verdict                *)
(* (SubmissionDetailPage), the list of submissions (SubmissionListPage),   *)
(* and the query cache between them and the API (hooks/queries).  The      *)
(* judge is what SubmissionLifecycle promises of it.                       *)
(*                                                                         *)
(* One page is mounted at a time; calls and fetches outlive the page that  *)
(* made them.  A fetch is read by the server at some moment before its     *)
(* answer arrives; the model reads at the start, where the answer is       *)
(* oldest: a later read is that of a fetch which started later.            *)
(***************************************************************************)
EXTENDS Calls, SubmissionLifecycle, Integers, FiniteSets

CONSTANTS
    Cooldown,      \* ticks of the cooldown after a 429 (30 in the code)
    MaxMounts,     \* bound on visits to the problem page
    MaxRuns        \* bound on the judge's runs of a submission

ASSUME SubmittingAssumption ==
    /\ MaxAttempts \in Nat \ {0}
    /\ Cooldown \in Nat
    /\ MaxMounts \in Nat
    /\ MaxRuns \in Nat
    /\ MaxFaults \in Nat

VARIABLES
    page,       \* the page on screen, with its submission
    form,       \* local state of the problem page on screen
    calls,      \* POST /api/submissions under way
    entry,      \* entry[s]: the query ['submission', s]
    list,       \* the query ['submissions', page 1]
    mounts,     \* visits to the problem page so far
    answered,   \* submissions whose creation was answered
    overtaken   \* those answered while an older fetch of the list was under way

vars == <<phase, reports, page, form, calls, entry, list, mounts, answered,
          overtaken, faults>>
server == <<phase, reports>>
browser == <<page, form, calls, mounts, answered, overtaken>>

(* A verdict comes with the rows of the run's test cases: none of them     *)
(* failed, some did, or there are none because nothing was compiled.       *)
Verdicts == {"accepted", "rejected", "uncompiled"}
Report == [sub : Submissions, no : 1..MaxRuns, verdict : Verdicts]

RunsOf(s) == {r \in reports : r.sub = s}

(* What GET /api/submissions/{id} answers: the status, and the rows of all *)
(* runs so far.                                                            *)
Views == [phase : {"none", "queued", "judging", "judged"}, runs : SUBSET Report]
NoView == [phase |-> "none", runs |-> {}]
ViewOf(s) == [phase |-> phase[s], runs |-> RunsOf(s)]

(* A fetch in flight holds what the server read for it: {} or {a view}.    *)
InFlight == {{}} \union {{v} : v \in Views}
Entry == [data : Views, error : BOOLEAN, flight : InFlight]
NoEntry == [data |-> NoView, error |-> FALSE, flight |-> {}]

Rows == SUBSET Submissions
List == [has : BOOLEAN, rows : Rows, stale : BOOLEAN, error : BOOLEAN,
         flight : {{}} \union {{q} : q \in Rows}]
NoList == [has |-> FALSE, rows |-> {}, stale |-> FALSE, error |-> FALSE, flight |-> {}]

Page == [at : {"problem", "list", "other"}] \union [at : {"submission"}, id : Submissions]
At(p) == [at |-> p]
OnSubmission(s) == page.at = "submission" /\ page.id = s

(* showSubmit, whether there is source code, rateLimitMsg, the mutation's  *)
(* isError and isPending, cooldownSec.                                     *)
Form == [open : BOOLEAN, draft : BOOLEAN, limited : BOOLEAN, failed : BOOLEAN,
         pending : BOOLEAN, cooldown : 0..Cooldown]
NewForm(prefill) ==
    [open |-> prefill, draft |-> prefill, limited |-> FALSE, failed |-> FALSE,
     pending |-> FALSE, cooldown |-> 0]

(* A call, by the visit that made it; created holds the row of the attempt *)
(* under way once it is stored.                                            *)
Call == [mount : 1..MaxMounts, attempt : 1..MaxAttempts,
         created : {{}} \union {{s} : s \in Submissions}]

Init ==
    /\ LifecycleInit
    /\ page = At("other")
    /\ form = NewForm(FALSE)
    /\ calls = {}
    /\ entry = [s \in Submissions |-> NoEntry]
    /\ list = NoList
    /\ mounts = 0
    /\ answered = {}
    /\ overtaken = {}
    /\ faults = 0

(***************************************************************************)
(* The judge, behind its abstract specification.                           *)
(***************************************************************************)
JudgeStarts(s) ==
    /\ Cardinality(RunsOf(s)) < MaxRuns
    /\ Judge(s)
    /\ UNCHANGED <<browser, entry, list, faults>>

JudgeReports(s) ==
    /\ phase[s] = "judging"
    /\ \E verdict \in Verdicts :
          reports' = reports \union
             {[sub |-> s, no |-> Cardinality(RunsOf(s)) + 1, verdict |-> verdict]}
    /\ Conclude(s)
    /\ UNCHANGED <<browser, entry, list, faults>>

(***************************************************************************)
(* Queries: a fetch starts unless one is under way; a query without data   *)
(* forgets its error when it is fetched again.                             *)
(***************************************************************************)
Fetch(s) ==
    LET e == entry[s] IN
    IF e.flight # {} THEN e
    ELSE [e EXCEPT !.flight = {ViewOf(s)}, !.error = @ /\ e.data # NoView]

Fetched(s, e) ==
    /\ entry' = [entry EXCEPT ![s] = e]
    /\ UNCHANGED <<server, browser, list>>

Arrive(s) ==
    /\ \E view \in entry[s].flight : Fetched(s, [NoEntry EXCEPT !.data = view])
    /\ UNCHANGED faults

FetchFails(s) ==
    /\ entry[s].flight # {}
    /\ faults < MaxFaults
    /\ faults' = faults + 1
    /\ Fetched(s, [entry[s] EXCEPT !.flight = {}, !.error = TRUE])

(* refetchInterval of useSubmission: every two seconds while the page is   *)
(* open, until the data it has is final.                                   *)
Final(view) == view.phase = "judged"

(* Mutation: polling stops as soon as there is data.                       *)
PollUntilData(s) ==
    /\ OnSubmission(s)
    /\ entry[s].data = NoView
    /\ entry[s].flight = {}
    /\ Fetched(s, Fetch(s))
    /\ UNCHANGED faults

Poll(s) ==
    /\ OnSubmission(s)
    /\ ~Final(entry[s].data)
    /\ entry[s].flight = {}
    /\ Fetched(s, Fetch(s))
    /\ UNCHANGED faults

(* gcTime: a query without a page is dropped after ten minutes.            *)
Forget(s) ==
    /\ ~OnSubmission(s)
    /\ entry[s].flight = {} /\ entry[s] # NoEntry
    /\ Fetched(s, NoEntry)
    /\ UNCHANGED faults

FetchList(l) ==
    IF l.flight # {} THEN l
    ELSE [l EXCEPT !.flight = {{s \in Submissions : phase[s] # "none"}},
                   !.error = @ /\ l.has]

ListArrives ==
    /\ \E rows \in list.flight : list' = [NoList EXCEPT !.has = TRUE, !.rows = rows]
    /\ UNCHANGED <<server, browser, entry, faults>>

ListFails ==
    /\ list.flight # {}
    /\ faults < MaxFaults
    /\ faults' = faults + 1
    /\ list' = [list EXCEPT !.flight = {}, !.error = TRUE]
    /\ UNCHANGED <<server, browser, entry>>

(* staleTime: two minutes.                                                 *)
ListAges ==
    /\ list.has /\ ~list.stale
    /\ list' = [list EXCEPT !.stale = TRUE]
    /\ UNCHANGED <<server, browser, entry, faults>>

(* Mutation: only a list that is on screen is invalidated.                 *)
InvalidatedOnScreen(l) ==
    IF page.at = "list" THEN FetchList([l EXCEPT !.stale = l.has]) ELSE l

(* invalidateQueries(['submissions']): what the list has is stale; if it   *)
(* is on screen it is fetched at once, and a fetch under way is replaced   *)
(* if there is data already.                                               *)
Invalidated(l) ==
    LET stale == [l EXCEPT !.stale = l.has] IN
    CASE page.at # "list"           -> stale
      [] page.at = "list" /\ l.has  -> FetchList([stale EXCEPT !.flight = {}])
      [] page.at = "list" /\ ~l.has -> FetchList(stale)

(* Mutation: the status shown is that of the first run.                    *)
FirstRun(view) == CHOOSE r \in view.runs : \A q \in view.runs : r.no <= q.no

(***************************************************************************)
(* What the pages show.                                                    *)
(***************************************************************************)
LastRun(view) == CHOOSE r \in view.runs : \A q \in view.runs : q.no <= r.no

(* The banner of a submission's page.                                      *)
Banner(s) ==
    LET e == entry[s] IN
    CASE e.data = NoView /\ e.flight # {} -> "loading"
      [] e.data = NoView /\ e.flight = {} -> "not found"
      [] e.data # NoView /\ e.error       -> "not found"
      [] OTHER -> IF Final(e.data) THEN LastRun(e.data).verdict ELSE e.data.phase

(* The runs whose test cases are in its grid, all of them counted as one;  *)
(* the panel of a compilation error stays when a later run compiles.       *)
Grid(s) == {r \in entry[s].data.runs : r.verdict # "uncompiled"}
ErrorPanel(s) == \E r \in entry[s].data.runs : r.verdict = "uncompiled"

MayResubmit(s) == Banner(s) \in {"rejected", "uncompiled"}

ListShows == IF list.has /\ ~list.error THEN list.rows ELSE {}

(* Mutation: the button stays enabled while a submission is under way.     *)
MaySubmitPending ==
    /\ form.open /\ form.draft
    /\ form.cooldown = 0

(* The submit button: its own condition and the handler's.                 *)
MaySubmit ==
    /\ form.open /\ form.draft
    /\ ~form.pending
    /\ form.cooldown = 0

(***************************************************************************)
(* The user goes from page to page.                                        *)
(***************************************************************************)
Show(p) == page' = p /\ form' = NewForm(FALSE)

MountProblem(prefill) ==
    /\ mounts < MaxMounts
    /\ mounts' = mounts + 1
    /\ page' = At("problem")
    /\ form' = NewForm(prefill)
    /\ UNCHANGED <<server, calls, entry, list, answered, overtaken, faults>>

OpenProblem == MountProblem(FALSE)

(* The source code may be withheld: then nothing is filled in.             *)
Resubmit(s) ==
    /\ OnSubmission(s)
    /\ MayResubmit(s)
    /\ \E visible \in BOOLEAN : MountProblem(visible)

(* A submission's page fetches what it does not have, or what is older     *)
(* than five minutes.                                                      *)
ShowSubmission(s) ==
    /\ Show([at |-> "submission", id |-> s])
    /\ \E old \in BOOLEAN :
          entry' = IF old \/ entry[s].data = NoView
                   THEN [entry EXCEPT ![s] = Fetch(s)] ELSE entry

OpenSubmission(s) ==
    /\ page.at = "list"
    /\ s \in ListShows
    /\ ShowSubmission(s)
    /\ UNCHANGED <<server, calls, list, mounts, answered, overtaken, faults>>

OpenList ==
    /\ page.at # "list"
    /\ Show(At("list"))
    /\ list' = IF list.stale \/ ~list.has THEN FetchList(list) ELSE list
    /\ UNCHANGED <<server, calls, entry, mounts, answered, overtaken, faults>>

Leave ==
    /\ page.at # "other"
    /\ Show(At("other"))
    /\ UNCHANGED <<server, calls, entry, list, mounts, answered, overtaken, faults>>

(***************************************************************************)
(* The form of the problem page.                                           *)
(***************************************************************************)
Edited(f) ==
    /\ page.at = "problem"
    /\ form' = f
    /\ UNCHANGED <<server, page, calls, entry, list, mounts, answered, overtaken, faults>>

ToggleSubmit == Edited([form EXCEPT !.open = ~@])
EditSource == form.open /\ Edited([form EXCEPT !.draft = ~@])

Submit ==
    /\ page.at = "problem"
    /\ MaySubmit
    /\ form' = [form EXCEPT !.pending = TRUE, !.limited = FALSE, !.failed = FALSE]
    /\ calls' = calls \union {[mount |-> mounts, attempt |-> 1, created |-> {}]}
    /\ UNCHANGED <<server, page, entry, list, mounts, answered, overtaken, faults>>

Tick ==
    /\ form.cooldown > 0
    /\ Edited([form EXCEPT !.cooldown = @ - 1])

(***************************************************************************)
(* The call that submits.                                                  *)
(***************************************************************************)
Replace(c, d) == calls' = (calls \ {c}) \union {d}

(* Submissions are numbered by the database: any new one is as good.       *)
Store(c) ==
    LET new == {s \in Submissions : phase[s] = "none"} IN
    /\ c.created = {} /\ new # {}
    /\ LET s == CHOOSE n \in new : TRUE IN
       /\ Queue(s)
       /\ Replace(c, [c EXCEPT !.created = {s}])
    /\ UNCHANGED <<page, form, entry, list, mounts, answered, overtaken, faults>>

Mounted(c) == page.at = "problem" /\ mounts = c.mount

(* The cache is told first; then handleSubmit goes on, wherever the user   *)
(* is by now.  The cooldown that it starts ends with the page that         *)
(* navigate unmounts at once.                                              *)
Succeed(c) ==
    /\ c.created # {}
    /\ calls' = calls \ {c}
    /\ answered' = answered \union c.created
    /\ list' = Invalidated(list)
    /\ overtaken' = IF list'.flight # {} /\ list'.flight = list.flight
                    THEN overtaken \union c.created ELSE overtaken
    /\ \E s \in c.created : ShowSubmission(s)
    /\ UNCHANGED <<server, mounts, faults>>

(* A fault is followed by the client's next attempt, a new POST ...        *)
Repeat(c) ==
    /\ c.attempt < MaxAttempts
    /\ faults < MaxFaults
    /\ faults' = faults + 1
    /\ Replace(c, [c EXCEPT !.attempt = @ + 1, !.created = {}])
    /\ UNCHANGED <<server, page, form, entry, list, mounts, answered, overtaken>>

(* ... and after the last one reported to the form, a 429 with a cooldown; *)
(* any other refusal is reported at once.                                  *)
Break(c, limited) ==
    /\ c.attempt = MaxAttempts \/ (c.created = {} /\ ~limited)
    /\ limited => c.created = {}
    /\ faults < MaxFaults
    /\ faults' = faults + 1
    /\ calls' = calls \ {c}
    /\ form' = IF ~Mounted(c) THEN form
               ELSE [form EXCEPT !.pending = FALSE, !.failed = ~limited, !.limited = limited,
                                 !.cooldown = IF limited THEN Cooldown ELSE @]
    /\ UNCHANGED <<server, page, entry, list, mounts, answered, overtaken>>

Next ==
    \/ \E s \in Submissions :
          \/ JudgeStarts(s) \/ JudgeReports(s)
          \/ Poll(s) \/ Arrive(s) \/ FetchFails(s) \/ Forget(s)
          \/ Resubmit(s) \/ OpenSubmission(s)
    \/ ListArrives \/ ListFails \/ ListAges
    \/ OpenProblem \/ OpenList \/ Leave
    \/ ToggleSubmit \/ EditSource \/ Submit \/ Tick
    \/ \E c \in calls :
          \/ Store(c) \/ Succeed(c) \/ Repeat(c)
          \/ \E limited \in BOOLEAN : Break(c, limited)

Spec == Init /\ [][Next]_vars

(* The interval of useSubmission fires while the tab is visible, and every *)
(* fetch is answered or times out.  Nothing is assumed of the judge or of  *)
(* the user.                                                               *)
FairSpec ==
    /\ Spec
    /\ \A s \in Submissions : WF_vars(Poll(s)) /\ WF_vars(Arrive(s))
=============================================================================
