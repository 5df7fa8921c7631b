------------------------ MODULE SubmittingProperties ------------------------
(***************************************************************************)
(* What must hold between a user's submissions and what the browser shows. *)
(***************************************************************************)
EXTENDS Submitting

(* On screen without a verdict, and the judge is through with it.          *)
Waiting(s) ==
    /\ OnSubmission(s)
    /\ ~Final(entry[s].data)
    /\ phase[s] = "judged" /\ Cardinality(RunsOf(s)) = MaxRuns

(* Once a submission whose page is open has been judged for good, the page *)
(* shows the verdict of a run, or the user leaves it: polling survives     *)
(* failed fetches and answers that were read before the verdict was        *)
(* written (useSubmissions.ts:18).  A page that has a verdict polls no     *)
(* more, so that it may be the verdict of an earlier run.                  *)
VerdictIsShown ==
    \A s \in Submissions :
       Waiting(s) ~> ~OnSubmission(s) \/ Banner(s) \in {r.verdict : r \in RunsOf(s)}

(* A list of submissions that counts as fresh contains every submission    *)
(* whose creation was answered, except those that were answered while an   *)
(* earlier fetch of the list was under way: its answer makes the list look *)
(* fresh again (useSubmissions.ts:34).                                     *)
MissingRowsAreExplained ==
    list.has /\ ~list.stale => answered \subseteq list.rows \union overtaken

(* The types of the browser's variables.                                   *)
TypeOK ==
    /\ phase \in [Submissions -> {"none", "queued", "judging", "judged"}]
    /\ reports \subseteq Report
    /\ page \in Page
    /\ form \in Form
    /\ calls \subseteq Call
    /\ \A s \in Submissions :
          /\ DOMAIN entry[s] = DOMAIN NoEntry
          /\ \A v \in {entry[s].data} \union entry[s].flight :
                v.phase \in {"none", "queued", "judging", "judged"} /\ v.runs \subseteq Report
          /\ Cardinality(entry[s].flight) <= 1
          /\ entry[s].error \in BOOLEAN
    /\ list \in List
    /\ mounts \in 0..MaxMounts
    /\ answered \subseteq Submissions
    /\ overtaken \subseteq answered
    /\ faults \in 0..MaxFaults

(* A visit to the problem page has one submission under way at most        *)
(* (ProblemDetailPage.tsx:171), and while the page of a running one is     *)
(* open its form says so.                                                  *)
OneSubmissionPerVisit ==
    /\ \A c, d \in calls : c.mount = d.mount => c = d
    /\ \A c \in calls : Mounted(c) => form.pending
    /\ form.pending => \E c \in calls : Mounted(c)

(* What a page shows of a submission is never ahead of the judge, and its  *)
(* parts belong together: an accepted banner stands over a grid without a  *)
(* failed test case, and a compilation error comes with its text, unless   *)
(* the grid and the text are those of an earlier run: they are never       *)
(* cleared (SubmissionDetailPage.tsx:46).                                  *)
BannerAgreesWithGrid ==
    /\ TypeOK
    /\ \A s \in Submissions : OnSubmission(s) =>
          /\ Grid(s) \subseteq RunsOf(s)
          /\ Banner(s) = "uncompiled" => ErrorPanel(s)
          /\ Banner(s) = "accepted" =>
                \A r \in Grid(s) : r.verdict = "rejected" => \E q \in Grid(s) : q.no > r.no
-----------------------------------------------------------------------------
(* What makes the safety properties inductive.                             *)

(* A call belongs to a visit that took place.                              *)
VisitInv ==
    /\ form \in Form
    /\ calls \subseteq Call
    /\ mounts \in 0..MaxMounts
    /\ page.at = "problem" => mounts > 0
    /\ \A c \in calls : c.mount <= mounts
    /\ OneSubmissionPerVisit

(* What is answered is stored, and the next answer to a fetch of the list  *)
(* misses no more than the list may.                                       *)
Stored == {s \in Submissions : phase[s] # "none"}
ListInv ==
    /\ phase \in [Submissions -> {"none", "queued", "judging", "judged"}]
    /\ list \in List
    /\ \A c \in calls : c.created \subseteq Stored
    /\ answered \subseteq Stored
    /\ \A rows \in list.flight : answered \subseteq rows \union overtaken
    /\ MissingRowsAreExplained

(* The runs of a submission are numbered from 1, and the judge is on one   *)
(* only while it may.                                                      *)
Numbered(s) ==
    LET n == Cardinality(RunsOf(s)) IN
    /\ IsFiniteSet(RunsOf(s)) /\ n <= MaxRuns
    /\ phase[s] = "judging" => n < MaxRuns
    /\ phase[s] = "judged" => n > 0
    /\ \A i \in 1..n : \E r \in RunsOf(s) : r.no = i
    /\ \A r \in RunsOf(s) : r.no <= n /\ \A q \in RunsOf(s) : q.no = r.no => q = r

(* What was read of a submission is never ahead of the judge, and if it is *)
(* final, it has a last run.                                               *)
Faithful(s, view) ==
    /\ view.runs \subseteq RunsOf(s)
    /\ Final(view) => \E r \in view.runs : \A q \in view.runs : q.no <= r.no

ReportInv ==
    /\ reports \subseteq Report
    /\ entry \in [Submissions -> Entry]
    /\ \A s \in Submissions :
          /\ Numbered(s)
          /\ Faithful(s, entry[s].data)
          /\ \A view \in entry[s].flight : Faithful(s, view)

BrowserInv ==
    /\ page \in Page
    /\ overtaken \subseteq answered
    /\ faults \in 0..MaxFaults
=============================================================================
