------------------------- MODULE SubmissionLifecycle -------------------------
(***************************************************************************)
(* What the rest of the system may assume of a submission, without knowing *)
(* about workers, messages or containers: it is queued once, it is judged  *)
(* only after a judge has started on it, and what a judge reports about    *)
(* it, the result rows of one run, is published in one step with a final   *)
(* status. A submission may be judged again; its status then leaves the    *)
(* final ones and its earlier reports stay.                                *)
(***************************************************************************)
CONSTANTS Submissions

VARIABLES
  phase,    \* none, queued, judging or judged
  reports   \* published result rows, each with its submission and its run

lifecycleVars == <<phase, reports>>

SetPhase(s, p) == phase' = [phase EXCEPT ![s] = p]

LifecycleInit ==
  /\ phase = [s \in Submissions |-> "none"]
  /\ reports = {}

Queue(s) ==
  /\ phase[s] = "none"
  /\ SetPhase(s, "queued")
  /\ UNCHANGED reports

Judge(s) ==
  /\ phase[s] \in {"queued", "judged"}
  /\ SetPhase(s, "judging")
  /\ UNCHANGED reports

(* A conclusion publishes the rows of one run that has not reported yet. *)
Conclude(s) ==
  /\ phase[s] \in {"judging", "judged"}
  /\ SetPhase(s, "judged")
  /\ reports \subseteq reports'
  /\ \A r \in reports' \ reports :
       /\ r.sub = s
       /\ \A q \in reports : q.sub = s => q.no # r.no
       /\ \A q \in reports' \ reports : q.no = r.no

LifecycleNext == \E s \in Submissions : Queue(s) \/ Judge(s) \/ Conclude(s)

LifecycleSpec == LifecycleInit /\ [][LifecycleNext]_lifecycleVars
=============================================================================
