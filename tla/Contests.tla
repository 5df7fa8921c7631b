------------------------------- MODULE Contests -------------------------------
(***************************************************************************)
(* Contests: administrators create, edit, re-assign and delete them, users *)
(* register for them and submit to them, in concurrent requests. Every     *)
(* handler reads first (a free slug, the contest and what it refers to, an *)
(* existing registration) and writes later in the same transaction; what   *)
(* it has read may have changed by then, and only the constraints of the   *)
(* database stand against that.                                            *)
(*                                                                         *)
(* A contest created by a request carries the request's name. Abstracted:  *)
(* the columns of a contest other than its slug and its place in time, the *)
(* contents of submissions. Contests are public.                           *)
(***************************************************************************)
EXTENDS Transactions, Functions

CONSTANTS
  Existing,     \* contests there are at the beginning, all upcoming, with some users
  Users, Titles,
  ProblemLists  \* lists of problems an administrator may assign

(* The primary keys of new contests and registrations are new UUIDs; the    *)
(* problems of a contest come as a JSON array.                             *)
ASSUME NamesAreFresh == Requests \cap (Existing \cup (Existing \X Users)) = {}
ASSUME ListsAreSequences == \A list \in ProblemLists : list \in Seq(Range(list))

ContestIds == Existing \cup Requests
Stages     == {"upcoming", "ongoing", "ended"}

VARIABLES
  req,       \* what each request asks for
  step,      \* where its handler stands
  counter,   \* the number its search for a slug has reached
  stage,     \* where the clock stands relative to the times of each contest
  outcome,   \* how the request ended
  overlapped \* history: requests during which another one was under way

vars == <<db, tx, req, step, counter, stage, outcome, overlapped>>

-----------------------------------------------------------------------------
(* Rows                                                                    *)

Contest(c) == <<"contest", c>>
Slug(title, n) == <<"slug", title, n>>
Registration(c, u) == <<"registration", c, u>>

ContestRow(c, slug) ==
  [id |-> Contest(c), keys |-> {slug}, parents |-> {}, cascade |-> FALSE]
(* by is the request that made the row.                                    *)
ParticipantRow(by, c, u) ==
  [id |-> <<"participant", by>>, keys |-> {Registration(c, u)},
   parents |-> {Contest(c)}, cascade |-> TRUE]
ContestProblemRow(r, c, i, p) ==
  [id |-> <<"problem", r, i>>, keys |-> {<<"assignment", c, p>>},
   parents |-> {Contest(c)}, cascade |-> TRUE]
(* The user of a submission is that of its request.                        *)
SubmissionRow(r, c) ==
  [id |-> <<"submission", r>>, keys |-> {}, parents |-> {Contest(c)}, cascade |-> FALSE]

Tagged(rows, tag) == {x \in rows : x.id[1] = tag}
Owns(rows, c, tag) == {x \in Tagged(rows, tag) : RefersTo(x, Contest(c))}
Registered(rows, c, u) == \E x \in Tagged(rows, "participant") : Registration(c, u) \in x.keys
SlugTaken(rows, slug) == \E x \in Tagged(rows, "contest") : slug \in x.keys

-----------------------------------------------------------------------------
(* Requests                                                                *)

CreateRequest(r)    == [kind : {"create"}, contest : {r}, title : Titles, list : ProblemLists]
UpdateRequest(cs)   == [kind : {"update"}, contest : cs, title : Titles]
ReplaceRequest(cs)  == [kind : {"replace"}, contest : cs, list : ProblemLists]
DeleteRequest(cs)   == [kind : {"delete"}, contest : cs]
UserRequest(cs)     == [kind : {"register", "submit"}, contest : cs, user : Users]
AnyRequest(r, cs) ==
  CreateRequest(r) \cup UpdateRequest(cs) \cup ReplaceRequest(cs)
    \cup DeleteRequest(cs) \cup UserRequest(cs)
NoRequest == [kind |-> "none"]

(* Contests a client can name: their creation has been answered.           *)
Known == Existing \cup {r \in Requests : req[r].kind = "create" /\ outcome[r] = "ok"}

Active == {r \in Requests : step[r] \notin {"idle", "done"}}

(* The statements that add a list of problems to a contest.                *)
Assignments(r, c, list) ==
  [i \in DOMAIN list |-> Insert(ContestProblemRow(r, c, i, list[i]))]

(* Mutation: submissions are not a relationship of the contest.            *)
DeleteWithoutSubmissions(r, c) ==
  Delete(Ids(Owns(View(r), c, "participant") \cup Owns(View(r), c, "problem")))
    \o Delete({Contest(c)})

(* What db.delete(contest) flushes: the rows loaded with the contest, first *)
(* its submissions, whose contest_id becomes NULL, then what belongs to it. *)
DeleteStatements(r, c) ==
  Detach(Ids(Owns(View(r), c, "submission")))
    \o Delete(Ids(Owns(View(r), c, "participant") \cup Owns(View(r), c, "problem")))
    \o Delete({Contest(c)})

ReplaceStatements(r) ==
  <<Clear(Contest(req[r].contest), "problem")>> \o Assignments(r, req[r].contest, req[r].list)

(* The handler goes on at another step, or its statements are executed.    *)
Goto(r, s) ==
  /\ step' = [step EXCEPT ![r] = s]
  /\ UNCHANGED <<db, tx, req, counter, stage, outcome, overlapped>>
Run(r, statements) ==
  /\ tx' = [tx EXCEPT ![r].todo = statements]
  /\ step' = [step EXCEPT ![r] = "run"]
  /\ UNCHANGED <<db, req, counter, stage, outcome, overlapped>>

(* An exception: get_db rolls back.                                        *)
Refuse(r, how) ==
  /\ Rollback(r)
  /\ step' = [step EXCEPT ![r] = "done"]
  /\ outcome' = [outcome EXCEPT ![r] = how]
  /\ UNCHANGED <<req, counter, stage, overlapped>>

-----------------------------------------------------------------------------
(* Steps of a handler                                                      *)

Begin(r, q) ==
  /\ step[r] = "idle"
  /\ req' = [req EXCEPT ![r] = q]
  /\ step' = [step EXCEPT ![r] = CASE q.kind = "create" -> "slug"
                                   [] q.kind = "replace" -> "replace"
                                   [] OTHER -> "load"]
  /\ overlapped' = IF Active = {} THEN overlapped ELSE overlapped \cup Active \cup {r}
  /\ UNCHANGED <<db, tx, counter, stage, outcome>>

(* update_contest_problems_endpoint looks nothing up before its statements. *)
Replace(r) ==
  /\ step[r] = "replace"
  /\ Run(r, ReplaceStatements(r))

(* get_contest_by_id raises 404.                                           *)
ContestNotFound(r) ==
  /\ step[r] \in {"load", "again"}
  /\ ~Exists(r, Contest(req[r].contest))
  /\ Refuse(r, "missing")

Loaded(r, kind) ==
  /\ step[r] = "load" /\ req[r].kind = kind
  /\ Exists(r, Contest(req[r].contest))

UpdateContest(r) ==
  /\ Loaded(r, "update")
  /\ Goto(r, "slug")

DeleteContest(r) ==
  /\ Loaded(r, "delete")
  /\ Run(r, DeleteStatements(r, req[r].contest))

(* register_for_contest: the clock is read with the contest, the existing   *)
(* registration by the next query.                                         *)
RegistrationClosed(r) ==
  /\ Loaded(r, "register")
  /\ stage[req[r].contest] # "upcoming"
  /\ Refuse(r, "refused")
RegistrationOpen(r) ==
  /\ Loaded(r, "register")
  /\ stage[req[r].contest] = "upcoming"
  /\ Goto(r, "check")

(* Mutation: registering a second time succeeds.                           *)
AlreadyRegisteredIsFine(r) ==
  /\ step[r] = "check"
  /\ Registered(View(r), req[r].contest, req[r].user)
  /\ Refuse(r, "ok")

AlreadyRegistered(r) ==
  /\ step[r] = "check"
  /\ Registered(View(r), req[r].contest, req[r].user)
  /\ Refuse(r, "refused")
Register(r) ==
  /\ step[r] = "check"
  /\ ~Registered(View(r), req[r].contest, req[r].user)
  /\ Run(r, <<Insert(ParticipantRow(r, req[r].contest, req[r].user))>>)

(* Mutation: being registered is not asked for.                            *)
CanSubmitUnregistered(r) == stage[req[r].contest] = "ongoing"

(* can_submit_to_contest, then get_contest_by_id again for the time.       *)
CanSubmit(r) ==
  /\ stage[req[r].contest] = "ongoing"
  /\ Registered(View(r), req[r].contest, req[r].user)
CannotSubmit(r) ==
  /\ Loaded(r, "submit") /\ ~CanSubmit(r)
  /\ Refuse(r, "refused")
MaySubmit(r) ==
  /\ Loaded(r, "submit") /\ CanSubmit(r)
  /\ Goto(r, "again")
Submit(r) ==
  /\ step[r] = "again"
  /\ Exists(r, Contest(req[r].contest))
  /\ Run(r, <<Insert(SubmissionRow(r, req[r].contest))>>)

(* The loop of _ensure_unique_slug, one query per step.                    *)
Candidate(r) == Slug(req[r].title, counter[r])

(* Mutation: the same slug is tried again.                                 *)
NextSlugStuck(r) ==
  /\ step[r] = "slug"
  /\ SlugTaken(View(r), Candidate(r))
  /\ UNCHANGED vars

NextSlug(r) ==
  /\ step[r] = "slug"
  /\ SlugTaken(View(r), Candidate(r))
  /\ counter' = [counter EXCEPT ![r] = @ + 1]
  /\ UNCHANGED <<db, tx, req, step, stage, outcome, overlapped>>
(* A slug is free: the new row of the contest, and for a created one its    *)
(* problems after it.                                                      *)
FoundSlug(r) ==
  LET row == ContestRow(req[r].contest, Candidate(r))
  IN /\ step[r] = "slug"
     /\ ~SlugTaken(View(r), Candidate(r))
     /\ IF req[r].kind = "create"
        THEN Run(r, <<Insert(row)>> \o Assignments(r, req[r].contest, req[r].list))
        ELSE Run(r, <<Rename(row)>>)

RunStatement(r) ==
  /\ Execute(r)
  /\ UNCHANGED <<req, step, counter, stage, outcome, overlapped>>

StatementFails(r) ==
  \E e \in Errors(r) : Refuse(r, e)

BreakDeadlock(r) ==
  /\ Deadlocked(r)
  /\ Refuse(r, "internal")

(* get_db commits after the handler, create_submission itself.             *)
Finish(r) ==
  /\ step[r] = "run"
  /\ Commit(r)
  /\ step' = [step EXCEPT ![r] = "done"]
  /\ outcome' = [outcome EXCEPT ![r] = "ok"]
  /\ UNCHANGED <<req, counter, stage, overlapped>>

(* Time reaches the start or the end of a contest.                         *)
TimePasses(c) ==
  /\ \/ stage[c] = "upcoming" /\ stage' = [stage EXCEPT ![c] = "ongoing"]
     \/ stage[c] = "ongoing"  /\ stage' = [stage EXCEPT ![c] = "ended"]
  /\ UNCHANGED <<db, tx, req, step, counter, outcome, overlapped>>

-----------------------------------------------------------------------------
Init ==
  /\ \E slug \in Injection(Existing, {Slug(t, 0) : t \in Titles}),
        entered \in SUBSET (Existing \X Users) :
       db = {ContestRow(c, slug[c]) : c \in Existing}
              \cup {ParticipantRow(e, e[1], e[2]) : e \in entered}
  /\ tx = [r \in Requests |-> NoTransaction]
  /\ req = [r \in Requests |-> NoRequest]
  /\ step = [r \in Requests |-> "idle"]
  /\ counter = [r \in Requests |-> 0]
  /\ stage = [c \in ContestIds |-> "upcoming"]
  /\ outcome = [r \in Requests |-> "none"]
  /\ overlapped = {}

Handle(r) ==
  \/ Replace(r) \/ ContestNotFound(r) \/ UpdateContest(r) \/ DeleteContest(r)
  \/ RegistrationClosed(r) \/ RegistrationOpen(r) \/ AlreadyRegistered(r) \/ Register(r)
  \/ CannotSubmit(r) \/ MaySubmit(r) \/ Submit(r)
  \/ NextSlug(r) \/ FoundSlug(r)
  \/ RunStatement(r) \/ StatementFails(r) \/ Finish(r)

Next ==
  \/ \E r \in Requests : \E q \in AnyRequest(r, Known) : Begin(r, q)
  \/ \E r \in Requests : Handle(r) \/ BreakDeadlock(r)
  \/ \E c \in Existing : TimePasses(c)

Spec == Init /\ [][Next]_vars

(* A request under way goes on, and PostgreSQL finds deadlocks.            *)
Fairness ==
  /\ \A r \in Requests : WF_vars(Handle(r))
  /\ WF_vars(\E r \in Requests : BreakDeadlock(r))
LiveSpec == Spec /\ Fairness
=============================================================================
