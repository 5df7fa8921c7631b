-------------------------- MODULE ContestsProperties --------------------------
(* What the contest requests guarantee when they run concurrently.          *)
EXTENDS Contests

Rows ==
  [id : ({"contest"} \X ContestIds) \cup ({"participant"} \X (Requests \cup (Existing \X Users)))
          \cup ({"submission"} \X Requests) \cup ({"problem"} \X Requests \X Nat),
   keys : SUBSET (({"slug"} \X Titles \X Nat) \cup ({"registration"} \X ContestIds \X Users)
          \cup ({"assignment"} \X ContestIds \X UNION {Range(l) : l \in ProblemLists})),
   parents : SUBSET ({"contest"} \X ContestIds),
   cascade : BOOLEAN]

(* Type of the state. A transaction deletes only rows it has seen committed *)
(* and that it still holds.                                                *)
TypeOK ==
  /\ db \in SUBSET Rows
  /\ \A r \in Requests : tx[r].ins \in SUBSET Rows /\ tx[r].del \subseteq db
  /\ \A r \in Requests : req[r] \in AnyRequest(r, ContestIds) \cup {NoRequest}
  /\ step \in [Requests -> {"idle", "load", "replace", "slug", "check", "again", "run", "done"}]
  /\ counter \in [Requests -> Nat]
  /\ stage \in [ContestIds -> Stages]
  /\ outcome \in [Requests ->
       {"none", "ok", "missing", "refused", "conflict", "bad_reference", "internal"}]
  /\ overlapped \subseteq Requests

(* Two properties of the database are checked of the contests. UniqueKeys:  *)
(* no slug belongs to two contests, no user is registered twice, no problem *)
(* is assigned twice, although every handler checks before it inserts.     *)
(* NoOrphans: nothing refers to a contest that is gone; registrations and  *)
(* problems go with it, submissions stay without it.                       *)

(* A submission of a contest was made by a registered user once the contest *)
(* had begun, even if the contest is being deleted or its users register   *)
(* at the same time.                                                       *)
SubmittersAreParticipants ==
  /\ TypeOK
  /\ \A x \in Tagged(db, "submission"), c \in ContestIds :
       RefersTo(x, Contest(c)) =>
         /\ Registered(db, c, req[x.id[2]].user)
         /\ stage[c] # "upcoming"

Repeats(list) == \E i, j \in DOMAIN list : i # j /\ list[i] = list[j]

(* A request ends in a database error only because another request was      *)
(* under way at the same time, or because what it asks for could not be    *)
(* stored: a problem named twice, or problems for a deleted contest.       *)
Explained(r) ==
  \/ r \in overlapped
  \/ req[r].kind \in {"create", "replace"} /\ Repeats(req[r].list)
  \/ req[r].kind = "replace" /\ Contest(req[r].contest) \notin Ids(db)
EndsInError(r) ==
  outcome[r] = "none" /\ outcome'[r] \in {"conflict", "bad_reference", "internal"}
ErrorsAreExplained == [][\A r \in Requests : EndsInError(r) => Explained(r)]_vars

(* Registration is one indivisible step, although the code reads the        *)
(* contest, looks for an existing registration and inserts in three.       *)
OpenContests == {c \in ContestIds : Contest(c) \in Ids(db)}
Entries  == {e \in ContestIds \X Users : Registered(db, e[1], e[2])}
Accepted == {r \in Requests : req[r].kind = "register" /\ outcome[r] = "ok"}
Registrations == INSTANCE Registration WITH
  Contests <- ContestIds, open <- OpenContests, entries <- Entries, accepted <- Accepted
ImplementsRegistration == Registrations!Spec

(* Every request ends: the search for a slug terminates and nobody waits    *)
(* for a lock forever, because deadlocks are broken.                       *)
EveryRequestEnds ==
  \A r \in Requests : step[r] # "idle" ~> step[r] = "done"

-----------------------------------------------------------------------------
(* The inductive invariant behind SubmittersAreParticipants and             *)
(* ImplementsRegistration, beside LockInv.                                 *)

(* The contest a registration is for, and the registrations for a contest.  *)
MadeFor(by) == IF by \in Requests THEN req[by].contest ELSE by[1]
Entrant(id, c) ==
  /\ id[1] = "participant" /\ MadeFor(id[2]) = c
  /\ id[2] \in Requests => req[id[2]].kind = "register"

(* What a row says of the request that made it.                            *)
Shaped(x) ==
  /\ x \in Rows
  /\ x.id[1] = "contest" => x.parents = {}
  /\ x.id[1] = "participant" =>
       /\ Entrant(x.id, MadeFor(x.id[2]))
       /\ \E u \in Users : x = ParticipantRow(x.id[2], MadeFor(x.id[2]), u)
  /\ x.id[1] = "submission" =>
       /\ req[x.id[2]].kind = "submit"
       /\ x.parents \subseteq {Contest(req[x.id[2]].contest)}

(* Where a handler stands agrees with what it was asked. The contest a       *)
(* client named is an initial one or its creation was answered.            *)
HandlerInv(r) ==
  /\ step[r] = "idle" => req[r] = NoRequest
  /\ step[r] # "idle" => req[r] \in AnyRequest(r, ContestIds)
  /\ step[r] = "load"    => req[r].kind \in {"update", "delete", "register", "submit"}
  /\ step[r] = "replace" => req[r].kind = "replace"
  /\ step[r] = "slug"    => req[r].kind \in {"create", "update"}
  /\ step[r] = "check"   => req[r].kind = "register"
  /\ step[r] = "again"   => req[r].kind = "submit"
  /\ step[r] # "done" => outcome[r] = "none"
  /\ req[r].kind \notin {"none", "create"} => req[r].contest \in Known

(* What the transaction of a request may add, remove and still have to do.  *)
Adds(r, x) ==
  LET q == req[r]
  IN  \/ q.kind \in {"create", "update"} /\ x.id = Contest(q.contest)
      \/ q.kind \in {"create", "replace"} /\ x.id[1] = "problem"
      \/ q.kind = "register" /\ x = ParticipantRow(r, q.contest, q.user)
      \/ q.kind = "submit" /\ x = SubmissionRow(r, q.contest)
      \/ q.kind = "delete" /\ x.id[1] = "submission" /\ x.parents = {}
Removes(r, id) ==
  LET q == req[r]
  IN  \/ q.kind \in {"update", "delete"} /\ id = Contest(q.contest)
      \/ q.kind \in {"replace", "delete"} /\ id[1] = "problem"
      \/ q.kind = "delete" /\ id[1] = "submission"
      \/ q.kind = "delete" /\ Entrant(id, q.contest)
Plans(r, s) ==
  \/ s.op = "insert" /\ req[r].kind # "update" /\ Shaped(s.arg) /\ Adds(r, s.arg)
  \/ s.op = "rename" /\ Shaped(s.arg) /\ req[r].kind = "update" /\ s.arg.id = Contest(req[r].contest)
  \/ s.op = "delete" /\ req[r].kind # "update" /\ \A id \in s.arg : Removes(r, id)
  \/ s.op = "detach" /\ req[r].kind = "delete" /\ \A id \in s.arg : id[1] = "submission"
  \/ s.op = "clear" /\ req[r].kind = "replace" /\ s.arg[1] = "problem"

(* A registration under way has added its row or will; a deletion leaves no *)
(* contest behind or will not; an update replaces the row it takes out.    *)
WillEnter(r) ==
  LET row == ParticipantRow(r, req[r].contest, req[r].user)
  IN  row \in tx[r].ins \/ Insert(row) \in Range(tx[r].todo)
WillRemove(r) ==
  LET id == Contest(req[r].contest)
  IN  \/ id \notin Ids(View(r))
      \/ \E s \in Range(tx[r].todo) : s.op = "delete" /\ id \in s.arg
TransactionInv(r) ==
  IF step[r] # "run" THEN tx[r] = NoTransaction
  ELSE /\ \A x \in tx[r].ins : Shaped(x) /\ Adds(r, x)
       /\ \A x \in tx[r].del : Removes(r, x.id)
       /\ \A s \in Range(tx[r].todo) : Plans(r, s)
       /\ req[r].kind = "register" => WillEnter(r)
       /\ req[r].kind = "delete" => WillRemove(r)
       /\ req[r].kind = "update" => Ids(tx[r].ins) = Ids(tx[r].del)

(* A user who may submit is registered until the contest is gone.          *)
MayStill(c, u) ==
  /\ stage[c] # "upcoming"
  /\ Registered(db, c, u) \/ Contest(c) \notin Ids(db)
Qualified(r) ==
  req[r].kind = "submit" /\ step[r] \in {"again", "run"} => MayStill(req[r].contest, req[r].user)
Earned(x) ==
  x.id[1] = "submission" /\ x.parents # {} =>
    MayStill(req[x.id[2]].contest, req[x.id[2]].user)

ContestInv ==
  /\ \A x \in db : Shaped(x) /\ Earned(x)
  /\ \A r \in Requests : HandlerInv(r) /\ TransactionInv(r) /\ Qualified(r)

-----------------------------------------------------------------------------
(* The inductive invariant behind ErrorsAreExplained, beside the others.    *)

(* Every table has its own kind of key, and a row of a request that is not  *)
(* done is in the transaction of that request only.                        *)
Formed(x) ==
  \/ /\ x.id[1] = "contest"
     /\ \E key \in x.keys : key[1] = "slug" /\ x = ContestRow(x.id[2], key)
  \/ x.id[1] = "participant" /\ x.cascade /\ \A key \in x.keys : key[1] = "registration"
  \/ /\ x.id[1] = "problem"
     /\ \E key \in x.keys :
          key[1] = "assignment" /\ x = ContestProblemRow(x.id[2], key[2], x.id[3], key[3])
  \/ x.id[1] = "submission" /\ x.keys = {} /\ ~x.cascade
MadeEarlier(x) == x.id[2] \in Requests => step[x.id[2]] = "done"
RowsInv ==
  /\ \A x \in db : Formed(x) /\ MadeEarlier(x)
  /\ \A r \in Requests :
       /\ \A x \in tx[r].ins : Formed(x) /\ (x.id[2] = r \/ MadeEarlier(x))
       /\ \A s \in Range(tx[r].todo) :
            s.op \in {"insert", "rename"} => Formed(s.arg) /\ (s.arg.id[2] = r \/ MadeEarlier(s.arg))

(* Rows are inserted after at most one statement that makes room for them.   *)
(* They do not collide with each other or with a row that stays, and the    *)
(* contest they belong to is there already or inserted first. Below, rows   *)
(* are those a transaction sees, todo the statements it has still to run.   *)
Inserts(todo) == IF todo = <<>> \/ Head(todo).op = "insert" THEN todo ELSE Tail(todo)
Leaves(todo, x) ==
  \E s \in Range(todo) :
    \/ s.op = "delete" /\ x.id \in s.arg
    \/ s.op = "clear" /\ s.arg[1] = x.id[1] /\ RefersTo(x, s.arg[2])
InsertsSucceed(rows, todo, contest) ==
  LET q == Inserts(todo)
  IN  /\ todo # <<>> => Head(todo).op \in {"insert", "delete", "clear"}
      /\ \A s \in Range(q) :
           /\ s.op = "insert" /\ s.arg.parents \subseteq {contest}
           /\ \A x \in rows : Collide(x, s.arg) => Leaves(todo, x)
      /\ \A i, j \in DOMAIN q : i # j => ~Collide(q[i].arg, q[j].arg)
      /\ contest \in Ids(rows) \/ (q # <<>> /\ Head(q).arg.id = contest)

(* A contest keeps its row and gets a free slug.                           *)
RenameSucceeds(rows, todo) ==
  todo # <<>> =>
    LET row == Head(todo).arg
    IN  /\ todo = <<Rename(row)>> /\ row.id \in Ids(rows)
        /\ \A x \in rows : Collide(x, row) => x.id = row.id

(* Submissions are taken off a contest before it is deleted.               *)
DeletionSucceeds(rows, todo, contest) ==
  /\ todo # <<>> => /\ Head(todo).op \in {"detach", "delete"}
                    /\ Head(todo).op = "detach" => Head(todo).arg \subseteq Ids(rows)
                    /\ \A s \in Range(Tail(todo)) : s.op = "delete"
  /\ \A x \in rows : RefersTo(x, contest) /\ ~x.cascade =>
       todo # <<>> /\ Head(todo).op = "detach" /\ x.id \in Head(todo).arg

(* Beside a request no error of which would be explained there is no other   *)
(* one, and its statements succeed.                                        *)
Succeeds(r) ==
  LET q == req[r]  rows == View(r)  todo == tx[r].todo
  IN  /\ step[r] \in {"check", "slug"} /\ q.kind # "create" => Contest(q.contest) \in Ids(db)
      /\ step[r] = "run" => CASE q.kind = "update" -> RenameSucceeds(rows, todo)
                              [] q.kind = "delete" -> DeletionSucceeds(rows, todo, Contest(q.contest))
                              [] OTHER -> InsertsSucceed(rows, todo, Contest(q.contest))
ErrorsInv ==
  /\ \A r, o \in Active : r # o => r \in overlapped
  /\ \A r \in Active : ~Explained(r) => Succeeds(r)
=============================================================================
