---------------------------- MODULE ContestsProofs ----------------------------
(***************************************************************************)
(* Proofs about the contests. The constraints of the database hold whatever *)
(* the handlers do: that invariant is about transactions only, and every   *)
(* step of a handler is a statement, a commit, a rollback or none of them. *)
(* That only participants submit, and that registration is one step, needs *)
(* what each kind of request may add, remove and still has to do; that only *)
(* races end in errors needs that the statements of a lone request succeed. *)
(***************************************************************************)
EXTENDS ContestsProperties, TransactionsProofs

-----------------------------------------------------------------------------
(* The handlers                                                            *)

LEMMA InitUnique ==
  ASSUME Init
  PROVE  UniqueKeys /\ NoOrphans
<1>1. PICK slug \in Injection(Existing, {Slug(t, 0) : t \in Titles}),
           entered \in SUBSET (Existing \X Users) :
        db = {ContestRow(c, slug[c]) : c \in Existing}
               \cup {ParticipantRow(e, e[1], e[2]) : e \in entered}
  BY DEF Init
<1>2. /\ slug \in [Existing -> {Slug(t, 0) : t \in Titles}]
      /\ \A a, b \in Existing : slug[a] = slug[b] => a = b
  BY <1>1 DEF Injection, IsInjective
<1>3. NoOrphans
  <2> SUFFICES ASSUME NEW x \in db
               PROVE  x.parents \subseteq Ids(db)
    BY DEF NoOrphans
  <2>1. CASE \E c \in Existing : x = ContestRow(c, slug[c])
    BY <2>1 DEF ContestRow
  <2>2. CASE \E e \in entered : x = ParticipantRow(e, e[1], e[2])
    <3>1. PICK e \in entered : x = ParticipantRow(e, e[1], e[2])
      BY <2>2
    <3>2. e[1] \in Existing
      BY <1>1
    <3>3. ContestRow(e[1], slug[e[1]]) \in db
      BY <1>1, <3>2
    <3> QED BY <3>1, <3>3 DEF ParticipantRow, ContestRow, Ids
  <2> QED BY <1>1, <2>1, <2>2
<1>4. UniqueKeys
  <2> SUFFICES ASSUME NEW x \in db, NEW y \in db, x # y
               PROVE  x.id # y.id /\ x.keys \cap y.keys = {}
    BY DEF UniqueKeys, Collide
  <2>1. CASE \E a, b \in Existing : x = ContestRow(a, slug[a]) /\ y = ContestRow(b, slug[b])
    <3>1. PICK a \in Existing, b \in Existing :
            x = ContestRow(a, slug[a]) /\ y = ContestRow(b, slug[b])
      BY <2>1
    <3>2. a # b /\ slug[a] # slug[b]
      BY <1>2, <3>1
    <3>3. x.id # y.id
      BY <3>1, <3>2 DEF ContestRow, Contest
    <3>4. x.keys = {slug[a]} /\ y.keys = {slug[b]}
      BY <3>1 DEF ContestRow
    <3> QED BY <3>2, <3>3, <3>4
  <2>2. CASE \E d, e \in entered : x = ParticipantRow(d, d[1], d[2]) /\ y = ParticipantRow(e, e[1], e[2])
    <3>1. PICK d \in entered, e \in entered :
            x = ParticipantRow(d, d[1], d[2]) /\ y = ParticipantRow(e, e[1], e[2])
      BY <2>2
    <3>2. d # e
      BY <3>1
    <3>3. d[1] # e[1] \/ d[2] # e[2]
      BY <1>1, <3>2
    <3> QED BY <3>1, <3>2, <3>3 DEF ParticipantRow, Registration
  <2>3. ASSUME NEW a \in Existing, NEW e \in entered
        PROVE  LET u == ContestRow(a, slug[a])  v == ParticipantRow(e, e[1], e[2])
               IN  u.id # v.id /\ u.keys \cap v.keys = {}
    <3>1. PICK t \in Titles : slug[a] = Slug(t, 0)
      BY <1>2
    <3> QED BY <3>1 DEF ContestRow, ParticipantRow, Contest, Slug, Registration
  <2> QED BY <1>1, <2>1, <2>2, <2>3
<1> QED BY <1>3, <1>4

LEMMA InitKeeps ==
  ASSUME Init
  PROVE  LockInv
BY InitUnique, FreshKeeps DEF Init

LEMMA HandlerKeeps ==
  ASSUME LockInv, NEW r \in Requests, NEW s, NEW statements, NEW how
  PROVE  /\ Goto(r, s) => LockInv'
         /\ Run(r, statements) => LockInv'
         /\ Refuse(r, how) => LockInv'
<1>1. ASSUME Goto(r, s) PROVE LockInv'
  BY <1>1, FrameKeeps DEF Goto
<1>2. ASSUME Run(r, statements) PROVE LockInv'
  BY <1>2, GivenKeeps DEF Run
<1>3. ASSUME Refuse(r, how) PROVE LockInv'
  BY <1>3, RollbackKeeps DEF Refuse
<1> QED BY <1>1, <1>2, <1>3

LEMMA NextKeeps == LockInv /\ [Next]_vars => LockInv'
<1> SUFFICES ASSUME LockInv, [Next]_vars PROVE LockInv'
  OBVIOUS
<1>1. CASE UNCHANGED <<db, tx>>
  BY <1>1, FrameKeeps
<1>2. ASSUME NEW r \in Requests, Replace(r) \/ DeleteContest(r) \/ Register(r) \/ Submit(r)
                                   \/ FoundSlug(r)
      PROVE  LockInv'
  BY <1>2, HandlerKeeps DEF Replace, DeleteContest, Register, Submit, FoundSlug
<1>3. ASSUME NEW r \in Requests, ContestNotFound(r) \/ RegistrationClosed(r) \/ AlreadyRegistered(r)
                                   \/ CannotSubmit(r) \/ StatementFails(r) \/ BreakDeadlock(r)
      PROVE  LockInv'
  BY <1>3, HandlerKeeps
     DEF ContestNotFound, RegistrationClosed, AlreadyRegistered, CannotSubmit, StatementFails,
         BreakDeadlock
<1>4. ASSUME NEW r \in Requests, UpdateContest(r) \/ RegistrationOpen(r) \/ MaySubmit(r)
      PROVE  LockInv'
  BY <1>4, HandlerKeeps DEF UpdateContest, RegistrationOpen, MaySubmit
<1>5. ASSUME NEW r \in Requests, RunStatement(r) PROVE LockInv'
  BY <1>5, ExecuteKeeps DEF RunStatement
<1>6. ASSUME NEW r \in Requests, Finish(r) PROVE LockInv'
  BY <1>6, CommitKeeps DEF Finish
<1>7. ASSUME NEW r \in Requests, NextSlug(r) PROVE UNCHANGED <<db, tx>>
  BY <1>7 DEF NextSlug
<1>8. ASSUME NEW r \in Requests, NEW q, Begin(r, q) PROVE UNCHANGED <<db, tx>>
  BY <1>8 DEF Begin
<1>9. ASSUME NEW c, TimePasses(c) PROVE UNCHANGED <<db, tx>>
  BY <1>9 DEF TimePasses
<1> QED BY <1>1, <1>2, <1>3, <1>4, <1>5, <1>6, <1>7, <1>8, <1>9 DEF Next, Handle, vars

(* Every transaction can commit without violating a constraint: the         *)
(* invariant the next two theorems are read from.                          *)
THEOREM LocksSuffice == Spec => []LockInv
BY InitKeeps, NextKeeps, PTL DEF Spec

(* Unique slugs, registrations and assignments for any number of concurrent *)
(* requests: contest_service's checks may be overtaken, the constraints not. *)
THEOREM KeysStayUnique == Spec => []UniqueKeys
<1>1. LockInv => UniqueKeys
  BY DEF LockInv
<1> QED BY <1>1, LocksSuffice, PTL

(* No registration, assignment or submission of a contest that is gone,     *)
(* whatever delete_contest races with.                                     *)
THEOREM NothingIsOrphaned == Spec => []NoOrphans
<1>1. LockInv => NoOrphans
  BY DEF LockInv
<1> QED BY <1>1, LocksSuffice, PTL

-----------------------------------------------------------------------------
(* Lists of statements                                                     *)

IsList(q) == \E S : q \in Seq(S)

LEMMA ListParts ==
  ASSUME NEW q, IsList(q), q # <<>>
  PROVE  IsList(Tail(q)) /\ Range(q) = {Head(q)} \cup Range(Tail(q))
<1>1. PICK S : q \in Seq(S)
  BY DEF IsList
<1>2. Tail(q) \in Seq(S) /\ Head(q) = q[1] /\ 1 \in DOMAIN q
  BY <1>1
<1>3. \A i \in DOMAIN Tail(q) : i + 1 \in DOMAIN q /\ Tail(q)[i] = q[i + 1]
  BY <1>1
<1>4. \A i \in DOMAIN q : i = 1 \/ (i - 1 \in DOMAIN Tail(q) /\ Tail(q)[i - 1] = q[i])
  BY <1>1
<1>5. \A v : (\E i \in DOMAIN q : v = q[i]) <=> v = Head(q) \/ \E i \in DOMAIN Tail(q) : v = Tail(q)[i]
  BY <1>2, <1>3, <1>4
<1>6. Range(q) = {Head(q)} \cup Range(Tail(q))
  BY <1>5 DEF Range
<1> QED BY <1>2, <1>6 DEF IsList

LEMMA ListConcat ==
  ASSUME NEW p, NEW q, IsList(p), IsList(q)
  PROVE  IsList(p \o q) /\ Range(p \o q) = Range(p) \cup Range(q)
<1>1. PICK S : p \in Seq(S)
  BY DEF IsList
<1>2. PICK T : q \in Seq(T)
  BY DEF IsList
<1>3. p \in Seq(S \cup T) /\ q \in Seq(S \cup T)
  BY <1>1, <1>2
<1>4. p \o q \in Seq(S \cup T)
  BY <1>3
<1>5. \A i \in DOMAIN (p \o q) : \/ i \in DOMAIN p /\ (p \o q)[i] = p[i]
                                 \/ i - Len(p) \in DOMAIN q /\ (p \o q)[i] = q[i - Len(p)]
  BY <1>3
<1>6. /\ \A i \in DOMAIN p : i \in DOMAIN (p \o q) /\ (p \o q)[i] = p[i]
      /\ \A i \in DOMAIN q : i + Len(p) \in DOMAIN (p \o q) /\ (p \o q)[i + Len(p)] = q[i]
  BY <1>3
<1>7. Range(p \o q) = Range(p) \cup Range(q)
  BY <1>5, <1>6 DEF Range
<1> QED BY <1>4, <1>7 DEF IsList

LEMMA ListShort ==
  /\ IsList(<<>>) /\ Range(<<>>) = {}
  /\ \A s : IsList(<<s>>) /\ Range(<<s>>) = {s}
  /\ \A op, ids : /\ IsList(ForEach(op, ids))
                  /\ Range(ForEach(op, ids)) \subseteq {Statement(op, ids)}
                  /\ ids # {} => Range(ForEach(op, ids)) = {Statement(op, ids)}
<1>1. IsList(<<>>) /\ Range(<<>>) = {}
  <2>1. <<>> \in Seq({}) /\ DOMAIN <<>> = {}
    OBVIOUS
  <2> QED BY <2>1 DEF IsList, Range
<1>2. ASSUME NEW s PROVE IsList(<<s>>) /\ Range(<<s>>) = {s}
  <2>1. <<s>> \in Seq({s}) /\ DOMAIN <<s>> = {1} /\ <<s>>[1] = s
    OBVIOUS
  <2> QED BY <2>1 DEF IsList, Range
<1> QED BY <1>1, <1>2 DEF ForEach

(* The assignments of a request are insertions of its rows.                *)
LEMMA AssignmentsListed ==
  ASSUME NEW r, NEW c, NEW list \in ProblemLists
  PROVE  /\ IsList(Assignments(r, c, list))
         /\ \A s \in Range(Assignments(r, c, list)) :
              \E i \in Nat, p \in Range(list) : s = Insert(ContestProblemRow(r, c, i, p))
<1>1. list \in Seq(Range(list))
  BY ListsAreSequences
<1> DEFINE q == Assignments(r, c, list)
<1>2. DOMAIN list = 1 .. Len(list) /\ Len(list) \in Nat
  BY <1>1
<1>3. q = [i \in 1 .. Len(list) |-> Insert(ContestProblemRow(r, c, i, list[i]))]
  BY <1>2 DEF Assignments
<1>4. \A i \in 1 .. Len(list) : i \in Nat /\ list[i] \in Range(list)
  BY <1>2 DEF Range
<1>5. q \in [1 .. Len(list) -> Range(q)]
  BY <1>3 DEF Range
<1>6. q \in Seq(Range(q))
  <2> HIDE DEF q
  <2> QED BY <1>2, <1>5
<1> QED BY <1>3, <1>4, <1>6 DEF IsList, Range

-----------------------------------------------------------------------------
(* Requests and rows                                                       *)

LEMMA RequestParts ==
  ASSUME NEW r \in Requests, req[r] \in AnyRequest(r, ContestIds)
  PROVE  /\ req[r].kind \in {"create", "update", "replace", "delete", "register", "submit"}
         /\ req[r].contest \in ContestIds
         /\ req[r].kind = "create" => req[r].contest = r
         /\ req[r].kind \in {"create", "update"} => req[r].title \in Titles
         /\ req[r].kind \in {"create", "replace"} => req[r].list \in ProblemLists
         /\ req[r].kind \in {"register", "submit"} => req[r].user \in Users
BY DEF AnyRequest, CreateRequest, UpdateRequest, ReplaceRequest, DeleteRequest, UserRequest,
       ContestIds

(* The only change of a request is that it is made.                        *)
Steady == \A o \in Requests : req'[o] = req[o] \/ req[o] = NoRequest

LEMMA EntrantsStay ==
  ASSUME Steady, NEW id, NEW c, Entrant(id, c)
  PROVE  Entrant(id, c)'
BY DEF Steady, Entrant, MadeFor, NoRequest

LEMMA ShapesStay ==
  ASSUME Steady, NEW x, Shaped(x)
  PROVE  Shaped(x)'
<1>1. x \in Rows'
  BY DEF Shaped, Rows
<1>2. x.id[1] = "contest" => x.parents = {}
  BY DEF Shaped
<1>3. CASE x.id[1] = "participant"
  <2>1. Entrant(x.id, MadeFor(x.id[2]))
    BY <1>3 DEF Shaped
  <2>2. MadeFor(x.id[2])' = MadeFor(x.id[2])
    BY <2>1 DEF Entrant, MadeFor, Steady, NoRequest
  <2>3. Entrant(x.id, MadeFor(x.id[2]))'
    BY <2>1, <2>2 DEF Entrant, Steady, NoRequest
  <2> QED BY <1>1, <1>3, <2>2, <2>3 DEF Shaped, ParticipantRow, Contest, Registration
<1>4. CASE x.id[1] = "submission"
  <2>1. x.id[2] \in Requests
    BY <1>4 DEF Shaped, Rows
  <2> QED BY <1>1, <1>4, <2>1 DEF Shaped, Steady, NoRequest, Contest
<1> QED BY <1>1, <1>2, <1>3, <1>4 DEF Shaped

LEMMA PlansStay ==
  ASSUME Steady, NEW r, req'[r] = req[r]
  PROVE  /\ \A x : Adds(r, x) => Adds(r, x)'
         /\ \A id : Removes(r, id) => Removes(r, id)'
         /\ \A s : Plans(r, s) => Plans(r, s)'
<1>1. \A x : Adds(r, x) => Adds(r, x)'
  BY DEF Adds, ParticipantRow, SubmissionRow, Contest, Registration
<1>2. ASSUME NEW id, Removes(r, id) PROVE Removes(r, id)'
  <2>1. CASE req[r].kind = "delete" /\ Entrant(id, req[r].contest)
    <3>1. Entrant(id, req[r].contest)'
      BY <2>1 DEF Steady, Entrant, MadeFor, NoRequest
    <3> QED BY <2>1, <3>1 DEF Removes
  <2> QED BY <1>2, <2>1 DEF Removes, Contest
<1>3. ASSUME NEW s, Plans(r, s) PROVE Plans(r, s)'
  <2>1. Shaped(s.arg) => Shaped(s.arg)'
    BY ShapesStay
  <2> QED BY <1>1, <1>2, <1>3, <2>1 DEF Plans, Contest
<1> QED BY <1>1, <1>2, <1>3
-----------------------------------------------------------------------------
(* Transactions                                                            *)

StateTypes ==
  /\ DOMAIN req = Requests
  /\ step \in [Requests -> {"idle", "load", "replace", "slug", "check", "again", "run", "done"}]
  /\ counter \in [Requests -> Nat]
  /\ stage \in [ContestIds -> Stages]
  /\ outcome \in [Requests ->
       {"none", "ok", "missing", "refused", "conflict", "bad_reference", "internal"}]
  /\ overlapped \subseteq Requests
Lists == \A r \in Requests : IsList(tx[r].todo)
FullInv == StateTypes /\ Lists /\ LockInv /\ ContestInv

LEMMA ViewIsShaped ==
  ASSUME ContestInv, NEW r \in Requests
  PROVE  \A x \in View(r) : Shaped(x)
<1>1. \A x \in tx[r].ins : Shaped(x)
  <2>1. TransactionInv(r)
    BY DEF ContestInv
  <2> QED BY <2>1 DEF TransactionInv, NoTransaction
<1> QED BY <1>1 DEF ContestInv, View

(* A change by a statement of the plan keeps the transaction to its plan.   *)
LEMMA ChangeFits ==
  ASSUME LockInv, NEW r \in Requests, step[r] = "run", TransactionInv(r),
         NEW out, NEW in, NEW rest, Change(r, out, in, rest), UNCHANGED <<db, req, step>>,
         \A x \in in : Shaped(x) /\ Adds(r, x),
         \A x \in out : Removes(r, x.id),
         IsList(rest), \A s \in Range(rest) : Plans(r, s),
         req[r].kind = "register" => WillEnter(r)',
         req[r].kind = "delete" => WillRemove(r)',
         req[r].kind = "update" => Ids(tx'[r].ins) = Ids(tx'[r].del)
  PROVE  TransactionInv(r)' /\ IsList(tx'[r].todo)
<1>1. tx'[r] = [ins  |-> (tx[r].ins \ out) \cup in, del |-> tx[r].del \cup (out \cap db),
                todo |-> rest]
  BY DEF LockInv, Change
<1>2. Steady /\ req'[r] = req[r] /\ step'[r] = "run"
  BY DEF Steady
<1>3. \A x \in tx'[r].ins : Shaped(x)' /\ Adds(r, x)'
  <2>1. \A x \in tx'[r].ins : Shaped(x) /\ Adds(r, x)
    BY <1>1 DEF TransactionInv
  <2> QED BY <1>2, <2>1, ShapesStay, PlansStay
<1>4. \A x \in tx'[r].del : Removes(r, x.id)'
  <2>1. \A x \in tx'[r].del : Removes(r, x.id)
    BY <1>1 DEF TransactionInv
  <2> QED BY <1>2, <2>1, PlansStay
<1>5. \A s \in Range(tx'[r].todo) : Plans(r, s)'
  <2>1. \A s \in Range(rest) : Plans(r, s)'
    BY <1>2, PlansStay
  <2> QED BY <1>1, <2>1
<1>6. Ids(tx[r].ins)' = Ids(tx'[r].ins) /\ Ids(tx[r].del)' = Ids(tx'[r].del)
  BY DEF Ids
<1> QED BY <1>1, <1>2, <1>3, <1>4, <1>5, <1>6 DEF TransactionInv, Range

LEMMA InsertFits ==
  ASSUME FullInv, NEW r \in Requests, step[r] = "run", NEW row, NEW rest,
         ExecuteInsert(r, row, rest), UNCHANGED <<db, req, step>>,
         req[r].kind # "update", Shaped(row), Adds(r, row), IsList(rest), \A t \in Range(rest) : Plans(r, t),
         NEW s, s.op = "insert", s.arg = row, Range(tx[r].todo) = {s} \cup Range(rest)
  PROVE  TransactionInv(r)' /\ IsList(tx'[r].todo)
<1> DEFINE out == {}  in == {row}
<1>1. Change(r, out, in, rest)
  BY DEF ExecuteInsert
<1>2. TransactionInv(r) /\ LockInv
  BY DEF FullInv, ContestInv
<1>3. tx'[r] = [ins |-> tx[r].ins \cup {row}, del |-> tx[r].del, todo |-> rest]
  BY <1>1, <1>2 DEF LockInv, Change
<1>4. req[r].kind = "register" => WillEnter(r)'
  <2> SUFFICES ASSUME req[r].kind = "register" PROVE WillEnter(r)'
    OBVIOUS
  <2> DEFINE own == ParticipantRow(r, req[r].contest, req[r].user)
  <2>1. own \in tx[r].ins \/ Insert(own) \in Range(tx[r].todo)
    BY <1>2 DEF TransactionInv, WillEnter
  <2>2. row = own
    BY DEF Adds
  <2>3. own \in tx'[r].ins
    BY <1>3, <2>2
  <2> QED BY <2>3 DEF WillEnter, ParticipantRow, Contest, Registration
<1>5. req[r].kind = "delete" => WillRemove(r)'
  <2> SUFFICES ASSUME req[r].kind = "delete" PROVE WillRemove(r)'
    OBVIOUS
  <2>1. row.id[1] = "submission"
    BY DEF Adds
  <2>2. View(r)' = View(r) \cup {row}
    BY <1>3, <1>2 DEF View, LockInv, ViewsAreUnique, Collide, ExecuteInsert, UniqueOK, HeldRows
  <2>3. row.id # Contest(req[r].contest)
    BY <2>1 DEF Contest
  <2>4. WillRemove(r)
    BY <1>2 DEF TransactionInv
  <2> DEFINE id == Contest(req[r].contest)
  <2>5. id' = id
    BY DEF Contest
  <2>6. id \notin Ids(View(r)) => id \notin Ids(View(r)')
    BY <2>2, <2>3 DEF Ids
  <2>7. \A t \in Range(tx[r].todo) : t.op = "delete" => t \in Range(rest)
    OBVIOUS
  <2>8. Ids(View(r))' = Ids(View(r)') /\ Range(tx[r].todo)' = Range(rest)
    BY <1>3 DEF Ids, Range
  <2>9. id \notin Ids(View(r)') \/ \E t \in Range(rest) : t.op = "delete" /\ id \in t.arg
    BY <2>4, <2>6, <2>7 DEF WillRemove
  <2> HIDE DEF id
  <2> QED BY <2>5, <2>8, <2>9 DEF WillRemove, id
<1>6. req[r].kind = "update" => Ids(tx'[r].ins) = Ids(tx'[r].del)
  OBVIOUS
<1> QED
  <2>1. \A x \in in : Shaped(x) /\ Adds(r, x)
    OBVIOUS
  <2>2. \A x \in out : Removes(r, x.id)
    OBVIOUS
  <2> HIDE DEF in, out
  <2> QED BY <1>1, <1>2, <1>4, <1>5, <1>6, <2>1, <2>2, ChangeFits
LEMMA RemovalStays ==
  ASSUME NEW r \in Requests, req'[r] = req[r],
         \/ Contest(req[r].contest) \notin Ids(View(r)')
         \/ \E s \in Range(tx'[r].todo) : s.op = "delete" /\ Contest(req[r].contest) \in s.arg
  PROVE  WillRemove(r)'
<1>1. Contest(req[r].contest)' = Contest(req[r].contest)
  BY DEF Contest
<1>2. Ids(View(r))' = Ids(View(r)') /\ Range(tx[r].todo)' = Range(tx'[r].todo)
  BY DEF Ids, Range
<1> QED BY <1>1, <1>2 DEF WillRemove

LEMMA RenameFits ==
  ASSUME FullInv, NEW r \in Requests, step[r] = "run", NEW row, NEW rest,
         ExecuteRename(r, row, rest), UNCHANGED <<db, req, step>>,
         req[r].kind = "update", row.id = Contest(req[r].contest), Shaped(row),
         IsList(rest), \A s \in Range(rest) : Plans(r, s)
  PROVE  TransactionInv(r)' /\ IsList(tx'[r].todo)
<1> DEFINE old == Current(r, row.id)  out == {old}  in == {row}
<1>1. Change(r, out, in, rest)
  BY DEF ExecuteRename
<1>2. TransactionInv(r) /\ LockInv
  BY DEF FullInv, ContestInv
<1>3. tx'[r] = [ins |-> (tx[r].ins \ {old}) \cup {row}, del |-> tx[r].del \cup ({old} \cap db),
                todo |-> rest]
  BY <1>1, <1>2 DEF LockInv, Change
<1>4. old \in View(r) /\ old.id = row.id
  BY CurrentInView DEF ExecuteRename
<1> HIDE DEF old
<1>5. \A x \in tx[r].ins \cup tx[r].del : x.id = row.id
  BY <1>2 DEF TransactionInv, Adds, Removes
<1>6. Ids(tx'[r].ins) = {row.id}
  BY <1>3, <1>5 DEF Ids
<1>7. Ids(tx'[r].del) = {row.id}
  <2>1. \E x \in tx'[r].del : x.id = row.id
    <3>1. CASE old \in db
      BY <1>3, <1>4, <3>1
    <3>2. CASE old \in tx[r].ins
      <4>1. row.id \in Ids(tx[r].del)
        BY <1>2, <1>4, <3>2 DEF TransactionInv, Ids
      <4> QED BY <1>3, <4>1 DEF Ids
    <3> QED BY <1>4, <3>1, <3>2 DEF View
  <2>2. \A x \in tx'[r].del : x.id = row.id
    BY <1>3, <1>4, <1>5
  <2> QED BY <2>1, <2>2 DEF Ids
<1> QED
  <2>1. \A x \in in : Shaped(x) /\ Adds(r, x)
    BY DEF Adds
  <2>2. \A x \in out : Removes(r, x.id)
    BY <1>4 DEF Removes
  <2>3. req[r].kind # "register" /\ req[r].kind # "delete"
    OBVIOUS
  <2> HIDE DEF in, out
  <2> QED BY <1>1, <1>2, <1>6, <1>7, <2>1, <2>2, <2>3, ChangeFits

LEMMA DeleteFits ==
  ASSUME FullInv, NEW r \in Requests, step[r] = "run", NEW ids, NEW rest,
         ExecuteDelete(r, ids, rest), UNCHANGED <<db, req, step>>,
         \A id \in ids : Removes(r, id),
         req[r].kind # "update",
         IsList(rest), \A t \in Range(rest) : Plans(r, t),
         NEW s, s.op = "delete", s.arg = ids, Range(tx[r].todo) = {s} \cup Range(rest)
  PROVE  TransactionInv(r)' /\ IsList(tx'[r].todo)
<1>0. PICK id \in ids : Change(r, Victims(r, id), {}, Delete(ids \ {id}) \o rest)
  BY DEF ExecuteDelete
<1> DEFINE out == Victims(r, id)  in == {}  left == Delete(ids \ {id}) \o rest
<1>1. Change(r, out, in, left)
  BY <1>0
<1>2. TransactionInv(r) /\ LockInv /\ ContestInv
  BY DEF FullInv, ContestInv
<1>3. tx'[r] = [ins |-> tx[r].ins \ out, del |-> tx[r].del \cup (out \cap db), todo |-> left]
  BY <1>0, <1>2 DEF LockInv, Change
<1>4. /\ IsList(left) /\ Range(left) \subseteq {Statement("delete", ids \ {id})} \cup Range(rest)
      /\ Range(rest) \subseteq Range(left)
      /\ ids \ {id} # {} => Statement("delete", ids \ {id}) \in Range(left)
  BY ListShort, ListConcat DEF Delete
<1>5. \A t \in Range(left) : Plans(r, t)
  <2>1. Plans(r, Statement("delete", ids \ {id}))
    BY DEF Plans, Statement
  <2> QED BY <1>4, <2>1
<1>6. \A x \in out : Removes(r, x.id)
  <2> SUFFICES ASSUME NEW x \in View(r), x.id # id, x.cascade, RefersTo(x, id)
               PROVE  Removes(r, x.id)
    BY DEF Victims
  <2>1. Shaped(x) /\ id[1] = "contest"
    BY <1>2, ViewIsShaped DEF Shaped, Rows, RefersTo
  <2>2. req[r].kind = "delete" /\ id = Contest(req[r].contest)
    BY <2>1 DEF Removes, Entrant
  <2>3. x.id[1] \in {"contest", "participant", "submission", "problem"}
    BY <2>1 DEF Shaped, Rows
  <2>4. x.id[1] # "contest"
    BY <2>1 DEF Shaped, RefersTo
  <2>5. CASE x.id[1] = "participant"
    <3>1. Entrant(x.id, MadeFor(x.id[2])) /\ x.parents = {Contest(MadeFor(x.id[2]))}
      BY <2>1, <2>5 DEF Shaped, ParticipantRow
    <3>2. MadeFor(x.id[2]) = req[r].contest
      BY <2>2, <3>1 DEF RefersTo, Contest
    <3> QED BY <2>2, <3>1, <3>2 DEF Removes
  <2> QED BY <2>2, <2>3, <2>4, <2>5 DEF Removes
<1>7. View(r)' = View(r) \ out
  BY <1>2, <1>3 DEF View, LockInv, HeldRows
<1>8. req[r].kind = "register" => WillEnter(r)'
  BY DEF Removes
<1>9. req[r].kind = "delete" => WillRemove(r)'
  <2> SUFFICES ASSUME req[r].kind = "delete" PROVE WillRemove(r)'
    OBVIOUS
  <2> DEFINE c == Contest(req[r].contest)
  <2>1. c \notin Ids(View(r)) \/ \E t \in Range(tx[r].todo) : t.op = "delete" /\ c \in t.arg
    BY <1>2 DEF TransactionInv, WillRemove
  <2>2. CASE c \notin Ids(View(r))
    BY <1>7, <2>2, RemovalStays DEF Ids
  <2>3. CASE \E t \in Range(rest) : t.op = "delete" /\ c \in t.arg
    <3>1. Range(rest) \subseteq Range(tx'[r].todo)
      <4> HIDE DEF left, out, in
      <4> QED BY <1>3, <1>4
    <3> QED BY <2>3, <3>1, RemovalStays
  <2>4. CASE c \in ids /\ c = id
    <3>1. c \notin Ids(View(r) \ out)
      BY <2>4 DEF Victims, Ids
    <3> QED BY <1>7, <3>1, RemovalStays
  <2>5. CASE c \in ids /\ c # id
    <3>1. Statement("delete", ids \ {id}) \in Range(tx'[r].todo)
      BY <1>3, <1>4, <2>5
    <3>2. /\ Statement("delete", ids \ {id}).op = "delete"
          /\ c \in Statement("delete", ids \ {id}).arg
      BY <2>5 DEF Statement
    <3> QED BY <3>1, <3>2, RemovalStays
  <2> HIDE DEF c
  <2> QED BY <2>1, <2>2, <2>3, <2>4, <2>5
<1> QED
  <2>1. \A x \in in : Shaped(x) /\ Adds(r, x)
    OBVIOUS
  <2> HIDE DEF in, out, left
  <2> QED BY <1>1, <1>2, <1>4, <1>5, <1>6, <1>8, <1>9, <2>1, ChangeFits

LEMMA DetachFits ==
  ASSUME FullInv, NEW r \in Requests, step[r] = "run", NEW ids, NEW rest,
         ExecuteDetach(r, ids, rest), UNCHANGED <<db, req, step>>,
         req[r].kind = "delete", \A id \in ids : id[1] = "submission",
         IsList(rest), \A t \in Range(rest) : Plans(r, t),
         NEW s, s.op = "detach", s.arg = ids, Range(tx[r].todo) = {s} \cup Range(rest)
  PROVE  TransactionInv(r)' /\ IsList(tx'[r].todo)
<1>0. PICK id \in ids :
        /\ Exists(r, id)
        /\ Change(r, {Current(r, id)}, {Orphaned(Current(r, id))}, Detach(ids \ {id}) \o rest)
  BY DEF ExecuteDetach
<1> DEFINE old == Current(r, id)  out == {old}  in == {Orphaned(old)}
           left == Detach(ids \ {id}) \o rest
<1>1. Change(r, out, in, left)
  BY <1>0
<1>2. TransactionInv(r) /\ LockInv /\ ContestInv
  BY DEF FullInv, ContestInv
<1>3. tx'[r] = [ins |-> (tx[r].ins \ out) \cup in, del |-> tx[r].del \cup (out \cap db),
                todo |-> left]
  BY <1>0, <1>2 DEF LockInv, Change
<1>4. /\ IsList(left) /\ Range(left) \subseteq {Statement("detach", ids \ {id})} \cup Range(rest)
      /\ Range(rest) \subseteq Range(left)
  BY ListShort, ListConcat DEF Detach
<1>5. \A t \in Range(left) : Plans(r, t)
  <2>1. Plans(r, Statement("detach", ids \ {id}))
    BY DEF Plans, Statement
  <2> QED BY <1>4, <2>1
<1>6. old \in View(r) /\ old.id = id /\ Shaped(old) /\ id[1] = "submission"
  BY <1>0, <1>2, CurrentInView, ViewIsShaped
<1> HIDE DEF old
<1>7. /\ Orphaned(old).id = id /\ Orphaned(old).parents = {}
      /\ Shaped(Orphaned(old)) /\ Adds(r, Orphaned(old))
  <2>1. Orphaned(old) \in Rows
    BY <1>6 DEF Shaped, Rows, Orphaned
  <2>2. Orphaned(old).id = id /\ Orphaned(old).parents = {}
    BY <1>6 DEF Orphaned
  <2> QED BY <1>6, <2>1, <2>2 DEF Shaped, Adds
<1>8. View(r)' \subseteq View(r) \cup in
  BY <1>2, <1>3 DEF View
<1>9. WillRemove(r)'
  <2> DEFINE c == Contest(req[r].contest)
  <2>1. c \notin Ids(View(r)) \/ \E t \in Range(tx[r].todo) : t.op = "delete" /\ c \in t.arg
    BY <1>2 DEF TransactionInv, WillRemove
  <2>2. CASE c \notin Ids(View(r))
    <3>1. c # id
      BY <1>6 DEF Contest
    <3>2. c \notin Ids(View(r)')
      BY <1>7, <1>8, <2>2, <3>1 DEF Ids
    <3> QED BY <3>2, RemovalStays
  <2>3. CASE \E t \in Range(rest) : t.op = "delete" /\ c \in t.arg
    <3>1. Range(rest) \subseteq Range(tx'[r].todo)
      <4> HIDE DEF left, out, in
      <4> QED BY <1>3, <1>4
    <3> QED BY <2>3, <3>1, RemovalStays
  <2> HIDE DEF c
  <2> QED BY <2>1, <2>2, <2>3
<1> QED
  <2>1. \A x \in in : Shaped(x) /\ Adds(r, x)
    BY <1>7
  <2>2. \A x \in out : Removes(r, x.id)
    BY <1>6 DEF Removes
  <2> HIDE DEF in, out, left
  <2> QED BY <1>1, <1>2, <1>4, <1>5, <1>9, <2>1, <2>2, ChangeFits

LEMMA ClearFits ==
  ASSUME FullInv, NEW r \in Requests, step[r] = "run", NEW parent, NEW rest,
         ExecuteClear(r, "problem", parent, rest), UNCHANGED <<db, req, step>>,
         req[r].kind = "replace",
         IsList(rest), \A s \in Range(rest) : Plans(r, s)
  PROVE  TransactionInv(r)' /\ IsList(tx'[r].todo)
<1> DEFINE ids == Ids({x \in View(r) : x.id[1] = "problem" /\ RefersTo(x, parent)})
           out == {}  in == {}  left == Delete(ids) \o rest
<1>1. Change(r, out, in, left)
  BY DEF ExecuteClear
<1>2. TransactionInv(r) /\ LockInv
  BY DEF FullInv, ContestInv
<1>3. \A id \in ids : Removes(r, id)
  BY DEF Ids, Removes
<1> HIDE DEF ids
<1>4. IsList(left) /\ Range(left) \subseteq {Statement("delete", ids)} \cup Range(rest)
  BY ListShort, ListConcat DEF Delete
<1>5. \A s \in Range(left) : Plans(r, s)
  <2>1. Plans(r, Statement("delete", ids))
    BY <1>3 DEF Plans, Statement
  <2> QED BY <1>4, <2>1
<1> QED
  <2>1. /\ \A x \in in : Shaped(x) /\ Adds(r, x)
        /\ \A x \in out : Removes(r, x.id)
    OBVIOUS
  <2> HIDE DEF in, out, left
  <2> QED BY <1>1, <1>2, <1>4, <1>5, <2>1, ChangeFits

LEMMA ExecuteFits ==
  ASSUME FullInv, NEW r \in Requests, step[r] = "run", Execute(r), UNCHANGED <<req, step>>
  PROVE  TransactionInv(r)' /\ IsList(tx'[r].todo)
<1> DEFINE s == Head(tx[r].todo)  rest == Tail(tx[r].todo)
<1>1. IsList(rest) /\ Range(tx[r].todo) = {s} \cup Range(rest)
  BY ListParts DEF FullInv, Lists, Execute
<1>2. Plans(r, s) /\ \A t \in Range(rest) : Plans(r, t)
  BY <1>1 DEF FullInv, ContestInv, TransactionInv
<1>3. /\ UNCHANGED <<db, req, step>>
      /\ \/ s.op = "insert" /\ ExecuteInsert(r, s.arg, rest)
         \/ s.op = "rename" /\ ExecuteRename(r, s.arg, rest)
         \/ s.op = "delete" /\ ExecuteDelete(r, s.arg, rest)
         \/ s.op = "detach" /\ ExecuteDetach(r, s.arg, rest)
         \/ s.op = "clear"  /\ ExecuteClear(r, s.arg[1], s.arg[2], rest)
  BY DEF Execute
<1> HIDE DEF s, rest
<1>4. CASE s.op = "insert"
  <2>1. ExecuteInsert(r, s.arg, rest) /\ req[r].kind # "update" /\ Shaped(s.arg) /\ Adds(r, s.arg)
    BY <1>2, <1>3, <1>4 DEF Plans
  <2> QED BY <1>1, <1>2, <1>3, <1>4, <2>1, InsertFits
<1>5. CASE s.op = "rename"
  <2>1. /\ ExecuteRename(r, s.arg, rest)
        /\ req[r].kind = "update" /\ s.arg.id = Contest(req[r].contest) /\ Shaped(s.arg)
    BY <1>2, <1>3, <1>5 DEF Plans
  <2> QED BY <1>1, <1>2, <1>3, <2>1, RenameFits
<1>6. CASE s.op = "delete"
  <2>1. /\ ExecuteDelete(r, s.arg, rest)
        /\ req[r].kind # "update" /\ \A id \in s.arg : Removes(r, id)
    BY <1>2, <1>3, <1>6 DEF Plans
  <2> QED BY <1>1, <1>2, <1>3, <1>6, <2>1, DeleteFits
<1>7. CASE s.op = "detach"
  <2>1. /\ ExecuteDetach(r, s.arg, rest)
        /\ req[r].kind = "delete" /\ \A id \in s.arg : id[1] = "submission"
    BY <1>2, <1>3, <1>7 DEF Plans
  <2> QED BY <1>1, <1>2, <1>3, <1>7, <2>1, DetachFits
<1>8. CASE s.op = "clear"
  <2>1. ExecuteClear(r, "problem", s.arg[2], rest) /\ req[r].kind = "replace"
    BY <1>2, <1>3, <1>8 DEF Plans
  <2> QED BY <1>1, <1>2, <1>3, <2>1, ClearFits
<1> QED BY <1>3, <1>4, <1>5, <1>6, <1>7, <1>8
(* The statements a handler gives to its transaction.                      *)
LEMMA GivenFits ==
  ASSUME FullInv, NEW r \in Requests, step[r] # "run", NEW statements, Run(r, statements),
         IsList(statements), \A s \in Range(statements) : Plans(r, s),
         req[r].kind = "register" =>
           Insert(ParticipantRow(r, req[r].contest, req[r].user)) \in Range(statements),
         req[r].kind = "delete" =>
           \E s \in Range(statements) : s.op = "delete" /\ Contest(req[r].contest) \in s.arg
  PROVE  TransactionInv(r)' /\ IsList(tx'[r].todo)
<1>1. tx[r] = NoTransaction /\ r \in DOMAIN tx /\ step'[r] = "run" /\ UNCHANGED <<db, req>>
  BY DEF FullInv, ContestInv, TransactionInv, LockInv, Run, StateTypes
<1>2. tx'[r].ins = {} /\ tx'[r].del = {} /\ tx'[r].todo = statements
  <2>1. tx'[r] = [tx[r] EXCEPT !.todo = statements]
    BY <1>1 DEF Run
  <2>2. tx[r] = [ins |-> {}, del |-> {}, todo |-> <<>>]
    BY <1>1 DEF NoTransaction
  <2>3. tx'[r] = [[ins |-> {}, del |-> {}, todo |-> <<>>] EXCEPT !.todo = statements]
    BY <2>1, <2>2
  <2> QED BY <2>3
<1>3. Steady /\ req'[r] = req[r]
  BY <1>1 DEF Steady
<1>4. \A s \in Range(tx'[r].todo) : Plans(r, s)'
  <2>1. \A s \in Range(statements) : Plans(r, s)'
    BY <1>3, PlansStay
  <2> QED BY <1>2, <2>1
<1>5. req[r].kind = "delete" => WillRemove(r)'
  BY <1>2, <1>3, RemovalStays
<1>6. req[r].kind = "register" => WillEnter(r)'
  <2> SUFFICES ASSUME req[r].kind = "register" PROVE WillEnter(r)'
    OBVIOUS
  <2> DEFINE own == ParticipantRow(r, req[r].contest, req[r].user)
  <2>1. Insert(own) \in Range(tx'[r].todo)
    BY <1>2
  <2> QED BY <1>3, <2>1
       DEF WillEnter, ParticipantRow, Contest, Registration, Insert, Statement, Range
<1>7. /\ tx'[r].ins = {} /\ tx'[r].del = {}
      /\ Ids(tx[r].ins)' = Ids(tx'[r].ins) /\ Ids(tx[r].del)' = Ids(tx'[r].del)
  BY <1>2 DEF Ids
<1>8. Range(tx[r].todo)' = Range(tx'[r].todo)
  BY DEF Range
<1>9. TransactionInv(r)'
  BY <1>1, <1>3, <1>4, <1>5, <1>6, <1>7, <1>8 DEF TransactionInv
<1> QED BY <1>2, <1>9

LEMMA RowsAreShaped ==
  ASSUME FullInv, NEW r \in Requests, step[r] # "idle"
  PROVE  /\ req[r].kind = "register" => Shaped(ParticipantRow(r, req[r].contest, req[r].user))
         /\ req[r].kind = "submit" => Shaped(SubmissionRow(r, req[r].contest))
         /\ req[r].kind \in {"create", "update"} =>
              Shaped(ContestRow(req[r].contest, Candidate(r)))
         /\ req[r].kind \in {"create", "replace"} =>
              \A i \in Nat, p \in Range(req[r].list) :
                Shaped(ContestProblemRow(r, req[r].contest, i, p))
<1>1. req[r] \in AnyRequest(r, ContestIds)
  BY DEF FullInv, ContestInv, HandlerInv
<1>2. req[r].contest \in ContestIds
  BY <1>1, RequestParts
<1> DEFINE c == req[r].contest
<1>3. ASSUME req[r].kind = "register" PROVE Shaped(ParticipantRow(r, c, req[r].user))
  <2> DEFINE x == ParticipantRow(r, c, req[r].user)
  <2>1. req[r].user \in Users
    BY <1>1, <1>3, RequestParts
  <2>2. x \in Rows
    BY <1>2, <2>1 DEF ParticipantRow, Rows, Contest, Registration
  <2>3. x.id = <<"participant", r>> /\ MadeFor(r) = c
    BY DEF ParticipantRow, MadeFor
  <2> QED BY <1>3, <2>1, <2>2, <2>3 DEF Shaped, Entrant
<1>4. ASSUME req[r].kind = "submit" PROVE Shaped(SubmissionRow(r, c))
  <2>1. SubmissionRow(r, c) \in Rows
    BY <1>2 DEF SubmissionRow, Rows, Contest
  <2> QED BY <1>4, <2>1 DEF Shaped, SubmissionRow
<1>5. ASSUME req[r].kind \in {"create", "update"} PROVE Shaped(ContestRow(c, Candidate(r)))
  <2>1. req[r].title \in Titles /\ counter[r] \in Nat
    BY <1>1, <1>5, RequestParts DEF FullInv, StateTypes
  <2>2. ContestRow(c, Candidate(r)) \in Rows
    BY <1>2, <2>1 DEF ContestRow, Rows, Contest, Candidate, Slug
  <2> QED BY <2>2 DEF Shaped, ContestRow, Contest
<1>6. ASSUME req[r].kind \in {"create", "replace"}, NEW i \in Nat, NEW p \in Range(req[r].list)
      PROVE  Shaped(ContestProblemRow(r, c, i, p))
  <2>1. p \in UNION {Range(l) : l \in ProblemLists}
    BY <1>1, <1>6, RequestParts
  <2>2. ContestProblemRow(r, c, i, p) \in Rows
    BY <1>2, <2>1 DEF ContestProblemRow, Rows, Contest
  <2> QED BY <2>2 DEF Shaped, ContestProblemRow
<1> QED BY <1>3, <1>4, <1>5, <1>6

LEMMA AssignmentsArePlanned ==
  ASSUME FullInv, NEW r \in Requests, step[r] # "idle", req[r].kind \in {"create", "replace"}
  PROVE  /\ IsList(Assignments(r, req[r].contest, req[r].list))
         /\ \A s \in Range(Assignments(r, req[r].contest, req[r].list)) : Plans(r, s)
<1>1. req[r].list \in ProblemLists
  BY RequestParts DEF FullInv, ContestInv, HandlerInv
<1>2. ASSUME NEW i \in Nat, NEW p \in Range(req[r].list)
      PROVE  Plans(r, Insert(ContestProblemRow(r, req[r].contest, i, p)))
  <2> DEFINE x == ContestProblemRow(r, req[r].contest, i, p)
  <2>1. Shaped(x)
    BY RowsAreShaped
  <2>2. Adds(r, x)
    BY DEF Adds, ContestProblemRow
  <2> HIDE DEF x
  <2>3. Insert(x).op = "insert" /\ Insert(x).arg = x
    BY DEF Insert, Statement
  <2>4. Plans(r, Insert(x))
    BY <2>1, <2>2, <2>3 DEF Plans
  <2> QED BY <2>4 DEF x
<1> QED BY <1>1, <1>2, AssignmentsListed

LEMMA HandlersFit ==
  ASSUME FullInv, NEW r \in Requests,
         Replace(r) \/ DeleteContest(r) \/ Register(r) \/ Submit(r) \/ FoundSlug(r)
  PROVE  TransactionInv(r)' /\ IsList(tx'[r].todo)
<1> DEFINE c == req[r].contest
<1>0. HandlerInv(r) /\ step[r] # "run" /\ step[r] # "idle"
  BY DEF FullInv, ContestInv, Replace, DeleteContest, Loaded, Register, Submit, FoundSlug
<1>1. CASE Replace(r)
  <2> DEFINE q == <<Clear(Contest(c), "problem")>>  p == Assignments(r, c, req[r].list)
  <2>1. req[r].kind = "replace" /\ Run(r, q \o p)
    BY <1>0, <1>1 DEF HandlerInv, Replace, ReplaceStatements
  <2>2. IsList(p) /\ \A s \in Range(p) : Plans(r, s)
    BY <1>0, <2>1, AssignmentsArePlanned
  <2>3. IsList(q) /\ Range(q) = {Clear(Contest(c), "problem")}
    BY ListShort
  <2>4. Plans(r, Clear(Contest(c), "problem"))
    BY <2>1 DEF Plans, Clear, Statement
  <2> HIDE DEF q, p
  <2>5. IsList(q \o p) /\ \A s \in Range(q \o p) : Plans(r, s)
    BY <2>2, <2>3, <2>4, ListConcat
  <2> QED BY <1>0, <2>1, <2>5, GivenFits
<1>2. CASE DeleteContest(r)
  <2> DEFINE subs == Ids(Owns(View(r), c, "submission"))
             deps == Ids(Owns(View(r), c, "participant") \cup Owns(View(r), c, "problem"))
             q1 == Detach(subs)  q2 == Delete(deps)  q3 == Delete({Contest(c)})
  <2>1. req[r].kind = "delete" /\ Run(r, q1 \o q2 \o q3)
    BY <1>2 DEF DeleteContest, Loaded, DeleteStatements
  <2>2. \A id \in subs : id[1] = "submission"
    BY DEF Ids, Owns, Tagged
  <2>3. \A id \in deps : Removes(r, id)
    <3> SUFFICES ASSUME NEW x \in View(r), RefersTo(x, Contest(c)),
                        x.id[1] \in {"participant", "problem"}
                 PROVE  Removes(r, x.id)
      BY DEF Ids, Owns, Tagged
    <3>1. Shaped(x)
      BY ViewIsShaped DEF FullInv
    <3>2. CASE x.id[1] = "participant"
      <4>1. Entrant(x.id, MadeFor(x.id[2])) /\ x.parents = {Contest(MadeFor(x.id[2]))}
        BY <3>1, <3>2 DEF Shaped, ParticipantRow
      <4>2. MadeFor(x.id[2]) = c
        BY <4>1 DEF RefersTo, Contest
      <4> QED BY <2>1, <4>1, <4>2 DEF Removes
    <3> QED BY <2>1, <3>2 DEF Removes
  <2>4. Removes(r, Contest(c))
    BY <2>1 DEF Removes
  <2> HIDE DEF subs, deps
  <2>5. /\ IsList(q1) /\ Range(q1) \subseteq {Statement("detach", subs)}
        /\ IsList(q2) /\ Range(q2) \subseteq {Statement("delete", deps)}
        /\ IsList(q3) /\ Range(q3) = {Statement("delete", {Contest(c)})}
    BY ListShort DEF Detach, Delete
  <2>6. /\ Plans(r, Statement("detach", subs)) /\ Plans(r, Statement("delete", deps))
        /\ Plans(r, Statement("delete", {Contest(c)}))
    BY <2>1, <2>2, <2>3, <2>4 DEF Plans, Statement
  <2> HIDE DEF q1, q2, q3
  <2>7. IsList(q1 \o q2) /\ Range(q1 \o q2) = Range(q1) \cup Range(q2)
    BY <2>5, ListConcat
  <2>8. IsList(q1 \o q2 \o q3) /\ Range(q1 \o q2 \o q3) = Range(q1) \cup Range(q2) \cup Range(q3)
    BY <2>5, <2>7, ListConcat
  <2>9. \A s \in Range(q1 \o q2 \o q3) : Plans(r, s)
    BY <2>5, <2>6, <2>8
  <2>10. \E s \in Range(q1 \o q2 \o q3) : s.op = "delete" /\ Contest(c) \in s.arg
    <3>1. Statement("delete", {Contest(c)}) \in Range(q1 \o q2 \o q3)
      BY <2>5, <2>8
    <3>2. /\ Statement("delete", {Contest(c)}).op = "delete"
          /\ Contest(c) \in Statement("delete", {Contest(c)}).arg
      BY DEF Statement
    <3> QED BY <3>1, <3>2
  <2> QED BY <1>0, <2>1, <2>8, <2>9, <2>10, GivenFits
<1>3. CASE Register(r)
  <2> DEFINE x == ParticipantRow(r, c, req[r].user)
  <2>1. req[r].kind = "register" /\ Run(r, <<Insert(x)>>)
    BY <1>0, <1>3 DEF HandlerInv, Register
  <2>2. Shaped(x) /\ Adds(r, x)
    BY <1>0, <2>1, RowsAreShaped DEF Adds
  <2> HIDE DEF x
  <2>3. Plans(r, Insert(x))
    BY <2>1, <2>2 DEF Plans, Insert, Statement
  <2>4. IsList(<<Insert(x)>>) /\ Range(<<Insert(x)>>) = {Insert(x)}
    BY ListShort
  <2>5. /\ req[r].kind = "register" =>
             Insert(ParticipantRow(r, req[r].contest, req[r].user)) \in Range(<<Insert(x)>>)
        /\ req[r].kind # "delete"
    BY <2>1, <2>4 DEF x
  <2> QED BY <1>0, <2>1, <2>3, <2>4, <2>5, GivenFits
<1>4. CASE Submit(r)
  <2> DEFINE x == SubmissionRow(r, c)
  <2>1. req[r].kind = "submit" /\ Run(r, <<Insert(x)>>)
    BY <1>0, <1>4 DEF HandlerInv, Submit
  <2>2. Shaped(x) /\ Adds(r, x)
    BY <1>0, <2>1, RowsAreShaped DEF Adds
  <2> HIDE DEF x
  <2>3. Plans(r, Insert(x))
    BY <2>1, <2>2 DEF Plans, Insert, Statement
  <2>4. IsList(<<Insert(x)>>) /\ Range(<<Insert(x)>>) = {Insert(x)}
    BY ListShort
  <2> QED BY <1>0, <2>1, <2>3, <2>4, GivenFits
<1>5. CASE FoundSlug(r)
  <2> DEFINE x == ContestRow(c, Candidate(r))
  <2>1. req[r].kind \in {"create", "update"}
    BY <1>0, <1>5 DEF HandlerInv, FoundSlug
  <2>2. Shaped(x) /\ x.id = Contest(c)
    BY <1>0, <2>1, RowsAreShaped DEF ContestRow
  <2>3. CASE req[r].kind = "create"
    <3> DEFINE p == Assignments(r, c, req[r].list)
    <3>1. Run(r, <<Insert(x)>> \o p)
      BY <1>5, <2>3 DEF FoundSlug
    <3>2. IsList(p) /\ \A s \in Range(p) : Plans(r, s)
      BY <1>0, <2>3, AssignmentsArePlanned
    <3> HIDE DEF x, p
    <3>3. Plans(r, Insert(x))
      BY <2>2, <2>3 DEF Plans, Insert, Statement, Adds
    <3>4. IsList(<<Insert(x)>>) /\ Range(<<Insert(x)>>) = {Insert(x)}
      BY ListShort
    <3>5. IsList(<<Insert(x)>> \o p) /\ \A s \in Range(<<Insert(x)>> \o p) : Plans(r, s)
      BY <3>2, <3>3, <3>4, ListConcat
    <3> QED BY <1>0, <2>3, <3>1, <3>5, GivenFits
  <2>4. CASE req[r].kind = "update"
    <3>1. Run(r, <<Rename(x)>>)
      BY <1>5, <2>4 DEF FoundSlug
    <3> HIDE DEF x
    <3>2. Plans(r, Rename(x))
      BY <2>2, <2>4 DEF Plans, Rename, Statement
    <3>3. IsList(<<Rename(x)>>) /\ Range(<<Rename(x)>>) = {Rename(x)}
      BY ListShort
    <3> QED BY <1>0, <2>4, <3>1, <3>2, <3>3, GivenFits
  <2> QED BY <2>1, <2>3, <2>4
<1> QED BY <1>1, <1>2, <1>3, <1>4, <1>5
-----------------------------------------------------------------------------
(* Commits                                                                 *)

(* Registrations go away only with their contest, and a contest that a      *)
(* client can name does not come back.                                     *)
LEMMA CommitEffect ==
  ASSUME FullInv, NEW r \in Requests, Finish(r)
  PROVE  /\ db' = View(r)
         /\ \A c, u : Registered(db, c, u) => Registered(db', c, u) \/ Contest(c) \notin Ids(db')
         /\ \A c \in Known : Contest(c) \notin Ids(db) => Contest(c) \notin Ids(db')
<1>1. TransactionInv(r) /\ LockInv /\ HandlerInv(r) /\ \A x \in db : Shaped(x)
  BY DEF FullInv, ContestInv
<1>2. db' = View(r) /\ tx[r].todo = <<>> /\ step[r] = "run" /\ tx[r].del \subseteq db
  BY <1>1 DEF Finish, Commit, View, LockInv, HeldRows
<1>3. req[r] \in AnyRequest(r, ContestIds) /\ outcome[r] = "none"
  BY <1>1, <1>2 DEF HandlerInv
<1>4. ASSUME NEW c, NEW u, Registered(db, c, u), ~Registered(db', c, u)
      PROVE  Contest(c) \notin Ids(db')
  <2>1. PICK x \in db : x.id[1] = "participant" /\ Registration(c, u) \in x.keys
    BY <1>4 DEF Registered, Tagged
  <2>2. x \in tx[r].del
    BY <1>2, <1>4, <2>1 DEF Registered, Tagged, View
  <2>3. /\ Entrant(x.id, MadeFor(x.id[2]))
        /\ \E v \in Users : x = ParticipantRow(x.id[2], MadeFor(x.id[2]), v)
    BY <1>1, <2>1 DEF Shaped
  <2>4. c = MadeFor(x.id[2])
    BY <2>1, <2>3 DEF ParticipantRow, Registration
  <2>5. req[r].kind = "delete" /\ c = req[r].contest
    BY <1>1, <1>2, <2>1, <2>2, <2>4 DEF TransactionInv, Removes, Contest, Entrant
  <2>6. WillRemove(r)
    BY <1>1, <1>2, <2>5 DEF TransactionInv
  <2>7. Range(tx[r].todo) = {}
    BY <1>2, ListShort
  <2> QED BY <1>2, <2>5, <2>6, <2>7 DEF WillRemove
<1>5. ASSUME NEW c \in Known, Contest(c) \notin Ids(db), Contest(c) \in Ids(db')
      PROVE  FALSE
  <2>1. PICK x \in tx[r].ins : x.id = Contest(c)
    BY <1>2, <1>5 DEF Ids, View
  <2>2. Adds(r, x)
    BY <1>1, <1>2 DEF TransactionInv
  <2>3. req[r].kind \in {"create", "update"} /\ c = req[r].contest
    BY <2>1, <2>2 DEF Adds, Contest, ParticipantRow, SubmissionRow
  <2>4. CASE req[r].kind = "create"
    <3>1. c = r
      BY <1>3, <2>3, <2>4, RequestParts
    <3> QED BY <1>3, <1>5, <3>1, NamesAreFresh DEF Known
  <2>5. CASE req[r].kind = "update"
    <3>1. Contest(c) \in Ids(tx[r].del)
      BY <1>1, <1>2, <2>1, <2>5 DEF TransactionInv, Ids
    <3> QED BY <1>2, <1>5, <3>1 DEF Ids
  <2> QED BY <2>3, <2>4, <2>5
<1> QED BY <1>2, <1>4, <1>5

(* A commit does not bring back what another request is about to delete.    *)
LEMMA CommitLeavesRemovals ==
  ASSUME FullInv, NEW r \in Requests, Finish(r), NEW o \in Others(r), step[o] = "run",
         req[o].kind = "delete"
  PROVE  WillRemove(o)'
<1>1. o \in Requests /\ r \in Others(o)
  BY DEF Others
<1>2. TransactionInv(r) /\ TransactionInv(o) /\ HandlerInv(r) /\ HandlerInv(o) /\ LockInv
  BY <1>1 DEF FullInv, ContestInv
<1>3. WillRemove(o)
  BY <1>2 DEF TransactionInv
<1>4. db' = View(r) /\ tx'[o] = tx[o] /\ req' = req /\ step[r] = "run" /\ tx[r].del \subseteq db
  BY <1>1, <1>2 DEF Finish, Commit, View, LockInv, HeldRows, Others
<1> DEFINE c == req[o].contest
<1>5. CASE Contest(c) \notin Ids(View(o))
  <2>1. View(o)' = (View(r) \ tx[o].del) \cup tx[o].ins
    BY <1>4 DEF View
  <2>2. c \in Known
    BY <1>2 DEF HandlerInv
  <2>3. ASSUME NEW x \in View(o)', x.id = Contest(c) PROVE FALSE
    <3>1. x \in tx[r].ins
      BY <1>5, <2>1, <2>3 DEF View, Ids
    <3>2. Adds(r, x)
      BY <1>2, <1>4, <3>1 DEF TransactionInv
    <3>3. req[r].kind \in {"create", "update"} /\ c = req[r].contest
      BY <2>3, <3>2 DEF Adds, Contest, ParticipantRow, SubmissionRow
    <3>4. CASE req[r].kind = "create"
      <4>1. c = r /\ outcome[r] = "none"
        BY <1>2, <1>4, <3>3, <3>4, RequestParts DEF HandlerInv
      <4> QED BY <2>2, <4>1, NamesAreFresh DEF Known
    <3>5. CASE req[r].kind = "update"
      <4>1. Contest(c) \in Ids(tx[r].del)
        BY <1>2, <1>4, <2>3, <3>1, <3>5 DEF TransactionInv, Ids
      <4>2. Contest(c) \notin Ids(tx[o].del)
        BY <1>1, <1>2, <4>1 DEF LockInv, Isolated
      <4>3. Contest(c) \in Ids(View(o))
        BY <1>4, <4>1, <4>2 DEF Ids, View
      <4> QED BY <1>5, <4>3
    <3> QED BY <3>3, <3>4, <3>5
  <2>4. Contest(c) \notin Ids(View(o)')
    BY <2>3 DEF Ids
  <2> QED BY <1>1, <1>4, <2>4, RemovalStays
<1>6. CASE \E s \in Range(tx[o].todo) : s.op = "delete" /\ Contest(c) \in s.arg
  BY <1>1, <1>4, <1>6, RemovalStays
<1> QED BY <1>3, <1>5, <1>6 DEF WillRemove

-----------------------------------------------------------------------------
(* The steps of the handlers                                               *)

LEMMA KnownGrows ==
  ASSUME Steady, \A o \in Requests : outcome'[o] = outcome[o] \/ outcome[o] = "none"
  PROVE  Known \subseteq Known'
BY DEF Known, Steady, NoRequest

LEMMA OtherHandlers ==
  ASSUME NEW o, HandlerInv(o), Known \subseteq Known',
         step'[o] = step[o], req'[o] = req[o], outcome'[o] = outcome[o]
  PROVE  HandlerInv(o)'
<1>1. AnyRequest(o, ContestIds)' = AnyRequest(o, ContestIds)
  BY DEF AnyRequest, CreateRequest, UpdateRequest, ReplaceRequest, DeleteRequest, UserRequest,
         ContestIds
<1> QED BY <1>1 DEF HandlerInv, NoRequest

(* A handler that goes on, has its statements executed or ends.            *)
LEMMA HandlerMoves ==
  ASSUME FullInv, NEW r \in Requests, NEW s, step[r] \notin {"idle", "done"},
         step' = [step EXCEPT ![r] = s], req' = req,
         s \in {"slug", "check", "again", "run", "done"},
         s = "slug"  => req[r].kind \in {"create", "update"},
         s = "check" => req[r].kind = "register",
         s = "again" => req[r].kind = "submit",
         \/ s # "done" /\ outcome' = outcome
         \/ \E how \in {"ok", "missing", "refused", "conflict", "bad_reference", "internal"} :
              s = "done" /\ outcome' = [outcome EXCEPT ![r] = how],
         counter' = counter, stage' = stage, overlapped' = overlapped
  PROVE  StateTypes' /\ \A o \in Requests : HandlerInv(o)'
<1>1. StateTypes /\ \A o \in Requests : HandlerInv(o)
  BY DEF FullInv, ContestInv
<1>2. StateTypes'
  BY <1>1 DEF StateTypes, ContestIds, Stages
<1>3. Steady /\ Known \subseteq Known'
  <2>1. Steady
    BY DEF Steady
  <2>2. \A o \in Requests : outcome'[o] = outcome[o] \/ outcome[o] = "none"
    BY <1>1 DEF StateTypes, HandlerInv
  <2> QED BY <2>1, <2>2, KnownGrows
<1>4. ASSUME NEW o \in Requests PROVE HandlerInv(o)'
  <2>1. CASE o # r
    <3>1. step'[o] = step[o] /\ req'[o] = req[o] /\ outcome'[o] = outcome[o]
      BY <1>1, <2>1 DEF StateTypes
    <3> QED BY <1>1, <1>3, <3>1, OtherHandlers
  <2>2. CASE o = r
    <3>1. step'[r] = s
      BY <1>1 DEF StateTypes
    <3>2. s # "done" => outcome'[r] = "none"
      BY <1>1 DEF HandlerInv
    <3>3. (req[r] \in AnyRequest(r, ContestIds))'
      BY <1>1 DEF HandlerInv, AnyRequest, CreateRequest, UpdateRequest, ReplaceRequest,
                  DeleteRequest, UserRequest, ContestIds
    <3>4. req[r].kind \notin {"none", "create"} => req[r].contest \in Known'
      BY <1>1, <1>3 DEF HandlerInv
    <3> QED BY <2>2, <3>1, <3>2, <3>3, <3>4 DEF HandlerInv
  <2> QED BY <2>1, <2>2
<1> QED BY <1>2, <1>4
(* Only statements fail or wait: a request that ends in an error of the      *)
(* database has a transaction under way.                                   *)
LEMMA ErrorKinds ==
  ASSUME NEW r, NEW e \in Errors(r)
  PROVE  e \in {"conflict", "bad_reference", "internal"} /\ tx[r].todo # <<>>
<1> DEFINE s == Head(tx[r].todo)
<1>1. tx[r].todo # <<>>
  BY DEF Errors
<1>2. \/ e \in {x \in {"conflict"} : ~UniqueOK(View(r), s.arg)}
                 \cup {x \in {"bad_reference"} : UniqueOK(View(r), s.arg) /\ ~ParentsExist(r, s.arg)}
      \/ e \in {x \in {"internal"} : ~Exists(r, s.arg.id)}
                 \cup {x \in {"conflict"} :
                         /\ Exists(r, s.arg.id)
                         /\ ~UniqueOK(View(r) \ {Current(r, s.arg.id)}, s.arg)}
      \/ e \in {x \in {"bad_reference"} : \E id \in s.arg : DeleteBlockers(r, id) = {} /\ ~NoChildLeft(r, id)}
      \/ e \in {x \in {"internal"} : \E id \in s.arg : RowLockers(r, id) = {} /\ ~Exists(r, id)}
      \/ e \in {}
  BY <1>1, ZenonT(30) DEF Errors
<1> QED BY <1>1, <1>2

LEMMA DeadlockedWorks ==
  ASSUME NEW r, Deadlocked(r)
  PROVE  tx[r].todo # <<>>
BY DEF Deadlocked, WaitsFor

Ending(r) ==
  /\ step[r] \notin {"idle", "done"}
  /\ \E how \in {"missing", "refused", "conflict", "bad_reference", "internal"} : Refuse(r, how)
Given(r) == Replace(r) \/ DeleteContest(r) \/ Register(r) \/ Submit(r) \/ FoundSlug(r)
Moving(r) == UpdateContest(r) \/ RegistrationOpen(r) \/ MaySubmit(r)
Aside ==
  \/ UNCHANGED vars
  \/ \E r \in Requests : NextSlug(r)
  \/ \E c \in Existing : TimePasses(c)

LEMMA StepKinds ==
  ASSUME FullInv, [Next]_vars
  PROVE  \/ Aside
         \/ \E r \in Requests : \E q \in AnyRequest(r, Known) : Begin(r, q)
         \/ \E r \in Requests : \/ Ending(r) \/ Given(r) \/ Moving(r)
                                \/ step[r] = "run" /\ RunStatement(r)
                                \/ Finish(r)
<1>1. ASSUME NEW r \in Requests, tx[r].todo # <<>> PROVE step[r] = "run"
  BY <1>1 DEF FullInv, ContestInv, TransactionInv, NoTransaction
<1>2. ASSUME NEW r \in Requests, StatementFails(r) PROVE Ending(r)
  <2>1. PICK e \in Errors(r) : Refuse(r, e)
    BY <1>2 DEF StatementFails
  <2>2. step[r] = "run" /\ e \in {"conflict", "bad_reference", "internal"}
    BY <1>1, ErrorKinds
  <2> QED BY <2>1, <2>2 DEF Ending
<1>3. ASSUME NEW r \in Requests, BreakDeadlock(r) PROVE Ending(r)
  <2>1. step[r] = "run"
    BY <1>1, <1>3, DeadlockedWorks DEF BreakDeadlock
  <2> QED BY <1>3, <2>1 DEF Ending, BreakDeadlock
<1>4. ASSUME NEW r \in Requests, ContestNotFound(r) \/ RegistrationClosed(r) \/ AlreadyRegistered(r)
                                   \/ CannotSubmit(r)
      PROVE  Ending(r)
  BY <1>4 DEF Ending, ContestNotFound, RegistrationClosed, AlreadyRegistered, CannotSubmit, Loaded
<1>5. ASSUME NEW r \in Requests, RunStatement(r) PROVE step[r] = "run"
  BY <1>1, <1>5 DEF RunStatement, Execute
<1> QED BY <1>2, <1>3, <1>4, <1>5 DEF Next, Handle, Given, Moving, Aside

LEMMA NextKeepsHandlers ==
  ASSUME FullInv, [Next]_vars
  PROVE  StateTypes' /\ \A o \in Requests : HandlerInv(o)'
<1> SUFFICES StateTypes' /\ \A o \in Requests : HandlerInv(o)'
  OBVIOUS
<1>0. StateTypes /\ \A o \in Requests : HandlerInv(o)
  BY DEF FullInv, ContestInv
<1>1. CASE Aside
  <2>1. UNCHANGED <<req, step, outcome>>
    BY <1>1 DEF Aside, vars, NextSlug, TimePasses
  <2>2. StateTypes'
    <3>1. CASE UNCHANGED vars
      BY <1>0, <3>1 DEF StateTypes, vars, ContestIds, Stages
    <3>2. CASE \E r \in Requests : NextSlug(r)
      BY <1>0, <3>2 DEF StateTypes, NextSlug, ContestIds, Stages
    <3>3. CASE \E c \in Existing : TimePasses(c)
      BY <1>0, <3>3 DEF StateTypes, TimePasses, ContestIds, Stages
    <3> QED BY <1>1, <3>1, <3>2, <3>3 DEF Aside
  <2>3. Known \subseteq Known'
    BY <2>1, KnownGrows DEF Steady
  <2> QED BY <1>0, <2>1, <2>2, <2>3, OtherHandlers
<1>2. ASSUME NEW r \in Requests, NEW q \in AnyRequest(r, Known), Begin(r, q)
      PROVE  StateTypes' /\ \A o \in Requests : HandlerInv(o)'
  <2>1. req[r] = NoRequest /\ outcome[r] = "none" /\ UNCHANGED outcome
    BY <1>0, <1>2 DEF Begin, HandlerInv
  <2>2. Steady
    BY <1>0, <1>2, <2>1 DEF Steady, StateTypes, Begin
  <2>3. Known \subseteq Known'
    BY <2>1, <2>2, KnownGrows
  <2>4. /\ q \in AnyRequest(r, ContestIds)
        /\ q.kind \in {"create", "update", "replace", "delete", "register", "submit"}
        /\ q.kind # "create" => q.contest \in Known
    BY DEF AnyRequest, CreateRequest, UpdateRequest, ReplaceRequest, DeleteRequest, UserRequest,
           Known, ContestIds
  <2>5. /\ req'[r] = q
        /\ \/ q.kind = "create" /\ step'[r] = "slug"
           \/ q.kind = "replace" /\ step'[r] = "replace"
           \/ q.kind \notin {"create", "replace"} /\ step'[r] = "load"
    BY <1>0, <1>2 DEF Begin, StateTypes
  <2>6. StateTypes'
    <3>1. step' \in [Requests -> {"idle", "load", "replace", "slug", "check", "again", "run", "done"}]
      <4>1. CASE q.kind = "create"
        BY <1>0, <1>2, <4>1 DEF Begin, StateTypes
      <4>2. CASE q.kind = "replace"
        BY <1>0, <1>2, <4>2 DEF Begin, StateTypes
      <4>3. CASE q.kind \notin {"create", "replace"}
        BY <1>0, <1>2, <4>3 DEF Begin, StateTypes
      <4> QED BY <4>1, <4>2, <4>3
    <3>2. overlapped' \subseteq Requests
      BY <1>0, <1>2 DEF Begin, StateTypes, Active
    <3>3. DOMAIN req' = Requests /\ UNCHANGED <<counter, stage, outcome>>
      BY <1>0, <1>2 DEF Begin, StateTypes
    <3> QED BY <1>0, <3>1, <3>2, <3>3 DEF StateTypes, ContestIds, Stages
  <2>7. ASSUME NEW o \in Requests PROVE HandlerInv(o)'
    <3>1. CASE o # r
      <4>1. step'[o] = step[o] /\ req'[o] = req[o] /\ outcome'[o] = outcome[o]
        BY <1>0, <1>2, <3>1 DEF Begin, StateTypes
      <4> QED BY <1>0, <2>3, <4>1, OtherHandlers
    <3>2. CASE o = r
      <4>1. (req[r] \in AnyRequest(r, ContestIds))'
        BY <2>4, <2>5 DEF AnyRequest, CreateRequest, UpdateRequest, ReplaceRequest,
                          DeleteRequest, UserRequest, ContestIds
      <4> QED BY <2>1, <2>3, <2>4, <2>5, <3>2, <4>1 DEF HandlerInv
    <3> QED BY <3>1, <3>2
  <2> QED BY <2>6, <2>7
<1>3. ASSUME NEW r \in Requests, Ending(r)
      PROVE  StateTypes' /\ \A o \in Requests : HandlerInv(o)'
  BY <1>3, HandlerMoves DEF Ending, Refuse
<1>4. ASSUME NEW r \in Requests, Finish(r)
      PROVE  StateTypes' /\ \A o \in Requests : HandlerInv(o)'
  BY <1>4, HandlerMoves DEF Finish
<1>5. ASSUME NEW r \in Requests, Given(r)
      PROVE  StateTypes' /\ \A o \in Requests : HandlerInv(o)'
  <2>1. step[r] \notin {"idle", "done"}
    BY <1>5 DEF Given, Replace, DeleteContest, Register, Submit, FoundSlug, Loaded
  <2>2. /\ step' = [step EXCEPT ![r] = "run"]
        /\ UNCHANGED <<req, counter, stage, outcome, overlapped>>
    BY <1>5 DEF Given, Replace, DeleteContest, Register, Submit, FoundSlug, Run
  <2> QED BY <2>1, <2>2, HandlerMoves
<1>6. ASSUME NEW r \in Requests, Moving(r)
      PROVE  StateTypes' /\ \A o \in Requests : HandlerInv(o)'
  <2>1. \E s \in {"slug", "check", "again"} :
          /\ step' = [step EXCEPT ![r] = s] /\ step[r] = "load"
          /\ UNCHANGED <<req, counter, stage, outcome, overlapped>>
          /\ s = "slug" => req[r].kind = "update"
          /\ s = "check" => req[r].kind = "register"
          /\ s = "again" => req[r].kind = "submit"
    BY <1>6 DEF Moving, UpdateContest, RegistrationOpen, MaySubmit, Loaded, Goto
  <2> QED BY <2>1, HandlerMoves
<1>7. ASSUME NEW r \in Requests, RunStatement(r)
      PROVE  StateTypes' /\ \A o \in Requests : HandlerInv(o)'
  <2>1. UNCHANGED <<req, step, counter, stage, outcome, overlapped>>
    BY <1>7 DEF RunStatement
  <2>2. Known \subseteq Known'
    BY <2>1, KnownGrows DEF Steady
  <2>3. StateTypes'
    BY <1>0, <2>1 DEF StateTypes, ContestIds, Stages
  <2> QED BY <1>0, <2>1, <2>2, <2>3, OtherHandlers
<1> QED BY <1>1, <1>2, <1>3, <1>4, <1>5, <1>6, <1>7, StepKinds

-----------------------------------------------------------------------------
(* The invariant                                                           *)

LEMMA OtherTransactions ==
  ASSUME FullInv, NEW o \in Requests, Steady,
         tx'[o] = tx[o], step'[o] = step[o], step[o] = "run" => req'[o] = req[o],
         db' = db \/ (step[o] = "run" /\ req[o].kind = "delete" => WillRemove(o)')
  PROVE  TransactionInv(o)' /\ IsList(tx'[o].todo)
<1>1. TransactionInv(o) /\ IsList(tx[o].todo)
  BY DEF FullInv, Lists, ContestInv
<1>2. CASE step[o] # "run"
  BY <1>1, <1>2 DEF TransactionInv, NoTransaction
<1>3. CASE step[o] = "run"
  <2>1. req'[o] = req[o]
    BY <1>3
  <2>2. \A x \in tx'[o].ins : Shaped(x)' /\ Adds(o, x)'
    BY <1>1, <1>3, <2>1, ShapesStay, PlansStay DEF TransactionInv
  <2>3. \A x \in tx'[o].del : Removes(o, x.id)'
    BY <1>1, <1>3, <2>1, PlansStay DEF TransactionInv
  <2>4. \A s \in Range(tx'[o].todo) : Plans(o, s)'
    BY <1>1, <1>3, <2>1, PlansStay DEF TransactionInv
  <2>5. req[o].kind = "register" => WillEnter(o)'
    BY <1>1, <1>3, <2>1
       DEF TransactionInv, WillEnter, ParticipantRow, Contest, Registration, Insert, Statement, Range
  <2>6. req[o].kind = "delete" => WillRemove(o)'
    <3> SUFFICES ASSUME req[o].kind = "delete", db' = db PROVE WillRemove(o)'
      BY <1>3
    <3>1. View(o)' = View(o)
      BY DEF View
    <3> QED BY <1>1, <1>3, <2>1, <3>1, RemovalStays DEF TransactionInv, WillRemove
  <2>7. /\ Ids(tx[o].ins)' = Ids(tx[o].ins) /\ Ids(tx[o].del)' = Ids(tx[o].del)
        /\ Range(tx[o].todo)' = Range(tx'[o].todo)
    BY DEF Ids, Range
  <2> QED BY <1>1, <1>3, <2>1, <2>2, <2>3, <2>4, <2>5, <2>6, <2>7 DEF TransactionInv
<1> QED BY <1>2, <1>3

LEMMA NextKeepsTransactions ==
  ASSUME FullInv, [Next]_vars
  PROVE  Lists' /\ \A o \in Requests : TransactionInv(o)'
<1> SUFFICES ASSUME NEW o \in Requests PROVE TransactionInv(o)' /\ IsList(tx'[o].todo)
  BY DEF Lists, IsList
<1>0. StateTypes /\ DOMAIN tx = Requests /\ HandlerInv(o) /\ IsList(tx[o].todo) /\ TransactionInv(o)
  BY DEF FullInv, ContestInv, LockInv, Lists
<1>1. CASE Aside
  <2>1. UNCHANGED <<db, tx, req, step>>
    BY <1>1 DEF Aside, vars, NextSlug, TimePasses
  <2> QED BY <2>1, OtherTransactions DEF Steady
<1>2. ASSUME NEW r \in Requests, NEW q, Begin(r, q)
      PROVE  TransactionInv(o)' /\ IsList(tx'[o].todo)
  <2>1. Steady
    BY <1>0, <1>2 DEF Steady, StateTypes, Begin, FullInv, ContestInv, HandlerInv
  <2>2. CASE o # r
    <3>1. tx'[o] = tx[o] /\ step'[o] = step[o] /\ req'[o] = req[o] /\ db' = db
      BY <1>0, <1>2, <2>2 DEF Begin, StateTypes
    <3> QED BY <2>1, <3>1, OtherTransactions
  <2>3. CASE o = r
    <3>1. tx'[o] = NoTransaction
      BY <1>0, <1>2, <2>3 DEF Begin, TransactionInv
    <3>2. step'[o] # "run"
      BY <1>0, <1>2, <2>3 DEF Begin, StateTypes
    <3>3. IsList(NoTransaction.todo)
      BY ListShort DEF NoTransaction
    <3> QED BY <3>1, <3>2, <3>3 DEF TransactionInv, NoTransaction
  <2> QED BY <2>2, <2>3
<1>3. ASSUME NEW r \in Requests, Ending(r) \/ Finish(r)
      PROVE  TransactionInv(o)' /\ IsList(tx'[o].todo)
  <2>1. /\ tx' = [tx EXCEPT ![r] = NoTransaction] /\ step' = [step EXCEPT ![r] = "done"]
        /\ req' = req /\ (Ending(r) => db' = db)
    BY <1>3 DEF Ending, Refuse, Rollback, Finish, Commit
  <2>2. CASE o # r
    <3>1. tx'[o] = tx[o] /\ step'[o] = step[o] /\ Steady
      BY <1>0, <2>1, <2>2 DEF StateTypes, Steady
    <3>2. db' = db \/ (step[o] = "run" /\ req[o].kind = "delete" => WillRemove(o)')
      BY <1>3, <2>1, <2>2, CommitLeavesRemovals DEF Others
    <3> QED BY <2>1, <3>1, <3>2, OtherTransactions
  <2>3. CASE o = r
    <3>1. tx'[o] = NoTransaction /\ step'[o] # "run"
      BY <1>0, <2>1, <2>3 DEF StateTypes
    <3>2. IsList(NoTransaction.todo)
      BY ListShort DEF NoTransaction
    <3> QED BY <3>1, <3>2 DEF TransactionInv, NoTransaction
  <2> QED BY <2>2, <2>3
<1>4. ASSUME NEW r \in Requests, Given(r)
      PROVE  TransactionInv(o)' /\ IsList(tx'[o].todo)
  <2>1. /\ \E statements : tx' = [tx EXCEPT ![r].todo = statements]
        /\ step' = [step EXCEPT ![r] = "run"] /\ UNCHANGED <<db, req>>
    BY <1>4 DEF Given, Replace, DeleteContest, Register, Submit, FoundSlug, Run
  <2>2. CASE o # r
    <3>1. tx'[o] = tx[o] /\ step'[o] = step[o] /\ Steady
      BY <1>0, <2>1, <2>2 DEF StateTypes, Steady
    <3> QED BY <2>1, <3>1, OtherTransactions
  <2> QED BY <1>4, <2>2, HandlersFit DEF Given
<1>5. ASSUME NEW r \in Requests, Moving(r)
      PROVE  TransactionInv(o)' /\ IsList(tx'[o].todo)
  <2>1. \E s : s # "run" /\ step' = [step EXCEPT ![r] = s] /\ step[r] = "load" /\ UNCHANGED <<db, tx, req>>
    BY <1>5 DEF Moving, UpdateContest, RegistrationOpen, MaySubmit, Loaded, Goto
  <2>2. CASE o # r
    <3>1. step'[o] = step[o] /\ Steady
      BY <1>0, <2>1, <2>2 DEF StateTypes, Steady
    <3> QED BY <2>1, <3>1, OtherTransactions
  <2>3. CASE o = r
    <3>1. tx'[o] = NoTransaction /\ step'[o] # "run" /\ tx' = tx
      BY <1>0, <2>1, <2>3 DEF StateTypes, TransactionInv
    <3> QED BY <1>0, <3>1 DEF TransactionInv, NoTransaction
  <2> QED BY <2>2, <2>3
<1>6. ASSUME NEW r \in Requests, step[r] = "run", RunStatement(r)
      PROVE  TransactionInv(o)' /\ IsList(tx'[o].todo)
  <2>1. Execute(r) /\ db' = db /\ UNCHANGED <<req, step>>
    BY <1>6 DEF RunStatement, Execute
  <2>2. CASE o # r
    <3>1. tx'[o] = tx[o]
      BY <1>0, <2>1, <2>2 DEF Execute, ExecuteInsert, ExecuteRename, ExecuteDelete, ExecuteDetach,
                              ExecuteClear, Change
    <3> QED BY <2>1, <3>1, OtherTransactions DEF Steady
  <2> QED BY <1>6, <2>1, <2>2, ExecuteFits
<1> QED BY <1>1, <1>2, <1>3, <1>4, <1>5, <1>6, StepKinds
LEMMA NextIsSteady ==
  ASSUME FullInv, [Next]_vars
  PROVE  Steady
<1>1. CASE req' = req
  BY <1>1 DEF Steady
<1>2. ASSUME NEW r \in Requests, NEW q, Begin(r, q) PROVE Steady
  BY <1>2 DEF Steady, Begin, FullInv, StateTypes, ContestInv, HandlerInv
<1>3. ASSUME NEW r \in Requests, Given(r) \/ Moving(r) \/ Ending(r) \/ RunStatement(r) \/ Finish(r)
      PROVE  req' = req
  BY <1>3 DEF Given, Replace, DeleteContest, Register, Submit, FoundSlug, Run, Moving, UpdateContest,
              RegistrationOpen, MaySubmit, Goto, Ending, Refuse, RunStatement, Finish
<1>4. CASE Aside
  BY <1>1, <1>4 DEF Aside, vars, NextSlug, TimePasses
<1> QED BY <1>1, <1>2, <1>3, <1>4, StepKinds

LEMMA DatabaseChanges ==
  ASSUME FullInv, [Next]_vars
  PROVE  db' = db \/ \E r \in Requests : Finish(r)
<1>1. ASSUME NEW r \in Requests, Given(r) \/ Moving(r) \/ Ending(r) \/ RunStatement(r)
      PROVE  db' = db
  BY <1>1 DEF Given, Replace, DeleteContest, Register, Submit, FoundSlug, Run, Moving, UpdateContest,
              RegistrationOpen, MaySubmit, Goto, Ending, Refuse, Rollback, RunStatement, Execute
<1>2. ASSUME NEW r \in Requests, NEW q, Begin(r, q) PROVE db' = db
  BY <1>2 DEF Begin
<1>3. CASE Aside
  BY <1>3 DEF Aside, vars, NextSlug, TimePasses
<1> QED BY <1>1, <1>2, <1>3, StepKinds

LEMMA StagesAdvance ==
  ASSUME FullInv, [Next]_vars, NEW c \in ContestIds, stage[c] # "upcoming"
  PROVE  stage'[c] # "upcoming"
<1>0. stage \in [ContestIds -> Stages]
  BY DEF FullInv, StateTypes
<1>1. ASSUME NEW r \in Requests, Given(r) \/ Moving(r) \/ Ending(r) \/ RunStatement(r) \/ Finish(r)
      PROVE  stage' = stage
  BY <1>1 DEF Given, Replace, DeleteContest, Register, Submit, FoundSlug, Run, Moving, UpdateContest,
              RegistrationOpen, MaySubmit, Goto, Ending, Refuse, RunStatement, Finish
<1>2. ASSUME NEW r \in Requests, NEW q, Begin(r, q) PROVE stage' = stage
  BY <1>2 DEF Begin
<1>3. CASE Aside
  <2>1. ASSUME NEW d \in Existing, TimePasses(d) PROVE stage'[c] # "upcoming"
    BY <1>0, <2>1 DEF TimePasses
  <2> QED BY <1>3, <2>1 DEF Aside, vars, NextSlug
<1> QED BY <1>1, <1>2, <1>3, StepKinds

(* Who may submit to a contest still may, or the contest is gone.           *)
LEMMA StillMay ==
  ASSUME FullInv, [Next]_vars, NEW c \in Known, NEW u, MayStill(c, u)
  PROVE  MayStill(c, u)'
<1>1. stage'[c] # "upcoming"
  BY StagesAdvance DEF MayStill, Known, ContestIds
<1>2. /\ Registered(db, c, u)' <=> Registered(db', c, u)
      /\ Ids(db)' = Ids(db') /\ Contest(c)' = Contest(c)
  BY DEF Registered, Tagged, Registration, Ids, Contest
<1>3. Registered(db', c, u) \/ Contest(c) \notin Ids(db')
  <2>1. CASE db' = db
    BY <2>1 DEF MayStill
  <2>2. CASE \E r \in Requests : Finish(r)
    BY <2>2, CommitEffect DEF MayStill
  <2> QED BY <2>1, <2>2, DatabaseChanges
<1> QED BY <1>1, <1>2, <1>3 DEF MayStill

LEMMA NextKeepsRows ==
  ASSUME FullInv, [Next]_vars
  PROVE  \A x \in db' : Shaped(x)' /\ Earned(x)'
<1>0. Steady
  BY NextIsSteady
<1>1. ASSUME NEW x, Shaped(x), x.id[1] = "submission", x.parents # {},
             MayStill(req[x.id[2]].contest, req[x.id[2]].user)
      PROVE  Earned(x)'
  <2> DEFINE o == x.id[2]  c == req[o].contest  u == req[o].user
  <2>1. o \in Requests /\ req[o].kind = "submit"
    BY <1>1 DEF Shaped, Rows
  <2>2. req'[o] = req[o]
    BY <1>0, <2>1 DEF Steady, NoRequest
  <2>3. c \in Known
    BY <2>1 DEF FullInv, ContestInv, HandlerInv
  <2>4. MayStill(c, u)'
    <3> SUFFICES ASSUME NEW d, NEW v, d = c, v = u PROVE MayStill(d, v)'
      BY <2>2 DEF MayStill, Registered, Tagged, Registration, Ids, Contest
    <3>1. d \in Known /\ MayStill(d, v)
      BY <1>1, <2>3
    <3> QED BY <3>1, StillMay
  <2> QED BY <2>4 DEF Earned
<1>2. ASSUME NEW x \in db PROVE Shaped(x)' /\ Earned(x)'
  <2>1. Shaped(x) /\ Earned(x)
    BY <1>2 DEF FullInv, ContestInv
  <2>2. Shaped(x)'
    BY <1>0, <2>1, ShapesStay
  <2> QED BY <1>1, <2>1, <2>2 DEF Earned
<1>3. ASSUME NEW r \in Requests, Finish(r), NEW x \in db', x \notin db
      PROVE  Shaped(x)' /\ Earned(x)'
  <2>1. x \in tx[r].ins /\ step[r] = "run"
    BY <1>3 DEF Finish, Commit
  <2>2. Shaped(x) /\ Adds(r, x) /\ Qualified(r)
    BY <2>1 DEF FullInv, ContestInv, TransactionInv
  <2>3. Shaped(x)'
    BY <1>0, <2>2, ShapesStay
  <2>4. Earned(x)'
    <3>1. CASE x.id[1] = "submission" /\ x.parents # {}
      <4>1. req[r].kind = "submit" /\ x = SubmissionRow(r, req[r].contest)
        BY <2>2, <3>1 DEF Adds, Contest, ParticipantRow
      <4>2. x.id[2] = r
        BY <4>1 DEF SubmissionRow
      <4> QED BY <1>1, <2>1, <2>2, <3>1, <4>1, <4>2 DEF Qualified
    <3>2. CASE x.id[1] # "submission" \/ x.parents = {}
      BY <3>2 DEF Earned
    <3> QED BY <3>1, <3>2
  <2> QED BY <2>3, <2>4
<1> QED BY <1>2, <1>3, DatabaseChanges

LEMMA NextKeepsQualified ==
  ASSUME FullInv, [Next]_vars, NEW o \in Requests
  PROVE  Qualified(o)'
<1> SUFFICES ASSUME req'[o].kind = "submit", step'[o] \in {"again", "run"}
             PROVE  MayStill(req[o].contest, req[o].user)'
  BY DEF Qualified
<1>0. /\ StateTypes /\ HandlerInv(o) /\ TransactionInv(o) /\ Qualified(o)
      /\ HandlerInv(o)' /\ Steady
  BY NextKeepsHandlers, NextIsSteady DEF FullInv, ContestInv
<1>1. ASSUME NEW r \in Requests, NEW q, Begin(r, q) PROVE step'[o] = step[o] /\ req'[o] = req[o]
  <2>1. o # r
    <3> SUFFICES ASSUME o = r PROVE FALSE
      OBVIOUS
    <3>1. step'[r] \in {"slug", "replace", "load"}
      BY <1>0, <1>1 DEF Begin, StateTypes
    <3> QED BY <3>1
  <2> QED BY <1>0, <1>1, <2>1 DEF Begin, StateTypes
<1>2. ASSUME NEW r \in Requests, Ending(r) \/ Finish(r)
      PROVE step'[o] = step[o] /\ req'[o] = req[o]
  <2>1. step' = [step EXCEPT ![r] = "done"] /\ req' = req
    BY <1>2 DEF Ending, Refuse, Finish
  <2> QED BY <1>0, <2>1 DEF StateTypes
<1>3. ASSUME Aside PROVE step'[o] = step[o] /\ req'[o] = req[o]
  BY <1>3 DEF Aside, vars, NextSlug, TimePasses
<1>4. ASSUME NEW d, NEW v, d = req[o].contest, v = req[o].user, req'[o] = req[o], MayStill(d, v)
      PROVE  MayStill(req[o].contest, req[o].user)'
  <2>1. d \in Known
    BY <1>0, <1>4 DEF HandlerInv
  <2>2. MayStill(d, v)'
    BY <1>4, <2>1, StillMay
  <2> QED BY <1>4, <2>2 DEF MayStill, Registered, Tagged, Registration, Ids, Contest
<1>5. ASSUME req'[o] = req[o], step[o] \in {"again", "run"}
      PROVE  MayStill(req[o].contest, req[o].user)'
  BY <1>0, <1>4, <1>5 DEF Qualified
<1>6. ASSUME NEW r \in Requests, Moving(r) PROVE MayStill(req[o].contest, req[o].user)'
  <2>1. CASE o # r
    BY <1>0, <1>5, <1>6, <2>1
       DEF Moving, UpdateContest, RegistrationOpen, MaySubmit, Goto, StateTypes
  <2>2. CASE o = r
    <3>1. req' = req
      BY <1>6 DEF Moving, UpdateContest, RegistrationOpen, MaySubmit, Goto
    <3>2. MaySubmit(o)
      BY <1>6, <2>2, <3>1 DEF Moving, UpdateContest, RegistrationOpen, Loaded
    <3>3. tx[o] = NoTransaction
      BY <1>0, <3>2 DEF MaySubmit, Loaded, TransactionInv
    <3>4. View(o) = db
      BY <3>3 DEF View, NoTransaction
    <3>5. MayStill(req[o].contest, req[o].user)
      BY <3>2, <3>4 DEF MaySubmit, CanSubmit, MayStill
    <3> QED BY <1>4, <3>1, <3>5
  <2> QED BY <2>1, <2>2
<1>7. ASSUME NEW r \in Requests, Given(r) PROVE MayStill(req[o].contest, req[o].user)'
  <2>1. req' = req /\ step' = [step EXCEPT ![r] = "run"]
    BY <1>7 DEF Given, Replace, DeleteContest, Register, Submit, FoundSlug, Run
  <2>2. CASE o # r
    BY <1>0, <1>5, <2>1, <2>2 DEF StateTypes
  <2>3. CASE o = r
    <3>1. step[o] = "again"
      BY <1>0, <1>7, <2>1, <2>3
         DEF Given, Replace, DeleteContest, Register, Submit, FoundSlug, Loaded, HandlerInv
    <3> QED BY <1>5, <2>1, <3>1
  <2> QED BY <2>2, <2>3
<1>8. ASSUME NEW r \in Requests, RunStatement(r) PROVE step'[o] = step[o] /\ req'[o] = req[o]
  BY <1>8 DEF RunStatement
<1> QED BY <1>1, <1>2, <1>3, <1>5, <1>6, <1>7, <1>8, StepKinds

LEMMA InitFits ==
  ASSUME Init
  PROVE  FullInv
<1>1. StateTypes
  BY DEF Init, StateTypes, Stages
<1>2. Lists
  BY ListShort DEF Init, Lists, NoTransaction
<1>3. ASSUME NEW r \in Requests
      PROVE  HandlerInv(r) /\ TransactionInv(r) /\ Qualified(r)
  <2>1. step[r] = "idle" /\ req[r] = NoRequest /\ tx[r] = NoTransaction /\ outcome[r] = "none"
    BY DEF Init
  <2>2. req[r].kind = "none"
    BY <2>1 DEF NoRequest
  <2> QED BY <2>1, <2>2 DEF HandlerInv, TransactionInv, Qualified
<1>4. PICK slug \in Injection(Existing, {Slug(t, 0) : t \in Titles}),
           entered \in SUBSET (Existing \X Users) :
        db = {ContestRow(c, slug[c]) : c \in Existing}
               \cup {ParticipantRow(e, e[1], e[2]) : e \in entered}
  BY DEF Init
<1>5. ASSUME NEW c \in Existing
      PROVE  Shaped(ContestRow(c, slug[c])) /\ Earned(ContestRow(c, slug[c]))
  <2>1. PICK t \in Titles : slug[c] = Slug(t, 0)
    BY <1>4 DEF Injection
  <2>2. ContestRow(c, slug[c]) \in Rows
    BY <2>1 DEF ContestRow, Rows, Contest, Slug, ContestIds
  <2> QED BY <2>2 DEF Shaped, Earned, ContestRow, Contest
<1>6. ASSUME NEW e \in entered
      PROVE  Shaped(ParticipantRow(e, e[1], e[2])) /\ Earned(ParticipantRow(e, e[1], e[2]))
  <2> DEFINE x == ParticipantRow(e, e[1], e[2])
  <2>1. e \in Existing \X Users /\ e \notin Requests
    BY NamesAreFresh
  <2>2. e[1] \in Existing /\ e[2] \in Users
    BY <2>1
  <2>3. x \in Rows
    BY <2>1, <2>2 DEF ParticipantRow, Rows, Contest, Registration, ContestIds
  <2>4. x.id = <<"participant", e>> /\ MadeFor(e) = e[1]
    BY <2>1 DEF ParticipantRow, MadeFor
  <2> QED BY <2>1, <2>2, <2>3, <2>4 DEF Shaped, Earned, Entrant
<1>7. \A x \in db : Shaped(x) /\ Earned(x)
  BY <1>4, <1>5, <1>6
<1> QED BY <1>1, <1>2, <1>3, <1>7, InitKeeps DEF FullInv, ContestInv

LEMMA FullInvInductive == Spec => []FullInv
<1>1. Init => FullInv
  BY InitFits
<1>2. FullInv /\ [Next]_vars => FullInv'
  <2> SUFFICES ASSUME FullInv, [Next]_vars PROVE FullInv'
    OBVIOUS
  <2>1. LockInv'
    BY NextKeeps DEF FullInv
  <2>2. StateTypes' /\ \A o \in Requests : HandlerInv(o)'
    BY NextKeepsHandlers
  <2>3. Lists' /\ \A o \in Requests : TransactionInv(o)'
    BY NextKeepsTransactions
  <2>4. \A x \in db' : Shaped(x)' /\ Earned(x)'
    BY NextKeepsRows
  <2>5. \A o \in Requests : Qualified(o)'
    BY NextKeepsQualified
  <2>6. ContestInv'
    BY <2>2, <2>3, <2>4, <2>5 DEF ContestInv
  <2> QED BY <2>1, <2>2, <2>3, <2>6 DEF FullInv
<1> QED BY <1>1, <1>2, PTL DEF Spec

(* Whoever submitted to a contest had registered for it and it had begun,    *)
(* however submissions, registrations and deletions are interleaved: what   *)
(* can_submit_to_contest found is still so when create_submission commits,  *)
(* or the foreign key refuses the submission.                              *)
THEOREM SubmittersHadRegistered == Spec => []SubmittersAreParticipants
<1>1. FullInv => SubmittersAreParticipants
  <2> SUFFICES ASSUME FullInv PROVE SubmittersAreParticipants
    OBVIOUS
  <2>1. TypeOK
    <3>1. db \in SUBSET Rows
      BY DEF FullInv, ContestInv, Shaped
    <3>2. ASSUME NEW r \in Requests
          PROVE  /\ tx[r].ins \in SUBSET Rows /\ tx[r].del \subseteq db
                 /\ req[r] \in AnyRequest(r, ContestIds) \cup {NoRequest}
      <4>1. TransactionInv(r) /\ HandlerInv(r)
        BY DEF FullInv, ContestInv
      <4>2. tx[r].ins \in SUBSET Rows
        BY <4>1 DEF TransactionInv, NoTransaction, Shaped
      <4>3. tx[r].del \subseteq db
        BY DEF FullInv, LockInv, HeldRows
      <4> QED BY <4>1, <4>2, <4>3 DEF HandlerInv
    <3> QED BY <3>1, <3>2 DEF TypeOK, FullInv, StateTypes
  <2>2. ASSUME NEW x \in Tagged(db, "submission"), NEW c \in ContestIds, RefersTo(x, Contest(c))
        PROVE  Registered(db, c, req[x.id[2]].user) /\ stage[c] # "upcoming"
    <3>1. x \in db /\ x.id[1] = "submission" /\ Shaped(x) /\ Earned(x)
      BY DEF Tagged, FullInv, ContestInv
    <3>2. c = req[x.id[2]].contest
      BY <2>2, <3>1 DEF Shaped, RefersTo, Contest
    <3>3. Contest(c) \in Ids(db)
      BY <2>2, <3>1 DEF FullInv, LockInv, NoOrphans, RefersTo
    <3> QED BY <2>2, <3>1, <3>2, <3>3 DEF Earned, MayStill, RefersTo
  <2> QED BY <2>1, <2>2 DEF SubmittersAreParticipants
<1> QED BY <1>1, FullInvInductive, PTL
-----------------------------------------------------------------------------
(* Registration is one step                                                *)

LEMMA RegistrationBegins ==
  ASSUME Init
  PROVE  Registrations!Init
<1>1. FullInv
  BY InitFits
<1>2. Accepted = {}
  BY DEF Init, Accepted
<1>3. ASSUME NEW e \in Entries PROVE e \in OpenContests \X Users
  <2>1. PICK x \in db : x.id[1] = "participant" /\ Registration(e[1], e[2]) \in x.keys
    BY DEF Entries, Registered, Tagged
  <2>2. \E v \in Users : x = ParticipantRow(x.id[2], MadeFor(x.id[2]), v)
    BY <1>1, <2>1 DEF FullInv, ContestInv, Shaped
  <2>3. Contest(e[1]) \in x.parents
    BY <2>1, <2>2 DEF ParticipantRow, Registration
  <2>4. Contest(e[1]) \in Ids(db)
    BY <1>1, <2>3 DEF FullInv, LockInv, NoOrphans
  <2> QED BY <2>4 DEF Entries, OpenContests
<1> QED BY <1>2, <1>3 DEF Registrations!Init, OpenContests

(* What a commit does to contests, registrations and answers.              *)
LEMMA CommitOfRegistration ==
  ASSUME FullInv, NEW r \in Requests, Finish(r), req[r].kind = "register"
  PROVE  \E c \in ContestIds, u \in Users : Registrations!Enter(r, c, u)
<1> DEFINE c == req[r].contest  u == req[r].user  x == ParticipantRow(r, c, u)
<1>1. /\ TransactionInv(r) /\ HandlerInv(r) /\ LockInv /\ StateTypes /\ step[r] = "run"
      /\ db' = View(r) /\ tx[r].todo = <<>> /\ req' = req
      /\ outcome' = [outcome EXCEPT ![r] = "ok"]
  BY DEF FullInv, ContestInv, Finish, Commit, View
<1>2. c \in ContestIds /\ u \in Users /\ outcome[r] = "none"
  BY <1>1, RequestParts DEF HandlerInv
<1>3. tx[r].del = {} /\ \A y \in tx[r].ins : y = x
  BY <1>1 DEF TransactionInv, Removes, Adds
<1>4. x \in tx[r].ins
  <2>1. WillEnter(r)
    BY <1>1 DEF TransactionInv
  <2>2. Range(tx[r].todo) = {}
    BY <1>1, ListShort
  <2> QED BY <2>1, <2>2 DEF WillEnter
<1>5. db' = db \cup {x}
  BY <1>1, <1>3, <1>4 DEF View
<1>6. x.id = <<"participant", r>> /\ x.keys = {Registration(c, u)} /\ x.parents = {Contest(c)}
  BY DEF ParticipantRow
<1>7. Contest(c) \in Ids(db)
  <2>1. Contest(c) \in Ids(View(r))
    BY <1>1, <1>4, <1>6 DEF LockInv, ViewsAreClosed, View
  <2>2. Contest(c) # x.id
    BY <1>6 DEF Contest
  <2> QED BY <1>1, <1>5, <2>1, <2>2 DEF Ids
<1>8. \A y \in db : ~Collide(x, y)
  BY <1>1, <1>3, <1>4 DEF LockInv, ViewsAreUnique
<1> HIDE DEF x
<1>9. ~Registered(db, c, u)
  BY <1>6, <1>8 DEF Registered, Tagged, Collide
<1>10. OpenContests' = OpenContests
  <2>1. \A d \in ContestIds : Contest(d) \in Ids(db') <=> Contest(d) \in Ids(db)
    BY <1>5, <1>6 DEF Ids, Contest
  <2> QED BY <2>1 DEF OpenContests, Ids, Contest, ContestIds
<1>11. Entries' = Entries \cup {<<c, u>>}
  <2>1. \A d \in ContestIds, v \in Users :
          Registered(db', d, v) <=> Registered(db, d, v) \/ (d = c /\ v = u)
    BY <1>5, <1>6 DEF Registered, Tagged, Registration
  <2>2. \A e \in ContestIds \X Users : e = <<e[1], e[2]>> /\ e[1] \in ContestIds /\ e[2] \in Users
    OBVIOUS
  <2>3. Entries' = {e \in ContestIds \X Users : Registered(db', e[1], e[2])}
    BY DEF Entries, Registered, Tagged, Registration, ContestIds
  <2>4. <<c, u>> \in ContestIds \X Users /\ <<c, u>>[1] = c /\ <<c, u>>[2] = u
    BY <1>2
  <2>5. ASSUME NEW e \in ContestIds \X Users
        PROVE  Registered(db', e[1], e[2]) <=> Registered(db, e[1], e[2]) \/ e = <<c, u>>
    BY <2>1, <2>2
  <2> HIDE DEF c, u
  <2> QED BY <2>3, <2>4, <2>5 DEF Entries
<1>12. Accepted' = Accepted \cup {r} /\ r \notin Accepted
  BY <1>1, <1>2 DEF Accepted, StateTypes
<1>13. c \in OpenContests /\ <<c, u>> \notin Entries
  BY <1>2, <1>7, <1>9 DEF OpenContests, Entries
<1>14. Registrations!Enter(r, c, u)
  BY <1>10, <1>11, <1>12, <1>13 DEF Registrations!Enter
<1> QED BY <1>2, <1>14

LEMMA AcceptedStays ==
  ASSUME FullInv, NEW r \in Requests, Finish(r), req[r].kind # "register"
  PROVE  Accepted' = Accepted
BY DEF FullInv, StateTypes, Finish, Accepted

LEMMA EntriesRead ==
  /\ Entries' = {e \in ContestIds \X Users : Registered(db', e[1], e[2])}
  /\ OpenContests' = {c \in ContestIds : Contest(c) \in Ids(db')}
BY DEF Entries, OpenContests, Registered, Tagged, Registration, Ids, Contest, ContestIds

LEMMA CommitOfDeletion ==
  ASSUME FullInv, NEW r \in Requests, Finish(r), req[r].kind = "delete"
  PROVE  \/ \E c \in ContestIds : Registrations!Delete(c)
         \/ UNCHANGED Registrations!vars
<1> DEFINE c == req[r].contest
<1>1. /\ TransactionInv(r) /\ HandlerInv(r) /\ LockInv /\ step[r] = "run"
      /\ db' = View(r) /\ tx[r].todo = <<>> /\ \A x \in db : Shaped(x)
  BY DEF FullInv, ContestInv, Finish, Commit, View
<1>2. c \in ContestIds
  BY <1>1, RequestParts DEF HandlerInv
<1>3. Contest(c) \notin Ids(db')
  <2>1. WillRemove(r)
    BY <1>1 DEF TransactionInv
  <2>2. Range(tx[r].todo) = {}
    BY <1>1, ListShort
  <2> QED BY <1>1, <2>1, <2>2 DEF WillRemove
<1>4. \A x \in tx[r].ins : x.id[1] = "submission"
  BY <1>1 DEF TransactionInv, Adds
<1>5. \A d \in ContestIds : d # c => (Contest(d) \in Ids(db') <=> Contest(d) \in Ids(db))
  <2> SUFFICES ASSUME NEW d \in ContestIds, d # c
               PROVE  Contest(d) \in Ids(db') <=> Contest(d) \in Ids(db)
    OBVIOUS
  <2>1. \A x \in tx[r].ins : x.id # Contest(d)
    BY <1>4 DEF Contest
  <2>2. \A x \in tx[r].del : x.id # Contest(d)
    BY <1>1 DEF TransactionInv, Removes, Contest, Entrant
  <2> QED BY <1>1, <2>1, <2>2 DEF Ids, View
<1>6. ASSUME NEW d \in ContestIds, NEW u
      PROVE  Registered(db', d, u) <=> Registered(db, d, u) /\ d # c
  <2>1. ASSUME Registered(db', d, u) PROVE Registered(db, d, u) /\ d # c
    <3>1. PICK x \in db' : x.id[1] = "participant" /\ Registration(d, u) \in x.keys
      BY <2>1 DEF Registered, Tagged
    <3>2. x \in db
      BY <1>1, <1>4, <3>1 DEF View
    <3>3. \E v \in Users : x = ParticipantRow(x.id[2], MadeFor(x.id[2]), v)
      BY <1>1, <3>1, <3>2 DEF Shaped
    <3>4. Contest(d) \in x.parents
      BY <3>1, <3>3 DEF ParticipantRow, Registration
    <3>5. Contest(d) \in Ids(db')
      BY <1>1, <3>4 DEF LockInv, ViewsAreClosed
    <3> QED BY <1>3, <3>1, <3>2, <3>5 DEF Registered, Tagged
  <2>2. ASSUME Registered(db, d, u), d # c PROVE Registered(db', d, u)
    <3>1. PICK x \in db : x.id[1] = "participant" /\ Registration(d, u) \in x.keys
      BY <2>2 DEF Registered, Tagged
    <3>2. \E v \in Users : x = ParticipantRow(x.id[2], MadeFor(x.id[2]), v)
      BY <1>1, <3>1 DEF Shaped
    <3>3. d = MadeFor(x.id[2])
      BY <3>1, <3>2 DEF ParticipantRow, Registration
    <3>4. x \notin tx[r].del
      BY <1>1, <2>2, <3>1, <3>3 DEF TransactionInv, Removes, Contest, Entrant
    <3> QED BY <1>1, <3>1, <3>4 DEF Registered, Tagged, View
  <2> QED BY <2>1, <2>2
<1>7. Accepted' = Accepted
  BY AcceptedStays
<1> HIDE DEF c
<1>8. OpenContests' = OpenContests \ {c}
  BY <1>3, <1>5, EntriesRead DEF OpenContests
<1>9. Entries' = Entries \ ({c} \X Users)
  BY <1>6, EntriesRead DEF Entries
<1>10. CASE c \in OpenContests
  BY <1>2, <1>7, <1>8, <1>9, <1>10 DEF Registrations!Delete
<1>11. CASE c \notin OpenContests
  <2>1. OpenContests' = OpenContests
    BY <1>8, <1>11
  <2>2. \A u \in Users : ~Registered(db, c, u)
    <3> SUFFICES ASSUME NEW u \in Users, Registered(db, c, u) PROVE FALSE
      OBVIOUS
    <3>1. PICK x \in db : x.id[1] = "participant" /\ Registration(c, u) \in x.keys
      BY DEF Registered, Tagged
    <3>2. \E v \in Users : x = ParticipantRow(x.id[2], MadeFor(x.id[2]), v)
      BY <1>1, <3>1 DEF Shaped
    <3>3. Contest(c) \in x.parents
      BY <3>1, <3>2 DEF ParticipantRow, Registration
    <3>4. Contest(c) \in Ids(db)
      BY <1>1, <3>3 DEF LockInv, NoOrphans
    <3> QED BY <1>2, <1>11, <3>4 DEF OpenContests
  <2>3. Entries' = Entries
    BY <1>9, <2>2 DEF Entries
  <2> QED BY <1>7, <2>1, <2>3 DEF Registrations!vars
<1> QED BY <1>10, <1>11

LEMMA CommitOfOthers ==
  ASSUME FullInv, NEW r \in Requests, Finish(r), req[r].kind \notin {"register", "delete"}
  PROVE  \/ \E c \in ContestIds : Registrations!Create(c)
         \/ UNCHANGED Registrations!vars
<1> DEFINE c == req[r].contest
<1>1. /\ TransactionInv(r) /\ HandlerInv(r) /\ LockInv /\ step[r] = "run" /\ db' = View(r)
  BY DEF FullInv, ContestInv, Finish, Commit, View
<1>2. c \in ContestIds
  BY <1>1, RequestParts DEF HandlerInv
<1>3. \A x \in tx[r].ins \cup tx[r].del : x.id[1] # "participant"
  BY <1>1 DEF TransactionInv, Adds, Removes, Contest, SubmissionRow
<1>4. Entries' = Entries
  <2>1. Tagged(db', "participant") = Tagged(db, "participant")
    BY <1>1, <1>3 DEF Tagged, View
  <2> QED BY <2>1, EntriesRead DEF Entries, Registered
<1>5. Accepted' = Accepted
  BY AcceptedStays
<1>6. CASE req[r].kind = "create"
  <2>1. tx[r].del = {}
    BY <1>1, <1>6 DEF TransactionInv, Removes
  <2>2. \A x \in tx[r].ins, d \in ContestIds : x.id = Contest(d) => d = c
    BY <1>1, <1>6 DEF TransactionInv, Adds, Contest
  <2>3. db' = db \cup tx[r].ins
    BY <1>1, <2>1 DEF View
  <2>4. CASE \E x \in tx[r].ins : x.id = Contest(c)
    <3>1. PICK x \in tx[r].ins : x.id = Contest(c)
      BY <2>4
    <3>2. \A y \in db : ~Collide(x, y)
      BY <1>1, <2>1, <3>1 DEF LockInv, ViewsAreUnique
    <3>3. c \notin OpenContests
      BY <3>1, <3>2 DEF OpenContests, Collide, Ids
    <3>4. OpenContests' = OpenContests \cup {c}
      BY <1>2, <2>2, <2>3, <3>1, EntriesRead DEF OpenContests, Ids
    <3>5. Registrations!Create(c)
      BY <1>4, <1>5, <3>3, <3>4 DEF Registrations!Create
    <3> QED BY <1>2, <3>5
  <2>5. CASE ~\E x \in tx[r].ins : x.id = Contest(c)
    <3>1. OpenContests' = OpenContests
      BY <2>2, <2>3, <2>5, EntriesRead DEF OpenContests, Ids
    <3> QED BY <1>4, <1>5, <3>1 DEF Registrations!vars
  <2> QED BY <2>4, <2>5
<1>7. CASE req[r].kind # "create"
  <2>1. \A d \in ContestIds : Contest(d) \in Ids(db') <=> Contest(d) \in Ids(db)
    <3>1. CASE req[r].kind = "update"
      <4>1. Ids(tx[r].ins) = Ids(tx[r].del) /\ tx[r].del \subseteq db
        BY <1>1, <3>1 DEF TransactionInv, LockInv, HeldRows
      <4>2. Ids(db') = Ids(db)
        <5>1. Ids(db') = Ids(db \ tx[r].del) \cup Ids(tx[r].ins)
          BY <1>1 DEF View, Ids
        <5>2. Ids(db) = Ids(db \ tx[r].del) \cup Ids(tx[r].del)
          BY <4>1 DEF Ids
        <5> QED BY <4>1, <5>1, <5>2
      <4> QED BY <4>2
    <3>2. CASE req[r].kind # "update"
      <4>1. \A x \in tx[r].ins \cup tx[r].del : x.id[1] # "contest"
        BY <1>1, <1>7, <3>2 DEF TransactionInv, Adds, Removes, SubmissionRow
      <4> QED BY <1>1, <4>1 DEF Ids, View, Contest
    <3> QED BY <3>1, <3>2
  <2>2. OpenContests' = OpenContests
    BY <2>1, EntriesRead DEF OpenContests
  <2> QED BY <1>4, <1>5, <2>2 DEF Registrations!vars
<1> QED BY <1>6, <1>7

LEMMA RegistrationSteps ==
  ASSUME FullInv, [Next]_vars
  PROVE  [Registrations!Next]_(Registrations!vars)
<1>1. ASSUME NEW r \in Requests, Finish(r)
      PROVE  [Registrations!Next]_(Registrations!vars)
  BY <1>1, CommitOfRegistration, CommitOfDeletion, CommitOfOthers DEF Registrations!Next
<1>2. ASSUME db' = db, Accepted' = Accepted PROVE UNCHANGED Registrations!vars
  <2>1. Entries' = Entries /\ OpenContests' = OpenContests
    BY <1>2, EntriesRead DEF Entries, OpenContests
  <2> QED BY <1>2, <2>1 DEF Registrations!vars
<1>3. ASSUME NEW r \in Requests, Given(r) \/ Moving(r) \/ RunStatement(r)
      PROVE  Accepted' = Accepted /\ db' = db
  BY <1>3 DEF Given, Replace, DeleteContest, Register, Submit, FoundSlug, Run, Moving, UpdateContest,
              RegistrationOpen, MaySubmit, Goto, RunStatement, Execute, Accepted
<1>4. CASE Aside
  <2>1. Accepted' = Accepted /\ db' = db
    BY <1>4 DEF Aside, vars, NextSlug, TimePasses, Accepted
  <2> QED BY <1>2, <2>1
<1>5. ASSUME NEW r \in Requests, Ending(r) PROVE Accepted' = Accepted /\ db' = db
  <2>1. outcome[r] = "none"
    BY <1>5 DEF Ending, FullInv, ContestInv, HandlerInv
  <2>2. /\ req' = req /\ db' = db
        /\ \E how : how # "ok" /\ outcome' = [outcome EXCEPT ![r] = how]
    BY <1>5 DEF Ending, Refuse, Rollback
  <2> QED BY <2>1, <2>2 DEF Accepted, FullInv, StateTypes
<1>6. ASSUME NEW r \in Requests, NEW q, Begin(r, q) PROVE Accepted' = Accepted /\ db' = db
  <2>1. outcome[r] = "none" /\ UNCHANGED <<db, outcome>> /\ req' = [req EXCEPT ![r] = q]
    BY <1>6 DEF Begin, FullInv, ContestInv, HandlerInv
  <2> QED BY <2>1 DEF Accepted, FullInv, StateTypes
<1> QED BY <1>1, <1>2, <1>3, <1>4, <1>5, <1>6, StepKinds

(* A registration takes effect in one step, when it commits: its contest     *)
(* exists then and the user is not yet in it, although register_for_contest *)
(* read the contest and looked for a registration some steps earlier; and   *)
(* delete_contest takes all registrations of its contest with it at once.   *)
THEOREM RegistrationIsAtomic == Spec => ImplementsRegistration
<1>1. Init => Registrations!Init
  BY RegistrationBegins
<1>2. FullInv /\ [Next]_vars => [Registrations!Next]_(Registrations!vars)
  BY RegistrationSteps
<1> QED BY <1>1, <1>2, FullInvInductive, PTL DEF Spec, ImplementsRegistration, Registrations!Spec
-----------------------------------------------------------------------------
(* Rows and who made them                                                  *)

LEMMA OrphansFormed ==
  ASSUME NEW x, Formed(x), x.id[1] = "submission"
  PROVE  Formed(Orphaned(x)) /\ Orphaned(x).id = x.id
<1>1. x.keys = {} /\ ~x.cascade
  BY DEF Formed
<1>2. /\ Orphaned(x).id = x.id /\ Orphaned(x).keys = x.keys
      /\ Orphaned(x).cascade = x.cascade
  BY DEF Orphaned
<1> QED BY <1>1, <1>2 DEF Formed

LEMMA NewRowsFormed ==
  /\ \A c, t, n : Formed(ContestRow(c, Slug(t, n))) /\ ContestRow(c, Slug(t, n)).id[2] = c
  /\ \A b, c, u : Formed(ParticipantRow(b, c, u)) /\ ParticipantRow(b, c, u).id[2] = b
  /\ \A r, c, i, p :
       Formed(ContestProblemRow(r, c, i, p)) /\ ContestProblemRow(r, c, i, p).id[2] = r
  /\ \A r, c : Formed(SubmissionRow(r, c)) /\ SubmissionRow(r, c).id[2] = r
<1>1. ASSUME NEW c, NEW t, NEW n
      PROVE  Formed(ContestRow(c, Slug(t, n))) /\ ContestRow(c, Slug(t, n)).id[2] = c
  <2>1. /\ ContestRow(c, Slug(t, n)).id = <<"contest", c>>
        /\ ContestRow(c, Slug(t, n)).keys = {Slug(t, n)}
        /\ Slug(t, n)[1] = "slug"
    BY DEF ContestRow, Contest, Slug
  <2> QED BY <2>1 DEF Formed
<1>2. ASSUME NEW b, NEW c, NEW u
      PROVE  Formed(ParticipantRow(b, c, u)) /\ ParticipantRow(b, c, u).id[2] = b
  BY DEF Formed, ParticipantRow, Registration
<1>3. ASSUME NEW r, NEW c, NEW i, NEW p
      PROVE  /\ Formed(ContestProblemRow(r, c, i, p))
             /\ ContestProblemRow(r, c, i, p).id[2] = r
  <2> DEFINE key == <<"assignment", c, p>>  x == ContestProblemRow(r, c, i, p)
  <2>1. x.id = <<"problem", r, i>> /\ x.keys = {key}
    BY DEF ContestProblemRow
  <2>2. key[1] = "assignment" /\ key[2] = c /\ key[3] = p
    OBVIOUS
  <2>3. x = ContestProblemRow(x.id[2], key[2], x.id[3], key[3])
    BY <2>1, <2>2
  <2> HIDE DEF x, key
  <2> QED BY <2>1, <2>2, <2>3 DEF Formed, x
<1>4. ASSUME NEW r, NEW c
      PROVE  Formed(SubmissionRow(r, c)) /\ SubmissionRow(r, c).id[2] = r
  BY DEF Formed, SubmissionRow
<1> QED BY <1>1, <1>2, <1>3, <1>4

(* What kinds of rows share keys and what refers to a contest.             *)
LEMMA FormedParts ==
  ASSUME NEW x, Formed(x)
  PROVE  /\ x.id[1] \in {"contest", "participant", "problem", "submission"}
         /\ \A t, n : Slug(t, n) \in x.keys => x.id[1] = "contest"
         /\ \A c, u : Registration(c, u) \in x.keys => x.id[1] = "participant"
         /\ \A c, p : <<"assignment", c, p>> \in x.keys =>
              x.id[1] = "problem" /\ x.parents = {Contest(c)}
         /\ x.parents # {} /\ ~x.cascade => x.id[1] = "submission"
         /\ x.id[1] = "contest" => x.parents = {}
<1>1. CASE x.id[1] = "contest"
  <2>1. PICK key \in x.keys : key[1] = "slug" /\ x = ContestRow(x.id[2], key)
    BY <1>1 DEF Formed
  <2>2. x.keys = {key} /\ x.parents = {}
    BY <2>1 DEF ContestRow
  <2> QED BY <1>1, <2>1, <2>2 DEF Registration
<1>2. CASE x.id[1] = "participant"
  BY <1>2 DEF Formed, Slug
<1>3. CASE x.id[1] = "problem"
  <2>1. PICK key \in x.keys :
          /\ key[1] = "assignment"
          /\ x = ContestProblemRow(x.id[2], key[2], x.id[3], key[3])
    BY <1>3 DEF Formed
  <2>2. /\ x.keys = {<<"assignment", key[2], key[3]>>} /\ x.parents = {Contest(key[2])}
        /\ x.cascade
    BY <2>1 DEF ContestProblemRow
  <2> QED BY <1>3, <2>2 DEF Slug, Registration
<1>4. CASE x.id[1] = "submission"
  BY <1>4 DEF Formed
<1> QED BY <1>1, <1>2, <1>3, <1>4 DEF Formed

LEMMA DoneStays ==
  ASSUME FullInv, [Next]_vars, NEW o \in Requests, step[o] = "done"
  PROVE  step'[o] = "done"
<1>0. StateTypes
  BY DEF FullInv
<1>1. CASE Aside
  BY <1>1 DEF Aside, vars, NextSlug, TimePasses
<1>2. ASSUME NEW r \in Requests, NEW q, Begin(r, q) PROVE step'[o] = "done"
  BY <1>0, <1>2 DEF Begin, StateTypes
<1>3. ASSUME NEW r \in Requests, Ending(r) \/ Given(r) \/ Moving(r) \/ Finish(r)
      PROVE  step'[o] = "done"
  <2>1. /\ step[r] \notin {"idle", "done"}
        /\ \E s : step' = [step EXCEPT ![r] = s]
    BY <1>3 DEF Ending, Refuse, Given, Replace, DeleteContest, Register, Submit, FoundSlug, Loaded,
                Run, Moving, UpdateContest, RegistrationOpen, MaySubmit, Goto, Finish
  <2> QED BY <1>0, <2>1 DEF StateTypes
<1>4. ASSUME NEW r \in Requests, RunStatement(r) PROVE step'[o] = "done"
  BY <1>4 DEF RunStatement
<1> QED BY <1>1, <1>2, <1>3, <1>4, StepKinds

LEMMA MadeStays ==
  ASSUME FullInv, [Next]_vars, NEW x, MadeEarlier(x)
  PROVE  MadeEarlier(x)'
BY DoneStays DEF MadeEarlier

LEMMA KnownMade ==
  ASSUME FullInv, NEW c \in Known, c \in Requests
  PROVE  step[c] = "done"
<1>1. c \notin Existing
  BY NamesAreFresh
<1>2. outcome[c] = "ok"
  BY <1>1 DEF Known
<1> QED BY <1>2 DEF FullInv, ContestInv, HandlerInv

(* What a transaction sees after a change.                                 *)
LEMMA ChangeSeen ==
  ASSUME LockInv, NEW r \in Requests, NEW out, NEW in, NEW rest, Change(r, out, in, rest), db' = db
  PROVE  /\ tx'[r].ins = (tx[r].ins \ out) \cup in /\ tx'[r].todo = rest
         /\ View(r)' = (View(r) \ out) \cup in
         /\ \A o \in Others(r) : tx'[o] = tx[o]
<1>1. tx'[r] = [ins  |-> (tx[r].ins \ out) \cup in, del |-> tx[r].del \cup (out \cap db),
                todo |-> rest]
  BY DEF LockInv, Change
<1>2. \A o \in Others(r) : tx'[o] = tx[o]
  BY DEF LockInv, Change, Others
<1> QED BY <1>1, <1>2 DEF View

(* A row of a transaction is its own or was made by a request that is done. *)
Own(r, x) == Formed(x) /\ (x.id[2] = r \/ MadeEarlier(x))
OwnRows(r) ==
  /\ \A x \in tx[r].ins : Own(r, x)
  /\ \A s \in Range(tx[r].todo) : s.op \in {"insert", "rename"} => Own(r, s.arg)

LEMMA RowsAreOwn ==
  RowsInv <=> (\A x \in db : Formed(x) /\ MadeEarlier(x)) /\ \A r \in Requests : OwnRows(r)
BY DEF RowsInv, OwnRows, Own

LEMMA ViewIsOwn ==
  ASSUME RowsInv, NEW r \in Requests
  PROVE  \A x \in View(r) : Own(r, x)
BY DEF RowsInv, View, Own

(* The statements a handler gives to its transaction make its own rows.     *)
LEMMA GivenRows ==
  ASSUME FullInv, NEW r \in Requests, Given(r)
  PROVE  \E statements :
           /\ Run(r, statements) /\ IsList(statements)
           /\ \A s \in Range(statements) : s.op \in {"insert", "rename"} => Own(r, s.arg)
<1> DEFINE c == req[r].contest
           Fine(q) == /\ IsList(q)
                      /\ \A s \in Range(q) : s.op \in {"insert", "rename"} => Own(r, s.arg)
<1>0. HandlerInv(r) /\ step[r] \notin {"idle", "done"}
  BY DEF FullInv, ContestInv, Given, Replace, DeleteContest, Register, Submit, FoundSlug, Loaded
<1>1. req[r] \in AnyRequest(r, ContestIds)
  BY <1>0 DEF HandlerInv
<1>2. ASSUME req[r].kind \in {"create", "replace"} PROVE Fine(Assignments(r, c, req[r].list))
  <2>1. req[r].list \in ProblemLists
    BY <1>1, <1>2, RequestParts
  <2>2. \A i, p : Own(r, Insert(ContestProblemRow(r, c, i, p)).arg)
    BY NewRowsFormed DEF Own, Insert, Statement
  <2> QED BY <2>1, <2>2, AssignmentsListed
<1>3. ASSUME NEW p, NEW q, Fine(p), Fine(q) PROVE Fine(p \o q)
  BY <1>3, ListConcat
<1>4. ASSUME NEW x, Own(r, x) PROVE Fine(<<Insert(x)>>) /\ Fine(<<Rename(x)>>)
  <2>1. Insert(x).arg = x /\ Rename(x).arg = x
    BY DEF Insert, Rename, Statement
  <2> QED BY <1>4, <2>1, ListShort
<1>5. ASSUME NEW op \in {"delete", "detach"}, NEW ids PROVE Fine(ForEach(op, ids))
  <2>1. Statement(op, ids).op = op
    BY DEF Statement
  <2> QED BY <2>1, ListShort
<1> HIDE DEF Fine, c
<1>6. CASE Replace(r)
  <2>1. req[r].kind = "replace"
    BY <1>0, <1>6 DEF HandlerInv, Replace
  <2>2. Fine(<<Clear(Contest(c), "problem")>>)
    <3>1. Clear(Contest(c), "problem").op = "clear"
      BY DEF Clear, Statement
    <3> QED BY <3>1, ListShort DEF Fine
  <2>3. Fine(ReplaceStatements(r))
    BY <1>2, <1>3, <2>1, <2>2 DEF ReplaceStatements, c
  <2> QED BY <1>6, <2>3 DEF Fine, Replace
<1>7. CASE DeleteContest(r)
  <2>1. Fine(DeleteStatements(r, c))
    BY <1>3, <1>5 DEF DeleteStatements, Detach, Delete
  <2> QED BY <1>7, <2>1 DEF Fine, DeleteContest, c
<1>8. CASE Register(r)
  <2>1. Fine(<<Insert(ParticipantRow(r, c, req[r].user))>>)
    BY <1>4, NewRowsFormed DEF Own
  <2> QED BY <1>8, <2>1 DEF Fine, Register, c
<1>9. CASE Submit(r)
  <2>1. Fine(<<Insert(SubmissionRow(r, c))>>)
    BY <1>4, NewRowsFormed DEF Own
  <2> QED BY <1>9, <2>1 DEF Fine, Submit, c
<1>10. CASE FoundSlug(r)
  <2> DEFINE x == ContestRow(c, Candidate(r))
  <2>1. Formed(x) /\ x.id[2] = c
    BY NewRowsFormed DEF Candidate
  <2>2. req[r].kind \in {"create", "update"}
    BY <1>0, <1>10 DEF HandlerInv, FoundSlug
  <2>3. Own(r, x)
    <3>1. CASE req[r].kind = "create"
      <4>1. c = r
        BY <1>1, <3>1, RequestParts DEF c
      <4> QED BY <2>1, <4>1 DEF Own
    <3>2. CASE req[r].kind = "update"
      <4>1. c \in Known
        BY <1>0, <3>2 DEF HandlerInv, c
      <4>2. MadeEarlier(x)
        BY <2>1, <4>1, KnownMade DEF MadeEarlier
      <4> QED BY <2>1, <4>2 DEF Own
    <3> QED BY <2>2, <3>1, <3>2
  <2> HIDE DEF x
  <2>4. CASE req[r].kind = "create"
    <3>1. Fine(<<Insert(x)>> \o Assignments(r, c, req[r].list))
      BY <1>2, <1>3, <1>4, <2>3, <2>4
    <3> QED BY <1>10, <2>4, <3>1 DEF Fine, FoundSlug, c, x
  <2>5. CASE req[r].kind # "create"
    <3>1. Fine(<<Rename(x)>>)
      BY <1>4, <2>3
    <3> QED BY <1>10, <2>5, <3>1 DEF Fine, FoundSlug, c, x
  <2> QED BY <2>4, <2>5
<1> QED BY <1>6, <1>7, <1>8, <1>9, <1>10 DEF Given

LEMMA ExecuteRows ==
  ASSUME FullInv, RowsInv, NEW r \in Requests, step[r] = "run", Execute(r)
  PROVE  /\ \A x \in tx'[r].ins : Own(r, x)
         /\ \A s \in Range(tx'[r].todo) : s.op \in {"insert", "rename"} => Own(r, s.arg)
<1> DEFINE s == Head(tx[r].todo)  rest == Tail(tx[r].todo)
<1>1. IsList(rest) /\ Range(tx[r].todo) = {s} \cup Range(rest)
  BY ListParts DEF FullInv, Lists, Execute
<1>2. /\ OwnRows(r) /\ LockInv /\ Plans(r, s) /\ \A x \in View(r) : Own(r, x)
  BY <1>1, RowsAreOwn, ViewIsOwn DEF FullInv, ContestInv, TransactionInv
<1>3. /\ db' = db
      /\ \/ s.op = "insert" /\ ExecuteInsert(r, s.arg, rest)
         \/ s.op = "rename" /\ ExecuteRename(r, s.arg, rest)
         \/ s.op = "delete" /\ ExecuteDelete(r, s.arg, rest)
         \/ s.op = "detach" /\ ExecuteDetach(r, s.arg, rest)
         \/ s.op = "clear"  /\ ExecuteClear(r, s.arg[1], s.arg[2], rest)
  BY DEF Execute
<1>4. \A t \in Range(rest) : t.op \in {"insert", "rename"} => Own(r, t.arg)
  BY <1>1, <1>2 DEF OwnRows
<1>5. ASSUME s.op \in {"insert", "rename"} PROVE Own(r, s.arg)
  BY <1>1, <1>2, <1>5 DEF OwnRows
<1> HIDE DEF s, rest
<1>6. ASSUME NEW op \in {"delete", "detach"}, NEW ids
      PROVE  \A t \in Range(ForEach(op, ids) \o rest) : t.op \in {"insert", "rename"} => Own(r, t.arg)
  <2>1. /\ IsList(ForEach(op, ids)) /\ \A t \in Range(ForEach(op, ids)) : t.op = op
    <3>1. Statement(op, ids).op = op
      BY DEF Statement
    <3> QED BY <3>1, ListShort
  <2> QED BY <1>1, <1>4, <2>1, ListConcat
<1>7. ASSUME NEW out, NEW in, NEW left, Change(r, out, in, left),
             \A x \in in : Own(r, x),
             \A t \in Range(left) : t.op \in {"insert", "rename"} => Own(r, t.arg)
      PROVE  /\ \A x \in tx'[r].ins : Own(r, x)
             /\ \A t \in Range(tx'[r].todo) : t.op \in {"insert", "rename"} => Own(r, t.arg)
  <2>1. tx'[r].ins = (tx[r].ins \ out) \cup in /\ tx'[r].todo = left
    BY <1>2, <1>3, <1>7, ChangeSeen
  <2> QED BY <1>2, <1>7, <2>1 DEF OwnRows
<1>8. CASE s.op = "insert"
  <2>1. Change(r, {}, {s.arg}, rest)
    BY <1>3, <1>8 DEF ExecuteInsert
  <2>2. \A x \in {s.arg} : Own(r, x)
    BY <1>5, <1>8
  <2> QED BY <1>4, <1>7, <2>1, <2>2
<1>9. CASE s.op = "rename"
  <2>1. Change(r, {Current(r, s.arg.id)}, {s.arg}, rest)
    BY <1>3, <1>9 DEF ExecuteRename
  <2>2. \A x \in {s.arg} : Own(r, x)
    BY <1>5, <1>9
  <2> QED BY <1>4, <1>7, <2>1, <2>2
<1>10. CASE s.op = "delete"
  <2>1. PICK id \in s.arg : Change(r, Victims(r, id), {}, Delete(s.arg \ {id}) \o rest)
    BY <1>3, <1>10 DEF ExecuteDelete
  <2> QED BY <1>6, <1>7, <2>1 DEF Delete
<1>11. CASE s.op = "detach"
  <2>1. PICK id \in s.arg :
          /\ Exists(r, id)
          /\ Change(r, {Current(r, id)}, {Orphaned(Current(r, id))}, Detach(s.arg \ {id}) \o rest)
    BY <1>3, <1>11 DEF ExecuteDetach
  <2> DEFINE old == Current(r, id)
  <2>2. old \in View(r) /\ old.id = id /\ id[1] = "submission"
    BY <1>2, <1>11, <2>1, CurrentInView DEF Plans
  <2>3. Own(r, old)
    BY <1>2, <2>2
  <2> HIDE DEF old
  <2>4. Formed(Orphaned(old)) /\ Orphaned(old).id = old.id
    BY <2>2, <2>3, OrphansFormed DEF Own
  <2>5. \A x \in {Orphaned(old)} : Own(r, x)
    BY <2>3, <2>4 DEF Own, MadeEarlier
  <2>6. Change(r, {old}, {Orphaned(old)}, Detach(s.arg \ {id}) \o rest)
    BY <2>1 DEF old
  <2> QED BY <1>6, <1>7, <2>5, <2>6 DEF Detach
<1>12. CASE s.op = "clear"
  <2>1. \E ids : Change(r, {}, {}, Delete(ids) \o rest)
    BY <1>3, <1>12 DEF ExecuteClear
  <2> QED BY <1>6, <1>7, <2>1 DEF Delete
<1> QED BY <1>3, <1>8, <1>9, <1>10, <1>11, <1>12

LEMMA NextKeepsOwnRows ==
  ASSUME FullInv, RowsInv, [Next]_vars, NEW o \in Requests
  PROVE  OwnRows(o)'
<1>0. /\ StateTypes /\ DOMAIN tx = Requests /\ OwnRows(o) /\ TransactionInv(o)
  BY RowsAreOwn DEF FullInv, ContestInv, LockInv
<1>1. \A x : Own(o, x) => Own(o, x)'
  BY MadeStays DEF Own, Formed, ContestRow, Contest, ContestProblemRow
<1>2. ASSUME \A x \in tx'[o].ins : Own(o, x),
             \A s \in Range(tx'[o].todo) : s.op \in {"insert", "rename"} => Own(o, s.arg)
      PROVE  OwnRows(o)'
  BY <1>1, <1>2 DEF OwnRows, Range
<1>3. ASSUME tx'[o] = tx[o] PROVE OwnRows(o)'
  BY <1>0, <1>2, <1>3 DEF OwnRows
<1>4. ASSUME tx'[o] = NoTransaction PROVE OwnRows(o)'
  <2>1. Range(NoTransaction.todo) = {} /\ NoTransaction.ins = {}
    BY ListShort DEF NoTransaction
  <2> QED BY <1>2, <1>4, <2>1
<1>5. CASE tx' = tx
  BY <1>3, <1>5
<1>6. ASSUME NEW r \in Requests, Ending(r) \/ Finish(r) PROVE OwnRows(o)'
  <2>1. tx' = [tx EXCEPT ![r] = NoTransaction]
    BY <1>6 DEF Ending, Refuse, Rollback, Finish, Commit
  <2> QED BY <1>0, <1>3, <1>4, <2>1
<1>7. ASSUME NEW r \in Requests, Given(r) PROVE OwnRows(o)'
  <2>1. PICK statements :
          /\ Run(r, statements)
          /\ \A s \in Range(statements) : s.op \in {"insert", "rename"} => Own(r, s.arg)
    BY <1>7, GivenRows
  <2>2. tx' = [tx EXCEPT ![r].todo = statements]
    BY <2>1 DEF Run
  <2>3. CASE o # r
    BY <1>0, <1>3, <2>2, <2>3
  <2>4. CASE o = r
    <3>1. tx'[r].ins = tx[r].ins /\ tx'[r].todo = statements
      <4>1. step[r] # "run"
        BY <1>7 DEF Given, Replace, DeleteContest, Register, Submit, FoundSlug, Loaded
      <4>2. tx[r] = [ins |-> {}, del |-> {}, todo |-> <<>>]
        BY <1>0, <2>4, <4>1 DEF TransactionInv, NoTransaction
      <4>3. tx'[r] = [tx[r] EXCEPT !.todo = statements]
        BY <1>0, <2>2
      <4>4. tx'[r] = [[ins |-> {}, del |-> {}, todo |-> <<>>] EXCEPT !.todo = statements]
        BY <4>2, <4>3
      <4> QED BY <4>2, <4>4
    <3> QED BY <1>0, <1>2, <2>1, <2>4, <3>1 DEF OwnRows
  <2> QED BY <2>3, <2>4
<1>8. ASSUME NEW r \in Requests, step[r] = "run", RunStatement(r) PROVE OwnRows(o)'
  <2>1. Execute(r)
    BY <1>8 DEF RunStatement
  <2>2. CASE o # r
    <3>1. tx'[o] = tx[o]
      BY <1>0, <2>1, <2>2 DEF Execute, ExecuteInsert, ExecuteRename, ExecuteDelete, ExecuteDetach,
                              ExecuteClear, Change
    <3> QED BY <1>3, <3>1
  <2>3. CASE o = r
    BY <1>2, <1>8, <2>1, <2>3, ExecuteRows
  <2> QED BY <2>2, <2>3
<1>9. ASSUME NEW r \in Requests, NEW q, Begin(r, q) PROVE OwnRows(o)'
  BY <1>5, <1>9 DEF Begin
<1>10. ASSUME NEW r \in Requests, Moving(r) PROVE OwnRows(o)'
  BY <1>5, <1>10 DEF Moving, UpdateContest, RegistrationOpen, MaySubmit, Goto
<1>11. CASE Aside
  BY <1>5, <1>11 DEF Aside, vars, NextSlug, TimePasses
<1> QED BY <1>6, <1>7, <1>8, <1>9, <1>10, <1>11, StepKinds

LEMMA RowsBegin ==
  ASSUME Init
  PROVE  RowsInv
<1>1. PICK slug \in Injection(Existing, {Slug(t, 0) : t \in Titles}),
           entered \in SUBSET (Existing \X Users) :
        db = {ContestRow(c, slug[c]) : c \in Existing}
               \cup {ParticipantRow(e, e[1], e[2]) : e \in entered}
  BY DEF Init
<1>2. slug \in [Existing -> {Slug(t, 0) : t \in Titles}]
  BY <1>1 DEF Injection
<1>3. ASSUME NEW c \in Existing PROVE LET x == ContestRow(c, slug[c]) IN Formed(x) /\ MadeEarlier(x)
  <2>1. PICK t \in Titles : slug[c] = Slug(t, 0)
    BY <1>2
  <2>2. c \notin Requests
    BY NamesAreFresh
  <2> QED BY <2>1, <2>2, NewRowsFormed DEF MadeEarlier
<1>4. ASSUME NEW e \in entered
      PROVE  LET x == ParticipantRow(e, e[1], e[2]) IN Formed(x) /\ MadeEarlier(x)
  <2>1. e \notin Requests
    BY <1>1, NamesAreFresh
  <2> QED BY <2>1, NewRowsFormed DEF MadeEarlier
<1>5. \A x \in db : Formed(x) /\ MadeEarlier(x)
  BY <1>1, <1>3, <1>4
<1>6. ASSUME NEW r \in Requests PROVE OwnRows(r)
  <2>1. tx[r].ins = {} /\ Range(tx[r].todo) = {}
    BY ListShort DEF Init, NoTransaction
  <2> QED BY <2>1 DEF OwnRows
<1> QED BY <1>5, <1>6, RowsAreOwn

LEMMA NextKeepsMade ==
  ASSUME FullInv, RowsInv, [Next]_vars
  PROVE  RowsInv'
<1>0. \A r \in Requests : OwnRows(r)'
  BY NextKeepsOwnRows
<1>1. \A x : Formed(x) => Formed(x)'
  BY DEF Formed, ContestRow, Contest, ContestProblemRow
<1>2. \A x : MadeEarlier(x) => MadeEarlier(x)'
  BY MadeStays
<1>3. CASE db' = db
  <2>1. \A x \in db : (Formed(x) /\ MadeEarlier(x))'
    BY <1>1, <1>2 DEF RowsInv
  <2>2. \A x \in db' : (Formed(x) /\ MadeEarlier(x))'
    BY <1>3, <2>1
  <2> QED BY <1>0, <2>2 DEF RowsInv, OwnRows, Own
<1>4. ASSUME NEW r \in Requests, Finish(r) PROVE RowsInv'
  <2>1. db' = View(r) /\ step'[r] = "done"
    BY <1>4, CommitEffect DEF Finish, FullInv, StateTypes
  <2>2. ASSUME NEW x \in db' PROVE (Formed(x) /\ MadeEarlier(x))'
    <3>1. Own(r, x)
      BY <2>1, ViewIsOwn
    <3>2. CASE x.id[2] = r
      BY <1>1, <2>1, <3>1, <3>2 DEF Own, MadeEarlier
    <3> QED BY <1>1, <1>2, <3>1, <3>2 DEF Own
  <2> QED BY <1>0, <2>2 DEF RowsInv, OwnRows, Own
<1> QED BY <1>3, <1>4, DatabaseChanges

-----------------------------------------------------------------------------
(* A request without others under way succeeds                             *)

LEMMA ErrorCauses ==
  ASSUME NEW r, NEW e \in Errors(r)
  PROVE  /\ tx[r].todo # <<>>
         /\ \/ /\ Head(tx[r].todo).op = "insert"
               /\ \/ ~UniqueOK(View(r), Head(tx[r].todo).arg)
                  \/ ~ParentsExist(r, Head(tx[r].todo).arg)
            \/ /\ Head(tx[r].todo).op = "rename"
               /\ \/ ~Exists(r, Head(tx[r].todo).arg.id)
                  \/ ~UniqueOK(View(r) \ {Current(r, Head(tx[r].todo).arg.id)}, Head(tx[r].todo).arg)
            \/ /\ Head(tx[r].todo).op = "delete"
               /\ \E id \in Head(tx[r].todo).arg : ~NoChildLeft(r, id)
            \/ /\ Head(tx[r].todo).op = "detach"
               /\ \E id \in Head(tx[r].todo).arg : ~Exists(r, id)
<1> DEFINE s == Head(tx[r].todo)
<1>1. tx[r].todo # <<>>
  BY DEF Errors
<1>2. \/ /\ s.op = "insert"
         /\ e \in {x \in {"conflict"} : ~UniqueOK(View(r), s.arg)}
                 \cup {x \in {"bad_reference"} : UniqueOK(View(r), s.arg) /\ ~ParentsExist(r, s.arg)}
      \/ /\ s.op = "rename"
         /\ e \in {x \in {"internal"} : ~Exists(r, s.arg.id)}
                 \cup {x \in {"conflict"} :
                         /\ Exists(r, s.arg.id)
                         /\ ~UniqueOK(View(r) \ {Current(r, s.arg.id)}, s.arg)}
      \/ /\ s.op = "delete"
         /\ e \in {x \in {"bad_reference"} : \E id \in s.arg : DeleteBlockers(r, id) = {} /\ ~NoChildLeft(r, id)}
      \/ /\ s.op = "detach"
         /\ e \in {x \in {"internal"} : \E id \in s.arg : RowLockers(r, id) = {} /\ ~Exists(r, id)}
  BY <1>1, ZenonT(60) DEF Errors
<1> QED BY <1>1, <1>2

LEMMA ParentsAreContests ==
  ASSUME NEW x, Shaped(x), NEW id \in x.parents
  PROVE  id[1] = "contest" /\ x.id[1] # "contest"
BY DEF Shaped, Rows

(* Only contests have children.                                            *)
LEMMA NoChildren ==
  ASSUME ContestInv, NEW r \in Requests, NEW id, id[1] # "contest"
  PROVE  \A x \in View(r) : x \in Victims(r, id) <=> x.id = id
<1>1. \A x \in View(r) : ~RefersTo(x, id)
  BY ViewIsShaped, ParentsAreContests DEF RefersTo
<1> QED BY <1>1 DEF Victims

LEMMA AloneSucceeds ==
  ASSUME FullInv, RowsInv, NEW r \in Requests, step[r] = "run", Succeeds(r)
  PROVE  Errors(r) = {}
<1> SUFFICES ASSUME NEW e \in Errors(r) PROVE FALSE
  OBVIOUS
<1> DEFINE rows == View(r)  todo == tx[r].todo  s == Head(todo)  c == Contest(req[r].contest)
<1>1. /\ todo # <<>>
      /\ \/ s.op = "insert" /\ (~UniqueOK(rows, s.arg) \/ ~ParentsExist(r, s.arg))
         \/ s.op = "rename" /\ (~Exists(r, s.arg.id) \/ ~UniqueOK(rows \ {Current(r, s.arg.id)}, s.arg))
         \/ s.op = "delete" /\ \E id \in s.arg : ~NoChildLeft(r, id)
         \/ s.op = "detach" /\ \E id \in s.arg : ~Exists(r, id)
  BY ErrorCauses
<1>2. IsList(todo) /\ Range(todo) = {s} \cup Range(Tail(todo))
  BY <1>1, ListParts DEF FullInv, Lists
<1>3. /\ Plans(r, s) /\ LockInv /\ ContestInv
      /\ \A x \in rows : Shaped(x) /\ Formed(x)
      /\ \A x, y \in rows : x # y => ~Collide(x, y)
      /\ s.op = "insert" => Formed(s.arg)
  BY <1>2, ViewIsShaped, ViewIsOwn, ViewUnique DEF FullInv, ContestInv, TransactionInv, RowsInv, Own
<1>4. CASE req[r].kind = "update"
  <2>1. RenameSucceeds(rows, todo)
    BY <1>4 DEF Succeeds
  <2>2. /\ todo = <<Rename(s.arg)>> /\ s.arg.id \in Ids(rows)
        /\ \A x \in rows : Collide(x, s.arg) => x.id = s.arg.id
    BY <1>1, <2>1 DEF RenameSucceeds
  <2>3. s.op = "rename"
    BY <2>2 DEF Rename, Statement
  <2>4. Exists(r, s.arg.id)
    BY <2>2 DEF Exists
  <2> DEFINE old == Current(r, s.arg.id)
  <2>5. old \in rows /\ old.id = s.arg.id
    BY <2>4, CurrentInView
  <2> HIDE DEF old
  <2>6. UniqueOK(rows \ {old}, s.arg)
    <3> SUFFICES ASSUME NEW x \in rows, x # old, Collide(x, s.arg) PROVE FALSE
      BY DEF UniqueOK
    <3>1. x.id = old.id
      BY <2>2, <2>5
    <3> QED BY <1>3, <2>5, <3>1 DEF Collide
  <2> QED BY <1>1, <2>3, <2>4, <2>6 DEF old
<1>5. CASE req[r].kind = "delete"
  <2>1. DeletionSucceeds(rows, todo, c)
    BY <1>5 DEF Succeeds
  <2>2. CASE s.op = "detach"
    <3>1. s.arg \subseteq Ids(rows)
      BY <1>1, <2>1, <2>2 DEF DeletionSucceeds
    <3> QED BY <1>1, <2>2, <3>1 DEF Exists
  <2>3. CASE s.op = "delete"
    <3>1. PICK id \in s.arg : ~NoChildLeft(r, id)
      BY <1>1, <2>3
    <3>2. PICK v \in Victims(r, id), x \in rows \ Victims(r, id) : RefersTo(x, v.id)
      BY <3>1 DEF NoChildLeft
    <3>3. v \in rows /\ x \in rows /\ v.id[1] = "contest"
      BY <1>3, <3>2, ParentsAreContests DEF RefersTo, Victims
    <3>4. v.id = id
      <4>1. ~RefersTo(v, id)
        BY <1>3, <3>3, ParentsAreContests DEF RefersTo
      <4> QED BY <3>2, <4>1 DEF Victims
    <3>5. id = c
      <4>1. Removes(r, id)
        BY <1>3, <2>3 DEF Plans
      <4> QED BY <1>5, <3>3, <3>4, <4>1 DEF Removes, Entrant
    <3>6. ~x.cascade
      BY <3>2, <3>3, <3>4 DEF Victims
    <3> QED BY <2>1, <2>3, <3>2, <3>3, <3>4, <3>5, <3>6 DEF DeletionSucceeds
  <2>4. s.op \in {"detach", "delete"}
    BY <1>1, <2>1 DEF DeletionSucceeds
  <2> QED BY <2>2, <2>3, <2>4
<1>6. CASE req[r].kind \notin {"update", "delete"}
  <2> DEFINE q == Inserts(todo)
  <2>1. InsertsSucceed(rows, todo, c)
    BY <1>6 DEF Succeeds
  <2>2. s.op \in {"insert", "delete", "clear"}
    BY <1>1, <2>1 DEF InsertsSucceed
  <2>3. CASE s.op = "insert"
    <3>1. q = todo /\ s \in Range(todo)
      BY <1>2, <2>3 DEF Inserts
    <3>2. /\ \A t \in Range(todo) : t.op = "insert"
          /\ s.arg.parents \subseteq {c}
          /\ \A x \in rows : Collide(x, s.arg) => Leaves(todo, x)
          /\ c \in Ids(rows) \/ s.arg.id = c
      BY <2>1, <3>1 DEF InsertsSucceed
    <3>3. UniqueOK(rows, s.arg)
      BY <3>2 DEF UniqueOK, Leaves
    <3>4. ParentsExist(r, s.arg)
      <4>1. CASE s.arg.id = c
        <5>1. s.arg.id[1] = "contest"
          BY <4>1 DEF Contest
        <5>2. s.arg.parents = {}
          BY <1>3, <2>3, <5>1, FormedParts
        <5> QED BY <5>2 DEF ParentsExist
      <4> QED BY <3>2, <4>1 DEF ParentsExist
    <3> QED BY <1>1, <2>3, <3>3, <3>4
  <2>4. CASE s.op = "delete"
    <3>1. PICK id \in s.arg : ~NoChildLeft(r, id)
      BY <1>1, <2>4
    <3>2. id[1] = "problem"
      <4>1. Removes(r, id)
        BY <1>3, <2>4 DEF Plans
      <4> QED BY <1>6, <4>1 DEF Removes
    <3>3. PICK v \in Victims(r, id), x \in rows \ Victims(r, id) : RefersTo(x, v.id)
      BY <3>1 DEF NoChildLeft
    <3>4. v \in rows /\ v.id = id
      BY <1>3, <3>2, <3>3, NoChildren DEF Victims
    <3> QED BY <1>3, <3>2, <3>3, <3>4, ParentsAreContests DEF RefersTo
  <2>5. CASE s.op = "clear"
    BY <1>1, <2>5
  <2> QED BY <2>2, <2>3, <2>4, <2>5
<1> QED BY <1>4, <1>5, <1>6

Alone(r) == \A o \in Others(r) : tx[o] = NoTransaction

LEMMA AloneWaitsForNobody ==
  ASSUME NEW r \in Requests, Alone(r)
  PROVE  ~Deadlocked(r)
<1>1. \A o \in Others(r) : tx[o].ins = {} /\ tx[o].del = {}
  BY DEF Alone, NoTransaction
<1>2. ASSUME NEW id PROVE RowLockers(r, id) = {} /\ KeySharers(r, id) = {} /\ ChildLockers(r, id) = {}
  BY <1>1 DEF RowLockers, KeySharers, ChildLockers, Ids
<1>3. ASSUME NEW row PROVE KeyHolders(r, row) = {}
  BY <1>1 DEF KeyHolders
<1>4. ASSUME NEW row PROVE InsertBlockers(r, row) = {}
  BY <1>2, <1>3 DEF InsertBlockers
<1>5. ASSUME NEW row PROVE RenameBlockers(r, row) = {}
  BY <1>2, <1>4 DEF RenameBlockers
<1>6. ASSUME NEW id PROVE DeleteBlockers(r, id) = {}
  BY <1>2 DEF DeleteBlockers
<1>7. WaitsFor(r) = {}
  <2> DEFINE s == Head(tx[r].todo)
  <2>1. /\ UNION {DeleteBlockers(r, id) : id \in s.arg} = {}
        /\ UNION {RowLockers(r, id) : id \in s.arg} = {}
    BY <1>2, <1>6
  <2> QED BY <1>4, <1>5, <2>1, ZenonT(30) DEF WaitsFor
<1> QED BY <1>7 DEF Deadlocked

LEMMA SucceedsNext ==
  ASSUME NEW r \in Requests, NEW rows, NEW todo, NEW contest,
         View(r)' = rows, tx'[r].todo = todo, req'[r] = req[r], contest = Contest(req[r].contest),
         step'[r] = "run",
         req[r].kind = "update" => RenameSucceeds(rows, todo),
         req[r].kind = "delete" => DeletionSucceeds(rows, todo, contest),
         req[r].kind \notin {"update", "delete"} => InsertsSucceed(rows, todo, contest)
  PROVE  Succeeds(r)'
<1>0. Contest(req[r].contest)' = contest
  BY DEF Contest
<1>1. ASSUME RenameSucceeds(rows, todo) PROVE RenameSucceeds(View(r), tx[r].todo)'
  BY <1>1 DEF RenameSucceeds, Rename, Statement, Ids, Collide
<1>2. ASSUME DeletionSucceeds(rows, todo, contest)
      PROVE  DeletionSucceeds(View(r), tx[r].todo, Contest(req[r].contest))'
  BY <1>0, <1>2 DEF DeletionSucceeds, Ids, RefersTo, Range
<1>3. ASSUME InsertsSucceed(rows, todo, contest)
      PROVE  InsertsSucceed(View(r), tx[r].todo, Contest(req[r].contest))'
  <2>1. Inserts(tx[r].todo)' = Inserts(todo)
    BY DEF Inserts
  <2>2. \A x : Leaves(tx[r].todo, x)' <=> Leaves(todo, x)
    BY DEF Leaves, RefersTo, Range
  <2>3. \A x, y : Collide(x, y)' <=> Collide(x, y)
    BY DEF Collide
  <2> QED BY <1>0, <1>3, <2>1, <2>2, <2>3 DEF InsertsSucceed, Ids, Range
<1> QED BY <1>1, <1>2, <1>3 DEF Succeeds

Apart(q) == \A i, j \in DOMAIN q : i # j => ~Collide(q[i].arg, q[j].arg)

LEMMA ApartTail ==
  ASSUME NEW q, IsList(q), q # <<>>, Apart(q)
  PROVE  Apart(Tail(q)) /\ \A t \in Range(Tail(q)) : ~Collide(t.arg, Head(q).arg)
<1>1. PICK S : q \in Seq(S)
  BY DEF IsList
<1>2. /\ Head(q) = q[1] /\ 1 \in DOMAIN q
      /\ \A i \in DOMAIN Tail(q) : i + 1 \in DOMAIN q /\ i + 1 # 1 /\ Tail(q)[i] = q[i + 1]
      /\ \A i, j \in DOMAIN Tail(q) : i # j => i + 1 # j + 1
  BY <1>1
<1>3. Apart(Tail(q))
  BY <1>2 DEF Apart
<1>4. \A i \in DOMAIN Tail(q) : ~Collide(Tail(q)[i].arg, Head(q).arg)
  BY <1>2 DEF Apart
<1> QED BY <1>3, <1>4 DEF Range

LEMMA ConsParts ==
  ASSUME NEW s, NEW p, IsList(p)
  PROVE  LET q == <<s>> \o p
         IN  /\ IsList(q) /\ q # <<>> /\ Head(q) = s /\ Tail(q) = p
             /\ Range(q) = {s} \cup Range(p)
             /\ Apart(p) /\ (\A t \in Range(p) : ~Collide(s.arg, t.arg)) => Apart(q)
<1> DEFINE q == <<s>> \o p
<1>1. PICK S : p \in Seq(S)
  BY DEF IsList
<1>2. <<s>> \in Seq(S \cup {s}) /\ p \in Seq(S \cup {s})
  BY <1>1
<1>3. /\ q \in Seq(S \cup {s}) /\ q # <<>> /\ Head(q) = s
      /\ 1 \in DOMAIN q /\ q[1] = s
      /\ \A i \in DOMAIN q : i = 1 \/ (i - 1 \in DOMAIN p /\ q[i] = p[i - 1])
      /\ \A i, j \in DOMAIN q : i # j => i - 1 # j - 1
  BY <1>2
<1>4. Tail(q) = p
  <2>1. Len(q) = Len(p) + 1 /\ Len(p) \in Nat
    BY <1>2
  <2>2. Tail(q) \in Seq(S \cup {s}) /\ Len(Tail(q)) = Len(p)
    BY <1>3, <2>1
  <2>3. \A i \in 1 .. Len(p) : Tail(q)[i] = p[i]
    BY <1>2, <1>3, <2>1
  <2> HIDE DEF q
  <2> QED BY <1>2, <2>2, <2>3
<1>5. IsList(q) /\ Range(q) = {s} \cup Range(p)
  BY ListShort, ListConcat
<1>6. ASSUME Apart(p), \A t \in Range(p) : ~Collide(s.arg, t.arg) PROVE Apart(q)
  <2>1. \A i \in DOMAIN p : ~Collide(s.arg, p[i].arg) /\ ~Collide(p[i].arg, s.arg)
    BY <1>6, CollideSymmetric DEF Range
  <2> HIDE DEF q
  <2> SUFFICES ASSUME NEW i \in DOMAIN q, NEW j \in DOMAIN q, i # j
               PROVE  ~Collide(q[i].arg, q[j].arg)
    BY DEF Apart
  <2>2. CASE i = 1
    BY <1>3, <2>1, <2>2
  <2>3. CASE j = 1
    BY <1>3, <2>1, <2>3
  <2>4. CASE i # 1 /\ j # 1
    BY <1>3, <1>6, <2>4 DEF Apart
  <2> QED BY <2>2, <2>3, <2>4
<1> HIDE DEF q
<1>7. IsList(q) /\ q # <<>> /\ Head(q) = s /\ Tail(q) = p /\ Range(q) = {s} \cup Range(p)
  BY <1>3, <1>4, <1>5
<1> QED BY <1>6, <1>7 DEF q

LEMMA AssignmentsApart ==
  ASSUME NEW r, NEW c, NEW list \in ProblemLists, ~Repeats(list)
  PROVE  Apart(Assignments(r, c, list))
<1>1. \A i, j \in DOMAIN list : i # j => list[i] # list[j]
  BY DEF Repeats
<1>2. ASSUME NEW i \in DOMAIN list, NEW j \in DOMAIN list, i # j
      PROVE  ~Collide(ContestProblemRow(r, c, i, list[i]), ContestProblemRow(r, c, j, list[j]))
  BY <1>1, <1>2 DEF Collide, ContestProblemRow
<1>3. /\ DOMAIN Assignments(r, c, list) = DOMAIN list
      /\ \A i \in DOMAIN list :
           Assignments(r, c, list)[i].arg = ContestProblemRow(r, c, i, list[i])
  BY DEF Assignments, Insert, Statement
<1> QED BY <1>2, <1>3 DEF Apart

(* What is committed does not collide with the rows of a request under way,  *)
(* except for what its handler has looked for.                             *)
LEMMA FreshRows ==
  ASSUME RowsInv, NEW r \in Requests, step[r] # "done", NEW x \in db
  PROVE  /\ x.id[2] # r
         /\ \A c, t, n : Collide(x, ContestRow(c, Slug(t, n))) =>
              x.id = Contest(c) \/ (x.id[1] = "contest" /\ Slug(t, n) \in x.keys)
         /\ \A c, u : Collide(x, ParticipantRow(r, c, u)) =>
              x.id[1] = "participant" /\ Registration(c, u) \in x.keys
         /\ \A c, i, p : Collide(x, ContestProblemRow(r, c, i, p)) =>
              x.id[1] = "problem" /\ RefersTo(x, Contest(c))
         /\ \A c : ~Collide(x, SubmissionRow(r, c))
<1>1. Formed(x) /\ MadeEarlier(x)
  BY DEF RowsInv
<1>2. x.id[2] # r
  BY <1>1 DEF MadeEarlier
<1>3. ASSUME NEW c, NEW t, NEW n, Collide(x, ContestRow(c, Slug(t, n))), x.id # Contest(c)
      PROVE  x.id[1] = "contest" /\ Slug(t, n) \in x.keys
  <2>1. Slug(t, n) \in x.keys
    BY <1>3 DEF Collide, ContestRow
  <2> QED BY <1>1, <2>1, FormedParts
<1>4. ASSUME NEW c, NEW u, Collide(x, ParticipantRow(r, c, u))
      PROVE  x.id[1] = "participant" /\ Registration(c, u) \in x.keys
  <2>1. x.id # <<"participant", r>>
    BY <1>2
  <2>2. Registration(c, u) \in x.keys
    BY <1>4, <2>1 DEF Collide, ParticipantRow
  <2> QED BY <1>1, <2>2, FormedParts
<1>5. ASSUME NEW c, NEW i, NEW p, Collide(x, ContestProblemRow(r, c, i, p))
      PROVE  x.id[1] = "problem" /\ RefersTo(x, Contest(c))
  <2>1. x.id # <<"problem", r, i>>
    BY <1>2
  <2>2. <<"assignment", c, p>> \in x.keys
    BY <1>5, <2>1 DEF Collide, ContestProblemRow
  <2> QED BY <1>1, <2>2, FormedParts DEF RefersTo
<1>6. ASSUME NEW c, Collide(x, SubmissionRow(r, c)) PROVE FALSE
  BY <1>2, <1>6 DEF Collide, SubmissionRow
<1> QED BY <1>2, <1>3, <1>4, <1>5, <1>6

(* The statements of a handler succeed if nothing explains an error.        *)
LEMMA AssignmentsSucceed ==
  ASSUME NEW r, NEW c, NEW list \in ProblemLists, NEW s \in Range(Assignments(r, c, list))
  PROVE  /\ s.op = "insert" /\ s.arg.parents \subseteq {Contest(c)}
         /\ \E i, p : s.arg = ContestProblemRow(r, c, i, p)
<1>1. PICK i \in Nat, p \in Range(list) : s = Insert(ContestProblemRow(r, c, i, p))
  BY AssignmentsListed
<1>2. s.op = "insert" /\ s.arg = ContestProblemRow(r, c, i, p)
  BY <1>1 DEF Insert, Statement
<1>3. s.arg.parents = {Contest(c)}
  BY <1>2 DEF ContestProblemRow
<1> QED BY <1>2, <1>3

LEMMA CreationSucceeds ==
  ASSUME FullInv, RowsInv, NEW r \in Requests, step[r] \notin {"idle", "done"},
         req[r].kind = "create", ~Repeats(req[r].list), ~SlugTaken(db, Candidate(r))
  PROVE  LET q == <<Insert(ContestRow(req[r].contest, Candidate(r)))>>
                    \o Assignments(r, req[r].contest, req[r].list)
         IN  IsList(q) /\ InsertsSucceed(db, q, Contest(req[r].contest))
<1> DEFINE c == req[r].contest  x == ContestRow(c, Candidate(r))  s == Insert(x)
           p == Assignments(r, c, req[r].list)  q == <<s>> \o p
<1>1. c = r /\ req[r].list \in ProblemLists
  BY RequestParts DEF FullInv, ContestInv, HandlerInv
<1>2. /\ IsList(p) /\ Apart(p)
      /\ \A t \in Range(p) : /\ t.op = "insert" /\ t.arg.parents \subseteq {Contest(c)}
                             /\ \E i, y : t.arg = ContestProblemRow(r, c, i, y)
  BY <1>1, AssignmentsListed, AssignmentsApart, AssignmentsSucceed
<1>3. s.op = "insert" /\ s.arg = x /\ x.parents = {} /\ x.id = Contest(c) /\ x.keys = {Candidate(r)}
  BY DEF Insert, Statement, ContestRow
<1>4. ASSUME NEW y \in db, Collide(y, x) PROVE FALSE
  <2>1. y.id[2] # r /\ (y.id = Contest(c) \/ (y.id[1] = "contest" /\ Candidate(r) \in y.keys))
    BY <1>4, FreshRows DEF Candidate
  <2> QED BY <1>1, <2>1 DEF Contest, SlugTaken, Tagged
<1>5. ASSUME NEW y \in db, NEW t \in Range(p), Collide(y, t.arg) PROVE FALSE
  <2>1. RefersTo(y, Contest(c))
    BY <1>2, <1>5, FreshRows
  <2>2. PICK z \in db : z.id = Contest(c)
    BY <2>1 DEF RefersTo, FullInv, LockInv, NoOrphans, Ids
  <2> QED BY <1>1, <2>2, FreshRows DEF Contest
<1>6. ASSUME NEW t \in Range(p) PROVE ~Collide(x, t.arg)
  <2>1. PICK i, y : t.arg = ContestProblemRow(r, c, i, y)
    BY <1>2
  <2> QED BY <1>3, <2>1 DEF Collide, Contest, Candidate, Slug, ContestProblemRow
<1> HIDE DEF c, x, s, p
<1>7. /\ IsList(q) /\ q # <<>> /\ Head(q) = s /\ Range(q) = {s} \cup Range(p) /\ Apart(q)
  BY <1>2, <1>3, <1>6, ConsParts
<1> HIDE DEF q
<1>8. Inserts(q) = q
  BY <1>3, <1>7 DEF Inserts
<1>9. InsertsSucceed(db, q, Contest(c))
  BY <1>2, <1>3, <1>4, <1>5, <1>7, <1>8 DEF InsertsSucceed, Apart
<1> QED BY <1>7, <1>9 DEF q, p, s, x, c

LEMMA ReplacementSucceeds ==
  ASSUME FullInv, RowsInv, NEW r \in Requests, step[r] \notin {"idle", "done"},
         req[r].kind = "replace", ~Repeats(req[r].list), Contest(req[r].contest) \in Ids(db)
  PROVE  InsertsSucceed(db, ReplaceStatements(r), Contest(req[r].contest))
<1> DEFINE c == req[r].contest  s == Clear(Contest(c), "problem")
           p == Assignments(r, c, req[r].list)  q == <<s>> \o p
<1>1. req[r].list \in ProblemLists
  BY RequestParts DEF FullInv, ContestInv, HandlerInv
<1>2. /\ IsList(p) /\ Apart(p)
      /\ \A t \in Range(p) : /\ t.op = "insert" /\ t.arg.parents \subseteq {Contest(c)}
                             /\ \E i, y : t.arg = ContestProblemRow(r, c, i, y)
  BY <1>1, AssignmentsListed, AssignmentsApart, AssignmentsSucceed
<1>3. s.op = "clear" /\ s.arg[1] = "problem" /\ s.arg[2] = Contest(c)
  BY DEF Clear, Statement
<1>4. ASSUME NEW y \in db, NEW t \in Range(p), Collide(y, t.arg)
      PROVE  y.id[1] = "problem" /\ RefersTo(y, Contest(c))
  BY <1>2, <1>4, FreshRows
<1>5. q = ReplaceStatements(r)
  BY DEF ReplaceStatements
<1> HIDE DEF s, p
<1>6. /\ q # <<>> /\ Head(q) = s /\ Tail(q) = p /\ s \in Range(q)
  BY <1>2, ConsParts
<1> HIDE DEF q, c
<1>7. Inserts(q) = p
  BY <1>3, <1>6 DEF Inserts
<1>8. \A y \in db, t \in Range(p) : Collide(y, t.arg) => Leaves(q, y)
  BY <1>3, <1>4, <1>6 DEF Leaves
<1>9. InsertsSucceed(db, q, Contest(c))
  BY <1>2, <1>3, <1>6, <1>7, <1>8 DEF InsertsSucceed, Apart, c
<1> QED BY <1>5, <1>9 DEF c

LEMMA OneInsertSucceeds ==
  ASSUME NEW x, NEW rows, NEW contest, contest \in Ids(rows), x.parents \subseteq {contest},
         \A y \in rows : ~Collide(y, x)
  PROVE  InsertsSucceed(rows, <<Insert(x)>>, contest)
<1> DEFINE s == Insert(x)  q == <<s>>
<1>1. s.op = "insert" /\ s.arg = x
  BY DEF Insert, Statement
<1>2. q # <<>> /\ Head(q) = s /\ Range(q) = {s} /\ \A i, j \in DOMAIN q : i = j
  BY ListShort
<1> HIDE DEF q, s
<1>3. Inserts(q) = q
  BY <1>1, <1>2 DEF Inserts
<1> QED BY <1>1, <1>2, <1>3 DEF InsertsSucceed, q, s

LEMMA RenamingSucceeds ==
  ASSUME FullInv, RowsInv, NEW r \in Requests, step[r] # "done",
         Contest(req[r].contest) \in Ids(db), ~SlugTaken(db, Candidate(r))
  PROVE  RenameSucceeds(db, <<Rename(ContestRow(req[r].contest, Candidate(r)))>>)
<1> DEFINE c == req[r].contest  x == ContestRow(c, Candidate(r))
<1>1. x.id = Contest(c) /\ Rename(x).arg = x
  BY DEF ContestRow, Rename, Statement
<1>2. ASSUME NEW y \in db, Collide(y, x) PROVE y.id = x.id
  <2>1. y.id = Contest(c) \/ (y.id[1] = "contest" /\ Candidate(r) \in y.keys)
    BY <1>2, FreshRows DEF Candidate
  <2> QED BY <1>1, <2>1 DEF SlugTaken, Tagged
<1> HIDE DEF x
<1>3. Head(<<Rename(x)>>).arg = x
  BY <1>1
<1>4. RenameSucceeds(db, <<Rename(x)>>)
  BY <1>1, <1>2, <1>3 DEF RenameSucceeds
<1> QED BY <1>4 DEF x

LEMMA RemovalSucceeds ==
  ASSUME FullInv, RowsInv, NEW r \in Requests, View(r) = db, NEW c
  PROVE  DeletionSucceeds(db, DeleteStatements(r, c), Contest(c))
<1> DEFINE D == Ids(Owns(db, c, "submission"))
           E == Ids(Owns(db, c, "participant") \cup Owns(db, c, "problem"))
           p == Delete(E) \o Delete({Contest(c)})
           q == DeleteStatements(r, c)
<1>1. /\ IsList(p) /\ \A s \in Range(p) : s.op = "delete"
  <2>1. \A ids : Statement("delete", ids).op = "delete"
    BY DEF Statement
  <2> HIDE DEF E
  <2> QED BY <2>1, ListShort, ListConcat DEF Delete
<1>2. q = Detach(D) \o p
  <2>1. q = Detach(D) \o Delete(E) \o Delete({Contest(c)})
    BY DEF DeleteStatements
  <2>2. IsList(Detach(D)) /\ IsList(Delete(E)) /\ IsList(Delete({Contest(c)}))
    BY ListShort DEF Detach, Delete
  <2> HIDE DEF q, D, E
  <2>3. ASSUME NEW a, NEW b, NEW d, IsList(a), IsList(b), IsList(d)
        PROVE  (a \o b) \o d = a \o (b \o d)
    <3>1. PICK S : a \in Seq(S)
      BY <2>3 DEF IsList
    <3>2. PICK T : b \in Seq(T)
      BY <2>3 DEF IsList
    <3>3. PICK U : d \in Seq(U)
      BY <2>3 DEF IsList
    <3>4. a \in Seq(S \cup T \cup U) /\ b \in Seq(S \cup T \cup U) /\ d \in Seq(S \cup T \cup U)
      BY <3>1, <3>2, <3>3
    <3> QED BY <3>4
  <2> QED BY <2>1, <2>2, <2>3
<1>3. ASSUME NEW x \in db, RefersTo(x, Contest(c)), ~x.cascade PROVE x.id \in D
  <2>1. Formed(x) /\ x.parents # {}
    BY <1>3 DEF RowsInv, RefersTo
  <2>2. x.id[1] = "submission"
    BY <1>3, <2>1, FormedParts
  <2> QED BY <1>3, <2>2 DEF Owns, Tagged, Ids
<1>4. D \subseteq Ids(db)
  BY DEF Owns, Tagged, Ids
<1> HIDE DEF p, q, D
<1>5. CASE D = {}
  <2>1. q = p
    <3>1. Detach(D) = <<>>
      BY <1>5 DEF Detach, ForEach
    <3>2. PICK S : p \in Seq(S)
      BY <1>1 DEF IsList
    <3> QED BY <1>2, <3>1, <3>2
  <2>2. q # <<>> => Head(q).op = "delete" /\ \A s \in Range(Tail(q)) : s.op = "delete"
    BY <1>1, <2>1, ListParts
  <2>3. DeletionSucceeds(db, q, Contest(c))
    BY <1>3, <1>5, <2>2 DEF DeletionSucceeds
  <2> QED BY <2>3 DEF q
<1>6. CASE D # {}
  <2> DEFINE s == Statement("detach", D)
  <2>1. q = <<s>> \o p
    BY <1>2, <1>6 DEF Detach, ForEach
  <2>2. s.op = "detach" /\ s.arg = D
    BY DEF Statement
  <2> HIDE DEF s
  <2>3. q # <<>> /\ Head(q) = s /\ Tail(q) = p
    BY <1>1, <2>1, ConsParts
  <2>4. DeletionSucceeds(db, q, Contest(c))
    BY <1>1, <1>3, <1>4, <2>2, <2>3 DEF DeletionSucceeds
  <2> QED BY <2>4 DEF q
<1> QED BY <1>5, <1>6

LEMMA GivenSucceeds ==
  ASSUME FullInv, RowsInv, NEW r \in Requests, Given(r), ~Explained(r), Succeeds(r)
  PROVE  Succeeds(r)'
<1> DEFINE c == req[r].contest
<1>0. /\ HandlerInv(r) /\ TransactionInv(r) /\ step[r] \notin {"idle", "done", "run"}
      /\ StateTypes /\ DOMAIN tx = Requests
  BY DEF FullInv, ContestInv, LockInv, Given, Replace, DeleteContest, Register, Submit, FoundSlug, Loaded
<1>1. tx[r] = [ins |-> {}, del |-> {}, todo |-> <<>>] /\ View(r) = db
  <2>1. tx[r] = [ins |-> {}, del |-> {}, todo |-> <<>>]
    BY <1>0 DEF TransactionInv, NoTransaction
  <2> QED BY <2>1 DEF View
<1>2. ASSUME NEW q, Run(r, q),
             req[r].kind = "update" => RenameSucceeds(db, q),
             req[r].kind = "delete" => DeletionSucceeds(db, q, Contest(c)),
             req[r].kind \notin {"update", "delete"} => InsertsSucceed(db, q, Contest(c))
      PROVE  Succeeds(r)'
  <2>1. tx'[r] = [tx[r] EXCEPT !.todo = q] /\ db' = db /\ req' = req /\ step'[r] = "run"
    BY <1>0, <1>2 DEF Run, StateTypes
  <2>2. tx'[r] = [[ins |-> {}, del |-> {}, todo |-> <<>>] EXCEPT !.todo = q]
    BY <1>1, <2>1
  <2>3. tx'[r].ins = {} /\ tx'[r].del = {} /\ tx'[r].todo = q
    BY <2>2
  <2>4. View(r)' = db
    BY <2>1, <2>3 DEF View
  <2> QED BY <1>2, <2>1, <2>3, <2>4, SucceedsNext
<1>3. CASE Replace(r)
  <2>1. req[r].kind = "replace"
    BY <1>0, <1>3 DEF HandlerInv, Replace
  <2>2. ~Repeats(req[r].list) /\ Contest(c) \in Ids(db)
    BY <2>1 DEF Explained
  <2>3. InsertsSucceed(db, ReplaceStatements(r), Contest(c))
    BY <1>0, <2>1, <2>2, ReplacementSucceeds
  <2> QED BY <1>2, <1>3, <2>1, <2>3 DEF Replace
<1>4. CASE DeleteContest(r)
  <2>1. req[r].kind = "delete" /\ DeletionSucceeds(db, DeleteStatements(r, c), Contest(c))
    BY <1>1, <1>4, RemovalSucceeds DEF DeleteContest, Loaded
  <2> QED BY <1>2, <1>4, <2>1 DEF DeleteContest
<1>5. CASE Register(r)
  <2> DEFINE x == ParticipantRow(r, c, req[r].user)
  <2>1. req[r].kind = "register"
    BY <1>0, <1>5 DEF HandlerInv, Register
  <2>2. Contest(c) \in Ids(db)
    BY <1>5, <2>1 DEF Succeeds, Register
  <2>3. x.parents \subseteq {Contest(c)}
    BY DEF ParticipantRow
  <2>4. ASSUME NEW y \in db, Collide(y, x) PROVE FALSE
    <3>1. y.id[1] = "participant" /\ Registration(c, req[r].user) \in y.keys
      BY <1>0, <2>4, FreshRows
    <3> QED BY <1>1, <1>5, <3>1 DEF Register, Registered, Tagged
  <2> HIDE DEF x
  <2>5. InsertsSucceed(db, <<Insert(x)>>, Contest(c))
    BY <2>2, <2>3, <2>4, OneInsertSucceeds
  <2> QED BY <1>2, <1>5, <2>1, <2>5 DEF Register, x
<1>6. CASE Submit(r)
  <2> DEFINE x == SubmissionRow(r, c)
  <2>1. req[r].kind = "submit"
    BY <1>0, <1>6 DEF HandlerInv, Submit
  <2>2. Contest(c) \in Ids(db)
    BY <1>1, <1>6 DEF Submit, Exists
  <2>3. x.parents \subseteq {Contest(c)}
    BY DEF SubmissionRow
  <2>4. \A y \in db : ~Collide(y, x)
    BY <1>0, FreshRows
  <2> HIDE DEF x
  <2>5. InsertsSucceed(db, <<Insert(x)>>, Contest(c))
    BY <2>2, <2>3, <2>4, OneInsertSucceeds
  <2> QED BY <1>2, <1>6, <2>1, <2>5 DEF Submit, x
<1>7. CASE FoundSlug(r)
  <2>1. ~SlugTaken(db, Candidate(r)) /\ req[r].kind \in {"create", "update"}
    BY <1>0, <1>1, <1>7 DEF HandlerInv, FoundSlug
  <2>2. CASE req[r].kind = "create"
    <3>1. ~Repeats(req[r].list)
      BY <2>2 DEF Explained
    <3>2. InsertsSucceed(db, <<Insert(ContestRow(c, Candidate(r)))>> \o Assignments(r, c, req[r].list),
                         Contest(c))
      BY <1>0, <2>1, <2>2, <3>1, CreationSucceeds
    <3>3. Run(r, <<Insert(ContestRow(c, Candidate(r)))>> \o Assignments(r, c, req[r].list))
      BY <1>7, <2>2 DEF FoundSlug
    <3> QED BY <1>2, <2>2, <3>2, <3>3
  <2>3. CASE req[r].kind = "update"
    <3>1. Contest(c) \in Ids(db)
      BY <1>7, <2>3 DEF Succeeds, FoundSlug
    <3>2. RenameSucceeds(db, <<Rename(ContestRow(c, Candidate(r)))>>)
      BY <1>0, <2>1, <3>1, RenamingSucceeds
    <3>3. Run(r, <<Rename(ContestRow(c, Candidate(r)))>>)
      BY <1>7, <2>3 DEF FoundSlug
    <3> QED BY <1>2, <2>3, <3>2, <3>3
  <2> QED BY <2>1, <2>2, <2>3
<1> QED BY <1>3, <1>4, <1>5, <1>6, <1>7 DEF Given

LEMMA MovingSucceeds ==
  ASSUME FullInv, NEW r \in Requests, Moving(r)
  PROVE  Succeeds(r)'
<1>0. TransactionInv(r) /\ StateTypes
  BY DEF FullInv, ContestInv
<1>1. /\ step[r] = "load" /\ UNCHANGED <<db, tx, req>>
      /\ \E s \in {"slug", "check", "again"} : step' = [step EXCEPT ![r] = s]
      /\ Exists(r, Contest(req[r].contest))
  BY DEF Moving, UpdateContest, RegistrationOpen, MaySubmit, Loaded, Goto
<1>2. View(r) = db
  BY <1>0, <1>1 DEF TransactionInv, NoTransaction, View
<1>3. Contest(req[r].contest) \in Ids(db)
  BY <1>1, <1>2 DEF Exists
<1>4. (Contest(req[r].contest) \in Ids(db))'
  BY <1>1, <1>3 DEF Contest, Ids
<1>5. step'[r] # "run"
  BY <1>0, <1>1 DEF StateTypes
<1> QED BY <1>4, <1>5 DEF Succeeds

(* What a statement leaves is the rest of its own work, then the others.    *)
Left(op, ids, rest) == ForEach(op, ids) \o rest

LEMMA LeftToDo ==
  ASSUME NEW op, NEW ids, NEW rest, IsList(rest)
  PROVE  /\ ids = {} => Left(op, ids, rest) = rest
         /\ ids # {} => /\ Left(op, ids, rest) # <<>> /\ Tail(Left(op, ids, rest)) = rest
                        /\ Head(Left(op, ids, rest)) = Statement(op, ids)
                        /\ Statement(op, ids) \in Range(Left(op, ids, rest))
<1>1. CASE ids = {}
  <2>1. PICK S : rest \in Seq(S)
    BY DEF IsList
  <2> QED BY <1>1, <2>1 DEF ForEach, Left
<1>2. CASE ids # {}
  <2> DEFINE s == Statement(op, ids)
  <2>1. Left(op, ids, rest) = <<s>> \o rest
    BY <1>2 DEF ForEach, Left
  <2> HIDE DEF s
  <2>2. LET q == <<s>> \o rest IN q # <<>> /\ Head(q) = s /\ Tail(q) = rest /\ s \in Range(q)
    BY ConsParts
  <2> QED BY <1>2, <2>1, <2>2 DEF s
<1> QED BY <1>1, <1>2

LEMMA StatementParts ==
  \A op, arg : Statement(op, arg).op = op /\ Statement(op, arg).arg = arg
BY DEF Statement

LEMMA DeletionGoesOn ==
  ASSUME FullInv, NEW r \in Requests, step[r] = "run", req[r].kind = "delete", Execute(r),
         UNCHANGED <<req, step>>,
         DeletionSucceeds(View(r), tx[r].todo, Contest(req[r].contest))
  PROVE  Succeeds(r)'
<1> DEFINE rows == View(r)  todo == tx[r].todo  s == Head(todo)  rest == Tail(todo)
           c == Contest(req[r].contest)
<1>1. /\ todo # <<>> /\ IsList(rest) /\ LockInv /\ db' = db /\ step'[r] = "run" /\ req'[r] = req[r]
      /\ \A x, y \in rows : x # y => ~Collide(x, y)
  BY ListParts, ViewUnique DEF FullInv, Lists, Execute
<1>2. /\ s.op \in {"detach", "delete"}
      /\ s.op = "detach" => s.arg \subseteq Ids(rows)
      /\ \A t \in Range(rest) : t.op = "delete"
      /\ \A x \in rows : RefersTo(x, c) /\ ~x.cascade => s.op = "detach" /\ x.id \in s.arg
  BY <1>1 DEF DeletionSucceeds
<1>3. /\ s.op = "delete" => ExecuteDelete(r, s.arg, rest)
      /\ s.op = "detach" => ExecuteDetach(r, s.arg, rest)
  BY <1>2 DEF Execute
<1>4. rest # <<>> => Head(rest).op = "delete" /\ \A t \in Range(Tail(rest)) : t.op = "delete"
  BY <1>1, <1>2, ListParts
<1> HIDE DEF s, rest
<1>5. ASSUME NEW out, NEW in, NEW left, Change(r, out, in, left),
             DeletionSucceeds((rows \ out) \cup in, left, c)
      PROVE  Succeeds(r)'
  <2>1. View(r)' = (rows \ out) \cup in /\ tx'[r].todo = left
    BY <1>1, <1>5, ChangeSeen
  <2> HIDE DEF rows, todo
  <2> QED BY <1>1, <1>5, <2>1, SucceedsNext
<1>6. CASE s.op = "delete"
  <2>1. PICK id \in s.arg : Change(r, Victims(r, id), {}, Delete(s.arg \ {id}) \o rest)
    BY <1>3, <1>6 DEF ExecuteDelete
  <2> DEFINE left == Delete(s.arg \ {id}) \o rest
  <2>2. left # <<>> => Head(left).op = "delete" /\ \A t \in Range(Tail(left)) : t.op = "delete"
    <3> DEFINE ids == s.arg \ {id}
    <3>1. left = Left("delete", ids, rest)
      BY DEF Delete, Left
    <3> HIDE DEF left, ids
    <3>2. left = rest \/ (Head(left).op = "delete" /\ Tail(left) = rest)
      BY <1>1, <3>1, LeftToDo, StatementParts
    <3> QED BY <1>2, <1>4, <3>2
  <2>3. \A x \in rows : ~(RefersTo(x, c) /\ ~x.cascade)
    BY <1>2, <1>6
  <2> HIDE DEF left, rows
  <2>4. DeletionSucceeds((rows \ Victims(r, id)) \cup {}, left, c)
    BY <2>2, <2>3 DEF DeletionSucceeds
  <2> QED BY <1>5, <2>1, <2>4 DEF left
<1>7. CASE s.op = "detach"
  <2>1. PICK id \in s.arg :
          /\ Exists(r, id)
          /\ Change(r, {Current(r, id)}, {Orphaned(Current(r, id))}, Detach(s.arg \ {id}) \o rest)
    BY <1>3, <1>7 DEF ExecuteDetach
  <2> DEFINE old == Current(r, id)  new == Orphaned(old)  ids == s.arg \ {id}
             left == Detach(ids) \o rest  after == (rows \ {old}) \cup {new}
  <2>2. old \in rows /\ old.id = id /\ new.parents = {}
    BY <2>1, CurrentInView DEF Orphaned
  <2>3. Change(r, {old}, {new}, left)
    BY <2>1
  <2> HIDE DEF old, new
  <2>4. ASSUME NEW x \in after, RefersTo(x, c), ~x.cascade PROVE x.id \in ids
    <3>1. x \in rows /\ x # old
      BY <2>2, <2>4 DEF RefersTo
    <3>2. x.id # id
      BY <1>1, <2>2, <3>1 DEF Collide
    <3> QED BY <1>2, <2>4, <3>1, <3>2
  <2>5. ids \subseteq Ids(after)
    <3>1. ASSUME NEW i \in ids PROVE i \in Ids(after)
      <4>1. PICK x \in rows : x.id = i
        BY <1>2, <1>7 DEF Ids
      <4>2. x # old
        BY <2>2, <4>1
      <4> QED BY <4>1, <4>2 DEF Ids
    <3> QED BY <3>1
  <2> HIDE DEF ids, after
  <2>6. /\ ids = {} => left = rest
        /\ ids # {} => left # <<>> /\ Head(left).op = "detach" /\ Head(left).arg = ids /\ Tail(left) = rest
    <3>1. left = Left("detach", ids, rest)
      BY DEF Detach, Left
    <3> HIDE DEF left
    <3> QED BY <1>1, <3>1, LeftToDo, StatementParts
  <2>7. DeletionSucceeds(after, left, c)
    <3> HIDE DEF left
    <3>1. CASE ids = {}
      BY <1>4, <2>4, <2>6, <3>1 DEF DeletionSucceeds
    <3>2. CASE ids # {}
      BY <1>2, <2>4, <2>5, <2>6, <3>2 DEF DeletionSucceeds
    <3> QED BY <3>1, <3>2
  <2> QED BY <1>5, <2>3, <2>7 DEF after, ids
<1> QED BY <1>2, <1>6, <1>7

LEMMA InsertsGoOn ==
  ASSUME FullInv, NEW r \in Requests, step[r] = "run", req[r].kind \notin {"update", "delete"},
         Execute(r), UNCHANGED <<req, step>>,
         InsertsSucceed(View(r), tx[r].todo, Contest(req[r].contest))
  PROVE  Succeeds(r)'
<1> DEFINE rows == View(r)  todo == tx[r].todo  s == Head(todo)  rest == Tail(todo)
           c == Contest(req[r].contest)  q == Inserts(todo)
<1>1. /\ todo # <<>> /\ IsList(todo) /\ IsList(rest) /\ Range(todo) = {s} \cup Range(rest)
      /\ LockInv /\ ContestInv /\ db' = db /\ step'[r] = "run" /\ req'[r] = req[r]
  BY ListParts DEF FullInv, Lists, Execute
<1>2. Plans(r, s)
  BY <1>1 DEF ContestInv, TransactionInv
<1>3. /\ s.op \in {"insert", "delete", "clear"}
      /\ \A t \in Range(q) :
           /\ t.op = "insert" /\ t.arg.parents \subseteq {c}
           /\ \A x \in rows : Collide(x, t.arg) => Leaves(todo, x)
      /\ Apart(q)
      /\ c \in Ids(rows) \/ (q # <<>> /\ Head(q).arg.id = c)
  BY <1>1 DEF InsertsSucceed, Apart
<1>4. /\ s.op = "insert" => ExecuteInsert(r, s.arg, rest)
      /\ s.op = "delete" => ExecuteDelete(r, s.arg, rest)
      /\ s.op = "clear" => ExecuteClear(r, s.arg[1], s.arg[2], rest)
  BY <1>3 DEF Execute
<1>5. s.op = "insert" => q = todo
  BY DEF Inserts
<1>6. s.op # "insert" => q = rest
  BY <1>1 DEF Inserts
<1>7. \A t \in Range(rest) : t.op = "insert"
  BY <1>1, <1>3, <1>5, <1>6
<1>8. Inserts(rest) = rest
  <2>1. rest # <<>> => Head(rest) \in Range(rest)
    BY <1>1, ListParts
  <2> QED BY <1>7, <2>1 DEF Inserts
<1> HIDE DEF s, rest, q
<1>9. ASSUME NEW out, NEW in, NEW left, Change(r, out, in, left),
             InsertsSucceed((rows \ out) \cup in, left, c)
      PROVE  Succeeds(r)'
  <2>1. View(r)' = (rows \ out) \cup in /\ tx'[r].todo = left
    BY <1>1, <1>9, ChangeSeen
  <2> HIDE DEF rows, todo
  <2> QED BY <1>1, <1>9, <2>1, SucceedsNext
<1> HIDE DEF rows
<1>10. CASE s.op = "insert"
  <2> DEFINE row == s.arg  after == (rows \ {}) \cup {row}
  <2>1. Change(r, {}, {row}, rest)
    BY <1>4, <1>10 DEF ExecuteInsert
  <2>2. q = todo /\ Range(rest) \subseteq Range(q)
    BY <1>1, <1>5, <1>10
  <2>3. \A x : ~Leaves(todo, x)
    BY <1>1, <1>7, <1>10 DEF Leaves
  <2>4. Apart(rest) /\ \A t \in Range(rest) : ~Collide(t.arg, row)
    BY <1>1, <1>3, <2>2, ApartTail DEF s, rest
  <2>5. \A t \in Range(rest), x \in after : ~Collide(x, t.arg)
    BY <1>3, <2>2, <2>3, <2>4, CollideSymmetric
  <2>6. c \in Ids(after)
    <3>1. Head(q).arg = row
      BY <2>2 DEF s
    <3> QED BY <1>3, <3>1 DEF Ids
  <2>7. rest # <<>> => Head(rest).op = "insert"
    BY <1>1, <1>7, ListParts
  <2> HIDE DEF after
  <2>8. InsertsSucceed(after, rest, c)
    BY <1>3, <1>7, <1>8, <2>2, <2>4, <2>5, <2>6, <2>7 DEF InsertsSucceed, Apart
  <2> QED BY <1>9, <2>1, <2>8 DEF after
<1>11. ASSUME s.op # "insert", NEW ids, NEW after, NEW left, left = Delete(ids) \o rest,
              after \subseteq rows, c \in Ids(rows) => c \in Ids(after),
              \A x \in after : Leaves(todo, x) => x.id \in ids
       PROVE  InsertsSucceed(after, left, c)
  <2>1. /\ ids = {} => left = rest
        /\ ids # {} => /\ left # <<>> /\ Head(left).op = "delete" /\ Tail(left) = rest
                       /\ \E t \in Range(left) : t.op = "delete" /\ t.arg = ids
    <3>1. left = Left("delete", ids, rest)
      BY <1>11 DEF Delete, Left
    <3> QED BY <1>1, <3>1, LeftToDo, StatementParts
  <2>2. Inserts(left) = rest
    BY <1>8, <2>1 DEF Inserts
  <2>3. q = rest
    BY <1>6, <1>11
  <2>4. \A t \in Range(rest), x \in after : Collide(x, t.arg) => Leaves(left, x)
    <3> SUFFICES ASSUME NEW t \in Range(rest), NEW x \in after, Collide(x, t.arg)
                 PROVE  Leaves(left, x)
      OBVIOUS
    <3>1. x.id \in ids
      BY <1>3, <1>11, <2>3
    <3> QED BY <2>1, <3>1 DEF Leaves
  <2>5. left # <<>> => Head(left).op \in {"insert", "delete"}
    <3>1. CASE ids = {}
      BY <1>1, <1>7, <2>1, <3>1, ListParts
    <3> QED BY <2>1, <3>1
  <2> QED BY <1>3, <1>11, <2>2, <2>3, <2>4, <2>5 DEF InsertsSucceed, Apart
<1>12. CASE s.op = "delete"
  <2>1. PICK id \in s.arg : Change(r, Victims(r, id), {}, Delete(s.arg \ {id}) \o rest)
    BY <1>4, <1>12 DEF ExecuteDelete
  <2> DEFINE ids == s.arg \ {id}  after == (rows \ Victims(r, id)) \cup {}
  <2>2. id[1] = "problem"
    <3>1. Removes(r, id)
      BY <1>2, <1>12 DEF Plans
    <3> QED BY <3>1 DEF Removes
  <2>3. c \in Ids(rows) => c \in Ids(after)
    <3> SUFFICES ASSUME NEW x \in rows, x.id = c PROVE x \in after
      BY DEF Ids
    <3>1. x.id # id
      BY <2>2 DEF Contest
    <3> QED BY <1>1, <2>2, <3>1, NoChildren DEF rows
  <2>4. ASSUME NEW x \in after, Leaves(todo, x) PROVE x.id \in ids
    <3>1. x.id \in s.arg
      BY <1>1, <1>7, <1>12, <2>4 DEF Leaves
    <3>2. x.id # id
      BY <2>4 DEF Victims, rows
    <3> QED BY <3>1, <3>2
  <2>5. after \subseteq rows
    OBVIOUS
  <2> HIDE DEF ids, after
  <2>6. InsertsSucceed(after, Delete(ids) \o rest, c)
    BY <1>11, <1>12, <2>3, <2>4, <2>5
  <2> QED BY <1>9, <2>1, <2>6 DEF after, ids
<1>13. CASE s.op = "clear"
  <2> DEFINE ids == Ids({x \in View(r) : x.id[1] = s.arg[1] /\ RefersTo(x, s.arg[2])})
             after == (rows \ {}) \cup {}
  <2>1. Change(r, {}, {}, Delete(ids) \o rest)
    BY <1>4, <1>13 DEF ExecuteClear
  <2>2. after = rows
    OBVIOUS
  <2>3. ASSUME NEW x \in after, Leaves(todo, x) PROVE x.id \in ids
    <3>1. s.arg[1] = x.id[1] /\ RefersTo(x, s.arg[2])
      BY <1>1, <1>7, <1>13, <2>3 DEF Leaves
    <3> QED BY <2>2, <2>3, <3>1 DEF Ids, rows
  <2> HIDE DEF ids, after
  <2>4. InsertsSucceed(after, Delete(ids) \o rest, c)
    BY <1>11, <1>13, <2>2, <2>3
  <2> QED BY <1>9, <2>1, <2>4 DEF after
<1> QED BY <1>3, <1>10, <1>12, <1>13

LEMMA RenamingEnds ==
  ASSUME FullInv, NEW r \in Requests, step[r] = "run", req[r].kind = "update",
         Execute(r), UNCHANGED <<req, step>>, RenameSucceeds(View(r), tx[r].todo)
  PROVE  Succeeds(r)'
<1> DEFINE todo == tx[r].todo  row == Head(todo).arg
<1>1. todo # <<>> /\ LockInv /\ db' = db /\ step'[r] = "run" /\ req'[r] = req[r]
  BY DEF FullInv, Execute
<1>2. todo = <<Rename(row)>>
  BY <1>1 DEF RenameSucceeds
<1>3. Head(todo).op = "rename" /\ Tail(todo) = <<>>
  <2> HIDE DEF todo, row
  <2>1. Head(todo) = Rename(row) /\ Tail(todo) = <<>>
    BY <1>2
  <2> QED BY <2>1 DEF Rename, Statement
<1>4. \E out, in : Change(r, out, in, <<>>)
  BY <1>3 DEF Execute, ExecuteRename
<1>5. tx'[r].todo = <<>>
  BY <1>1, <1>4, ChangeSeen
<1>6. RenameSucceeds(View(r)', <<>>)
  BY DEF RenameSucceeds
<1> QED BY <1>1, <1>5, <1>6, SucceedsNext

LEMMA SucceedsStays ==
  ASSUME NEW r \in Requests, Succeeds(r), UNCHANGED <<db, tx, req, step>>
  PROVE  Succeeds(r)'
<1>1. CASE step[r] = "run"
  <2>1. View(r)' = View(r)
    BY DEF View
  <2> QED BY <1>1, <2>1, SucceedsNext DEF Succeeds
<1>2. CASE step[r] # "run"
  BY <1>2 DEF Succeeds, Contest, Ids
<1> QED BY <1>1, <1>2

LEMMA ExplainedStays ==
  ASSUME NEW r \in Requests, Explained(r), req'[r] = req[r], overlapped \subseteq overlapped', db' = db
  PROVE  Explained(r)'
BY DEF Explained, Repeats, Contest, Ids

LEMMA NobodyElse ==
  ASSUME ErrorsInv, FullInv, NEW r \in Active, ~Explained(r)
  PROVE  /\ Active = {r} /\ r \in Requests /\ Succeeds(r)
         /\ Alone(r)
<1>1. r \in Requests /\ Succeeds(r) /\ \A o \in Active : o = r
  BY DEF ErrorsInv, Explained, Active
<1>2. Active = {r}
  BY <1>1
<1>3. ASSUME NEW o \in Others(r) PROVE tx[o] = NoTransaction
  <2>1. o \in Requests /\ o \notin Active /\ TransactionInv(o)
    BY <1>1 DEF Others, FullInv, ContestInv
  <2> QED BY <2>1 DEF Active, TransactionInv
<1> QED BY <1>1, <1>2, <1>3 DEF Alone

(* Only a beginning adds to the requests under way.                        *)
LEMMA ActiveShrinks ==
  ASSUME FullInv, [Next]_vars, NEW r \in Requests,
         \A o \in Requests : \A q \in AnyRequest(o, Known) : ~Begin(o, q)
  PROVE  /\ overlapped' = overlapped /\ req' = req
         /\ r \in Active' => r \in Active
         /\ r \in Active' /\ (\E o \in Requests : Ending(o) \/ Finish(o)) =>
              \E o \in Active : o # r
<1>0. StateTypes
  BY DEF FullInv
<1>1. CASE Aside
  BY <1>1 DEF Aside, vars, NextSlug, TimePasses, Active, Ending, Finish, Refuse, FullInv, StateTypes
<1>2. ASSUME NEW o \in Requests, Ending(o) \/ Finish(o)
      PROVE  /\ overlapped' = overlapped /\ req' = req /\ o \in Active
             /\ r \in Active' => r \in Active /\ r # o
  BY <1>0, <1>2 DEF Ending, Refuse, Finish, StateTypes, Active
<1>3. ASSUME NEW o \in Requests, Given(o) \/ Moving(o)
      PROVE  overlapped' = overlapped /\ req' = req /\ (r \in Active' => r \in Active)
  <2>1. /\ UNCHANGED <<overlapped, req>> /\ step[o] \notin {"idle", "done"}
        /\ \E s : step' = [step EXCEPT ![o] = s]
    BY <1>3 DEF Given, Replace, DeleteContest, Register, Submit, FoundSlug, Loaded,
                Run, Moving, UpdateContest, RegistrationOpen, MaySubmit, Goto
  <2> QED BY <1>0, <2>1 DEF StateTypes, Active
<1>4. ASSUME NEW o \in Requests, RunStatement(o)
      PROVE  overlapped' = overlapped /\ req' = req /\ (r \in Active' => r \in Active)
  BY <1>4 DEF RunStatement, Active
<1> QED BY <1>1, <1>2, <1>3, <1>4, StepKinds

LEMMA BeginKeepsErrors ==
  ASSUME FullInv, ErrorsInv, NEW b \in Requests, NEW q \in AnyRequest(b, Known), Begin(b, q)
  PROVE  ErrorsInv'
<1>0. StateTypes /\ Active \subseteq Requests
  BY DEF FullInv, Active
<1>1. /\ step[b] = "idle" /\ UNCHANGED <<db, tx>>
      /\ step'[b] \in {"slug", "replace", "load"} /\ (step'[b] = "slug" => q.kind = "create")
      /\ req'[b] = q
      /\ \A o \in Requests \ {b} : step'[o] = step[o]
      /\ overlapped' = IF Active = {} THEN overlapped ELSE overlapped \cup Active \cup {b}
  BY <1>0 DEF Begin, StateTypes
<1>2. b \notin Active /\ Active' = Active \cup {b}
  BY <1>0, <1>1 DEF Active
<1>3. \A r, o \in Active' : r # o => r \in overlapped'
  BY <1>1, <1>2
<1>4. ASSUME NEW r \in Active', ~Explained(r)' PROVE Succeeds(r)'
  <2>1. r \notin overlapped'
    BY <1>4 DEF Explained
  <2>2. r = b
    BY <1>1, <1>2, <2>1
  <2> QED BY <1>1, <2>2 DEF Succeeds
<1> QED BY <1>3, <1>4 DEF ErrorsInv

LEMMA NextKeepsErrors ==
  ASSUME FullInv, RowsInv, ErrorsInv, [Next]_vars
  PROVE  ErrorsInv'
<1>1. CASE \E b \in Requests : \E q \in AnyRequest(b, Known) : Begin(b, q)
  BY <1>1, BeginKeepsErrors
<1>2. CASE \A b \in Requests : \A q \in AnyRequest(b, Known) : ~Begin(b, q)
  <2>1. \A r \in Requests : overlapped' = overlapped /\ req' = req /\ (r \in Active' => r \in Active)
    BY <1>2, ActiveShrinks
  <2>2. \A r, o \in Active' : r # o => r \in overlapped'
    BY <2>1 DEF ErrorsInv, Active
  <2>3. ASSUME NEW r \in Active', ~Explained(r)' PROVE Succeeds(r)'
    <3>1. r \in Requests
      BY DEF Active
    <3>2. r \in Active /\ overlapped' = overlapped /\ req' = req
      BY <2>1, <3>1
    <3>3. ~(\E o \in Requests : Ending(o) \/ Finish(o))
      <4> SUFFICES ASSUME \E o \in Requests : Ending(o) \/ Finish(o) PROVE FALSE
        OBVIOUS
      <4>1. \E o \in Active : o # r
        BY <1>2, <3>1, ActiveShrinks
      <4>2. r \in overlapped'
        BY <3>2, <4>1 DEF ErrorsInv
      <4> QED BY <2>3, <4>2 DEF Explained
    <3>4. db' = db
      BY <3>3, DatabaseChanges
    <3>5. ~Explained(r)
      BY <2>3, <3>1, <3>2, <3>4, ExplainedStays
    <3>6. Active = {r} /\ Succeeds(r)
      BY <3>2, <3>5, NobodyElse
    <3>7. ASSUME NEW o \in Requests, Given(o) \/ Moving(o) \/ (step[o] = "run" /\ RunStatement(o))
          PROVE  o = r
      <4>1. step[o] \notin {"idle", "done"}
        BY <3>7 DEF Given, Replace, DeleteContest, Register, Submit, FoundSlug, Loaded,
                    Moving, UpdateContest, RegistrationOpen, MaySubmit
      <4> QED BY <3>6, <4>1 DEF Active
    <3>8. CASE Given(r)
      BY <3>1, <3>5, <3>6, <3>8, GivenSucceeds
    <3>9. CASE Moving(r)
      BY <3>1, <3>9, MovingSucceeds
    <3>10. CASE step[r] = "run" /\ RunStatement(r)
      <4>1. Execute(r) /\ UNCHANGED <<req, step>>
        BY <3>10 DEF RunStatement
      <4>2. /\ req[r].kind = "update" => RenameSucceeds(View(r), tx[r].todo)
            /\ req[r].kind = "delete" =>
                 DeletionSucceeds(View(r), tx[r].todo, Contest(req[r].contest))
            /\ req[r].kind \notin {"update", "delete"} =>
                 InsertsSucceed(View(r), tx[r].todo, Contest(req[r].contest))
        BY <3>6, <3>10 DEF Succeeds
      <4> QED BY <3>1, <3>10, <4>1, <4>2, DeletionGoesOn, InsertsGoOn, RenamingEnds
    <3>11. CASE Aside
      <4>1. UNCHANGED <<db, tx, req, step>>
        BY <3>11 DEF Aside, vars, NextSlug, TimePasses
      <4> QED BY <3>1, <3>6, <4>1, SucceedsStays
    <3> QED BY <1>2, <3>3, <3>7, <3>8, <3>9, <3>10, <3>11, StepKinds
  <2> QED BY <2>2, <2>3 DEF ErrorsInv
<1> QED BY <1>1, <1>2

(* What an error would contradict is an invariant of the contests.          *)
THEOREM UnexplainedSucceed == Spec => [](RowsInv /\ ErrorsInv)
<1>1. Init => RowsInv /\ ErrorsInv
  BY RowsBegin DEF Init, ErrorsInv, Active
<1>2. FullInv /\ (RowsInv /\ ErrorsInv) /\ [Next]_vars => (RowsInv /\ ErrorsInv)'
  BY NextKeepsMade, NextKeepsErrors
<1> QED BY <1>1, <1>2, FullInvInductive, PTL DEF Spec

LEMMA ErrorsCollide ==
  ASSUME FullInv, RowsInv, ErrorsInv, [Next]_vars, NEW r \in Requests, EndsInError(r)
  PROVE  Explained(r)
<1> SUFFICES ASSUME ~Explained(r) PROVE FALSE
  OBVIOUS
<1>0. StateTypes /\ outcome[r] = "none" /\ outcome'[r] \in {"conflict", "bad_reference", "internal"}
  BY DEF FullInv, EndsInError
<1>1. ASSUME NEW o \in Requests, NEW how, Refuse(o, how) PROVE o = r /\ how = outcome'[r]
  BY <1>0, <1>1 DEF Refuse, StateTypes
<1>2. StatementFails(r) \/ BreakDeadlock(r)
  <2>1. ASSUME UNCHANGED outcome PROVE FALSE
    BY <1>0, <2>1
  <2>2. ASSUME NEW o \in Requests, ContestNotFound(o) \/ RegistrationClosed(o) \/ AlreadyRegistered(o)
                                   \/ CannotSubmit(o)
        PROVE  FALSE
    BY <1>0, <1>1, <2>2 DEF ContestNotFound, RegistrationClosed, AlreadyRegistered, CannotSubmit
  <2>3. ASSUME NEW o \in Requests, Finish(o) PROVE FALSE
    BY <1>0, <2>3 DEF Finish, StateTypes
  <2>4. ASSUME NEW o \in Requests, StatementFails(o) \/ BreakDeadlock(o) PROVE o = r
    BY <1>1, <2>4 DEF StatementFails, BreakDeadlock
  <2>5. ASSUME NEW o \in Requests, Given(o) \/ Moving(o) \/ NextSlug(o) \/ RunStatement(o)
        PROVE  UNCHANGED outcome
    BY <2>5 DEF Given, Replace, DeleteContest, Register, Submit, FoundSlug, Run,
                Moving, UpdateContest, RegistrationOpen, MaySubmit, Goto, NextSlug, RunStatement
  <2>6. ASSUME NEW o \in Requests, NEW q, Begin(o, q) PROVE UNCHANGED outcome
    BY <2>6 DEF Begin
  <2>7. ASSUME NEW c, TimePasses(c) PROVE UNCHANGED outcome
    BY <2>7 DEF TimePasses
  <2> QED BY <2>1, <2>2, <2>3, <2>4, <2>5, <2>6, <2>7 DEF Next, Handle, Given, Moving, vars
<1>3. tx[r].todo # <<>>
  BY <1>2, ErrorKinds, DeadlockedWorks DEF StatementFails, BreakDeadlock
<1>4. step[r] = "run"
  BY <1>3 DEF FullInv, ContestInv, TransactionInv, NoTransaction
<1>5. Succeeds(r) /\ Alone(r)
  BY <1>4, NobodyElse DEF Active
<1>6. Errors(r) = {}
  BY <1>4, <1>5, AloneSucceeds
<1>7. ~Deadlocked(r)
  BY <1>5, AloneWaitsForNobody
<1> QED BY <1>2, <1>6, <1>7 DEF StatementFails, BreakDeadlock

(* Whoever asks for something that can be stored, and is alone, is not      *)
(* answered with 409, 400 or 500: what the handlers look for before they    *)
(* write is all that can be in the way. An error is always that of a race,  *)
(* of a list with a problem twice, or of problems for a contest that is gone. *)
THEOREM OnlyOverlapsFail == Spec => ErrorsAreExplained
<1>1. FullInv /\ (RowsInv /\ ErrorsInv) /\ [Next]_vars
        => [\A r \in Requests : EndsInError(r) => Explained(r)]_vars
  BY ErrorsCollide
<1> QED BY <1>1, FullInvInductive, UnexplainedSucceed, PTL DEF Spec, ErrorsAreExplained
=============================================================================
