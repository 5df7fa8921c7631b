----------------------------- MODULE Transactions -----------------------------
(***************************************************************************)
(* The database as the services use it: every request runs in one          *)
(* transaction (dependencies/database.py) at the default isolation level   *)
(* of PostgreSQL, READ COMMITTED. A statement sees the committed rows and  *)
(* its own changes. It waits while another transaction holds a lock it     *)
(* needs, on the row it changes, on the unique key it claims or on the     *)
(* parent of the row it adds. A wait in a circle is ended by aborting one  *)
(* of the transactions.                                                    *)
(*                                                                         *)
(* A row has an identity, the unique keys it occupies and the rows its     *)
(* foreign keys point at; cascade says whether it is deleted with them.    *)
(* A change to a row is its deletion together with the insertion of        *)
(* another row of the same identity. The locks need no variable: they are  *)
(* those of the changes not yet committed.                                 *)
(***************************************************************************)
EXTENDS Naturals, Sequences

CONSTANT Requests  \* requests to the API, each with one transaction

VARIABLES
  db, \* the committed rows
  tx  \* per request: rows inserted and deleted, statements left to execute

NoTransaction == [ins |-> {}, del |-> {}, todo |-> <<>>]
Others(r) == Requests \ {r}
Ids(rows) == {x.id : x \in rows}

(* What a statement of r sees.                                              *)
View(r) == (db \ tx[r].del) \cup tx[r].ins
Exists(r, id) == id \in Ids(View(r))
Current(r, id) == CHOOSE x \in View(r) : x.id = id

(* The rows violate a unique constraint; the identity is the primary key.   *)
Collide(x, y) == x.id = y.id \/ x.keys \cap y.keys # {}
RefersTo(x, id) == id \in x.parents

-----------------------------------------------------------------------------
(* Locks                                                                   *)

(* The row itself is deleted or changed by another transaction.            *)
RowLockers(r, id) == {o \in Others(r) : id \in Ids(tx[o].del)}

(* A row that refers to it was inserted: FOR KEY SHARE on the parent.       *)
KeySharers(r, id) == {o \in Others(r) : \E x \in tx[o].ins : RefersTo(x, id)}

(* A unique key of the new row is claimed or being given up.               *)
KeyHolders(r, row) == {o \in Others(r) : \E x \in tx[o].ins \cup tx[o].del : Collide(x, row)}

ChildLockers(r, id) == {o \in Others(r) : \E x \in tx[o].del : RefersTo(x, id)}

-----------------------------------------------------------------------------
(* Statements. Blockers are the transactions a statement waits for;         *)
(* outcome is "ok" or the error that ends the transaction.                 *)

Statement(op, arg) == [op |-> op, arg |-> arg]
Insert(row)    == Statement("insert", row)
Rename(row)    == Statement("rename", row)   \* new unique keys for a row
Clear(parent, tag) == Statement("clear", <<tag, parent>>)  \* DELETE ... WHERE
(* Row after row: delete, or set a foreign key to NULL.                     *)
ForEach(op, ids) == IF ids = {} THEN <<>> ELSE <<Statement(op, ids)>>
Delete(ids) == ForEach("delete", ids)
Detach(ids) == ForEach("detach", ids)

InsertBlockers(r, row) ==
  KeyHolders(r, row) \cup UNION {RowLockers(r, p) : p \in row.parents}
RenameBlockers(r, row) ==
  RowLockers(r, row.id) \cup KeySharers(r, row.id) \cup InsertBlockers(r, row)

(* Rows that go when row id is deleted; a lock on any of them is waited for. *)
Victims(r, id) == {x \in View(r) : x.id = id \/ (x.cascade /\ RefersTo(x, id))}
DeleteBlockers(r, id) ==
  RowLockers(r, id)
    \cup UNION {KeySharers(r, i) \cup ChildLockers(r, i) : i \in {id} \cup Ids(Victims(r, id))}

(* Mutation: the table has no UniqueConstraint.                            *)
NoUniqueConstraint(rows, row) == TRUE

UniqueOK(rows, row) == \A x \in rows : ~Collide(x, row)

(* Mutation: the column has no ForeignKey.                                 *)
NoForeignKey(r, row) == TRUE

ParentsExist(r, row) == row.parents \subseteq Ids(View(r))
NoChildLeft(r, id) ==
  \A v \in Victims(r, id), x \in View(r) \ Victims(r, id) : ~RefersTo(x, v.id)

Orphaned(x) == [id |-> x.id, keys |-> x.keys, parents |-> {}, cascade |-> x.cascade]

(* The changes of transaction r become these, with rest still to execute.  *)
Change(r, out, in, rest) ==
  tx' = [tx EXCEPT ![r] = [ins  |-> (@.ins \ out) \cup in,
                           del  |-> @.del \cup (out \cap db),
                           todo |-> rest]]

ExecuteInsert(r, row, rest) ==
  /\ InsertBlockers(r, row) = {}
  /\ UniqueOK(View(r), row) /\ ParentsExist(r, row)
  /\ Change(r, {}, {row}, rest)

ExecuteRename(r, row, rest) ==
  /\ RenameBlockers(r, row) = {}
  /\ Exists(r, row.id)
  /\ UniqueOK(View(r) \ {Current(r, row.id)}, row) /\ ParentsExist(r, row)
  /\ Change(r, {Current(r, row.id)}, {row}, rest)

(* A row that another transaction has deleted meanwhile is skipped.        *)
ExecuteDelete(r, ids, rest) ==
  \E id \in ids :
    /\ DeleteBlockers(r, id) = {}
    /\ NoChildLeft(r, id)
    /\ Change(r, Victims(r, id), {}, Delete(ids \ {id}) \o rest)

ExecuteDetach(r, ids, rest) ==
  \E id \in ids :
    /\ RowLockers(r, id) = {}
    /\ Exists(r, id)
    /\ Change(r, {Current(r, id)}, {Orphaned(Current(r, id))}, Detach(ids \ {id}) \o rest)

(* The rows to delete are those the statement sees when it starts: rows     *)
(* that another transaction adds while it waits are not among them.        *)
ExecuteClear(r, tag, parent, rest) ==
  Change(r, {}, {},
         Delete(Ids({x \in View(r) : x.id[1] = tag /\ RefersTo(x, parent)})) \o rest)

Execute(r) ==
  /\ tx[r].todo # <<>>
  /\ LET s == Head(tx[r].todo)  rest == Tail(tx[r].todo)
     IN \/ s.op = "insert" /\ ExecuteInsert(r, s.arg, rest)
        \/ s.op = "rename" /\ ExecuteRename(r, s.arg, rest)
        \/ s.op = "delete" /\ ExecuteDelete(r, s.arg, rest)
        \/ s.op = "detach" /\ ExecuteDetach(r, s.arg, rest)
        \/ s.op = "clear"  /\ ExecuteClear(r, s.arg[1], s.arg[2], rest)
  /\ UNCHANGED db

(* The errors of the next statement of r: a unique key is taken (409),      *)
(* a foreign key has no row or still has one (400), or the ORM finds a row  *)
(* gone that it has to change (500).                                       *)
Errors(r) ==
  IF tx[r].todo = <<>> THEN {} ELSE
  LET s == Head(tx[r].todo)
      When(e, condition) == {x \in {e} : condition}
  IN CASE s.op = "insert" /\ InsertBlockers(r, s.arg) = {} ->
            When("conflict", ~UniqueOK(View(r), s.arg))
              \cup When("bad_reference", UniqueOK(View(r), s.arg) /\ ~ParentsExist(r, s.arg))
       [] s.op = "rename" /\ RenameBlockers(r, s.arg) = {} ->
            When("internal", ~Exists(r, s.arg.id))
              \cup When("conflict",
                        /\ Exists(r, s.arg.id)
                        /\ ~UniqueOK(View(r) \ {Current(r, s.arg.id)}, s.arg))
       [] s.op = "delete" ->
            When("bad_reference",
                 \E id \in s.arg : DeleteBlockers(r, id) = {} /\ ~NoChildLeft(r, id))
       [] s.op = "detach" ->
            When("internal", \E id \in s.arg : RowLockers(r, id) = {} /\ ~Exists(r, id))
       [] OTHER -> {}

(* The transactions r waits for; none when it can go on.                    *)
WaitsFor(r) ==
  IF tx[r].todo = <<>> THEN {} ELSE
  LET s == Head(tx[r].todo)
      AnyOf(blockers(_)) == IF \E id \in s.arg : blockers(id) = {} THEN {}
                            ELSE UNION {blockers(id) : id \in s.arg}
  IN CASE s.op = "insert" -> InsertBlockers(r, s.arg)
       [] s.op = "rename" -> RenameBlockers(r, s.arg)
       [] s.op = "delete" -> AnyOf(LAMBDA id : DeleteBlockers(r, id))
       [] s.op = "detach" -> AnyOf(LAMBDA id : RowLockers(r, id))
       [] OTHER -> {}

(* r is one of transactions that wait for each other in a circle.          *)
Deadlocked(r) ==
  \E circle \in SUBSET Requests :
    /\ r \in circle
    /\ \A a \in circle : /\ WaitsFor(a) \cap circle # {}
                         /\ \E b \in circle : a \in WaitsFor(b)

Commit(r) ==
  /\ tx[r].todo = <<>>
  /\ db' = (db \ tx[r].del) \cup tx[r].ins
  /\ tx' = [tx EXCEPT ![r] = NoTransaction]

Rollback(r) ==
  /\ tx' = [tx EXCEPT ![r] = NoTransaction]
  /\ UNCHANGED db

-----------------------------------------------------------------------------
(* Consistency. The statements look at what is committed and at their own   *)
(* changes only; that two transactions cannot break a constraint together  *)
(* is the work of the locks.                                               *)

(* No two rows of the database violate a unique constraint, although every  *)
(* handler checks before it inserts and others may insert in between.      *)
UniqueKeys == \A x, y \in db : x # y => ~Collide(x, y)

(* Nothing refers to a row that is gone, although the rows a handler has    *)
(* read may be gone when it refers to them.                                *)
NoOrphans == \A x \in db : x.parents \subseteq Ids(db)

(* The inductive invariant behind both: every transaction could commit now. *)
(* Its view violates no constraint, it still holds what it has deleted, and *)
(* no two transactions add colliding rows, delete the same row, or delete a *)
(* row the other one's new rows refer to without putting another in place.  *)
ViewsAreUnique ==
  \A r \in Requests :
    /\ \A x \in tx[r].ins, y \in db \ tx[r].del : ~Collide(x, y)
    /\ \A x, y \in tx[r].ins : x # y => ~Collide(x, y)
ViewsAreClosed ==
  \A r \in Requests : \A x \in View(r) : x.parents \subseteq Ids(View(r))
HeldRows == \A r \in Requests : tx[r].del \subseteq db
Isolated ==
  \A r \in Requests : \A o \in Others(r) :
    /\ \A x \in tx[r].ins, y \in tx[o].ins : ~Collide(x, y)
    /\ Ids(tx[r].del) \cap Ids(tx[o].del) = {}
    /\ \A x \in tx[r].ins : x.parents \cap Ids(tx[o].del) \subseteq Ids(tx[o].ins)
LockInv ==
  /\ DOMAIN tx = Requests
  /\ UniqueKeys /\ NoOrphans
  /\ ViewsAreUnique /\ ViewsAreClosed /\ HeldRows /\ Isolated
=============================================================================
