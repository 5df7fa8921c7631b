-------------------------- MODULE TransactionsProofs --------------------------
(***************************************************************************)
(* Proofs that locks and checks keep the database consistent: every        *)
(* statement, commit and rollback keeps the invariant LockInv, whatever    *)
(* the statements of the handlers are.                                     *)
(***************************************************************************)
EXTENDS Transactions, TLAPS

(* A statement that takes out rows of its view and puts in at most one,     *)
(* under the locks and checks of the database, keeps the invariant.        *)
LEMMA ChangeKeeps ==
  ASSUME LockInv, NEW r \in Requests, NEW out, NEW in, NEW rest,
         out \subseteq View(r),
         \A n, m \in in : n = m,
         \A n \in in, y \in View(r) \ out : ~Collide(n, y),
         \A x \in (View(r) \ out) \cup in : x.parents \subseteq Ids((View(r) \ out) \cup in),
         \A o \in Others(r) :
           /\ Ids(out) \cap Ids(tx[o].del) = {}
           /\ \A n \in in, y \in tx[o].ins : ~Collide(n, y) /\ ~Collide(y, n)
           /\ \A n \in in : n.parents \cap Ids(tx[o].del) \subseteq Ids(tx[o].ins)
           /\ \A y \in tx[o].ins : y.parents \cap Ids(out) \subseteq Ids(in),
         Change(r, out, in, rest), db' = db
  PROVE  LockInv'
<1>1. /\ DOMAIN tx' = Requests
      /\ tx'[r].ins = (tx[r].ins \ out) \cup in
      /\ tx'[r].del = tx[r].del \cup (out \cap db)
      /\ \A o \in Others(r) : tx'[o] = tx[o]
  BY DEF LockInv, Change, Others
<1>2. View(r)' = (View(r) \ out) \cup in
  BY <1>1 DEF View
<1>3. \A o \in Others(r) : View(o)' = View(o)
  BY <1>1 DEF View
<1>4. UniqueKeys' /\ NoOrphans'
  BY DEF LockInv, UniqueKeys, NoOrphans, Collide, Ids
<1>5. ViewsAreUnique'
  <2> SUFFICES ASSUME NEW q \in Requests
               PROVE  /\ \A x \in tx'[q].ins, y \in db \ tx'[q].del : ~Collide(x, y)
                      /\ \A x, y \in tx'[q].ins : x # y => ~Collide(x, y)
    BY DEF ViewsAreUnique, Collide
  <2>1. CASE q = r
    <3>1. \A x \in tx[r].ins, y \in db \ tx[r].del : ~Collide(x, y)
      BY DEF LockInv, ViewsAreUnique
    <3>2. \A x, y \in tx[r].ins : x # y => ~Collide(x, y)
      BY DEF LockInv, ViewsAreUnique
    <3>3. \A x, y : Collide(x, y) <=> Collide(y, x)
      BY DEF Collide
    <3> QED BY <1>1, <2>1, <3>1, <3>2, <3>3 DEF View
  <2>2. CASE q # r
    BY <1>1, <2>2 DEF LockInv, ViewsAreUnique, Others
  <2> QED BY <2>1, <2>2
<1>6. ViewsAreClosed'
  <2> SUFFICES ASSUME NEW q \in Requests
               PROVE  \A x \in View(q)' : x.parents \subseteq Ids(View(q)')
    BY DEF ViewsAreClosed, Ids
  <2>1. CASE q = r
    BY <1>2, <2>1
  <2>2. CASE q # r
    BY <1>3, <2>2 DEF LockInv, ViewsAreClosed, Others
  <2> QED BY <2>1, <2>2
<1>7. HeldRows'
  BY <1>1 DEF LockInv, HeldRows, Others
<1>8. Isolated'
  <2> SUFFICES ASSUME NEW p \in Requests, NEW o \in Others(p)
               PROVE  /\ \A x \in tx'[p].ins, y \in tx'[o].ins : ~Collide(x, y)
                      /\ Ids(tx'[p].del) \cap Ids(tx'[o].del) = {}
                      /\ \A x \in tx'[p].ins :
                           x.parents \cap Ids(tx'[o].del) \subseteq Ids(tx'[o].ins)
    BY DEF Isolated, Others, Collide, Ids
  <2>0. /\ \A x \in tx[p].ins, y \in tx[o].ins : ~Collide(x, y)
        /\ Ids(tx[p].del) \cap Ids(tx[o].del) = {}
        /\ \A x \in tx[p].ins : x.parents \cap Ids(tx[o].del) \subseteq Ids(tx[o].ins)
    BY DEF LockInv, Isolated
  <2>1. CASE p = r
    <3>1. Ids(tx'[p].del) \subseteq Ids(tx[r].del) \cup Ids(out)
      BY <1>1, <2>1 DEF Ids
    <3>2. tx'[o] = tx[o]
      BY <1>1, <2>1
    <3> QED BY <1>1, <2>0, <2>1, <3>1, <3>2
  <2>2. CASE o = r
    <3>1. Ids(tx'[o].del) \subseteq Ids(tx[r].del) \cup Ids(out)
      BY <1>1, <2>2 DEF Ids
    <3>2. tx'[p] = tx[p] /\ p \in Others(r)
      BY <1>1, <2>2 DEF Others
    <3>3. \A x \in tx'[p].ins : x.parents \cap Ids(tx'[o].del) \subseteq Ids(tx'[o].ins)
      <4> SUFFICES ASSUME NEW x \in tx[p].ins, NEW i \in x.parents, i \in Ids(tx'[o].del)
                   PROVE  i \in Ids(tx'[o].ins)
        BY <3>2
      <4>1. CASE i \in Ids(out)
        BY <1>1, <2>2, <3>2, <4>1 DEF Ids
      <4>2. CASE i \notin Ids(out)
        <5>1. i \in Ids(tx[r].ins)
          BY <2>0, <2>2, <3>1, <4>2
        <5> QED BY <1>1, <2>2, <4>2, <5>1 DEF Ids
      <4> QED BY <4>1, <4>2
    <3> QED BY <1>1, <2>0, <2>2, <3>1, <3>2, <3>3
  <2>3. CASE p # r /\ o # r
    BY <1>1, <2>0, <2>3 DEF Others
  <2> QED BY <2>1, <2>2, <2>3
<1> QED BY <1>1, <1>4, <1>5, <1>6, <1>7, <1>8 DEF LockInv

LEMMA CollideSymmetric == \A x, y : Collide(x, y) <=> Collide(y, x)
BY DEF Collide

(* Rows of a view do not collide, and with the additions of another         *)
(* transaction that holds no lock on them neither.                         *)
LEMMA ViewUnique ==
  ASSUME LockInv, NEW r \in Requests
  PROVE  \A x, y \in View(r) : x # y => ~Collide(x, y)
BY CollideSymmetric DEF LockInv, UniqueKeys, ViewsAreUnique, View

LEMMA OthersAvoid ==
  ASSUME LockInv, NEW r \in Requests, NEW o \in Others(r), NEW x \in View(r),
         x.id \notin Ids(tx[o].del)
  PROVE  \A y \in tx[o].ins : ~Collide(x, y)
<1>1. CASE x \in tx[r].ins
  BY <1>1 DEF LockInv, Isolated
<1>2. CASE x \in db \ tx[r].del
  <2>1. x \in db \ tx[o].del
    BY <1>2 DEF Ids
  <2> QED BY <2>1, CollideSymmetric DEF LockInv, ViewsAreUnique, Others
<1> QED BY <1>1, <1>2 DEF View

LEMMA CurrentInView ==
  ASSUME NEW r, NEW id, Exists(r, id)
  PROVE  Current(r, id) \in View(r) /\ Current(r, id).id = id
BY DEF Exists, Current, Ids

LEMMA InsertKeeps ==
  ASSUME LockInv, NEW r \in Requests, NEW row, NEW rest, ExecuteInsert(r, row, rest), db' = db
  PROVE  LockInv'
<1>1. \A o \in Others(r) :
        /\ \A y \in tx[o].ins : ~Collide(y, row)
        /\ row.parents \cap Ids(tx[o].del) = {}
  BY DEF ExecuteInsert, InsertBlockers, KeyHolders, RowLockers
<1>2. \A y \in View(r) : ~Collide(row, y)
  BY CollideSymmetric DEF ExecuteInsert, UniqueOK
<1>3. \A x \in (View(r) \ {}) \cup {row} : x.parents \subseteq Ids((View(r) \ {}) \cup {row})
  <2>1. \A x \in View(r) : x.parents \subseteq Ids(View(r))
    BY DEF LockInv, ViewsAreClosed
  <2>2. row.parents \subseteq Ids(View(r))
    BY DEF ExecuteInsert, ParentsExist
  <2> QED BY <2>1, <2>2 DEF Ids
<1>4. Change(r, {}, {row}, rest)
  BY DEF ExecuteInsert
<1>5. Ids({}) = {}
  BY DEF Ids
<1> QED
  <2> DEFINE out == {}  in == {row}
  <2>1. \A o \in Others(r) :
          /\ Ids(out) \cap Ids(tx[o].del) = {}
          /\ \A n \in in, y \in tx[o].ins : ~Collide(n, y) /\ ~Collide(y, n)
          /\ \A n \in in : n.parents \cap Ids(tx[o].del) \subseteq Ids(tx[o].ins)
          /\ \A y \in tx[o].ins : y.parents \cap Ids(out) \subseteq Ids(in)
    BY <1>1, <1>5, CollideSymmetric
  <2>2. /\ out \subseteq View(r)
        /\ \A n, m \in in : n = m
        /\ \A n \in in, y \in View(r) \ out : ~Collide(n, y)
    BY <1>2
  <2>3. \A x \in (View(r) \ out) \cup in : x.parents \subseteq Ids((View(r) \ out) \cup in)
    BY <1>3
  <2>4. Change(r, out, in, rest)
    BY <1>4
  <2> HIDE DEF out, in
  <2> QED BY <2>1, <2>2, <2>3, <2>4, ChangeKeeps

LEMMA RenameKeeps ==
  ASSUME LockInv, NEW r \in Requests, NEW row, NEW rest, ExecuteRename(r, row, rest), db' = db
  PROVE  LockInv'
<1> DEFINE out == {Current(r, row.id)}  in == {row}
<1>1. /\ out \subseteq View(r)
      /\ Ids(out) = {row.id} /\ Ids(in) = {row.id}
      /\ \A n, m \in in : n = m
  BY CurrentInView DEF ExecuteRename, Ids
<1>2. \A n \in in, y \in View(r) \ out : ~Collide(n, y)
  BY CollideSymmetric DEF ExecuteRename, UniqueOK
<1>3. \A o \in Others(r) :
        /\ Ids(out) \cap Ids(tx[o].del) = {}
        /\ \A n \in in, y \in tx[o].ins : ~Collide(n, y) /\ ~Collide(y, n)
        /\ \A n \in in : n.parents \cap Ids(tx[o].del) \subseteq Ids(tx[o].ins)
        /\ \A y \in tx[o].ins : y.parents \cap Ids(out) \subseteq Ids(in)
  <2>1. /\ RowLockers(r, row.id) = {} /\ KeyHolders(r, row) = {}
        /\ \A p \in row.parents : RowLockers(r, p) = {}
    BY DEF ExecuteRename, RenameBlockers, InsertBlockers
  <2>2. \A o \in Others(r) :
          /\ row.id \notin Ids(tx[o].del)
          /\ row.parents \cap Ids(tx[o].del) = {}
    BY <2>1 DEF RowLockers
  <2>3. \A o \in Others(r) : \A y \in tx[o].ins : ~Collide(y, row)
    BY <2>1 DEF KeyHolders
  <2> QED BY <1>1, <2>2, <2>3, CollideSymmetric
<1>4. \A x \in (View(r) \ out) \cup in : x.parents \subseteq Ids((View(r) \ out) \cup in)
  <2>1. Ids(View(r)) \subseteq Ids((View(r) \ out) \cup in)
    BY <1>1 DEF Ids
  <2>2. \A x \in View(r) : x.parents \subseteq Ids(View(r))
    BY DEF LockInv, ViewsAreClosed
  <2>3. row.parents \subseteq Ids(View(r))
    BY DEF ExecuteRename, ParentsExist
  <2> QED BY <2>1, <2>2, <2>3
<1>5. Change(r, out, in, rest)
  BY DEF ExecuteRename
<1> HIDE DEF out, in
<1> QED BY <1>1, <1>2, <1>3, <1>4, <1>5, ChangeKeeps

LEMMA DetachKeeps ==
  ASSUME LockInv, NEW r \in Requests, NEW ids, NEW rest, ExecuteDetach(r, ids, rest), db' = db
  PROVE  LockInv'
<1> PICK id \in ids : /\ RowLockers(r, id) = {}
                      /\ Exists(r, id)
                      /\ Change(r, {Current(r, id)}, {Orphaned(Current(r, id))},
                                Detach(ids \ {id}) \o rest)
  BY DEF ExecuteDetach
<1> DEFINE row == Current(r, id)  out == {row}  in == {Orphaned(row)}
<1>1. /\ row \in View(r) /\ row.id = id
      /\ Orphaned(row).id = id /\ Orphaned(row).parents = {}
      /\ \A y : Collide(Orphaned(row), y) <=> Collide(row, y)
  BY CurrentInView DEF Orphaned, Collide
<1> HIDE DEF row
<1>2. /\ out \subseteq View(r)
      /\ Ids(out) = {id} /\ Ids(in) = {id}
      /\ \A n, m \in in : n = m
  BY <1>1 DEF Ids
<1>3. \A n \in in, y \in View(r) \ out : ~Collide(n, y)
  BY <1>1, ViewUnique
<1>4. \A o \in Others(r) :
        /\ Ids(out) \cap Ids(tx[o].del) = {}
        /\ \A n \in in, y \in tx[o].ins : ~Collide(n, y) /\ ~Collide(y, n)
        /\ \A n \in in : n.parents \cap Ids(tx[o].del) \subseteq Ids(tx[o].ins)
        /\ \A y \in tx[o].ins : y.parents \cap Ids(out) \subseteq Ids(in)
  <2>1. \A o \in Others(r) : id \notin Ids(tx[o].del)
    BY DEF RowLockers
  <2>2. \A o \in Others(r) : \A y \in tx[o].ins : ~Collide(row, y)
    BY <1>1, <2>1, OthersAvoid
  <2> QED BY <1>1, <1>2, <2>1, <2>2, CollideSymmetric
<1>5. \A x \in (View(r) \ out) \cup in : x.parents \subseteq Ids((View(r) \ out) \cup in)
  <2>1. Ids(View(r)) \subseteq Ids((View(r) \ out) \cup in)
    BY <1>1 DEF Ids
  <2>2. \A x \in View(r) : x.parents \subseteq Ids(View(r))
    BY DEF LockInv, ViewsAreClosed
  <2> QED BY <1>1, <2>1, <2>2
<1>6. Change(r, out, in, Detach(ids \ {id}) \o rest)
  BY DEF row
<1> HIDE DEF out, in
<1> QED BY <1>2, <1>3, <1>4, <1>5, <1>6, ChangeKeeps

LEMMA DeleteKeeps ==
  ASSUME LockInv, NEW r \in Requests, NEW ids, NEW rest, ExecuteDelete(r, ids, rest), db' = db
  PROVE  LockInv'
<1> PICK id \in ids : /\ DeleteBlockers(r, id) = {}
                      /\ NoChildLeft(r, id)
                      /\ Change(r, Victims(r, id), {}, Delete(ids \ {id}) \o rest)
  BY DEF ExecuteDelete
<1> DEFINE out == Victims(r, id)  in == {}
<1>1. /\ out \subseteq View(r) /\ Ids(in) = {}
      /\ \A n, m \in in : n = m
      /\ \A n \in in, y \in View(r) \ out : ~Collide(n, y)
  BY DEF Victims, Ids
<1>2. \A o \in Others(r) :
        /\ id \notin Ids(tx[o].del)
        /\ \A i \in {id} \cup Ids(out) :
             /\ \A y \in tx[o].ins : ~RefersTo(y, i)
             /\ \A y \in tx[o].del : ~RefersTo(y, i)
  <2>1. /\ RowLockers(r, id) = {}
        /\ \A i \in {id} \cup Ids(out) : KeySharers(r, i) = {} /\ ChildLockers(r, i) = {}
    BY DEF DeleteBlockers
  <2> QED BY <2>1 DEF RowLockers, KeySharers, ChildLockers
<1>3. \A o \in Others(r) : Ids(out) \cap Ids(tx[o].del) = {}
  <2> SUFFICES ASSUME NEW o \in Others(r), NEW v \in out, NEW y \in tx[o].del, v.id = y.id
               PROVE  FALSE
    BY DEF Ids
  <2>1. v.id # id
    BY <1>2 DEF Ids
  <2>2. v \in View(r) /\ RefersTo(v, id)
    BY <2>1 DEF Victims
  <2>3. y \in db
    BY DEF LockInv, HeldRows, Others
  <2>4. CASE v \in tx[r].ins
    <3>1. CASE y \in tx[r].del
      <4>1. y.id \in Ids(tx[r].del) /\ y.id \in Ids(tx[o].del)
        BY <3>1 DEF Ids
      <4> QED BY <4>1 DEF LockInv, Isolated
    <3>2. CASE y \notin tx[r].del
      BY <2>3, <2>4, <3>2 DEF LockInv, ViewsAreUnique, Collide
    <3> QED BY <3>1, <3>2
  <2>5. CASE v \in db
    <3>1. v = y
      BY <2>3, <2>5 DEF LockInv, UniqueKeys, Collide
    <3> QED BY <1>2, <2>2, <3>1
  <2> QED BY <2>2, <2>4, <2>5 DEF View
<1>4. \A o \in Others(r) :
        /\ \A n \in in, y \in tx[o].ins : ~Collide(n, y) /\ ~Collide(y, n)
        /\ \A n \in in : n.parents \cap Ids(tx[o].del) \subseteq Ids(tx[o].ins)
        /\ \A y \in tx[o].ins : y.parents \cap Ids(out) \subseteq Ids(in)
  BY <1>2 DEF RefersTo
<1>5. \A x \in (View(r) \ out) \cup in : x.parents \subseteq Ids((View(r) \ out) \cup in)
  <2> SUFFICES ASSUME NEW x \in View(r) \ out, NEW p \in x.parents
               PROVE  p \in Ids(View(r) \ out)
    OBVIOUS
  <2>1. PICK y \in View(r) : y.id = p
    BY DEF LockInv, ViewsAreClosed, Ids
  <2>2. y \notin out
    BY <2>1 DEF NoChildLeft, RefersTo
  <2> QED BY <2>1, <2>2 DEF Ids
<1>6. Change(r, out, in, Delete(ids \ {id}) \o rest)
  OBVIOUS
<1> HIDE DEF out, in
<1> QED BY <1>1, <1>3, <1>4, <1>5, <1>6, ChangeKeeps

(* Steps that only change what is left to execute.                         *)
LEMMA FrameKeeps ==
  ASSUME LockInv, DOMAIN tx' = DOMAIN tx, db' = db,
         \A q \in Requests : tx'[q].ins = tx[q].ins /\ tx'[q].del = tx[q].del
  PROVE  LockInv'
<1>1. DOMAIN tx' = Requests
  BY DEF LockInv
<1>2. \A q \in Requests : View(q)' = View(q)
  BY DEF View
<1>3. UniqueKeys' /\ NoOrphans'
  BY DEF LockInv, UniqueKeys, NoOrphans, Collide, Ids
<1>4. ViewsAreUnique' /\ HeldRows'
  BY DEF LockInv, ViewsAreUnique, HeldRows, Collide
<1>5. ViewsAreClosed'
  BY <1>2 DEF LockInv, ViewsAreClosed, Ids
<1>6. Isolated'
  <2> SUFFICES ASSUME NEW p \in Requests, NEW o \in Others(p)
               PROVE  /\ \A x \in tx'[p].ins, y \in tx'[o].ins : ~Collide(x, y)
                      /\ Ids(tx'[p].del) \cap Ids(tx'[o].del) = {}
                      /\ \A x \in tx'[p].ins :
                           x.parents \cap Ids(tx'[o].del) \subseteq Ids(tx'[o].ins)
    BY DEF Isolated, Others, Collide, Ids
  <2>1. o \in Requests
    BY DEF Others
  <2> QED BY <2>1 DEF LockInv, Isolated
<1> QED BY <1>1, <1>3, <1>4, <1>5, <1>6 DEF LockInv

LEMMA ExecuteKeeps ==
  ASSUME LockInv, NEW r \in Requests, Execute(r)
  PROVE  LockInv'
<1> DEFINE s == Head(tx[r].todo)  rest == Tail(tx[r].todo)
<1>1. CASE ExecuteInsert(r, s.arg, rest)
  BY <1>1, InsertKeeps DEF Execute
<1>2. CASE ExecuteRename(r, s.arg, rest)
  BY <1>2, RenameKeeps DEF Execute
<1>3. CASE ExecuteDelete(r, s.arg, rest)
  BY <1>3, DeleteKeeps DEF Execute
<1>4. CASE ExecuteDetach(r, s.arg, rest)
  BY <1>4, DetachKeeps DEF Execute
<1>5. CASE ExecuteClear(r, s.arg[1], s.arg[2], rest)
  <2>1. /\ DOMAIN tx' = DOMAIN tx /\ db' = db
        /\ \A q \in Requests : tx'[q].ins = tx[q].ins /\ tx'[q].del = tx[q].del
    BY <1>5 DEF Execute, ExecuteClear, Change, LockInv
  <2> QED BY <2>1, FrameKeeps
<1> QED BY <1>1, <1>2, <1>3, <1>4, <1>5 DEF Execute

(* A transaction without changes sees the committed rows.                  *)
LEMMA RollbackKeeps ==
  ASSUME LockInv, NEW r \in Requests, Rollback(r)
  PROVE  LockInv'
<1>1. /\ DOMAIN tx' = Requests /\ db' = db
      /\ tx'[r].ins = {} /\ tx'[r].del = {}
      /\ \A o \in Others(r) : tx'[o] = tx[o]
  BY DEF LockInv, Rollback, NoTransaction, Others
<1>2. View(r)' = db /\ \A o \in Others(r) : View(o)' = View(o)
  BY <1>1 DEF View
<1>3. \A q \in Requests : q = r \/ q \in Others(r)
  BY DEF Others
<1>4. UniqueKeys' /\ NoOrphans'
  BY <1>1 DEF LockInv, UniqueKeys, NoOrphans, Collide, Ids
<1>5. ViewsAreUnique' /\ HeldRows'
  BY <1>1, <1>3 DEF LockInv, ViewsAreUnique, HeldRows, Collide
<1>6. ViewsAreClosed'
  <2> SUFFICES ASSUME NEW q \in Requests
               PROVE  \A x \in View(q)' : x.parents \subseteq Ids(View(q)')
    BY DEF ViewsAreClosed, Ids
  <2> QED BY <1>2, <1>3 DEF LockInv, ViewsAreClosed, NoOrphans
<1>7. Isolated'
  <2> SUFFICES ASSUME NEW p \in Requests, NEW o \in Others(p)
               PROVE  /\ \A x \in tx'[p].ins, y \in tx'[o].ins : ~Collide(x, y)
                      /\ Ids(tx'[p].del) \cap Ids(tx'[o].del) = {}
                      /\ \A x \in tx'[p].ins :
                           x.parents \cap Ids(tx'[o].del) \subseteq Ids(tx'[o].ins)
    BY DEF Isolated, Others, Collide, Ids
  <2>1. /\ tx'[p] = tx[p] \/ (tx'[p].ins = {} /\ tx'[p].del = {})
        /\ tx'[o] = tx[o] \/ (tx'[o].ins = {} /\ tx'[o].del = {})
    BY <1>1, <1>3 DEF Others
  <2>2. Ids({}) = {}
    BY DEF Ids
  <2> QED BY <2>1, <2>2 DEF LockInv, Isolated
<1> QED BY <1>1, <1>4, <1>5, <1>6, <1>7 DEF LockInv

(* A commit makes one view the state of the database; the other views lose  *)
(* what it deleted and gain what it added, and stay closed.                *)
LEMMA CommitKeeps ==
  ASSUME LockInv, NEW r \in Requests, Commit(r)
  PROVE  LockInv'
<1>1. /\ DOMAIN tx' = Requests /\ db' = View(r)
      /\ tx'[r].ins = {} /\ tx'[r].del = {}
      /\ \A o \in Others(r) : tx'[o] = tx[o]
  BY DEF LockInv, Commit, NoTransaction, Others, View
<1>2. \A q \in Requests : q = r \/ q \in Others(r)
  BY DEF Others
<1>3. \A o \in Others(r) : r \in Others(o) /\ o \in Requests
  BY DEF Others
<1>4. UniqueKeys'
  BY <1>1, ViewUnique DEF UniqueKeys, Collide
<1>5. NoOrphans'
  BY <1>1 DEF LockInv, ViewsAreClosed, NoOrphans, Ids
<1>6. \A o \in Others(r) : tx[o].del \subseteq db' /\ tx[r].ins \cap tx[o].del = {}
  <2> SUFFICES ASSUME NEW o \in Others(r), NEW y \in tx[o].del
               PROVE  y \in View(r) /\ y \notin tx[r].ins
    BY <1>1
  <2>1. y \in db
    BY <1>3 DEF LockInv, HeldRows
  <2>2. y \notin tx[r].del
    BY DEF LockInv, Isolated, Ids
  <2>3. y \notin tx[r].ins
    BY <2>1, <2>2 DEF LockInv, ViewsAreUnique, Collide
  <2> QED BY <2>1, <2>2, <2>3 DEF View
<1>7. HeldRows'
  BY <1>1, <1>2, <1>6 DEF HeldRows
<1>8. ViewsAreUnique'
  <2> SUFFICES ASSUME NEW q \in Requests
               PROVE  /\ \A x \in tx'[q].ins, y \in db' \ tx'[q].del : ~Collide(x, y)
                      /\ \A x, y \in tx'[q].ins : x # y => ~Collide(x, y)
    BY DEF ViewsAreUnique, Collide
  <2>1. CASE q \in Others(r)
    <3>1. /\ \A x \in tx[q].ins, y \in db \ tx[q].del : ~Collide(x, y)
          /\ \A x, y \in tx[q].ins : x # y => ~Collide(x, y)
          /\ \A x \in tx[q].ins, y \in tx[r].ins : ~Collide(x, y)
      BY <1>3, <2>1 DEF LockInv, ViewsAreUnique, Isolated
    <3> QED BY <1>1, <2>1, <3>1 DEF View
  <2> QED BY <1>1, <1>2, <2>1
<1>9. ViewsAreClosed'
  <2> SUFFICES ASSUME NEW q \in Requests
               PROVE  \A x \in View(q)' : x.parents \subseteq Ids(View(q)')
    BY DEF ViewsAreClosed, Ids
  <2>1. CASE q = r
    <3>1. View(q)' = View(r)
      BY <1>1, <2>1 DEF View
    <3> QED BY <3>1 DEF LockInv, ViewsAreClosed
  <2>2. CASE q \in Others(r)
    <3>1. View(q)' = (View(r) \ tx[q].del) \cup tx[q].ins
      BY <1>1, <2>2 DEF View
    <3> SUFFICES ASSUME NEW x \in View(q)', NEW p \in x.parents
                 PROVE  \E z \in View(q)' : z.id = p
      BY DEF Ids
    <3>2. /\ Ids(tx[q].del) \cap Ids(tx[r].del) = {}
          /\ \A w \in tx[r].ins : w.parents \cap Ids(tx[q].del) \subseteq Ids(tx[q].ins)
          /\ \A w \in tx[q].ins : w.parents \cap Ids(tx[r].del) \subseteq Ids(tx[r].ins)
      BY <1>3, <2>2 DEF LockInv, Isolated
    <3>3. /\ \A w \in View(r) : w.parents \subseteq Ids(View(r))
          /\ \A w \in View(q) : w.parents \subseteq Ids(View(q))
      BY DEF LockInv, ViewsAreClosed
    <3>4. CASE x \in tx[q].ins
      <4>1. PICK y \in View(q) : y.id = p
        BY <3>3, <3>4 DEF View, Ids
      <4>2. CASE y \in View(q)'
        BY <4>1, <4>2
      <4>3. CASE y \notin View(q)'
        <5>1. y \in tx[r].del
          BY <3>1, <4>3 DEF View
        <5>2. PICK z \in tx[r].ins : z.id = p
          BY <3>2, <3>4, <4>1, <5>1 DEF Ids
        <5>3. z \in View(r) /\ z \notin tx[q].del
          BY <1>6, <2>2 DEF View
        <5> QED BY <3>1, <5>2, <5>3
      <4> QED BY <4>2, <4>3
    <3>5. CASE x \in View(r) \ tx[q].del
      <4>1. PICK y \in View(r) : y.id = p
        BY <3>3, <3>5 DEF Ids
      <4>2. CASE y \notin tx[q].del
        BY <3>1, <4>1, <4>2
      <4>3. CASE y \in tx[q].del
        <5>1. CASE x \in tx[r].ins
          <6>1. PICK z \in tx[q].ins : z.id = p
            BY <3>2, <4>1, <4>3, <5>1 DEF Ids
          <6> QED BY <3>1, <6>1
        <5>2. CASE x \in db
          <6>1. x \in View(q)
            BY <3>5, <5>2 DEF View
          <6>2. PICK z \in View(q) : z.id = p
            BY <3>3, <6>1 DEF Ids
          <6>3. z \notin tx[r].del
            BY <3>2, <4>1, <4>3, <6>2 DEF Ids
          <6> QED BY <3>1, <6>2, <6>3 DEF View
        <5> QED BY <3>5, <5>1, <5>2 DEF View
      <4> QED BY <4>2, <4>3
    <3> QED BY <3>1, <3>4, <3>5
  <2> QED BY <1>2, <2>1, <2>2
<1>10. Isolated'
  <2> SUFFICES ASSUME NEW p \in Requests, NEW o \in Others(p)
               PROVE  /\ \A x \in tx'[p].ins, y \in tx'[o].ins : ~Collide(x, y)
                      /\ Ids(tx'[p].del) \cap Ids(tx'[o].del) = {}
                      /\ \A x \in tx'[p].ins :
                           x.parents \cap Ids(tx'[o].del) \subseteq Ids(tx'[o].ins)
    BY DEF Isolated, Others, Collide, Ids
  <2>1. /\ tx'[p] = tx[p] \/ (tx'[p].ins = {} /\ tx'[p].del = {})
        /\ tx'[o] = tx[o] \/ (tx'[o].ins = {} /\ tx'[o].del = {})
    BY <1>1, <1>2 DEF Others
  <2>2. Ids({}) = {}
    BY DEF Ids
  <2> QED BY <2>1, <2>2 DEF LockInv, Isolated
<1> QED BY <1>1, <1>4, <1>5, <1>7, <1>8, <1>9, <1>10 DEF LockInv

(* A database that violates nothing, before the first transaction.         *)
LEMMA FreshKeeps ==
  ASSUME UniqueKeys, NoOrphans, tx = [r \in Requests |-> NoTransaction]
  PROVE  LockInv
<1>1. /\ DOMAIN tx = Requests
      /\ \A r \in Requests : tx[r].ins = {} /\ tx[r].del = {}
  BY DEF NoTransaction
<1>2. \A r \in Requests : View(r) = db
  BY <1>1 DEF View
<1>3. Ids({}) = {}
  BY DEF Ids
<1>4. ViewsAreClosed
  BY <1>2 DEF ViewsAreClosed, NoOrphans
<1> QED BY <1>1, <1>3, <1>4 DEF LockInv, ViewsAreUnique, HeldRows, Isolated, Others

(* Statements are given to a transaction, or nothing happens to it.         *)
LEMMA GivenKeeps ==
  ASSUME LockInv, NEW r \in Requests, NEW statements,
         tx' = [tx EXCEPT ![r].todo = statements], db' = db
  PROVE  LockInv'
<1>1. /\ DOMAIN tx' = DOMAIN tx
      /\ \A q \in Requests : tx'[q].ins = tx[q].ins /\ tx'[q].del = tx[q].del
  BY DEF LockInv
<1> QED BY <1>1, FrameKeeps
=============================================================================
