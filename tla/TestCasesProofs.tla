--------------------------- MODULE TestCasesProofs ----------------------------
(***************************************************************************)
(* Proofs about the test cases of a problem: nothing refers to a row that  *)
(* is gone, what was submitted and judged is never lost, only overlapping  *)
(* requests and failed uploads mix test cases, and an upload that succeeds *)
(* replaces them all.                                                      *)
(***************************************************************************)
EXTENDS TestCasesProperties, TransactionsProofs, FiniteSetTheorems, WellFoundedInduction,
        SequenceTheorems

-----------------------------------------------------------------------------
(* References                                                              *)

LEMMA InitConsistent ==
  ASSUME Init
  PROVE  UniqueKeys /\ NoOrphans
<1>0. PICK by \in Earlier, n \in 0 .. MaxPairs, submitted \in BOOLEAN, judged \in BOOLEAN :
        LET tests == {TestRow(by, i) : i \in 0 .. n - 1}
            submission == IF submitted THEN {SubmissionRow("seed")} ELSE {}
            results == IF submitted /\ judged /\ by = "seed"
                       THEN {ResultRow("seed", Submission("seed"), t.id) : t \in tests} ELSE {}
        IN  db = {ProblemRow} \cup tests \cup submission \cup results
  BY DEF Init
<1> DEFINE tests == {TestRow(by, i) : i \in 0 .. n - 1}
           submission == IF submitted THEN {SubmissionRow("seed")} ELSE {}
           results == IF submitted /\ judged /\ by = "seed"
                      THEN {ResultRow("seed", Submission("seed"), t.id) : t \in tests} ELSE {}
<1>1. db = {ProblemRow} \cup tests \cup submission \cup results
  BY <1>0
<1>2. ASSUME NEW x \in db
      PROVE  \/ x = ProblemRow
             \/ x \in tests /\ \E i \in 0 .. n - 1 : x = TestRow(by, i)
             \/ x = SubmissionRow("seed") /\ x \in submission
             \/ /\ submission = {SubmissionRow("seed")}
                /\ \E t \in tests : x = ResultRow("seed", Submission("seed"), t.id)
  BY <1>1
<1>3. NoOrphans
  <2> SUFFICES ASSUME NEW x \in db PROVE x.parents \subseteq Ids(db)
    BY DEF NoOrphans
  <2>1. ProblemRow \in db /\ tests \subseteq db /\ submission \subseteq db
    BY <1>1
  <2>2. Problem \in Ids(db)
    BY <2>1 DEF Ids, ProblemRow
  <2>3. CASE \E t \in tests : x = ResultRow("seed", Submission("seed"), t.id)
                              /\ submission = {SubmissionRow("seed")}
    <3>1. PICK t \in tests : x = ResultRow("seed", Submission("seed"), t.id)
      BY <2>3
    <3>2. t.id \in Ids(db) /\ SubmissionRow("seed").id \in Ids(db)
      BY <2>1, <2>3 DEF Ids
    <3> QED BY <3>1, <3>2 DEF ResultRow, SubmissionRow
  <2> QED BY <1>2, <2>2, <2>3 DEF ProblemRow, TestRow, SubmissionRow
<1>4. UniqueKeys
  <2> SUFFICES ASSUME NEW x \in db, NEW y \in db, x.id = y.id PROVE x = y
    <3>1. \A x \in db : x.keys = {}
      BY <1>2 DEF ProblemRow, TestRow, SubmissionRow, ResultRow
    <3> QED BY <3>1 DEF UniqueKeys, Collide
  <2>1. \A z \in db : /\ z.id[1] = "problem" => z = ProblemRow
                      /\ z.id[1] = "test" => z = TestRow(by, z.id[3])
                      /\ z.id[1] = "submission" => z = SubmissionRow("seed")
                      /\ z.id[1] = "result" => z = ResultRow("seed", Submission("seed"), z.id[3])
                      /\ z.id[1] \in {"problem", "test", "submission", "result"}
    BY <1>2 DEF ProblemRow, TestRow, SubmissionRow, ResultRow, Problem, Test, Submission
  <2> QED BY <2>1
<1> QED BY <1>3, <1>4

LEMMA NextKeepsLocks == LockInv /\ [Next]_vars => LockInv'
<1> SUFFICES ASSUME LockInv, [Next]_vars PROVE LockInv'
  OBVIOUS
<1>1. CASE UNCHANGED <<db, tx>>
  BY <1>1, FrameKeeps
<1>2. ASSUME NEW r \in Requests, NEW statements, NEW s, Run(r, statements, s) PROVE LockInv'
  BY <1>2, GivenKeeps DEF Run
<1>3. ASSUME NEW r \in Requests, NEW how, Refuse(r, how) PROVE LockInv'
  BY <1>3, RollbackKeeps DEF Refuse
<1>4. ASSUME NEW r \in Requests, AddIndex(r) \/ Remove(r) \/ Upload(r) \/ InsertArchive(r)
                                   \/ DeleteProblem(r) \/ Submit(r) \/ JudgeRecord(r)
      PROVE  LockInv'
  BY <1>4, <1>2 DEF AddIndex, Remove, Upload, InsertArchive, DeleteProblem, Submit, JudgeRecord
<1>5. ASSUME NEW r \in Requests, NotFound(r) \/ RemoveRefused(r) \/ PutFails(r)
                                   \/ DeleteProblemRefused(r) \/ StatementFails(r) \/ BreakDeadlock(r)
      PROVE  LockInv'
  BY <1>5, <1>3
     DEF NotFound, RemoveRefused, PutFails, DeleteProblemRefused, StatementFails, BreakDeadlock
<1>6. ASSUME NEW r \in Requests, AddLoad(r) \/ RemoveLoad(r) \/ Cleared(r) \/ PutFile(r)
                                   \/ DeleteProblemLoad(r) \/ JudgeLoad(r)
      PROVE  UNCHANGED <<db, tx>>
  BY <1>6 DEF AddLoad, RemoveLoad, Cleared, PutFile, DeleteProblemLoad, JudgeLoad, Goto
<1>7. ASSUME NEW r \in Requests, NEW q, Begin(r, q) PROVE UNCHANGED <<db, tx>>
  BY <1>7 DEF Begin
<1>8. ASSUME NEW r \in Requests, RunStatement(r) PROVE LockInv'
  BY <1>8, ExecuteKeeps DEF RunStatement
<1>9. ASSUME NEW r \in Requests, Finish(r) PROVE LockInv'
  BY <1>9, CommitKeeps DEF Finish
<1> QED BY <1>1, <1>4, <1>5, <1>6, <1>7, <1>8, <1>9 DEF Next, Handle, vars

(* No test case of a problem that is gone, no result of a test case that is *)
(* gone, whatever removals, uploads and judges overlap.                    *)
THEOREM NothingIsOrphaned == Spec => []NoOrphans
<1>1. Init => LockInv
  BY InitConsistent, FreshKeeps DEF Init
<1>2. LockInv => NoOrphans
  BY DEF LockInv
<1> QED BY <1>1, <1>2, NextKeepsLocks, PTL DEF Spec

-----------------------------------------------------------------------------
(* History                                                                 *)

HarmlessList(q) ==
  /\ \E S : q \in Seq(S)
  /\ \A i \in DOMAIN q : Harmless(q[i])

(* HistoryInv for the transactions, with what its proof needs of sets and   *)
(* lists: they are finite.                                                 *)
TransactionsAreHarmless ==
  /\ DOMAIN tx = Requests /\ IsFiniteSet(db) /\ \A x \in db : Stored(x)
  /\ \A r \in Requests :
       /\ IsFiniteSet(tx[r].ins) /\ \A x \in tx[r].ins : Stored(x)
       /\ \A x \in tx[r].del : Removable(x.id)
       /\ HarmlessList(tx[r].todo)
RequestsAreHarmless ==
  /\ DOMAIN loaded = Requests /\ DOMAIN req = Requests /\ DOMAIN step = Requests
  /\ \A r \in Requests :
       /\ IsFiniteSet(loaded[r]) /\ \A id \in loaded[r] : Removable(id)
       /\ req[r].kind = "remove" => Removable(req[r].test)
       /\ req[r].kind = "upload" => req[r].pairs \in Nat
       /\ step[r] = "results" => req[r].kind = "remove"
       /\ step[r] \in {"clear", "put"} => req[r].kind = "upload"
KeptInv == TransactionsAreHarmless /\ RequestsAreHarmless

LEMMA ListParts ==
  ASSUME NEW q, HarmlessList(q), q # <<>>
  PROVE  Harmless(Head(q)) /\ HarmlessList(Tail(q))
<1>1. PICK S : q \in Seq(S)
  BY DEF HarmlessList
<1>2. Tail(q) \in Seq(S) /\ Head(q) = q[1] /\ 1 \in DOMAIN q
  BY <1>1
<1>3. \A i \in DOMAIN Tail(q) : i + 1 \in DOMAIN q /\ Tail(q)[i] = q[i + 1]
  BY <1>1
<1> QED BY <1>2, <1>3 DEF HarmlessList

LEMMA ListConcat ==
  ASSUME NEW p, NEW q, HarmlessList(p), HarmlessList(q)
  PROVE  HarmlessList(p \o q)
<1>1. PICK S : p \in Seq(S)
  BY DEF HarmlessList
<1>2. PICK T : q \in Seq(T)
  BY DEF HarmlessList
<1>3. p \in Seq(S \cup T) /\ q \in Seq(S \cup T)
  BY <1>1, <1>2
<1>4. p \o q \in Seq(S \cup T)
  BY <1>3
<1>5. \A i \in DOMAIN (p \o q) : \/ i \in DOMAIN p /\ (p \o q)[i] = p[i]
                                 \/ i - Len(p) \in DOMAIN q /\ (p \o q)[i] = q[i - Len(p)]
  BY <1>3
<1> QED BY <1>4, <1>5 DEF HarmlessList

LEMMA ListOf ==
  ASSUME NEW n \in Nat, NEW q, q = [i \in 1 .. n |-> q[i]], \A i \in 1 .. n : Harmless(q[i])
  PROVE  HarmlessList(q)
<1>1. q \in Seq({q[i] : i \in 1 .. n})
  <2> DEFINE S == {q[i] : i \in 1 .. n}
  <2>1. q \in [1 .. n -> S]
    OBVIOUS
  <2> QED BY <2>1
<1>2. DOMAIN q = 1 .. n
  OBVIOUS
<1> QED BY <1>1, <1>2 DEF HarmlessList

LEMMA ListShort ==
  /\ HarmlessList(<<>>)
  /\ \A s : Harmless(s) => HarmlessList(<<s>>)
  /\ \A ids : (\A id \in ids : Removable(id)) => HarmlessList(Delete(ids))
<1>1. HarmlessList(<<>>)
  <2>1. <<>> \in Seq({}) /\ DOMAIN <<>> = {}
    OBVIOUS
  <2> QED BY <2>1 DEF HarmlessList
<1>2. ASSUME NEW s, Harmless(s) PROVE HarmlessList(<<s>>)
  <2>1. <<s>> \in Seq({s}) /\ DOMAIN <<s>> = {1} /\ <<s>>[1] = s
    OBVIOUS
  <2> QED BY <1>2, <2>1 DEF HarmlessList
<1>3. ASSUME NEW ids, \A id \in ids : Removable(id) PROVE HarmlessList(Delete(ids))
  <2>1. Harmless(Statement("delete", ids))
    BY <1>3 DEF Harmless, Statement
  <2> QED BY <1>1, <1>2, <2>1 DEF Delete, ForEach
<1> QED BY <1>1, <1>2, <1>3

LEMMA IdsAreFinite ==
  ASSUME NEW S, IsFiniteSet(S)
  PROVE  IsFiniteSet(Ids(S))
<1> DEFINE f == [x \in S |-> x.id]
<1>1. f \in Surjection(S, Ids(S))
  BY DEF Surjection, Ids
<1> QED BY <1>1, FS_Surjection

LEMMA ViewIsFinite ==
  ASSUME TransactionsAreHarmless, NEW r \in Requests
  PROVE  /\ IsFiniteSet(View(r)) /\ IsFiniteSet(Tests(View(r)))
         /\ \A x \in View(r) : Stored(x)
         /\ \A t \in Tests(View(r)) : Removable(t)
<1>1. IsFiniteSet(db \ tx[r].del)
  BY FS_Subset DEF TransactionsAreHarmless
<1>2. IsFiniteSet(View(r))
  BY <1>1, FS_Union DEF TransactionsAreHarmless, View
<1>3. Tests(View(r)) \subseteq Ids(View(r))
  BY DEF Tests, IdsOf
<1>4. IsFiniteSet(Tests(View(r)))
  BY <1>2, <1>3, IdsAreFinite, FS_Subset
<1> QED BY <1>2, <1>4 DEF TransactionsAreHarmless, View, Tests, IdsOf, Removable

(* What a transaction deletes and has left to do stays harmless.            *)
LEMMA ChangeIsHarmless ==
  ASSUME TransactionsAreHarmless, NEW r \in Requests, NEW out, NEW in, NEW rest,
         \A x \in out : Removable(x.id), IsFiniteSet(in), \A x \in in : Stored(x),
         HarmlessList(rest), Change(r, out, in, rest), db' = db
  PROVE  TransactionsAreHarmless'
<1>1. /\ DOMAIN tx' = Requests
      /\ tx'[r] = [ins  |-> (tx[r].ins \ out) \cup in, del |-> tx[r].del \cup (out \cap db),
                   todo |-> rest]
      /\ \A o \in Requests : o # r => tx'[o] = tx[o]
  BY DEF TransactionsAreHarmless, Change
<1>2. IsFiniteSet(tx'[r].ins)
  <2>1. IsFiniteSet(tx[r].ins \ out)
    BY FS_Subset DEF TransactionsAreHarmless
  <2>2. IsFiniteSet((tx[r].ins \ out) \cup in)
    BY <2>1, FS_Union
  <2> QED BY <1>1, <2>2
<1>3. ASSUME NEW o \in Requests
      PROVE  /\ IsFiniteSet(tx'[o].ins) /\ \A x \in tx'[o].ins : Stored(x)
             /\ \A x \in tx'[o].del : Removable(x.id)
             /\ HarmlessList(tx'[o].todo)
  <2>1. CASE o = r
    BY <1>1, <1>2, <2>1 DEF TransactionsAreHarmless
  <2>2. CASE o # r
    BY <1>1, <2>2 DEF TransactionsAreHarmless
  <2> QED BY <2>1, <2>2
<1> QED BY <1>1, <1>3
    DEF TransactionsAreHarmless, Stored, Removable, HarmlessList, Harmless

LEMMA ExecuteIsHarmless ==
  ASSUME TransactionsAreHarmless, NEW r \in Requests, Execute(r)
  PROVE  TransactionsAreHarmless'
<1> DEFINE s == Head(tx[r].todo)  rest == Tail(tx[r].todo)
<1>1. Harmless(s) /\ HarmlessList(rest)
  BY ListParts DEF TransactionsAreHarmless, Execute
<1>2. \/ s.op = "insert" /\ ExecuteInsert(r, s.arg, rest)
      \/ s.op = "delete" /\ ExecuteDelete(r, s.arg, rest)
      \/ s.op = "clear"  /\ ExecuteClear(r, s.arg[1], s.arg[2], rest)
  BY <1>1 DEF Execute, Harmless
<1>3. db' = db
  BY DEF Execute
<1>4. CASE s.op = "insert" /\ ExecuteInsert(r, s.arg, rest)
  <2>1. Stored(s.arg)
    BY <1>1, <1>4 DEF Harmless
  <2>2. Change(r, {}, {s.arg}, rest)
    BY <1>4 DEF ExecuteInsert
  <2>3. IsFiniteSet({s.arg}) /\ \A x \in {s.arg} : Stored(x)
    BY <2>1, FS_Singleton
  <2> HIDE DEF s, rest
  <2> QED BY <1>1, <1>3, <2>2, <2>3, ChangeIsHarmless
<1>5. CASE s.op = "delete" /\ ExecuteDelete(r, s.arg, rest)
  <2>1. PICK id \in s.arg : Change(r, Victims(r, id), {}, Delete(s.arg \ {id}) \o rest)
    BY <1>5 DEF ExecuteDelete
  <2>2. \A i \in s.arg : Removable(i)
    BY <1>1, <1>5 DEF Harmless
  <2>3. \A x \in Victims(r, id) : Removable(x.id)
    BY <2>2, ViewIsFinite DEF Victims, Stored
  <2>4. HarmlessList(Delete(s.arg \ {id}) \o rest)
    BY <1>1, <2>2, ListShort, ListConcat
  <2> HIDE DEF s, rest
  <2> QED BY <1>3, <2>1, <2>3, <2>4, FS_EmptySet, ChangeIsHarmless
<1>6. CASE s.op = "clear" /\ ExecuteClear(r, s.arg[1], s.arg[2], rest)
  <2> DEFINE ids == Ids({x \in View(r) : x.id[1] = s.arg[1] /\ RefersTo(x, s.arg[2])})
  <2>1. Change(r, {}, {}, Delete(ids) \o rest)
    BY <1>6 DEF ExecuteClear
  <2>2. \A id \in ids : Removable(id)
    BY <1>1, <1>6 DEF Harmless, Ids, Removable
  <2>3. HarmlessList(Delete(ids) \o rest)
    BY <1>1, <2>2, ListShort, ListConcat
  <2> HIDE DEF s, rest, ids
  <2> QED BY <1>3, <2>1, <2>3, FS_EmptySet, ChangeIsHarmless
<1> QED BY <1>2, <1>4, <1>5, <1>6

LEMMA RollbackIsHarmless ==
  ASSUME TransactionsAreHarmless, NEW r \in Requests, Rollback(r)
  PROVE  TransactionsAreHarmless'
<1>1. /\ DOMAIN tx' = Requests /\ db' = db
      /\ tx'[r] = NoTransaction
      /\ \A o \in Requests : o # r => tx'[o] = tx[o]
  BY DEF TransactionsAreHarmless, Rollback
<1>2. ASSUME NEW o \in Requests
      PROVE  /\ IsFiniteSet(tx'[o].ins) /\ \A x \in tx'[o].ins : Stored(x)
             /\ \A x \in tx'[o].del : Removable(x.id)
             /\ HarmlessList(tx'[o].todo)
  <2>1. CASE o = r
    <3>1. tx'[r].ins = {} /\ tx'[r].del = {} /\ tx'[r].todo = <<>>
      BY <1>1 DEF NoTransaction
    <3> QED BY <2>1, <3>1, FS_EmptySet, ListShort
  <2>2. CASE o # r
    BY <1>1, <2>2 DEF TransactionsAreHarmless
  <2> QED BY <2>1, <2>2
<1> QED BY <1>1, <1>2 DEF TransactionsAreHarmless, Stored, Removable, HarmlessList, Harmless

LEMMA CommitIsHarmless ==
  ASSUME TransactionsAreHarmless, NEW r \in Requests, Commit(r)
  PROVE  TransactionsAreHarmless'
<1>1. /\ DOMAIN tx' = Requests /\ db' = View(r)
      /\ tx'[r] = NoTransaction
      /\ \A o \in Requests : o # r => tx'[o] = tx[o]
  BY DEF TransactionsAreHarmless, Commit, View
<1>2. ASSUME NEW o \in Requests
      PROVE  /\ IsFiniteSet(tx'[o].ins) /\ \A x \in tx'[o].ins : Stored(x)
             /\ \A x \in tx'[o].del : Removable(x.id)
             /\ HarmlessList(tx'[o].todo)
  <2>1. CASE o = r
    <3>1. tx'[r].ins = {} /\ tx'[r].del = {} /\ tx'[r].todo = <<>>
      BY <1>1 DEF NoTransaction
    <3> QED BY <2>1, <3>1, FS_EmptySet, ListShort
  <2>2. CASE o # r
    BY <1>1, <2>2 DEF TransactionsAreHarmless
  <2> QED BY <2>1, <2>2
<1>3. IsFiniteSet(db') /\ \A x \in db' : Stored(x)
  BY <1>1, ViewIsFinite
<1> QED BY <1>1, <1>2, <1>3 DEF TransactionsAreHarmless, Stored, Removable, HarmlessList, Harmless

(* Harmless statements are given to a transaction.                         *)
LEMMA GivenIsHarmless ==
  ASSUME TransactionsAreHarmless, NEW r \in Requests, NEW statements, HarmlessList(statements),
         tx' = [tx EXCEPT ![r].todo = statements], db' = db
  PROVE  TransactionsAreHarmless'
<1>1. /\ DOMAIN tx' = Requests
      /\ tx'[r].ins = tx[r].ins /\ tx'[r].del = tx[r].del /\ tx'[r].todo \in {statements, tx[r].todo}
      /\ \A o \in Requests : o # r => tx'[o] = tx[o]
  BY DEF TransactionsAreHarmless
<1>2. ASSUME NEW o \in Requests
      PROVE  /\ IsFiniteSet(tx'[o].ins) /\ \A x \in tx'[o].ins : Stored(x)
             /\ \A x \in tx'[o].del : Removable(x.id)
             /\ HarmlessList(tx'[o].todo)
  <2>1. CASE o = r
    BY <1>1, <2>1 DEF TransactionsAreHarmless
  <2>2. CASE o # r
    BY <1>1, <2>2 DEF TransactionsAreHarmless
  <2> QED BY <2>1, <2>2
<1> QED BY <1>1, <1>2 DEF TransactionsAreHarmless, Stored, Removable, HarmlessList, Harmless

(* The steps of the handlers.                                              *)
LEMMA StatementsAreHarmless ==
  ASSUME KeptInv, NEW r \in Requests,
         AddIndex(r) \/ Remove(r) \/ Upload(r) \/ InsertArchive(r) \/ DeleteProblem(r)
           \/ Submit(r) \/ JudgeRecord(r)
  PROVE  \E statements, s : HarmlessList(statements) /\ Run(r, statements, s)
                              /\ s \in {"run", "clear"} /\ (s = "clear" => req[r].kind = "upload")
<1>1. ASSUME NEW row, Stored(row) PROVE HarmlessList(<<Insert(row)>>)
  BY <1>1, ListShort DEF Harmless, Insert, Statement
<1>2. \A by, i : Stored(TestRow(by, i))
  BY DEF Stored, Removable, TestRow, Test
<1>3. CASE AddIndex(r)
  BY <1>1, <1>2, <1>3 DEF AddIndex
<1>4. CASE Remove(r)
  <2>1. Removable(req[r].test)
    BY <1>4 DEF Remove, KeptInv, RequestsAreHarmless
  <2>2. HarmlessList(Delete({req[r].test}))
    BY <2>1, ListShort
  <2> QED BY <1>4, <2>2 DEF Remove
<1>5. CASE Upload(r)
  <2>1. HarmlessList(<<Clear(Problem, "test")>>)
    BY ListShort DEF Harmless, Clear, Statement
  <2> QED BY <1>5, <2>1 DEF Upload, At
<1>6. CASE InsertArchive(r)
  <2> DEFINE q == [i \in 1 .. req[r].pairs |-> Insert(TestRow(r, i - 1))]
  <2>1. req[r].pairs \in Nat
    BY <1>6 DEF InsertArchive, KeptInv, RequestsAreHarmless
  <2>2. \A i \in 1 .. req[r].pairs : Harmless(q[i])
    BY <1>2 DEF Harmless, Insert, Statement
  <2>3. HarmlessList(q)
    BY <2>1, <2>2, ListOf
  <2> QED BY <1>6, <2>3 DEF InsertArchive
<1>7. CASE DeleteProblem(r)
  <2>1. /\ \A id \in loaded[r] : Removable(id)
        /\ \A id \in {Problem} : Removable(id)
    BY DEF KeptInv, RequestsAreHarmless, Removable, Problem
  <2>2. HarmlessList(Delete(loaded[r]) \o Delete({Problem}))
    BY <2>1, ListShort, ListConcat
  <2> QED BY <1>7, <2>2 DEF DeleteProblem
<1>8. CASE Submit(r)
  <2>1. Stored(SubmissionRow(r))
    BY DEF Stored, SubmissionRow
  <2> QED BY <1>1, <1>8, <2>1 DEF Submit
<1>9. CASE JudgeRecord(r)
  <2>1. PICK order \in [1 .. Cardinality(Executed(r)) -> Executed(r)] :
          Run(r, [i \in DOMAIN order |-> Insert(ResultRow(r, req[r].submission, order[i]))], "run")
    BY <1>9 DEF JudgeRecord
  <2> DEFINE n == Cardinality(Executed(r))
             q == [i \in 1 .. n |-> Insert(ResultRow(r, req[r].submission, order[i]))]
  <2>2. n \in Nat
    <3>1. Executed(r) \in SUBSET loaded[r] /\ IsFiniteSet(loaded[r])
      BY DEF Executed, KeptInv, RequestsAreHarmless
    <3>2. IsFiniteSet(Executed(r))
      BY <3>1, FS_Subset
    <3> QED BY <3>2, FS_CardinalityType
  <2>3. \A i \in 1 .. n : Harmless(q[i])
    BY DEF Harmless, Insert, Statement, Stored, ResultRow
  <2>4. HarmlessList(q)
    <3> HIDE DEF n
    <3> QED BY <2>2, <2>3, ListOf
  <2> QED BY <2>1, <2>4
<1> QED BY <1>3, <1>4, <1>5, <1>6, <1>7, <1>8, <1>9

LEMMA FrameIsHarmless ==
  ASSUME TransactionsAreHarmless, UNCHANGED <<db, tx>>
  PROVE  TransactionsAreHarmless'
BY DEF TransactionsAreHarmless, Stored, Removable, HarmlessList, Harmless

LEMMA NextKeepsTransactions ==
  ASSUME KeptInv, [Next]_vars
  PROVE  TransactionsAreHarmless'
<1> USE DEF KeptInv
<1>1. CASE UNCHANGED <<db, tx>>
  BY <1>1, FrameIsHarmless
<1>2. ASSUME NEW r \in Requests, AddIndex(r) \/ Remove(r) \/ Upload(r) \/ InsertArchive(r)
                                   \/ DeleteProblem(r) \/ Submit(r) \/ JudgeRecord(r)
      PROVE  TransactionsAreHarmless'
  BY <1>2, StatementsAreHarmless, GivenIsHarmless DEF Run
<1>3. ASSUME NEW r \in Requests, NEW how, Refuse(r, how) PROVE TransactionsAreHarmless'
  BY <1>3, RollbackIsHarmless DEF Refuse
<1>4. ASSUME NEW r \in Requests, NotFound(r) \/ RemoveRefused(r) \/ PutFails(r)
                                   \/ DeleteProblemRefused(r) \/ StatementFails(r) \/ BreakDeadlock(r)
      PROVE  TransactionsAreHarmless'
  BY <1>3, <1>4
     DEF NotFound, RemoveRefused, PutFails, DeleteProblemRefused, StatementFails, BreakDeadlock
<1>5. ASSUME NEW r \in Requests, AddLoad(r) \/ RemoveLoad(r) \/ Cleared(r) \/ PutFile(r)
                                   \/ DeleteProblemLoad(r) \/ JudgeLoad(r)
      PROVE  UNCHANGED <<db, tx>>
  BY <1>5 DEF AddLoad, RemoveLoad, Cleared, PutFile, DeleteProblemLoad, JudgeLoad, Goto
<1>6. ASSUME NEW r \in Requests, NEW q, Begin(r, q) PROVE UNCHANGED <<db, tx>>
  BY <1>6 DEF Begin
<1>7. ASSUME NEW r \in Requests, RunStatement(r) PROVE TransactionsAreHarmless'
  BY <1>7, ExecuteIsHarmless DEF RunStatement
<1>8. ASSUME NEW r \in Requests, Finish(r) PROVE TransactionsAreHarmless'
  BY <1>8, CommitIsHarmless DEF Finish
<1> QED BY <1>1, <1>2, <1>4, <1>5, <1>6, <1>7, <1>8 DEF Next, Handle, vars

LEMMA NextKeepsRequests ==
  ASSUME KeptInv, [Next]_vars
  PROVE  RequestsAreHarmless'
<1> USE DEF KeptInv, RequestsAreHarmless, Removable
<1>1. CASE UNCHANGED <<req, step, loaded>>
  BY <1>1
<1>2. ASSUME NEW r \in Requests, AddIndex(r) \/ Remove(r) \/ Upload(r) \/ InsertArchive(r)
                                   \/ DeleteProblem(r) \/ Submit(r) \/ JudgeRecord(r)
      PROVE  RequestsAreHarmless'
  BY <1>2, StatementsAreHarmless DEF Run
<1>3. ASSUME NEW r \in Requests, NEW how, Refuse(r, how) PROVE RequestsAreHarmless'
  BY <1>3 DEF Refuse
<1>4. ASSUME NEW r \in Requests, NotFound(r) \/ RemoveRefused(r) \/ PutFails(r)
                                   \/ DeleteProblemRefused(r) \/ StatementFails(r) \/ BreakDeadlock(r)
      PROVE  RequestsAreHarmless'
  BY <1>3, <1>4
     DEF NotFound, RemoveRefused, PutFails, DeleteProblemRefused, StatementFails, BreakDeadlock
<1>5. ASSUME NEW r \in Requests, AddLoad(r) \/ RemoveLoad(r) \/ Cleared(r) PROVE RequestsAreHarmless'
  BY <1>5 DEF AddLoad, RemoveLoad, Cleared, Goto, At
<1>6. ASSUME NEW r \in Requests, DeleteProblemLoad(r) \/ JudgeLoad(r) PROVE RequestsAreHarmless'
  BY <1>6, ViewIsFinite DEF DeleteProblemLoad, JudgeLoad, Goto, At
<1>7. ASSUME NEW r \in Requests, PutFile(r) PROVE UNCHANGED <<req, step, loaded>>
  BY <1>7 DEF PutFile
<1>8. ASSUME NEW r \in Requests, NEW q \in AnyRequest, Begin(r, q) PROVE RequestsAreHarmless'
  <2>1. /\ q.kind = "remove" => q.test[1] = "test"
        /\ q.kind = "upload" => q.pairs \in Nat
    BY MaxPairsAssumption DEF AnyRequest, Tests, IdsOf
  <2> QED BY <1>8, <2>1 DEF Begin
<1>9. ASSUME NEW r \in Requests, RunStatement(r) PROVE UNCHANGED <<req, step, loaded>>
  BY <1>9 DEF RunStatement
<1>10. ASSUME NEW r \in Requests, Finish(r) PROVE RequestsAreHarmless'
  BY <1>10 DEF Finish
<1> QED BY <1>1, <1>2, <1>4, <1>5, <1>6, <1>7, <1>8, <1>9, <1>10 DEF Next, Handle, vars

LEMMA InitKept ==
  ASSUME Init
  PROVE  KeptInv
<1>1. PICK by \in Earlier, n \in 0 .. MaxPairs, submitted \in BOOLEAN, judged \in BOOLEAN :
        LET tests == {TestRow(by, i) : i \in 0 .. n - 1}
            submission == IF submitted THEN {SubmissionRow("seed")} ELSE {}
            results == IF submitted /\ judged /\ by = "seed"
                       THEN {ResultRow("seed", Submission("seed"), t.id) : t \in tests} ELSE {}
        IN  db = {ProblemRow} \cup tests \cup submission \cup results
  BY DEF Init
<1> DEFINE tests == {TestRow(by, i) : i \in 0 .. n - 1}
           others == {ProblemRow, SubmissionRow("seed")}
           results == {ResultRow("seed", Submission("seed"), t.id) : t \in tests}
<1>2. db \subseteq tests \cup others \cup results
  BY <1>1
<1>3. IsFiniteSet(db)
  <2>1. IsFiniteSet(tests)
    <3> DEFINE f == [i \in 0 .. n - 1 |-> TestRow(by, i)]
    <3>1. f \in Surjection(0 .. n - 1, tests)
      BY DEF Surjection
    <3>2. IsFiniteSet(0 .. n - 1)
      BY MaxPairsAssumption, FS_Interval
    <3> HIDE DEF f, tests
    <3> QED BY <3>1, <3>2, FS_Surjection
  <2>2. IsFiniteSet(results)
    <3> DEFINE g == [t \in tests |-> ResultRow("seed", Submission("seed"), t.id)]
    <3>1. g \in Surjection(tests, results)
      BY DEF Surjection
    <3> HIDE DEF g, tests, results
    <3> QED BY <2>1, <3>1, FS_Surjection
  <2>3. IsFiniteSet(others)
    <3>1. IsFiniteSet({ProblemRow}) /\ IsFiniteSet({SubmissionRow("seed")})
      BY FS_Singleton
    <3>2. IsFiniteSet({ProblemRow} \cup {SubmissionRow("seed")})
      BY <3>1, FS_Union
    <3>3. others = {ProblemRow} \cup {SubmissionRow("seed")}
      OBVIOUS
    <3> QED BY <3>2, <3>3
  <2> HIDE DEF tests, others, results
  <2>4. IsFiniteSet(tests \cup others)
    BY <2>1, <2>3, FS_Union
  <2>5. IsFiniteSet(tests \cup others \cup results)
    BY <2>2, <2>4, FS_Union
  <2> QED BY <1>2, <2>5, FS_Subset
<1>4. ASSUME NEW x \in db PROVE Stored(x)
  BY <1>2 DEF Stored, Removable, ProblemRow, TestRow, SubmissionRow, ResultRow, Test
<1>5. /\ DOMAIN tx = Requests
      /\ \A r \in Requests : tx[r].ins = {} /\ tx[r].del = {} /\ tx[r].todo = <<>>
  BY DEF Init, NoTransaction
<1>6. TransactionsAreHarmless
  BY <1>3, <1>4, <1>5, FS_EmptySet, ListShort DEF TransactionsAreHarmless
<1>7. RequestsAreHarmless
  BY FS_EmptySet DEF Init, RequestsAreHarmless, NoRequest
<1> QED BY <1>6, <1>7 DEF KeptInv

(* The handlers delete nothing but test cases and the problem, and nothing  *)
(* else is deleted with those.                                             *)
THEOREM DeletionsAreLimited == Spec => []HistoryInv
<1>1. KeptInv => HistoryInv
  BY DEF KeptInv, TransactionsAreHarmless, RequestsAreHarmless, HarmlessList, HistoryInv,
         RowsAreStored, DeletionsAreHarmless, HandlersAreHarmless
<1>2. KeptInv /\ [Next]_vars => KeptInv'
  BY NextKeepsTransactions, NextKeepsRequests DEF KeptInv
<1> QED BY <1>1, <1>2, InitKept, PTL DEF Spec

(* Submissions and results are never lost, for any number of concurrent     *)
(* requests and any size of the archives.                                  *)
THEOREM HistoryIsKept == Spec => HistoryStays
<1> DEFINE Kept == Submissions(db) \cup IdsOf(db, "result") \subseteq Ids(db')
<1>1. ASSUME HistoryInv, [Next]_vars PROVE Kept
  <2>1. CASE \E r \in Requests : Commit(r)
    <3>1. PICK r \in Requests : db' = (db \ tx[r].del) \cup tx[r].ins
      BY <2>1 DEF Commit
    <3>2. ASSUME NEW x \in db, x.id[1] \in {"submission", "result"} PROVE x \in db'
      BY <1>1, <3>1, <3>2 DEF HistoryInv, DeletionsAreHarmless, Removable
    <3> QED BY <3>2 DEF Submissions, IdsOf, Ids
  <2>2. CASE db' = db
    BY <2>2 DEF Submissions, IdsOf, Ids
  <2>3. ASSUME NEW r \in Requests, NEW how, Refuse(r, how) PROVE db' = db
    BY <2>3 DEF Refuse, Rollback
  <2>4. ASSUME NEW r \in Requests, NotFound(r) \/ RemoveRefused(r) \/ PutFails(r)
                                     \/ DeleteProblemRefused(r) \/ StatementFails(r) \/ BreakDeadlock(r)
        PROVE  db' = db
    BY <2>3, <2>4
       DEF NotFound, RemoveRefused, PutFails, DeleteProblemRefused, StatementFails, BreakDeadlock
  <2>5. ASSUME NEW r \in Requests, AddLoad(r) \/ RemoveLoad(r) \/ Cleared(r)
                                     \/ DeleteProblemLoad(r) \/ JudgeLoad(r)
        PROVE  db' = db
    BY <2>5 DEF AddLoad, RemoveLoad, Cleared, DeleteProblemLoad, JudgeLoad, Goto
  <2>6. ASSUME NEW r \in Requests, AddIndex(r) \/ Remove(r) \/ Upload(r) \/ InsertArchive(r)
                                     \/ DeleteProblem(r) \/ Submit(r) \/ JudgeRecord(r)
        PROVE  db' = db
    BY <2>6 DEF AddIndex, Remove, Upload, InsertArchive, DeleteProblem, Submit, JudgeRecord, Run
  <2>7. ASSUME NEW r \in Requests, NEW q, Begin(r, q) PROVE db' = db
    BY <2>7 DEF Begin
  <2>8. ASSUME NEW r \in Requests, PutFile(r) PROVE db' = db
    BY <2>8 DEF PutFile
  <2>9. ASSUME NEW r \in Requests, RunStatement(r) PROVE db' = db
    BY <2>9 DEF RunStatement, Execute
  <2>10. ASSUME NEW r \in Requests, Finish(r) PROVE Commit(r)
    BY <2>10 DEF Finish
  <2>11. CASE UNCHANGED vars
    BY <2>2, <2>11 DEF vars
  <2>12. CASE Next
    BY <2>1, <2>2, <2>4, <2>5, <2>6, <2>7, <2>8, <2>9, <2>10, <2>12 DEF Next, Handle
  <2> QED BY <1>1, <2>11, <2>12
<1>2. HistoryInv /\ [Next]_vars => [Kept]_vars
  BY <1>1
<1> QED BY <1>2, DeletionsAreLimited, PTL DEF Spec, HistoryStays

-----------------------------------------------------------------------------
(* Mixtures. The rows first: what they are called and what refers to what.  *)

Records == \A r \in Requests : DOMAIN tx[r] = {"ins", "del", "todo"}
FullInv == LockInv /\ KeptInv /\ Records /\ MixtureInv

Members(q) == {q[i] : i \in DOMAIN q}

LEMMA RowShapes ==
  /\ ProblemRow.id = Problem /\ Problem[1] = "problem" /\ Problem \notin TestIds
  /\ ~ProblemRow.cascade /\ ProblemRow.keys = {}
  /\ \A by, i : /\ TestRow(by, i).id = Test(by, i) /\ TestRow(by, i).parents = {Problem}
                /\ TestRow(by, i).keys = {}
                /\ Test(by, i)[1] = "test" /\ Test(by, i)[2] = by /\ Test(by, i)[3] = i
  /\ \A t \in TestIds : /\ t[1] = "test" /\ t[2] \in Makers /\ t[3] \in Nat
                        /\ t = Test(t[2], t[3])
  /\ \A by \in Makers, i \in Nat : Test(by, i) \in TestIds
<1>1. \A t \in TestIds : \E by \in Makers, i \in Nat : t = <<"test", by, i>>
  BY DEF TestIds
<1>2. \A by \in Makers, i \in Nat : <<"test", by, i>> \in TestIds
  BY DEF TestIds
<1>3. \A by, i : <<"test", by, i>>[1] = "test" /\ <<"test", by, i>>[2] = by /\ <<"test", by, i>>[3] = i
  OBVIOUS
<1>4. Problem[1] = "problem"
  BY DEF Problem
<1>5. Problem \notin TestIds
  BY <1>1, <1>3, <1>4
<1> QED BY <1>1, <1>2, <1>3, <1>4, <1>5 DEF Test, TestRow, ProblemRow

LEMMA ShapedRows ==
  ASSUME NEW x, Shaped(x)
  PROVE  /\ x.keys = {}
         /\ x.id[1] = "test" <=> x.id \in TestIds
         /\ x.id[1] = "test" => x = TestRow(x.id[2], x.id[3]) /\ x.parents = {Problem}
         /\ x.id[1] = "problem" <=> x = ProblemRow
         /\ x.id = Problem <=> x = ProblemRow
         /\ x.cascade => x.id \in TestIds
<1>1. CASE x = ProblemRow
  BY <1>1, RowShapes DEF Shaped
<1>2. CASE x.id \in TestIds /\ x = TestRow(x.id[2], x.id[3])
  <2>1. x.id[1] = "test" /\ x.keys = {} /\ x.parents = {Problem}
    BY <1>2, RowShapes
  <2>2. x.id # Problem /\ x # ProblemRow
    BY <2>1, RowShapes
  <2> QED BY <1>2, <2>1, <2>2
<1>3. CASE x.id[1] \in {"submission", "result"} /\ x.keys = {} /\ ~x.cascade
  BY <1>3, RowShapes
<1> QED BY <1>1, <1>2, <1>3 DEF Shaped

(* What a request sees: shaped rows, and tests with proper names.           *)
LEMMA ViewShaped ==
  ASSUME FullInv, NEW r \in Requests
  PROVE  /\ \A x \in View(r) : Shaped(x)
         /\ Tests(View(r)) \subseteq TestIds /\ Tests(db) \subseteq TestIds
         /\ Tests(View(r)) = {x.id : x \in {y \in View(r) : y.id \in TestIds}}
<1>1. \A x \in db : Shaped(x)
  BY DEF FullInv, MixtureInv, RowsInv
<1>2. \A x \in tx[r].ins : Shaped(x)
  BY DEF FullInv, MixtureInv, TransactionInv, Makes
<1>3. \A x \in View(r) : Shaped(x)
  BY <1>1, <1>2 DEF View
<1>4. \A x \in View(r) \cup db : x.id[1] = "test" <=> x.id \in TestIds
  BY <1>1, <1>3, ShapedRows
<1> QED BY <1>3, <1>4 DEF Tests, IdsOf, Ids

(* A test case is deleted alone, the problem with its test cases.           *)
LEMMA VictimsOf ==
  ASSUME FullInv, NEW r \in Requests, NEW id
  PROVE  /\ id \in TestIds => \A x \in Victims(r, id) : x.id = id
         /\ \A x \in View(r) : x.id = id => x \in Victims(r, id)
         /\ Victims(r, id) \subseteq View(r)
<1>1. ASSUME id \in TestIds, NEW x \in View(r), x.cascade, RefersTo(x, id) PROVE FALSE
  <2>1. x.parents = {Problem}
    BY <1>1, ViewShaped, ShapedRows
  <2> QED BY <1>1, <2>1, RowShapes DEF RefersTo
<1> QED BY <1>1 DEF Victims

-----------------------------------------------------------------------------
(* Lists of statements                                                     *)

LEMMA MembersOfList ==
  ASSUME NEW q, HarmlessList(q), q # <<>>
  PROVE  /\ Members(q) = {Head(q)} \cup Members(Tail(q))
         /\ 1 \in DOMAIN q /\ Head(q) = q[1]
         /\ \A i \in DOMAIN Tail(q) : i \in Nat /\ i # 0 /\ i + 1 \in DOMAIN q /\ Tail(q)[i] = q[i + 1]
<1>1. PICK S : q \in Seq(S)
  BY DEF HarmlessList
<1>2. /\ Tail(q) \in Seq(S) /\ Head(q) = q[1] /\ Len(q) \in Nat /\ Len(q) # 0
      /\ DOMAIN q = 1 .. Len(q) /\ Len(Tail(q)) = Len(q) - 1 /\ DOMAIN Tail(q) = 1 .. (Len(q) - 1)
      /\ \A i \in 1 .. (Len(q) - 1) : Tail(q)[i] = q[i + 1]
  BY <1>1
<1>3. \A i \in DOMAIN q : i = 1 \/ (i - 1 \in DOMAIN Tail(q) /\ Tail(q)[i - 1] = q[i])
  BY <1>2
<1>4. \A i \in DOMAIN Tail(q) : i \in Nat /\ i # 0 /\ i + 1 \in DOMAIN q /\ Tail(q)[i] = q[i + 1]
  BY <1>2
<1>5. 1 \in DOMAIN q /\ Head(q) = q[1]
  BY <1>2
<1> DEFINE h == Head(q)  t == Tail(q)
<1>6. /\ \A i \in DOMAIN q : q[i] = h \/ \E j \in DOMAIN t : t[j] = q[i]
      /\ \A j \in DOMAIN t : \E i \in DOMAIN q : q[i] = t[j]
      /\ \E i \in DOMAIN q : q[i] = h
  BY <1>3, <1>4, <1>5
<1>7. Members(q) = {h} \cup Members(t)
  <2> HIDE DEF h, t
  <2> QED BY <1>6 DEF Members
<1> QED BY <1>4, <1>5, <1>7

LEMMA MembersOfConcat ==
  ASSUME NEW p, NEW q, HarmlessList(p), HarmlessList(q)
  PROVE  Members(p \o q) = Members(p) \cup Members(q)
<1>1. PICK S : p \in Seq(S)
  BY DEF HarmlessList
<1>2. PICK T : q \in Seq(T)
  BY DEF HarmlessList
<1>3. p \in Seq(S \cup T) /\ q \in Seq(S \cup T)
  BY <1>1, <1>2
<1>4. \A i \in DOMAIN (p \o q) : \/ i \in DOMAIN p /\ (p \o q)[i] = p[i]
                                 \/ i - Len(p) \in DOMAIN q /\ (p \o q)[i] = q[i - Len(p)]
  BY <1>3
<1>5. /\ \A i \in DOMAIN p : i \in DOMAIN (p \o q) /\ (p \o q)[i] = p[i]
      /\ \A i \in DOMAIN q : i + Len(p) \in DOMAIN (p \o q) /\ (p \o q)[i + Len(p)] = q[i]
  BY <1>3
<1> QED BY <1>4, <1>5 DEF Members

LEMMA MembersOfShort ==
  /\ Members(<<>>) = {}
  /\ \A s : Members(<<s>>) = {s}
  /\ \A ids : Members(Delete(ids)) = IF ids = {} THEN {} ELSE {Statement("delete", ids)}
<1>1. Members(<<>>) = {}
  BY DEF Members
<1>2. \A s : Members(<<s>>) = {s}
  <2>1. \A s : DOMAIN <<s>> = {1} /\ <<s>>[1] = s
    OBVIOUS
  <2> QED BY <2>1 DEF Members
<1> QED BY <1>1, <1>2 DEF Delete, ForEach

-----------------------------------------------------------------------------
(* What a step changes                                                     *)

StepOf(r) == (\E q \in AnyRequest : Begin(r, q)) \/ Handle(r) \/ BreakDeadlock(r)

LEMMA StepsOfRequests ==
  [Next]_vars => UNCHANGED vars \/ \E r \in Requests : StepOf(r)
BY DEF Next, StepOf

StandsStill(o) ==
  /\ tx'[o] = tx[o] /\ req'[o] = req[o] /\ step'[o] = step[o]
  /\ loaded'[o] = loaded[o] /\ put'[o] = put[o] /\ outcome'[o] = outcome[o]

LEMMA Domains ==
  ASSUME FullInv
  PROVE  /\ DOMAIN tx = Requests /\ DOMAIN req = Requests /\ DOMAIN step = Requests
         /\ DOMAIN loaded = Requests /\ DOMAIN put = Requests /\ DOMAIN outcome = Requests
         /\ DOMAIN s3 = Files
BY DEF FullInv, LockInv, KeptInv, RequestsAreHarmless, MixtureInv, MixturesAreExplained, TypeOK

(* Five kinds of steps: a request begins, a handler reads on, it gives       *)
(* statements to its transaction, it is refused, or one of four others.    *)
Reads(r) ==
  \/ AddLoad(r) \/ RemoveLoad(r) \/ Cleared(r) \/ DeleteProblemLoad(r) \/ JudgeLoad(r)
Gives(r) ==
  \/ AddIndex(r) \/ Remove(r) \/ Upload(r) \/ InsertArchive(r) \/ DeleteProblem(r)
  \/ Submit(r) \/ JudgeRecord(r)
Refuses(r) ==
  \/ NotFound(r) \/ RemoveRefused(r) \/ PutFails(r) \/ DeleteProblemRefused(r)
  \/ StatementFails(r) \/ BreakDeadlock(r)

LEMMA KindsOfSteps ==
  ASSUME NEW r \in Requests, StepOf(r)
  PROVE  \/ \E q \in AnyRequest : Begin(r, q)
         \/ Reads(r) \/ Gives(r) \/ Refuses(r)
         \/ PutFile(r) \/ RunStatement(r) \/ Finish(r)
BY DEF StepOf, Handle, Reads, Gives, Refuses

BeginEffect(r) ==
  /\ step[r] = "idle" /\ step'[r] = "load"
  /\ \E q \in AnyRequest : req'[r] = q
  /\ tx'[r] = tx[r] /\ UNCHANGED <<db, loaded, put, s3, outcome>>
  /\ overlapped' = IF Active = {} THEN overlapped ELSE overlapped \cup Active \cup {r}
LEMMA BeginEffects ==
  ASSUME FullInv, NEW r \in Requests, NEW q \in AnyRequest, Begin(r, q)
  PROVE  BeginEffect(r) /\ \A o \in Others(r) : StandsStill(o)
BY Domains DEF Begin, BeginEffect, StandsStill, Others

ReadEffect(r) ==
  /\ UNCHANGED <<db, tx, req, put, s3, outcome, overlapped>>
  /\ \/ step[r] = "load" /\ req[r].kind = "add" /\ step'[r] = "index"
     \/ step[r] = "load" /\ req[r].kind = "remove" /\ step'[r] = "results"
     \/ step[r] = "clear" /\ tx[r].todo = <<>> /\ step'[r] = "put"
     \/ step[r] = "load" /\ req[r].kind = "delete_problem" /\ step'[r] = "related"
     \/ step[r] = "load" /\ req[r].kind = "judge" /\ step'[r] = "execute"
  /\ loaded'[r] \in {loaded[r], Tests(View(r))} /\ DOMAIN loaded' = Requests
LEMMA ReadEffects ==
  ASSUME FullInv, NEW r \in Requests, Reads(r)
  PROVE  ReadEffect(r) /\ \A o \in Others(r) : StandsStill(o)
<1>1. CASE AddLoad(r)
  BY <1>1, Domains DEF AddLoad, At, Goto, ReadEffect, StandsStill, Others
<1>2. CASE RemoveLoad(r)
  BY <1>2, Domains DEF RemoveLoad, At, Goto, ReadEffect, StandsStill, Others
<1>3. CASE Cleared(r)
  BY <1>3, Domains DEF Cleared, Goto, ReadEffect, StandsStill, Others
<1>4. CASE DeleteProblemLoad(r)
  BY <1>4, Domains DEF DeleteProblemLoad, At, Goto, ReadEffect, StandsStill, Others
<1>5. CASE JudgeLoad(r)
  BY <1>5, Domains DEF JudgeLoad, At, Goto, ReadEffect, StandsStill, Others
<1> QED BY <1>1, <1>2, <1>3, <1>4, <1>5 DEF Reads

GiveEffect(r, statements, s) ==
  /\ UNCHANGED <<db, req, loaded, put, s3, outcome, overlapped>>
  /\ step'[r] = s
  /\ tx'[r].ins = tx[r].ins /\ tx'[r].del = tx[r].del /\ tx'[r].todo = statements
  /\ DOMAIN tx'[r] = {"ins", "del", "todo"}
LEMMA RunEffects ==
  ASSUME FullInv, NEW r \in Requests, NEW statements, NEW s, Run(r, statements, s)
  PROVE  GiveEffect(r, statements, s) /\ \A o \in Others(r) : StandsStill(o)
BY Domains DEF Run, GiveEffect, StandsStill, Others, FullInv, Records

RefuseEffect(r) ==
  /\ UNCHANGED <<db, req, loaded, put, s3, overlapped>>
  /\ step'[r] = "done" /\ tx'[r] = NoTransaction
  /\ \/ step[r] = "load" /\ outcome'[r] = "missing"
     \/ step[r] \in {"results", "related"} /\ outcome'[r] = "bad_reference"
     \/ step[r] = "put" /\ outcome'[r] = "storage"
     \/ outcome'[r] \in Errors(r)
     \/ Deadlocked(r) /\ outcome'[r] = "internal"
LEMMA RefuseEffects ==
  ASSUME FullInv, NEW r \in Requests, Refuses(r)
  PROVE  RefuseEffect(r) /\ \A o \in Others(r) : StandsStill(o)
<1>1. ASSUME NEW how, Refuse(r, how)
      PROVE  /\ UNCHANGED <<db, req, loaded, put, s3, overlapped>>
             /\ step'[r] = "done" /\ tx'[r] = NoTransaction /\ outcome'[r] = how
             /\ \A o \in Others(r) : StandsStill(o)
  BY <1>1, Domains DEF Refuse, Rollback, StandsStill, Others
<1> QED BY <1>1 DEF Refuses, NotFound, RemoveRefused, PutFails, DeleteProblemRefused,
                    StatementFails, BreakDeadlock, RefuseEffect

LEMMA PutEffects ==
  ASSUME FullInv, NEW r \in Requests, PutFile(r)
  PROVE  /\ UNCHANGED <<db, tx, req, step, loaded, outcome, overlapped>>
         /\ step[r] = "put" /\ put'[r] = put[r] + 1 /\ put'[r] <= 2 * req[r].pairs
         /\ s3' = [s3 EXCEPT ![File(put'[r])] = Test(r, File(put'[r])[1])]
         /\ \A o \in Others(r) : StandsStill(o)
<1>1. put[r] \in Nat /\ req[r].pairs \in Nat
  BY DEF FullInv, MixtureInv, MixturesAreExplained, TypeOK, PutFile, KeptInv,
         RequestsAreHarmless
<1> QED BY <1>1, Domains DEF PutFile, StandsStill, Others

FinishEffect(r) ==
  /\ UNCHANGED <<req, loaded, put, s3, overlapped>>
  /\ step[r] = "run" /\ tx[r].todo = <<>>
  /\ step'[r] = "done" /\ tx'[r] = NoTransaction /\ outcome'[r] = "ok"
  /\ db' = View(r)
LEMMA FinishEffects ==
  ASSUME FullInv, NEW r \in Requests, Finish(r)
  PROVE  FinishEffect(r) /\ \A o \in Others(r) : StandsStill(o)
BY Domains DEF Finish, Commit, FinishEffect, StandsStill, Others, View

(* The next statement of a transaction and what is left after it.            *)
Next1(r) == Head(tx[r].todo)
Rest(r)  == Tail(tx[r].todo)
InsertEffect(r) ==
  /\ Next1(r).op = "insert"
  /\ tx'[r].ins = tx[r].ins \cup {Next1(r).arg} /\ tx'[r].del = tx[r].del
  /\ tx'[r].todo = Rest(r)
DeleteEffect(r, id) ==
  /\ Next1(r).op = "delete"
  /\ tx'[r].ins = tx[r].ins \ Victims(r, id)
  /\ tx'[r].del = tx[r].del \cup (Victims(r, id) \cap db)
  /\ tx'[r].todo = Delete(Next1(r).arg \ {id}) \o Rest(r)
ClearEffect(r, ids) ==
  /\ Next1(r).op = "clear"
  /\ ids = Ids({x \in View(r) : x.id[1] = Next1(r).arg[1] /\ RefersTo(x, Next1(r).arg[2])})
  /\ tx'[r].ins = tx[r].ins /\ tx'[r].del = tx[r].del
  /\ tx'[r].todo = Delete(ids) \o Rest(r)
LEMMA StatementEffects ==
  ASSUME FullInv, NEW r \in Requests, RunStatement(r)
  PROVE  /\ UNCHANGED <<db, req, step, loaded, put, s3, outcome, overlapped>>
         /\ tx[r].todo # <<>> /\ HarmlessList(tx[r].todo) /\ HarmlessList(Rest(r))
         /\ DOMAIN tx'[r] = {"ins", "del", "todo"}
         /\ \A o \in Others(r) : StandsStill(o)
         /\ \/ InsertEffect(r)
            \/ \E id \in Next1(r).arg : DeleteEffect(r, id)
            \/ \E ids : ClearEffect(r, ids)
<1>1. /\ UNCHANGED <<db, req, step, loaded, put, s3, outcome, overlapped>>
      /\ tx[r].todo # <<>>
  BY DEF RunStatement, Execute
<1>2. HarmlessList(tx[r].todo)
  BY DEF FullInv, KeptInv, TransactionsAreHarmless
<1>3. Harmless(Next1(r)) /\ HarmlessList(Rest(r))
  BY <1>1, <1>2, ListParts DEF Next1, Rest
<1>4. ASSUME NEW out, NEW in, NEW rest, Change(r, out, in, rest)
      PROVE  /\ tx'[r].ins = (tx[r].ins \ out) \cup in
             /\ tx'[r].del = tx[r].del \cup (out \cap db)
             /\ tx'[r].todo = rest /\ DOMAIN tx'[r] = {"ins", "del", "todo"}
             /\ \A o \in Others(r) : tx'[o] = tx[o]
  <2>1. tx'[r] = [ins |-> (tx[r].ins \ out) \cup in, del |-> tx[r].del \cup (out \cap db),
                  todo |-> rest]
    BY <1>4, Domains DEF Change
  <2>2. \A o \in Others(r) : tx'[o] = tx[o]
    BY <1>4, Domains DEF Change, Others
  <2> QED BY <2>1, <2>2
<1>5. \/ Next1(r).op = "insert" /\ ExecuteInsert(r, Next1(r).arg, Rest(r))
      \/ Next1(r).op = "delete" /\ ExecuteDelete(r, Next1(r).arg, Rest(r))
      \/ Next1(r).op = "clear" /\ ExecuteClear(r, Next1(r).arg[1], Next1(r).arg[2], Rest(r))
  BY <1>3 DEF RunStatement, Execute, Harmless, Next1, Rest
<1>6. CASE Next1(r).op = "insert" /\ ExecuteInsert(r, Next1(r).arg, Rest(r))
  <2>1. Change(r, {}, {Next1(r).arg}, Rest(r))
    BY <1>6 DEF ExecuteInsert
  <2>2. /\ InsertEffect(r) /\ DOMAIN tx'[r] = {"ins", "del", "todo"}
        /\ \A o \in Others(r) : tx'[o] = tx[o]
    <3>1. /\ tx'[r].ins = (tx[r].ins \ {}) \cup {Next1(r).arg}
          /\ tx'[r].del = tx[r].del \cup ({} \cap db)
          /\ tx'[r].todo = Rest(r) /\ DOMAIN tx'[r] = {"ins", "del", "todo"}
          /\ \A o \in Others(r) : tx'[o] = tx[o]
      BY <1>4, <2>1
    <3> QED BY <1>6, <3>1 DEF InsertEffect
  <2> QED BY <1>1, <1>2, <1>3, <2>2 DEF StandsStill
<1>7. CASE Next1(r).op = "delete" /\ ExecuteDelete(r, Next1(r).arg, Rest(r))
  <2>1. PICK id \in Next1(r).arg :
          Change(r, Victims(r, id), {}, Delete(Next1(r).arg \ {id}) \o Rest(r))
    BY <1>7 DEF ExecuteDelete
  <2>2. /\ DeleteEffect(r, id) /\ DOMAIN tx'[r] = {"ins", "del", "todo"}
        /\ \A o \in Others(r) : tx'[o] = tx[o]
    <3> DEFINE out == Victims(r, id)  rest == Delete(Next1(r).arg \ {id}) \o Rest(r)
    <3>1. Change(r, out, {}, rest)
      BY <2>1
    <3>2. /\ tx'[r].ins = (tx[r].ins \ out) \cup {}
          /\ tx'[r].del = tx[r].del \cup (out \cap db)
          /\ tx'[r].todo = rest
          /\ DOMAIN tx'[r] = {"ins", "del", "todo"}
          /\ \A o \in Others(r) : tx'[o] = tx[o]
      <4> HIDE DEF out, rest
      <4> QED BY <1>4, <3>1
    <3> QED BY <1>7, <3>2 DEF DeleteEffect
  <2> QED BY <1>1, <1>2, <1>3, <2>2 DEF StandsStill
<1>8. CASE Next1(r).op = "clear" /\ ExecuteClear(r, Next1(r).arg[1], Next1(r).arg[2], Rest(r))
  <2> DEFINE ids == Ids({x \in View(r) : x.id[1] = Next1(r).arg[1]
                                           /\ RefersTo(x, Next1(r).arg[2])})
  <2>1. Change(r, {}, {}, Delete(ids) \o Rest(r))
    BY <1>8 DEF ExecuteClear
  <2>2. /\ ClearEffect(r, ids) /\ DOMAIN tx'[r] = {"ins", "del", "todo"}
        /\ \A o \in Others(r) : tx'[o] = tx[o]
    <3> HIDE DEF ids
    <3>1. /\ tx'[r].ins = (tx[r].ins \ {}) \cup {}
          /\ tx'[r].del = tx[r].del \cup ({} \cap db)
          /\ tx'[r].todo = Delete(ids) \o Rest(r) /\ DOMAIN tx'[r] = {"ins", "del", "todo"}
          /\ \A o \in Others(r) : tx'[o] = tx[o]
      BY <1>4, <2>1
    <3> QED BY <1>8, <3>1 DEF ClearEffect, ids
  <2> QED BY <1>1, <1>2, <1>3, <2>2 DEF StandsStill
<1> QED BY <1>5, <1>6, <1>7, <1>8

(* Whatever r does, the others stand still.                                *)
LEMMA OthersStandStill ==
  ASSUME FullInv, NEW r \in Requests, StepOf(r), NEW o \in Others(r)
  PROVE  StandsStill(o)
BY KindsOfSteps, BeginEffects, ReadEffects, RefuseEffects, PutEffects, FinishEffects,
   StatementEffects, RunEffects
   DEF Gives, AddIndex, Remove, Upload, InsertArchive, DeleteProblem, Submit, JudgeRecord

-----------------------------------------------------------------------------
(* Errors                                                                  *)

LEMMA Parts ==
  ASSUME FullInv, NEW r \in Requests
  PROVE  /\ RequestInv(r) /\ TransactionInv(r) /\ HeldFiles(r)
         /\ ~Disturbed(r) => Undisturbed(r)
         /\ HarmlessList(tx[r].todo) /\ Statements(r) = Members(tx[r].todo)
         /\ tx[r].todo # <<>> => Next1(r) \in Statements(r)
<1>1. HarmlessList(tx[r].todo)
  BY DEF FullInv, KeptInv, TransactionsAreHarmless
<1>2. tx[r].todo # <<>> => Next1(r) \in Statements(r)
  BY <1>1, MembersOfList DEF Next1, Statements, Members
<1> QED BY <1>1, <1>2 DEF FullInv, MixtureInv, OverlapInv, Statements, Members

(* The names of committed rows are those of earlier requests.               *)
LEMMA NamesInUse ==
  ASSUME FullInv, NEW r \in Requests, step[r] # "done", NEW x \in db, x # ProblemRow
  PROVE  x.id[2] # r
BY NamesAreFresh DEF FullInv, MixtureInv, RowsInv

(* Other transactions neither add nor delete rows with the names of r.      *)
LEMMA NamesOfOthers ==
  ASSUME FullInv, NEW r \in Requests, step[r] # "done", NEW o \in Others(r),
         NEW x \in tx[o].ins \cup tx[o].del, x # ProblemRow
  PROVE  x.id[2] # r
<1>1. x \in tx[o].ins => x.id[2] = o
  BY Parts DEF TransactionInv, Makes, Others
<1>2. x \in tx[o].del => x \in db
  BY DEF FullInv, LockInv, HeldRows, Others
<1> QED BY <1>1, <1>2, NamesInUse DEF Others

(* Rows to insert are the problem's, have names of their own and no keys.   *)
LEMMA NextInsert ==
  ASSUME FullInv, NEW r \in Requests, tx[r].todo # <<>>, Next1(r).op = "insert"
  PROVE  /\ step[r] = "run" /\ PlansInserts(r) /\ Makes(r, Next1(r).arg)
         /\ req[r].kind \notin {"remove", "delete_problem"}
         /\ Next1(r).arg.id \notin Ids(tx[r].ins)
<1>1. step[r] \in {"clear", "run"} /\ Next1(r) \in Statements(r)
  BY Parts DEF TransactionInv
<1>2. ~PlansRemovals(r)
  BY <1>1 DEF PlansRemovals, Clear, Statement
<1>3. ~PlansDeletion(r)
  <2> SUFFICES ASSUME NEW ids \in SUBSET loaded[r], tx[r].todo = Delete(ids) \o Delete({Problem})
               PROVE  FALSE
    BY DEF PlansDeletion
  <2>1. \A id \in ids \cup {Problem} : Removable(id)
    BY DEF FullInv, KeptInv, RequestsAreHarmless, Removable, Problem
  <2>2. Members(tx[r].todo) = Members(Delete(ids)) \cup Members(Delete({Problem}))
    BY <2>1, ListShort, MembersOfConcat
  <2>3. \A set : Members(Delete(set)) \subseteq {Statement("delete", set)}
    BY MembersOfShort
  <2>4. Next1(r) \in Members(Delete(ids)) \cup Members(Delete({Problem}))
    BY <1>1, <2>2, Parts
  <2>5. \E set : Next1(r) = Statement("delete", set)
    BY <2>3, <2>4
  <2> QED BY <2>5 DEF Statement
<1>4. PlansInserts(r) /\ step[r] = "run" /\ req[r].kind \notin {"remove", "delete_problem"}
  BY <1>1, <1>2, <1>3, Parts DEF TransactionInv
<1> QED BY <1>1, <1>4 DEF PlansInserts

LEMMA NewNames ==
  ASSUME FullInv, NEW r \in Requests, tx[r].todo # <<>>, Next1(r).op = "insert"
  PROVE  UniqueOK(View(r), Next1(r).arg) /\ KeyHolders(r, Next1(r).arg) = {}
<1> DEFINE row == Next1(r).arg
<1>1. Shaped(row) /\ row # ProblemRow /\ row.id[2] = r /\ row.keys = {} /\ step[r] = "run"
  BY NextInsert, ShapedRows DEF Makes
<1>2. ASSUME NEW x \in View(r) PROVE ~Collide(x, row)
  <2>1. x.keys = {}
    BY ViewShaped, ShapedRows
  <2>2. x.id # row.id
    <3>1. CASE x \in tx[r].ins
      BY <3>1, NextInsert DEF Ids
    <3>2. CASE x \in db /\ x = ProblemRow
      BY <1>1, <3>2, RowShapes, ShapedRows
    <3>3. CASE x \in db /\ x # ProblemRow
      BY <1>1, <3>3, NamesInUse
    <3> QED BY <3>1, <3>2, <3>3 DEF View
  <2> QED BY <2>1, <2>2 DEF Collide
<1>3. ASSUME NEW o \in Others(r), NEW x \in tx[o].ins \cup tx[o].del PROVE ~Collide(x, row)
  <2>1. Shaped(x)
    <3>1. x \in tx[o].ins => Shaped(x)
      BY Parts DEF TransactionInv, Makes, Others
    <3>2. x \in tx[o].del => x \in db
      BY DEF FullInv, LockInv, HeldRows, Others
    <3> QED BY <3>1, <3>2 DEF FullInv, MixtureInv, RowsInv
  <2>2. x.keys = {}
    BY <2>1, ShapedRows
  <2>3. x.id # row.id
    BY <1>1, <2>1, NamesOfOthers, RowShapes, ShapedRows
  <2> QED BY <2>2, <2>3 DEF Collide
<1> QED BY <1>2, <1>3 DEF UniqueOK, KeyHolders

(* No insertion fails because its name is taken.                           *)
LEMMA NoConflicts ==
  ASSUME FullInv, NEW r \in Requests, NEW e \in Errors(r)
  PROVE  e = "bad_reference"
<1>1. tx[r].todo # <<>>
  BY DEF Errors
<1>2. Harmless(Next1(r))
  BY <1>1, Parts, ListParts DEF Next1
<1>3. Next1(r).op = "insert" => UniqueOK(View(r), Next1(r).arg)
  BY <1>1, NewNames
<1> QED BY <1>1, <1>2, <1>3 DEF Errors, Next1, Harmless

(* A problem somebody has deleted in a transaction is waited for, but its    *)
(* transaction waits for nothing.                                          *)
LEMMA DeletersDoNotWait ==
  ASSUME FullInv, NEW r \in Requests, Problem \in Ids(tx[r].del)
  PROVE  WaitsFor(r) = {}
BY Parts DEF TransactionInv, WaitsFor

(* An upload that has stored its files fails only when the problem is gone.  *)
LEMMA UploadsFail ==
  ASSUME FullInv, NEW r \in Requests, put[r] > 0
  PROVE  /\ ~Deadlocked(r)
         /\ Errors(r) # {} => Tests(db) = {}
<1>1. req[r].kind = "upload" /\ step[r] \in {"put", "run", "done"}
  BY Parts DEF RequestInv
<1>2. CASE tx[r].todo = <<>>
  BY <1>2 DEF Deadlocked, WaitsFor, Errors
<1>3. CASE tx[r].todo # <<>>
  <2> DEFINE row == Next1(r).arg
  <2>1. step[r] = "run" /\ PlansInserts(r) /\ Next1(r) \in Statements(r)
    BY <1>1, <1>3, Parts DEF TransactionInv
  <2>2. Next1(r).op = "insert" /\ Makes(r, row)
    BY <2>1 DEF PlansInserts
  <2>3. row.id \in TestIds
    <3>1. row.id \in Archive(r) /\ Shaped(row)
      BY <1>1, <2>2 DEF Makes
    <3>2. row.id[1] = "test"
      BY <3>1, RowShapes DEF Archive
    <3> QED BY <3>1, <3>2, ShapedRows
  <2>4. row.parents = {Problem}
    BY <2>2, <2>3, ShapedRows, RowShapes DEF Makes
  <2>5. Problem \notin Ids(tx[r].del)
    BY <1>1, Parts DEF TransactionInv
  <2>6. WaitsFor(r) = RowLockers(r, Problem)
    BY <1>3, <2>2, <2>4, NewNames DEF WaitsFor, InsertBlockers, Next1
  <2>7. ~Deadlocked(r)
    <3> SUFFICES ASSUME NEW circle \in SUBSET Requests, r \in circle,
                        \A a \in circle : WaitsFor(a) \cap circle # {}
                 PROVE  FALSE
      BY DEF Deadlocked
    <3>1. PICK o \in circle : o \in RowLockers(r, Problem)
      BY <2>6
    <3>2. WaitsFor(o) = {}
      BY <3>1, DeletersDoNotWait DEF RowLockers, Others
    <3> QED BY <3>2
  <2>8. Errors(r) # {} => Problem \notin Ids(View(r))
    <3>1. UniqueOK(View(r), row)
      BY <1>3, <2>2, NewNames
    <3> QED BY <1>3, <2>2, <2>4, <3>1 DEF Errors, ParentsExist, Next1
  <2>9. Problem \notin Ids(View(r)) => Tests(db) = {}
    <3> SUFFICES ASSUME Problem \notin Ids(View(r)), NEW x \in db, x.id[1] = "test" PROVE FALSE
      BY DEF Tests, IdsOf, Ids
    <3>1. x.parents = {Problem}
      BY ShapedRows DEF FullInv, MixtureInv, RowsInv
    <3>2. PICK y \in db : y.id = Problem
      BY <3>1 DEF FullInv, LockInv, NoOrphans, Ids
    <3> QED BY <2>5, <3>2 DEF View, Ids
  <2> QED BY <2>7, <2>8, <2>9
<1> QED BY <1>2, <1>3

-----------------------------------------------------------------------------
(* What is done stays done, what has been asked stays asked, and a request  *)
(* that was disturbed stays so.                                            *)

LEMMA ActorsAreNotDone ==
  ASSUME FullInv, NEW r \in Requests, StepOf(r)
  PROVE  step[r] # "done" /\ ((\E q \in AnyRequest : Begin(r, q)) \/ r \in Active)
<1>1. Errors(r) # {} \/ Deadlocked(r) \/ RunStatement(r) => tx[r].todo # <<>>
  BY DEF Errors, Deadlocked, WaitsFor, RunStatement, Execute
<1>2. tx[r].todo # <<>> => step[r] \in {"clear", "run"}
  BY Parts DEF TransactionInv
<1>3. Errors(r) # {} \/ Deadlocked(r) \/ RunStatement(r) => step[r] \notin {"idle", "done"}
  BY <1>1, <1>2
<1>4. CASE Refuses(r)
  BY <1>3, <1>4 DEF Refuses, NotFound, RemoveRefused, PutFails, DeleteProblemRefused,
                    StatementFails, BreakDeadlock, Active
<1>5. CASE Gives(r)
  BY <1>5 DEF Gives, AddIndex, Remove, Upload, InsertArchive, DeleteProblem, Submit, JudgeRecord,
              At, Active
<1>6. ASSUME NEW q \in AnyRequest, Begin(r, q) PROVE step[r] # "done"
  BY <1>6 DEF Begin
<1>7. CASE Reads(r)
  BY <1>7, ReadEffects DEF ReadEffect, Active
<1>8. CASE PutFile(r)
  BY <1>8, PutEffects DEF Active
<1>9. CASE Finish(r)
  BY <1>9, FinishEffects DEF FinishEffect, Active
<1>10. CASE RunStatement(r)
  BY <1>3, <1>10 DEF Active
<1> QED BY <1>4, <1>5, <1>6, <1>7, <1>8, <1>9, <1>10, KindsOfSteps

LEMMA GiveEffects ==
  ASSUME FullInv, NEW r \in Requests, Gives(r)
  PROVE  \E statements, s : GiveEffect(r, statements, s)
BY RunEffects
   DEF Gives, AddIndex, Remove, Upload, InsertArchive, DeleteProblem, Submit, JudgeRecord

Progress(r) ==
  /\ step[r] # "idle" => UNCHANGED req
  /\ overlapped \subseteq overlapped'
  /\ \A o \in Requests : step[o] = "done" => StandsStill(o)
  /\ \A o \in Requests : req[o].kind # "none" => req'[o] = req[o]
  /\ \A x : Disturbed(x) => Disturbed(x)'
LEMMA StepsProgress ==
  ASSUME FullInv, NEW r \in Requests, StepOf(r)
  PROVE  Progress(r)
<1>1. (step[r] # "idle" => UNCHANGED req) /\ overlapped \subseteq overlapped'
  <2>1. CASE Gives(r)
    BY <2>1, GiveEffects DEF GiveEffect
  <2> QED BY <2>1, KindsOfSteps, BeginEffects, ReadEffects, RefuseEffects, PutEffects,
             FinishEffects, StatementEffects
             DEF BeginEffect, ReadEffect, RefuseEffect, FinishEffect
<1>2. \A o \in Requests : step[o] = "done" => StandsStill(o)
  BY ActorsAreNotDone, OthersStandStill DEF Others
<1>3. \A o \in Requests : req[o].kind # "none" => req'[o] = req[o]
  <2>1. step[r] = "idle" => req[r].kind = "none"
    BY Parts DEF RequestInv
  <2> QED BY <1>1, <2>1, OthersStandStill DEF Others, StandsStill
<1>4. overlapped \subseteq Requests
  BY DEF FullInv, MixtureInv, MixturesAreExplained, TypeOK
<1>5. \A x : Disturbed(x) => Disturbed(x)'
  BY <1>1, <1>3, <1>4 DEF Disturbed
<1> QED BY <1>1, <1>2, <1>3, <1>5 DEF Progress

(* Committed rows: only a commit changes them, and of the tests somebody     *)
(* sees it adds some only if both requests overlapped.                     *)
LEMMA RowsChange ==
  ASSUME FullInv, NEW r \in Requests, StepOf(r)
  PROVE  db' = db \/ (Finish(r) /\ FinishEffect(r))
<1>1. CASE Gives(r)
  BY <1>1, GiveEffects DEF GiveEffect
<1> QED BY <1>1, KindsOfSteps, BeginEffects, ReadEffects, RefuseEffects, PutEffects,
           FinishEffects, StatementEffects
           DEF BeginEffect, ReadEffect, RefuseEffect, FinishEffect

LEMMA AddersDisturb ==
  ASSUME FullInv, NEW r \in Requests, NEW o \in Others(r), r \in Active, o \in Active,
         req[r].kind \in {"add", "upload"}
  PROVE  Disturbed(o)
BY DEF FullInv, MixtureInv, OverlapInv, Disturbed, Others

LEMMA TestsAppear ==
  ASSUME FullInv, NEW r \in Requests, StepOf(r), NEW x \in db' \ db, x.id[1] = "test"
  PROVE  /\ FinishEffect(r) /\ r \in Active /\ req[r].kind \in {"add", "upload"}
         /\ x.id \in TestIds /\ x.id[2] = r
         /\ x \in tx[r].ins /\ Makes(r, x)
<1>1. FinishEffect(r)
  BY RowsChange
<1>2. x \in tx[r].ins
  BY <1>1 DEF FinishEffect, View
<1>3. Makes(r, x)
  BY <1>2, Parts DEF TransactionInv
<1>4. x.id \in TestIds
  BY <1>3, ShapedRows DEF Makes
<1> QED BY <1>1, <1>2, <1>3, <1>4 DEF Makes, Active, FinishEffect

-----------------------------------------------------------------------------
(* Types                                                                   *)

LEMMA RecordsStep ==
  ASSUME FullInv, NEW r \in Requests, StepOf(r)
  PROVE  Records'
<1>1. DOMAIN tx'[r] = {"ins", "del", "todo"}
  <2>1. CASE Gives(r)
    BY <2>1, GiveEffects DEF GiveEffect
  <2>2. DOMAIN tx[r] = {"ins", "del", "todo"} /\ DOMAIN NoTransaction = {"ins", "del", "todo"}
    BY DEF FullInv, Records, NoTransaction
  <2> QED BY <2>1, <2>2, KindsOfSteps, BeginEffects, ReadEffects, RefuseEffects, PutEffects,
             FinishEffects, StatementEffects
             DEF BeginEffect, ReadEffect, RefuseEffect, FinishEffect
<1>2. \A o \in Others(r) : DOMAIN tx'[o] = {"ins", "del", "todo"}
  BY OthersStandStill DEF StandsStill, FullInv, Records, Others
<1> QED BY <1>1, <1>2 DEF Records, Others

Steps    == {"idle", "load", "index", "results", "clear", "put", "related", "execute", "run",
             "done"}
Outcomes == {"none", "ok", "missing", "bad_reference", "storage", "internal"}

LEMMA FilesOfArchives ==
  /\ \A k \in Nat \ {0} : File(k)[1] \in Nat /\ (k <= 2 * MaxPairs => File(k) \in Files)
  /\ \A i \in Nat : \A end \in {"in", "out"} :
       /\ <<i, end>>[1] = i
       /\ \E k \in Nat \ {0} : File(k) = <<i, end>> /\ k <= 2 * (i + 1)
<1>1. \A k \in Nat \ {0} : File(k)[1] \in Nat /\ (k <= 2 * MaxPairs => File(k) \in Files)
  <2>1. \A k \in Nat \ {0} : File(k)[1] = (k - 1) \div 2
    BY DEF File
  <2>2. \A k \in Nat \ {0} : (k - 1) \div 2 \in Nat
    OBVIOUS
  <2>3. \A k \in Nat \ {0} : k <= 2 * MaxPairs => k \in 1 .. 2 * MaxPairs
    BY MaxPairsAssumption
  <2> QED BY <2>1, <2>2, <2>3 DEF Files
<1>2. ASSUME NEW i \in Nat
      PROVE  /\ File(2 * i + 1) = <<i, "in">> /\ File(2 * i + 2) = <<i, "out">>
             /\ 2 * i + 1 \in Nat \ {0} /\ 2 * i + 2 \in Nat \ {0}
             /\ 2 * i + 1 <= 2 * (i + 1) /\ 2 * i + 2 <= 2 * (i + 1)
  <2>1. (2 * i + 1 - 1) \div 2 = i /\ (2 * i + 2 - 1) \div 2 = i
    OBVIOUS
  <2>2. (2 * i + 1) % 2 = 1 /\ (2 * i + 2) % 2 # 1
    OBVIOUS
  <2>3. File(2 * i + 1) = <<i, "in">> /\ File(2 * i + 2) = <<i, "out">>
    BY <2>1, <2>2 DEF File
  <2> QED BY <2>3
<1>3. \A i \in Nat : \A end \in {"in", "out"} :
        \E k \in Nat \ {0} : File(k) = <<i, end>> /\ k <= 2 * (i + 1)
  BY <1>2
<1>4. \A i : \A end : <<i, end>>[1] = i
  OBVIOUS
<1> QED BY <1>1, <1>3, <1>4

LEMMA StoredFiles ==
  ASSUME FullInv, NEW r \in Requests, PutFile(r)
  PROVE  LET f == File(put'[r]) IN
         /\ put[r] \in Nat /\ put'[r] \in Nat \ {0} /\ put'[r] = put[r] + 1
         /\ put'[r] <= 2 * MaxPairs /\ put'[r] <= 2 * req[r].pairs
         /\ f \in Files /\ f[1] \in Nat /\ Test(r, f[1]) \in TestIds
         /\ s3'[f] = Test(r, f[1]) /\ DOMAIN s3' = Files
         /\ \A g \in Files : g # f => s3'[g] = s3[g]
<1>1. put[r] \in Nat
  BY DEF FullInv, MixtureInv, MixturesAreExplained, TypeOK
<1>2. put'[r] = put[r] + 1 /\ put'[r] <= 2 * req[r].pairs
  BY PutEffects
<1>3. req[r].pairs \in Nat /\ req[r].pairs <= MaxPairs
  BY MaxPairsAssumption, Parts, PutEffects DEF RequestInv
<1>4. put'[r] \in Nat \ {0} /\ put'[r] <= 2 * MaxPairs
  BY <1>1, <1>2, <1>3, MaxPairsAssumption
<1>5. File(put'[r]) \in Files /\ File(put'[r])[1] \in Nat
  BY <1>4, FilesOfArchives
<1>6. r \in Makers
  BY DEF Makers
<1>7. Test(r, File(put'[r])[1]) \in TestIds
  BY <1>5, <1>6, RowShapes
<1> DEFINE f == File(put'[r])
<1>8. s3' = [s3 EXCEPT ![f] = Test(r, f[1])]
  BY PutEffects
<1>9. /\ s3'[f] = Test(r, f[1]) /\ DOMAIN s3' = Files
      /\ \A g \in Files : g # f => s3'[g] = s3[g]
  <2>1. f \in Files
    BY <1>5
  <2> HIDE DEF f
  <2> QED BY <1>8, <2>1, Domains
<1> QED BY <1>1, <1>2, <1>4, <1>5, <1>7, <1>9

LEMMA TypeStep ==
  ASSUME FullInv, NEW r \in Requests, StepOf(r), HeldRows'
  PROVE  TypeOK'
<1> USE DEF FullInv, MixtureInv, MixturesAreExplained, TypeOK
<1>1. ASSUME NEW o \in Requests
      PROVE  step'[o] \in Steps /\ outcome'[o] \in Outcomes
             /\ loaded'[o] \subseteq TestIds /\ put'[o] \in 0 .. 2 * MaxPairs
  <2>1. step[o] \in Steps /\ outcome[o] \in Outcomes /\ loaded[o] \subseteq TestIds
        /\ put[o] \in 0 .. 2 * MaxPairs
    BY DEF Steps, Outcomes
  <2>2. CASE o \in Others(r)
    BY <2>1, <2>2, OthersStandStill DEF StandsStill
  <2>3. CASE o = r
    <3>1. Tests(View(r)) \subseteq TestIds
      BY ViewShaped
    <3>2. CASE Gives(r)
      <4>1. \E statements, s : GiveEffect(r, statements, s) /\ s \in {"run", "clear"}
        BY <3>2, RunEffects
           DEF Gives, AddIndex, Remove, Upload, InsertArchive, DeleteProblem, Submit, JudgeRecord
      <4> QED BY <2>1, <2>3, <4>1 DEF GiveEffect, Steps
    <3>3. CASE Reads(r)
      BY <2>1, <2>3, <3>1, <3>3, ReadEffects DEF ReadEffect, Steps
    <3>4. CASE Refuses(r)
      BY <2>1, <2>3, <3>4, RefuseEffects, NoConflicts DEF RefuseEffect, Steps, Outcomes
    <3>5. CASE PutFile(r)
      BY <2>1, <2>3, <3>5, PutEffects, StoredFiles
    <3>6. CASE \E q \in AnyRequest : Begin(r, q)
      BY <2>1, <2>3, <3>6, BeginEffects DEF BeginEffect, Steps
    <3>7. CASE RunStatement(r)
      BY <2>1, <2>3, <3>7, StatementEffects
    <3>8. CASE Finish(r)
      BY <2>1, <2>3, <3>8, FinishEffects DEF FinishEffect, Steps, Outcomes
    <3> QED BY <3>2, <3>3, <3>4, <3>5, <3>6, <3>7, <3>8, KindsOfSteps
  <2> QED BY <2>2, <2>3 DEF Others
<1>2. /\ step' = step \/ \E v : step' = [step EXCEPT ![r] = v]
      /\ outcome' = outcome \/ \E v : outcome' = [outcome EXCEPT ![r] = v]
      /\ loaded' = loaded \/ \E v : loaded' = [loaded EXCEPT ![r] = v]
      /\ put' = put \/ \E v : put' = [put EXCEPT ![r] = v]
  <2>1. CASE Gives(r)
    <3>1. \E statements, s : Run(r, statements, s)
      BY <2>1 DEF Gives, AddIndex, Remove, Upload, InsertArchive, DeleteProblem, Submit, JudgeRecord
    <3> QED BY <3>1 DEF Run
  <2>2. CASE Reads(r)
    BY <2>2 DEF Reads, AddLoad, RemoveLoad, Cleared, DeleteProblemLoad, JudgeLoad, Goto
  <2>3. CASE Refuses(r)
    <3>1. \E how : Refuse(r, how)
      BY <2>3 DEF Refuses, NotFound, RemoveRefused, PutFails, DeleteProblemRefused,
                  StatementFails, BreakDeadlock
    <3> QED BY <3>1 DEF Refuse
  <2>4. CASE PutFile(r)
    BY <2>4 DEF PutFile
  <2>5. CASE \E q \in AnyRequest : Begin(r, q)
    BY <2>5 DEF Begin
  <2>6. CASE RunStatement(r)
    BY <2>6 DEF RunStatement
  <2>7. CASE Finish(r)
    BY <2>7 DEF Finish
  <2> QED BY <2>1, <2>2, <2>3, <2>4, <2>5, <2>6, <2>7, KindsOfSteps
<1>3. step' \in [Requests -> Steps] /\ outcome' \in [Requests -> Outcomes]
  <2>1. step \in [Requests -> Steps] /\ outcome \in [Requests -> Outcomes]
    BY DEF Steps, Outcomes
  <2>2. step'[r] \in Steps /\ outcome'[r] \in Outcomes
    BY <1>1
  <2> QED BY <1>2, <2>1, <2>2
<1>4. loaded' \in [Requests -> SUBSET TestIds] /\ put' \in [Requests -> 0 .. 2 * MaxPairs]
  <2>1. loaded'[r] \in SUBSET TestIds /\ put'[r] \in 0 .. 2 * MaxPairs
    BY <1>1
  <2>2. loaded \in [Requests -> SUBSET TestIds] /\ put \in [Requests -> 0 .. 2 * MaxPairs]
    OBVIOUS
  <2> QED BY <1>2, <2>1, <2>2
<1>5. s3' \in [Files -> TestIds \cup {NoFile}]
  <2>1. CASE PutFile(r)
    <3>1. s3' = [s3 EXCEPT ![File(put'[r])] = Test(r, File(put'[r])[1])]
      BY <2>1, PutEffects
    <3>2. Test(r, File(put'[r])[1]) \in TestIds
      BY <2>1, StoredFiles
    <3>3. s3 \in [Files -> TestIds \cup {NoFile}]
      OBVIOUS
    <3> QED BY <3>1, <3>2, <3>3
  <2>2. CASE s3' = s3
    BY <2>2
  <2>3. CASE Gives(r)
    BY <2>2, <2>3, GiveEffects DEF GiveEffect
  <2> QED BY <2>1, <2>2, <2>3, KindsOfSteps, BeginEffects, ReadEffects, RefuseEffects,
             FinishEffects, StatementEffects
             DEF BeginEffect, ReadEffect, RefuseEffect, FinishEffect
<1>6. overlapped' \subseteq Requests
  <2>1. CASE \E q \in AnyRequest : Begin(r, q)
    BY <2>1, BeginEffects DEF BeginEffect, Active
  <2>2. CASE Gives(r)
    BY <2>2, GiveEffects DEF GiveEffect
  <2> QED BY <2>1, <2>2, KindsOfSteps, ReadEffects, RefuseEffects, PutEffects,
             FinishEffects, StatementEffects
             DEF ReadEffect, RefuseEffect, FinishEffect
<1>7. \A o \in Requests : tx'[o].del \subseteq db'
  BY DEF HeldRows
<1> QED BY <1>3, <1>4, <1>5, <1>6, <1>7 DEF Steps, Outcomes

(* Committed rows                                                          *)
LEMMA RowsStep ==
  ASSUME FullInv, NEW r \in Requests, StepOf(r)
  PROVE  RowsInv'
<1> SUFFICES ASSUME NEW x \in db'
             PROVE  /\ Shaped(x)
                    /\ x # ProblemRow => \/ x.id[2] \in Earlier
                                         \/ x.id[2] \in Requests /\ step'[x.id[2]] = "done"
  BY DEF RowsInv, Shaped
<1>1. CASE x \in db
  <2>1. /\ Shaped(x)
        /\ x # ProblemRow => \/ x.id[2] \in Earlier
                             \/ x.id[2] \in Requests /\ step[x.id[2]] = "done"
    BY <1>1 DEF FullInv, MixtureInv, RowsInv
  <2> QED BY <2>1, StepsProgress DEF Progress, StandsStill
<1>2. CASE x \notin db
  <2>1. FinishEffect(r) /\ x \in tx[r].ins
    BY <1>2, RowsChange DEF FinishEffect, View
  <2>2. Makes(r, x)
    BY <2>1, Parts DEF TransactionInv
  <2> QED BY <2>1, <2>2 DEF Makes, FinishEffect
<1> QED BY <1>1, <1>2

(* Handlers                                                                *)
LEMMA RequestStep ==
  ASSUME FullInv, NEW r \in Requests, StepOf(r), NEW o \in Requests
  PROVE  RequestInv(o)'
<1>1. CASE o \in Others(r)
  BY <1>1, OthersStandStill, Parts DEF StandsStill, RequestInv
<1>2. CASE o = r
  <2>0. RequestInv(r) /\ put[r] \in Nat /\ MaxPairs \in Nat
    BY Parts, MaxPairsAssumption DEF FullInv, MixtureInv, MixturesAreExplained, TypeOK
  <2>1. CASE Gives(r)
    <3>1. ASSUME NEW statements, GiveEffect(r, statements, "run"), put[r] = 0,
                 step[r] # "idle", step[r] # "done", req[r].kind # "upload"
          PROVE  RequestInv(r)'
      BY <2>0, <3>1 DEF RequestInv, GiveEffect
    <3>2. CASE AddIndex(r) \/ Remove(r) \/ DeleteProblem(r) \/ Submit(r) \/ JudgeRecord(r)
      <4>1. \E statements : Run(r, statements, "run")
        BY <3>2 DEF AddIndex, Remove, DeleteProblem, Submit, JudgeRecord
      <4>2. /\ step[r] \in {"index", "results", "related", "load", "execute"}
            /\ req[r].kind # "upload"
        BY <2>0, <3>2 DEF AddIndex, Remove, DeleteProblem, Submit, JudgeRecord, At, RequestInv
      <4>3. put[r] = 0
        BY <2>0, <4>2 DEF RequestInv
      <4> QED BY <1>2, <3>1, <4>1, <4>2, <4>3, RunEffects
    <3>3. CASE Upload(r)
      <4>1. GiveEffect(r, <<Clear(Problem, "test")>>, "clear") /\ At(r, "load", "upload")
        BY <3>3, RunEffects DEF Upload
      <4>2. put[r] = 0
        BY <2>0, <4>1 DEF RequestInv, At
      <4> QED BY <1>2, <2>0, <4>1, <4>2 DEF RequestInv, GiveEffect, At
    <3>4. CASE InsertArchive(r)
      <4>1. /\ step[r] = "put" /\ put[r] = 2 * req[r].pairs
            /\ \E statements : GiveEffect(r, statements, "run")
        BY <3>4, RunEffects DEF InsertArchive
      <4> QED BY <1>2, <2>0, <4>1 DEF RequestInv, GiveEffect
    <3> QED BY <2>1, <3>2, <3>3, <3>4 DEF Gives
  <2>2. CASE Reads(r)
    BY <1>2, <2>0, <2>2, ReadEffects DEF RequestInv, ReadEffect
  <2>3. CASE Refuses(r)
    <3>1. step[r] \notin {"idle", "done"}
      <4>1. ~ \E q \in AnyRequest : Begin(r, q)
        BY <2>3, BeginEffects, RefuseEffects DEF BeginEffect, RefuseEffect
      <4> QED BY <4>1, ActorsAreNotDone DEF Active
    <3> QED BY <1>2, <2>0, <2>3, <3>1, RefuseEffects DEF RequestInv, RefuseEffect
  <2>4. CASE PutFile(r)
    BY <1>2, <2>0, <2>4, PutEffects, StoredFiles DEF RequestInv
  <2>5. ASSUME NEW q \in AnyRequest, Begin(r, q) PROVE RequestInv(r)'
    <3>1. /\ BeginEffect(r) /\ req'[r] = q
      BY <2>5, BeginEffects, Domains DEF Begin
    <3>2. \/ q.kind \in {"add", "delete_problem", "submit", "judge"}
          \/ q.kind = "upload" /\ q.pairs \in 1 .. MaxPairs
          \/ q.kind = "remove" /\ q.test \in TestIds
      BY ViewShaped DEF AnyRequest
    <3>3. put'[r] = 0 /\ outcome'[r] = "none"
      BY <2>0, <3>1 DEF BeginEffect, RequestInv
    <3>4. step'[r] = "load"
      BY <3>1 DEF BeginEffect
    <3> QED BY <2>0, <3>1, <3>2, <3>3, <3>4 DEF RequestInv
  <2>6. CASE RunStatement(r)
    BY <1>2, <2>0, <2>6, StatementEffects DEF RequestInv
  <2>7. CASE Finish(r)
    BY <1>2, <2>0, <2>7, FinishEffects DEF RequestInv, FinishEffect
  <2> QED BY <1>2, <2>1, <2>2, <2>3, <2>4, <2>5, <2>6, <2>7, KindsOfSteps
<1> QED BY <1>1, <1>2 DEF Others

-----------------------------------------------------------------------------
(* Transactions                                                            *)

(* A finite set of integers has a largest element.                         *)
LEMMA Largest ==
  ASSUME NEW S, IsFiniteSet(S), S \subseteq Int, S # {}
  PROVE  Max(S) \in S /\ \A y \in S : Max(S) >= y
<1> DEFINE Bad == {T \in SUBSET S : T # {} /\ ~ \E x \in T : \A y \in T : x >= y}
<1>1. Bad \subseteq FiniteSubsetsOf(S)
  BY FS_Subset DEF FiniteSubsetsOf
<1>2. Bad = {}
  <2> SUFFICES ASSUME Bad # {} PROVE FALSE
    OBVIOUS
  <2>1. PICK T \in Bad : \A U \in Bad : ~(<<U, T>> \in StrictSubsetOrdering(S))
    <3> HIDE DEF Bad
    <3> QED BY <1>1, FS_StrictSubsetOrderingWellFounded, WFMin
  <2>2. \A U \in SUBSET T : U # T => U \notin Bad
    BY <2>1 DEF StrictSubsetOrdering
  <2>3. PICK t \in T : TRUE
    OBVIOUS
  <2>4. CASE T \ {t} = {}
    BY <2>4
  <2>5. CASE T \ {t} # {}
    <3>1. PICK x \in T \ {t} : \A y \in T \ {t} : x >= y
      BY <2>2, <2>5
    <3>2. x \in Int /\ t \in Int /\ \A y \in T : y \in Int
      OBVIOUS
    <3> QED BY <3>1, <3>2
  <2> QED BY <2>4, <2>5
<1>3. \E x \in S : \A y \in S : x >= y
  BY <1>2
<1> QED BY <1>3 DEF Max

LEMMA NextIndex ==
  ASSUME FullInv, NEW r \in Requests
  PROVE  LET next == IF Indexes(View(r)) = {} THEN 0 ELSE Max(Indexes(View(r))) + 1
         IN  next \in Nat /\ next \notin Indexes(View(r))
<1> DEFINE S == Indexes(View(r))
<1>1. S \subseteq Nat
  BY ViewShaped, RowShapes DEF Indexes
<1>2. IsFiniteSet(S)
  <2>1. IsFiniteSet(Tests(View(r)))
    BY ViewIsFinite DEF FullInv, KeptInv
  <2> DEFINE f == [t \in Tests(View(r)) |-> t[3]]
  <2>2. f \in Surjection(Tests(View(r)), S)
    BY DEF Surjection, Indexes
  <2> HIDE DEF f, S
  <2> QED BY <2>1, <2>2, FS_Surjection
<1>3. CASE S = {}
  BY <1>3
<1>4. CASE S # {}
  <2>1. Max(S) \in S /\ \A y \in S : Max(S) >= y
    <3> HIDE DEF S
    <3>1. S \subseteq Int
      BY <1>1
    <3> QED BY <1>2, <1>4, <3>1, Largest
  <2>2. Max(S) \in Nat /\ Max(S) + 1 \in Nat
    BY <1>1, <2>1
  <2>3. Max(S) + 1 \notin S
    <3> HIDE DEF S
    <3> QED BY <2>1, <2>2
  <2> QED BY <1>4, <2>2, <2>3
<1> QED BY <1>3, <1>4

LEMMA EmptyTransaction ==
  ASSUME NEW r, tx'[r].ins = {}, tx'[r].del = {}, tx'[r].todo = <<>>, step'[r] # "run"
  PROVE  TransactionInv(r)'
<1>1. Ids(tx'[r].del) = {}
  BY DEF Ids
<1>2. Statements(r)' = {}
  BY DEF Statements
<1> QED BY <1>1, <1>2 DEF TransactionInv, PlansRemovals

(* Statements are given to a transaction that has not inserted yet.          *)
LEMMA GivenInserts ==
  ASSUME FullInv, NEW r \in Requests, NEW statements, GiveEffect(r, statements, "run"),
         step[r] \notin {"clear", "run"}, step[r] # "put" => tx[r].del = {},
         req[r].kind \in {"add", "upload", "submit", "judge"}, Problem \notin Ids(tx[r].del),
         \A i \in DOMAIN statements :
           /\ statements[i] = Insert(statements[i].arg) /\ Makes(r, statements[i].arg)
           /\ \A j \in DOMAIN statements : i # j => statements[i].arg.id # statements[j].arg.id,
         req[r].kind = "upload" =>
           \A id \in Archive(r) : \E i \in DOMAIN statements : statements[i].arg.id = id
  PROVE  TransactionInv(r)'
<1>1. /\ tx'[r].ins = {} /\ tx'[r].del = tx[r].del /\ tx'[r].todo = statements
      /\ step'[r] = "run" /\ req'[r] = req[r]
  BY Parts DEF GiveEffect, TransactionInv
<1>2. Ids(tx'[r].ins) = {}
  BY <1>1 DEF Ids
<1>3. Statements(r)' = {statements[i] : i \in DOMAIN statements}
  BY <1>1 DEF Statements
<1>4. \A x : Makes(r, x) => Makes(r, x)'
  BY <1>1 DEF Makes, Archive, Shaped
<1>5. \A i \in DOMAIN statements : statements[i].op = "insert"
  BY DEF Insert, Statement
<1>6. PlansInserts(r)'
  BY <1>1, <1>2, <1>3, <1>4, <1>5 DEF PlansInserts
<1>7. req[r].kind = "upload" => \A id \in Archive(r) : \E s \in Statements(r)' : s.arg.id = id
  BY <1>3
<1>8. Archive(r)' = Archive(r)
  BY <1>1 DEF Archive
<1>9. Problem \notin Ids(tx'[r].del)
  BY <1>1
<1> QED BY <1>1, <1>6, <1>7, <1>8, <1>9 DEF TransactionInv

LEMMA GivenRemovals ==
  ASSUME FullInv, NEW r \in Requests, NEW statements, NEW s, GiveEffect(r, statements, s),
         step[r] \notin {"clear", "put", "run"},
         \/ s = "clear" \/ (s = "run" /\ req[r].kind = "remove"),
         \A t \in Members(statements) :
           t = Clear(Problem, "test") \/ (t.op = "delete" /\ t.arg \subseteq TestIds)
  PROVE  TransactionInv(r)'
<1>1. /\ tx'[r].ins = {} /\ tx'[r].del = {} /\ tx'[r].todo = statements
      /\ step'[r] = s /\ req'[r] = req[r]
  BY Parts DEF GiveEffect, TransactionInv
<1>2. Ids(tx'[r].del) = {}
  BY <1>1 DEF Ids
<1>3. PlansRemovals(r)'
  BY <1>1 DEF PlansRemovals, Statements, Members
<1> QED BY <1>1, <1>2, <1>3 DEF TransactionInv

LEMMA GivesStep ==
  ASSUME FullInv, NEW r \in Requests, Gives(r)
  PROVE  TransactionInv(r)'
<1>0. /\ RequestInv(r) /\ TransactionInv(r)
      /\ r \in Makers
  BY Parts DEF Makers
<1>1. CASE AddIndex(r)
  <2> DEFINE next == IF Indexes(View(r)) = {} THEN 0 ELSE Max(Indexes(View(r))) + 1
             row  == TestRow(r, next)
  <2>1. GiveEffect(r, <<Insert(row)>>, "run") /\ step[r] = "index"
    BY <1>1, RunEffects DEF AddIndex
  <2>2. next \in Nat
    BY NextIndex
  <2>3. req[r].kind = "add" /\ tx[r].del = {} /\ Ids(tx[r].del) = {}
    BY <1>0, <2>1 DEF RequestInv, TransactionInv, Ids
  <2> HIDE DEF next
  <2>4. Makes(r, row)
    <3>1. row.id \in TestIds /\ row.id[2] = r /\ row.id[3] = next /\ row # ProblemRow
      BY <1>0, <2>2, RowShapes
    <3> QED BY <2>3, <3>1 DEF Makes, Shaped
  <2> HIDE DEF row
  <2>5. \A i \in DOMAIN <<Insert(row)>> : i = 1 /\ <<Insert(row)>>[i] = Insert(row)
    OBVIOUS
  <2>6. Insert(row).arg = row
    BY DEF Insert, Statement
  <2>7. \A i \in DOMAIN <<Insert(row)>> :
          /\ <<Insert(row)>>[i] = Insert(<<Insert(row)>>[i].arg) /\ Makes(r, <<Insert(row)>>[i].arg)
          /\ \A j \in DOMAIN <<Insert(row)>> :
               i # j => <<Insert(row)>>[i].arg.id # <<Insert(row)>>[j].arg.id
    BY <2>4, <2>5, <2>6
  <2> QED BY <2>1, <2>3, <2>7, GivenInserts
<1>2. CASE Submit(r)
  <2> DEFINE row == SubmissionRow(r)
  <2>1. GiveEffect(r, <<Insert(row)>>, "run") /\ step[r] = "load" /\ req[r].kind = "submit"
    BY <1>2, RunEffects DEF Submit, At
  <2>2. tx[r].del = {} /\ Ids(tx[r].del) = {}
    BY <1>0, <2>1 DEF TransactionInv, Ids
  <2>3. Makes(r, row)
    <3>1. row.id[1] = "submission" /\ row.id[2] = r /\ row.keys = {} /\ ~row.cascade
      BY DEF SubmissionRow, Submission
    <3>2. row.id \notin TestIds /\ row # ProblemRow
      BY <3>1, RowShapes
    <3> QED BY <2>1, <3>1, <3>2 DEF Makes, Shaped
  <2> HIDE DEF row
  <2>4. \A i \in DOMAIN <<Insert(row)>> : i = 1 /\ <<Insert(row)>>[i] = Insert(row)
    OBVIOUS
  <2>5. Insert(row).arg = row
    BY DEF Insert, Statement
  <2>6. \A i \in DOMAIN <<Insert(row)>> :
          /\ <<Insert(row)>>[i] = Insert(<<Insert(row)>>[i].arg) /\ Makes(r, <<Insert(row)>>[i].arg)
          /\ \A j \in DOMAIN <<Insert(row)>> :
               i # j => <<Insert(row)>>[i].arg.id # <<Insert(row)>>[j].arg.id
    BY <2>3, <2>4, <2>5
  <2> QED BY <2>1, <2>2, <2>6, GivenInserts
<1>3. CASE InsertArchive(r)
  <2> DEFINE n == req[r].pairs
             q == [i \in 1 .. n |-> Insert(TestRow(r, i - 1))]
  <2>1. GiveEffect(r, q, "run") /\ step[r] = "put"
    BY <1>3, RunEffects DEF InsertArchive
  <2>2. /\ req[r].kind = "upload" /\ n \in Nat
        /\ Problem \notin Ids(tx[r].del)
    BY <1>0, <2>1, MaxPairsAssumption DEF RequestInv, TransactionInv
  <2>3. ASSUME NEW i \in 1 .. n
        PROVE  /\ q[i] = Insert(q[i].arg) /\ q[i].arg.id = Test(r, i - 1) /\ Makes(r, q[i].arg)
    <3>1. q[i] = Insert(TestRow(r, i - 1)) /\ q[i].arg = TestRow(r, i - 1) /\ i - 1 \in Nat
      BY <2>2 DEF Insert, Statement
    <3>2. /\ TestRow(r, i - 1).id = Test(r, i - 1) /\ Test(r, i - 1) \in TestIds
          /\ Test(r, i - 1)[2] = r /\ Test(r, i - 1)[3] = i - 1
          /\ TestRow(r, i - 1) # ProblemRow
      BY <1>0, <3>1, RowShapes
    <3>3. Test(r, i - 1) \in Archive(r)
      BY DEF Archive
    <3>4. Makes(r, TestRow(r, i - 1))
      BY <2>2, <3>2, <3>3 DEF Makes, Shaped
    <3> QED BY <3>1, <3>2, <3>4
  <2>4. DOMAIN q = 1 .. n
    OBVIOUS
  <2>5. \A i, j \in 1 .. n : i # j => Test(r, i - 1) # Test(r, j - 1)
    <3>1. \A i, j \in 1 .. n : i # j => i - 1 # j - 1
      BY <2>2
    <3> QED BY <3>1, RowShapes
  <2>6. \A id \in Archive(r) : \E i \in DOMAIN q : q[i].arg.id = id
    BY <2>3, <2>4 DEF Archive
  <2> HIDE DEF q, n
  <2>7. \A i \in DOMAIN q :
          /\ q[i] = Insert(q[i].arg) /\ Makes(r, q[i].arg)
          /\ \A j \in DOMAIN q : i # j => q[i].arg.id # q[j].arg.id
    BY <2>3, <2>4, <2>5
  <2> QED BY <2>1, <2>2, <2>6, <2>7, GivenInserts
<1>4. CASE JudgeRecord(r)
  <2>1. PICK order \in [1 .. Cardinality(Executed(r)) -> Executed(r)] :
          /\ \A i, j \in DOMAIN order : i < j => order[i] # order[j]
          /\ Run(r, [i \in DOMAIN order |-> Insert(ResultRow(r, req[r].submission, order[i]))],
                 "run")
    BY <1>4 DEF JudgeRecord
  <2> DEFINE n == Cardinality(Executed(r))
             q == [i \in DOMAIN order |-> Insert(ResultRow(r, req[r].submission, order[i]))]
  <2>2. n \in Nat
    <3>1. IsFiniteSet(loaded[r])
      BY DEF FullInv, KeptInv, RequestsAreHarmless
    <3>2. IsFiniteSet(Executed(r))
      BY <3>1, FS_Subset DEF Executed
    <3> QED BY <3>2, FS_CardinalityType
  <2>3. GiveEffect(r, q, "run") /\ step[r] = "execute"
    BY <1>4, <2>1, RunEffects DEF JudgeRecord
  <2>4. req[r].kind = "judge" /\ tx[r].del = {} /\ Ids(tx[r].del) = {}
    BY <1>0, <2>3 DEF RequestInv, TransactionInv, Ids
  <2>5. ASSUME NEW i \in DOMAIN order
        PROVE  /\ q[i] = Insert(q[i].arg) /\ q[i].arg.id[3] = order[i] /\ Makes(r, q[i].arg)
    <3> DEFINE row == ResultRow(r, req[r].submission, order[i])
    <3>1. q[i] = Insert(row) /\ q[i].arg = row
      BY DEF Insert, Statement
    <3>2. row.id[1] = "result" /\ row.id[2] = r /\ row.id[3] = order[i] /\ row.keys = {}
            /\ ~row.cascade
      BY DEF ResultRow
    <3>3. row.id \notin TestIds /\ row # ProblemRow
      BY <3>2, RowShapes
    <3>4. Makes(r, row)
      BY <2>4, <3>2, <3>3 DEF Makes, Shaped
    <3> QED BY <3>1, <3>2, <3>4
  <2>6. DOMAIN q = DOMAIN order /\ DOMAIN order = 1 .. n
    OBVIOUS
  <2>7. \A i, j \in DOMAIN order : i # j => order[i] # order[j]
    <3>1. \A i, j \in 1 .. n : i # j => i < j \/ j < i
      BY <2>2
    <3> QED BY <2>1, <2>6, <3>1
  <2> HIDE DEF q, n
  <2>8. \A i \in DOMAIN q :
          /\ q[i] = Insert(q[i].arg) /\ Makes(r, q[i].arg)
          /\ \A j \in DOMAIN q : i # j => q[i].arg.id # q[j].arg.id
    BY <2>5, <2>6, <2>7
  <2> QED BY <2>3, <2>4, <2>8, GivenInserts
<1>5. CASE Remove(r)
  <2>1. GiveEffect(r, Delete({req[r].test}), "run") /\ step[r] = "results"
    BY <1>5, RunEffects DEF Remove
  <2>2. req[r].kind = "remove" /\ req[r].test \in TestIds
    BY <1>0, <2>1 DEF RequestInv
  <2>3. Members(Delete({req[r].test})) = {Statement("delete", {req[r].test})}
    BY MembersOfShort
  <2>4. \A t \in Members(Delete({req[r].test})) : t.op = "delete" /\ t.arg \subseteq TestIds
    BY <2>2, <2>3 DEF Statement
  <2> QED BY <2>1, <2>2, <2>4, GivenRemovals
<1>6. CASE Upload(r)
  <2>1. GiveEffect(r, <<Clear(Problem, "test")>>, "clear") /\ step[r] = "load"
    BY <1>6, RunEffects DEF Upload, At
  <2>2. \A t \in Members(<<Clear(Problem, "test")>>) : t = Clear(Problem, "test")
    BY MembersOfShort
  <2> QED BY <2>1, <2>2, GivenRemovals
<1>7. CASE DeleteProblem(r)
  <2>1. GiveEffect(r, Delete(loaded[r]) \o Delete({Problem}), "run") /\ step[r] = "related"
    BY <1>7, RunEffects DEF DeleteProblem
  <2>2. /\ req[r].kind = "delete_problem" /\ req'[r] = req[r] /\ loaded'[r] = loaded[r]
        /\ step'[r] = "run"
        /\ tx'[r].todo = Delete(loaded[r]) \o Delete({Problem})
        /\ tx'[r].ins = {} /\ tx'[r].del = {}
    BY <1>0, <2>1 DEF RequestInv, TransactionInv, GiveEffect
  <2>3. PlansDeletion(r)'
    BY <2>2 DEF PlansDeletion
  <2>4. Ids(tx'[r].del) = {}
    BY <2>2 DEF Ids
  <2> QED BY <2>2, <2>3, <2>4 DEF TransactionInv
<1> QED BY <1>1, <1>2, <1>3, <1>4, <1>5, <1>6, <1>7 DEF Gives

(* A statement is executed.                                                *)
LEMMA InsertStep ==
  ASSUME FullInv, NEW r \in Requests, RunStatement(r), InsertEffect(r)
  PROVE  TransactionInv(r)'
<1> DEFINE s == Next1(r)  q == tx[r].todo
<1>0. /\ UNCHANGED <<req, step, loaded>>
      /\ tx[r].todo # <<>> /\ HarmlessList(q)
  BY StatementEffects
<1>1. /\ step[r] = "run" /\ PlansInserts(r) /\ Makes(r, s.arg)
      /\ req[r].kind \notin {"remove", "delete_problem"}
      /\ s.op = "insert"
  BY <1>0, NextInsert DEF InsertEffect
<1>2. /\ tx'[r].ins = tx[r].ins \cup {s.arg} /\ tx'[r].del = tx[r].del /\ tx'[r].todo = Tail(q)
  BY DEF InsertEffect, Rest
<1>3. /\ Statements(r) = {s} \cup Statements(r)'
      /\ 1 \in DOMAIN q /\ s = q[1]
      /\ \A i \in DOMAIN Tail(q) :
           i \in Nat /\ i # 0 /\ i + 1 \in DOMAIN q /\ Tail(q)[i] = q[i + 1]
  <2>1. /\ Members(q) = {Head(q)} \cup Members(Tail(q))
        /\ 1 \in DOMAIN q /\ Head(q) = q[1]
        /\ \A i \in DOMAIN Tail(q) :
             i \in Nat /\ i # 0 /\ i + 1 \in DOMAIN q /\ Tail(q)[i] = q[i + 1]
    BY <1>0, MembersOfList
  <2>2. Statements(r) = Members(q) /\ Statements(r)' = Members(Tail(q))
    BY <1>2 DEF Statements, Members
  <2>3. s = Head(q)
    BY DEF Next1
  <2> QED BY <2>1, <2>2, <2>3
<1>4. \A x : Makes(r, x) => Makes(r, x)'
  BY <1>0 DEF Makes, Archive, Shaped
<1>5. Ids(tx'[r].ins) = Ids(tx[r].ins) \cup {s.arg.id}
  BY <1>2 DEF Ids
<1>6. \A i \in DOMAIN Tail(q) : Tail(q)[i].arg.id # s.arg.id
  BY <1>1, <1>3 DEF PlansInserts
<1>7. \A i, j \in DOMAIN Tail(q) : i # j => Tail(q)[i].arg.id # Tail(q)[j].arg.id
  BY <1>1, <1>3 DEF PlansInserts
<1>8. Statements(r)' = {Tail(q)[i] : i \in DOMAIN Tail(q)}
  BY <1>2 DEF Statements
<1> HIDE DEF s, q
<1>9. PlansInserts(r)'
  <2>1. \A t \in Statements(r)' : t.op = "insert" /\ Makes(r, t.arg)' /\ t.arg.id \notin Ids(tx'[r].ins)
    BY <1>1, <1>3, <1>4, <1>5, <1>6, <1>8 DEF PlansInserts
  <2> QED BY <1>2, <1>7, <2>1 DEF PlansInserts
<1>10. Problem \notin Ids(tx'[r].del)
  BY <1>1, <1>2, Parts DEF TransactionInv
<1>11. \A x \in tx'[r].ins : Makes(r, x)'
  BY <1>1, <1>2, <1>4, Parts DEF TransactionInv
<1>12. req[r].kind = "upload" =>
         \A id \in Archive(r) : id \in Ids(tx'[r].ins) \/ \E t \in Statements(r)' : t.arg.id = id
  BY <1>1, <1>3, <1>5, Parts DEF TransactionInv
<1>13. Archive(r)' = Archive(r) /\ step'[r] = "run" /\ req'[r] = req[r]
  BY <1>0, <1>1 DEF Archive
<1> QED BY <1>1, <1>9, <1>10, <1>11, <1>12, <1>13 DEF TransactionInv

(* Deleting goes on with test cases, or ends with the problem.              *)
LEMMA RemovalStep ==
  ASSUME FullInv, NEW r \in Requests, RunStatement(r), PlansRemovals(r),
         \/ \E id \in Next1(r).arg : DeleteEffect(r, id)
         \/ \E ids : ClearEffect(r, ids)
  PROVE  PlansRemovals(r)' /\ (Problem \in Ids(tx'[r].del) => Problem \in Ids(tx[r].del))
<1>0. tx[r].todo # <<>> /\ HarmlessList(tx[r].todo) /\ HarmlessList(Rest(r))
  BY StatementEffects
<1>1. Statements(r) = {Next1(r)} \cup Members(Rest(r))
  BY <1>0, Parts, MembersOfList DEF Next1, Rest
<1>2. ASSUME NEW ids, ids \subseteq TestIds, tx'[r].todo = Delete(ids) \o Rest(r)
      PROVE  PlansRemovals(r)'
  <2>1. HarmlessList(Delete(ids))
    <3>1. \A id \in ids : Removable(id)
      BY <1>2, RowShapes DEF Removable
    <3> QED BY <3>1, ListShort
  <2>2. Members(tx'[r].todo) = Members(Delete(ids)) \cup Members(Rest(r))
    BY <1>0, <1>2, <2>1, MembersOfConcat
  <2>3. \A t \in Members(Delete(ids)) : t.op = "delete" /\ t.arg = ids
    <3>1. Members(Delete(ids)) \subseteq {Statement("delete", ids)}
      BY MembersOfShort
    <3> QED BY <3>1 DEF Statement
  <2>4. Statements(r)' = Members(tx'[r].todo)
    BY DEF Statements, Members
  <2> QED BY <1>1, <1>2, <2>2, <2>3, <2>4 DEF PlansRemovals
<1>3. ASSUME NEW id \in Next1(r).arg, DeleteEffect(r, id)
      PROVE  PlansRemovals(r)' /\ (Problem \in Ids(tx'[r].del) => Problem \in Ids(tx[r].del))
  <2>1. Next1(r).arg \subseteq TestIds
    <3>1. Next1(r).op = "delete"
      BY <1>3 DEF DeleteEffect
    <3>2. Next1(r) # Clear(Problem, "test")
      BY <3>1 DEF Clear, Statement
    <3> QED BY <1>1, <3>2 DEF PlansRemovals
  <2>2. PlansRemovals(r)'
    BY <1>2, <1>3, <2>1 DEF DeleteEffect
  <2>3. \A x \in Victims(r, id) : x.id # Problem
    BY <1>3, <2>1, VictimsOf, RowShapes
  <2> QED BY <1>3, <2>2, <2>3 DEF DeleteEffect, Ids
<1>4. ASSUME NEW ids, ClearEffect(r, ids)
      PROVE  PlansRemovals(r)' /\ (Problem \in Ids(tx'[r].del) => Problem \in Ids(tx[r].del))
  <2>1. Next1(r) = Clear(Problem, "test") /\ Next1(r).arg[1] = "test"
    BY <1>1, <1>4 DEF PlansRemovals, ClearEffect, Clear, Statement
  <2>2. ids \subseteq TestIds
    <3>1. ids \subseteq {x.id : x \in {y \in View(r) : y.id[1] = "test"}}
      BY <1>4, <2>1 DEF ClearEffect, Ids
    <3> QED BY <3>1, ViewShaped, ShapedRows
  <2> QED BY <1>2, <1>4, <2>2 DEF ClearEffect
<1> QED BY <1>3, <1>4

LEMMA Pair ==
  ASSUME NEW a, NEW b
  PROVE  <<a>> \o <<b>> = <<a, b>>
<1> DEFINE p == <<a>> \o <<b>>  q == <<a, b>>
<1>1. /\ <<a>> \in Seq({a, b}) /\ <<b>> \in Seq({a, b}) /\ q \in Seq({a, b})
      /\ Len(q) = 2 /\ q[1] = a /\ q[2] = b
  OBVIOUS
<1>2. p \in Seq({a, b}) /\ Len(p) = 2 /\ p[1] = a /\ p[2] = b
  BY <1>1
<1>3. \A i \in 1 .. Len(p) : p[i] = q[i]
  BY <1>1, <1>2
<1> HIDE DEF p, q
<1>4. p = q
  BY <1>1, <1>2, <1>3, SeqEqual
<1> QED BY <1>4 DEF p, q

LEMMA DeletionStep ==
  ASSUME FullInv, NEW r \in Requests, RunStatement(r), PlansDeletion(r),
         req[r].kind = "delete_problem", NEW id \in Next1(r).arg, DeleteEffect(r, id)
  PROVE  PlansDeletion(r)' /\ (Problem \in Ids(tx'[r].del) => tx'[r].todo = <<>>)
<1>0. tx[r].todo # <<>> /\ loaded' = loaded
  BY StatementEffects
<1>1. Problem \notin Ids(tx[r].del)
  BY <1>0, Parts DEF TransactionInv
<1>2. PICK ids \in SUBSET loaded[r] : tx[r].todo = Delete(ids) \o Delete({Problem})
  BY <1>0 DEF PlansDeletion
<1> DEFINE last == Statement("delete", {Problem})  first == Statement("delete", ids)
<1>3. Delete({Problem}) = <<last>> /\ last.arg = {Problem} /\ first.arg = ids
  BY DEF Delete, ForEach, Statement
<1>4. CASE ids = {}
  <2>1. Delete(ids) = <<>>
    BY <1>4 DEF Delete, ForEach
  <2>2. tx[r].todo = <<last>>
    <3> HIDE DEF last
    <3>1. tx[r].todo = <<>> \o <<last>>
      BY <1>2, <1>3, <2>1
    <3> QED BY <3>1
  <2>3. Next1(r) = last /\ Rest(r) = <<>>
    <3> HIDE DEF last
    <3> QED BY <2>2 DEF Next1, Rest
  <2>4. Next1(r).arg \ {id} = {} /\ Delete({}) = <<>>
    <3>1. Next1(r).arg = {Problem}
      BY <1>3, <2>3
    <3> QED BY <3>1 DEF Delete, ForEach
  <2>5. tx'[r].todo = <<>>
    <3>1. tx'[r].todo = <<>> \o <<>>
      BY <2>3, <2>4 DEF DeleteEffect
    <3> QED BY <3>1
  <2> QED BY <2>5 DEF PlansDeletion
<1>5. CASE ids # {}
  <2>1. Delete(ids) = <<first>>
    BY <1>5 DEF Delete, ForEach
  <2>2. tx[r].todo = <<first, last>>
    <3> HIDE DEF first, last
    <3>1. tx[r].todo = <<first>> \o <<last>>
      BY <1>2, <1>3, <2>1
    <3> QED BY <3>1, Pair
  <2>3. Next1(r) = first /\ Rest(r) = <<last>>
    <3> HIDE DEF first, last
    <3> QED BY <2>2 DEF Next1, Rest
  <2>4. Next1(r).arg = ids /\ Rest(r) = Delete({Problem})
    <3> HIDE DEF first, last
    <3> QED BY <1>3, <2>3
  <2>5. tx'[r].todo = Delete(ids \ {id}) \o Delete({Problem}) /\ id \in ids
    BY <2>4 DEF DeleteEffect
  <2>6. ids \ {id} \in SUBSET loaded'[r]
    BY <1>0
  <2>7. PlansDeletion(r)'
    BY <2>5, <2>6 DEF PlansDeletion
  <2>8. id \in TestIds
    BY <2>5 DEF FullInv, MixtureInv, MixturesAreExplained, TypeOK
  <2>9. \A x \in Victims(r, id) : x.id # Problem
    BY <2>8, VictimsOf, RowShapes
  <2>10. Problem \notin Ids(tx'[r].del)
    BY <1>1, <2>9 DEF DeleteEffect, Ids
  <2> QED BY <2>7, <2>10
<1> QED BY <1>4, <1>5

LEMMA TransactionFrame ==
  ASSUME NEW o, TransactionInv(o), tx'[o] = tx[o], req'[o] = req[o], step'[o] = step[o],
         loaded'[o] = loaded[o]
  PROVE  TransactionInv(o)'
<1>1. Statements(o)' = Statements(o) /\ Archive(o)' = Archive(o)
  BY DEF Statements, Archive
<1>2. \A x : Makes(o, x)' <=> Makes(o, x)
  BY <1>1 DEF Makes, Shaped
<1>3. /\ PlansInserts(o)' <=> PlansInserts(o)
      /\ PlansRemovals(o)' <=> PlansRemovals(o)
      /\ PlansDeletion(o)' <=> PlansDeletion(o)
  BY <1>1, <1>2 DEF PlansInserts, PlansRemovals, PlansDeletion
<1> QED BY <1>1, <1>2, <1>3 DEF TransactionInv

LEMMA TransactionStep ==
  ASSUME FullInv, NEW r \in Requests, StepOf(r), NEW o \in Requests
  PROVE  TransactionInv(o)'
<1>1. CASE o \in Others(r)
  BY <1>1, OthersStandStill, Parts, TransactionFrame DEF Others, StandsStill
<1>2. CASE o = r
  <2>0. TransactionInv(r) /\ RequestInv(r)
    BY Parts
  <2>1. CASE Gives(r)
    BY <1>2, <2>1, GivesStep
  <2>2. CASE Reads(r)
    <3>1. tx' = tx /\ req' = req /\ step'[r] # "run" /\ tx[r].todo = <<>> /\ tx[r].ins = {}
      BY <2>0, <2>2, ReadEffects DEF ReadEffect, TransactionInv
    <3>2. tx[r].del # {} => step[r] = "clear" /\ step'[r] = "put"
      BY <2>0, <2>2, ReadEffects DEF ReadEffect, TransactionInv
    <3>3. Problem \notin Ids(tx[r].del)
      <4>1. CASE tx[r].del = {}
        BY <4>1 DEF Ids
      <4>2. CASE step[r] = "clear"
        BY <2>0, <4>2 DEF TransactionInv, RequestInv
      <4> QED BY <3>2, <4>1, <4>2
    <3>4. Statements(r)' = {}
      BY <3>1 DEF Statements
    <3>5. step'[r] # "clear" /\ step'[r] # "run"
      BY <2>2, ReadEffects DEF ReadEffect
    <3> QED BY <1>2, <3>1, <3>2, <3>3, <3>4, <3>5 DEF TransactionInv
  <2>3. CASE Refuses(r)
    BY <1>2, <2>3, RefuseEffects, EmptyTransaction DEF RefuseEffect, NoTransaction
  <2>4. CASE PutFile(r)
    <3>1. UNCHANGED <<db, tx, req, step, loaded, outcome, overlapped>>
      BY <2>4, PutEffects
    <3> QED BY <1>2, <2>0, <3>1, TransactionFrame
  <2>5. CASE \E q \in AnyRequest : Begin(r, q)
    <3>1. BeginEffect(r)
      BY <2>5, BeginEffects
    <3> QED BY <1>2, <2>0, <3>1, EmptyTransaction DEF BeginEffect, TransactionInv
  <2>6. CASE RunStatement(r)
    <3>1. UNCHANGED <<req, step, loaded>> /\ tx[r].todo # <<>>
      BY <2>6, StatementEffects
    <3>2. step[r] \in {"clear", "run"}
      BY <2>0, <3>1 DEF TransactionInv
    <3>3. CASE InsertEffect(r)
      BY <1>2, <2>6, <3>3, InsertStep
    <3>4. CASE ~InsertEffect(r)
      <4>1. \/ \E id \in Next1(r).arg : DeleteEffect(r, id)
            \/ \E ids : ClearEffect(r, ids)
        BY <2>6, <3>4, StatementEffects
      <4>2. Next1(r).op # "insert" /\ Next1(r) \in Statements(r)
        BY <3>1, <4>1, Parts DEF DeleteEffect, ClearEffect
      <4>3. ~PlansInserts(r)
        BY <4>2 DEF PlansInserts
      <4>4. \A x \in tx'[r].ins : x \in tx[r].ins
        BY <4>1 DEF DeleteEffect, ClearEffect
      <4>5. \A x : Makes(r, x) => Makes(r, x)'
        BY <3>1 DEF Makes, Archive, Shaped
      <4>6. CASE PlansRemovals(r) /\ (step[r] = "clear" \/ req[r].kind = "remove")
        <5>1. PlansRemovals(r)' /\ (Problem \in Ids(tx'[r].del) => Problem \in Ids(tx[r].del))
          BY <2>6, <4>1, <4>6, RemovalStep
        <5>2. Problem \notin Ids(tx'[r].del)
          BY <2>0, <3>1, <5>1 DEF TransactionInv
        <5>3. step[r] = "clear" => tx'[r].ins = {}
          BY <2>0, <4>4 DEF TransactionInv
        <5>4. step[r] = "clear" => req[r].kind = "upload"
          BY <2>0 DEF RequestInv
        <5> QED BY <1>2, <2>0, <3>1, <3>2, <4>4, <4>5, <4>6, <5>1, <5>2, <5>3, <5>4
                DEF TransactionInv
      <4>7. CASE PlansDeletion(r) /\ step[r] = "run" /\ req[r].kind = "delete_problem"
        <5>1. PICK id \in Next1(r).arg : DeleteEffect(r, id)
          <6>1. ~ \E ids : ClearEffect(r, ids)
            <7> SUFFICES ASSUME NEW ids \in SUBSET loaded[r],
                                tx[r].todo = Delete(ids) \o Delete({Problem}),
                                Next1(r).op = "clear"
                         PROVE  FALSE
              BY <3>1, <4>7 DEF PlansDeletion, ClearEffect
            <7>1. \A id \in ids \cup {Problem} : Removable(id)
              BY DEF FullInv, KeptInv, RequestsAreHarmless, Removable, Problem
            <7>2. Members(tx[r].todo) = Members(Delete(ids)) \cup Members(Delete({Problem}))
              BY <7>1, ListShort, MembersOfConcat
            <7>3. \A set : Members(Delete(set)) \subseteq {Statement("delete", set)}
              BY MembersOfShort
            <7>4. Next1(r) \in Members(Delete(ids)) \cup Members(Delete({Problem}))
              BY <4>2, <7>2, Parts
            <7>5. \E set : Next1(r) = Statement("delete", set)
              BY <7>3, <7>4
            <7> QED BY <7>5 DEF Statement
          <6> QED BY <4>1, <6>1
        <5>2. PlansDeletion(r)' /\ (Problem \in Ids(tx'[r].del) => tx'[r].todo = <<>>)
          BY <2>6, <4>7, <5>1, DeletionStep
        <5> QED BY <1>2, <2>0, <3>1, <4>4, <4>5, <4>7, <5>2 DEF TransactionInv
      <4>8. \/ PlansRemovals(r) /\ (step[r] = "clear" \/ req[r].kind = "remove")
            \/ PlansDeletion(r) /\ step[r] = "run" /\ req[r].kind = "delete_problem"
        BY <2>0, <3>2, <4>3 DEF TransactionInv
      <4> QED BY <4>6, <4>7, <4>8
    <3> QED BY <3>3, <3>4
  <2>7. CASE Finish(r)
    BY <1>2, <2>7, FinishEffects, EmptyTransaction DEF FinishEffect, NoTransaction
  <2> QED BY <2>1, <2>2, <2>3, <2>4, <2>5, <2>6, <2>7, KindsOfSteps
<1> QED BY <1>1, <1>2 DEF Others

-----------------------------------------------------------------------------
(* Overlapping requests                                                    *)

LEMMA OverlapsStep ==
  ASSUME FullInv, NEW r \in Requests, StepOf(r), NEW p \in Active', NEW o \in Active', p # o
  PROVE  p \in overlapped'
<1>1. ASSUME NEW x \in Active', x # r PROVE x \in Active
  BY <1>1, OthersStandStill DEF Active, StandsStill, Others
<1>2. CASE r \in Active
  <2>1. p \in Active /\ o \in Active
    BY <1>1, <1>2
  <2>2. p \in overlapped
    BY <2>1 DEF FullInv, MixtureInv, OverlapInv
  <2> QED BY <2>2, StepsProgress DEF Progress
<1>3. CASE \E q \in AnyRequest : Begin(r, q)
  <2>1. overlapped' = IF Active = {} THEN overlapped ELSE overlapped \cup Active \cup {r}
    BY <1>3, BeginEffects DEF BeginEffect
  <2>2. p \in Active \/ o \in Active
    BY <1>1
  <2>3. p \in Active \cup {r}
    BY <1>1
  <2> QED BY <2>1, <2>2, <2>3
<1> QED BY <1>2, <1>3, ActorsAreNotDone

LEMMA UndisturbedOthers ==
  ASSUME FullInv, NEW r \in Requests, StepOf(r), NEW o \in Others(r), ~Disturbed(o)'
  PROVE  Undisturbed(o)'
<1>1. ~Disturbed(o) /\ Undisturbed(o)
  BY StepsProgress, Parts DEF Progress, Others
<1>2. /\ tx'[o] = tx[o] /\ step'[o] = step[o] /\ req'[o] = req[o]
      /\ Statements(o)' = Statements(o) /\ Archive(o)' = Archive(o)
  BY OthersStandStill DEF StandsStill, Statements, Archive
<1>3. CASE o \notin Active
  BY <1>2, <1>3 DEF Active, Others, Undisturbed
<1>4. CASE o \in Active
  <2>1. ASSUME NEW x \in db', x.id[1] = "test" PROVE x \in db
    <3>1. x \in db \/ (r \in Active /\ req[r].kind \in {"add", "upload"})
      BY <2>1, TestsAppear
    <3> QED BY <1>1, <1>4, <3>1, AddersDisturb
  <2>2. View(o)' = (db' \ tx[o].del) \cup tx[o].ins
    BY <1>2 DEF View
  <2>3. Tests(View(o))' \subseteq Tests(View(o))
    BY <2>1, <2>2 DEF View, Tests, IdsOf, Ids
  <2>4. Indexes(db)' \subseteq Indexes(db)
    BY <2>1 DEF Indexes, Tests, IdsOf, Ids
  <2>5. \A t : WillDelete(o, t) => WillDelete(o, t)'
    BY <1>2 DEF WillDelete
  <2> QED BY <1>1, <1>2, <2>3, <2>4, <2>5 DEF Undisturbed
<1> QED BY <1>3, <1>4

(* What r itself does to what it sees.                                     *)
LEMMA UndisturbedGives ==
  ASSUME FullInv, NEW r \in Requests, Gives(r), Undisturbed(r)
  PROVE  Undisturbed(r)'
<1>0. RequestInv(r) /\ TransactionInv(r)
  BY Parts
<1>1. CASE AddIndex(r)
  <2> DEFINE next == IF Indexes(View(r)) = {} THEN 0 ELSE Max(Indexes(View(r))) + 1
             row  == TestRow(r, next)
  <2>1. GiveEffect(r, <<Insert(row)>>, "run") /\ step[r] = "index"
    BY <1>1, RunEffects DEF AddIndex
  <2>2. /\ req[r].kind = "add" /\ req'[r] = req[r] /\ db' = db /\ step'[r] = "run"
        /\ tx[r].ins = {} /\ tx[r].del = {} /\ tx'[r].ins = {}
        /\ tx'[r].todo = <<Insert(row)>>
    BY <1>0, <2>1 DEF RequestInv, TransactionInv, GiveEffect
  <2>3. View(r) = db
    BY <2>2 DEF View
  <2>4. next \notin Indexes(db)
    BY <2>3, NextIndex
  <2>5. row.id[3] = next
    BY RowShapes
  <2>6. Indexes(db)' = Indexes(db)
    BY <2>2 DEF Indexes, Tests, IdsOf, Ids
  <2> HIDE DEF next, row
  <2>7. Statements(r)' = Members(<<Insert(row)>>)
    BY <2>2 DEF Statements, Members
  <2>8. \A s \in Statements(r)' : s.arg = row
    BY <2>7, MembersOfShort DEF Insert, Statement
  <2> QED BY <2>2, <2>4, <2>5, <2>6, <2>8 DEF Undisturbed
<1>2. CASE Upload(r)
  <2>1. GiveEffect(r, <<Clear(Problem, "test")>>, "clear")
    BY <1>2, RunEffects DEF Upload
  <2>2. Statements(r)' = Members(<<Clear(Problem, "test")>>)
    BY <2>1 DEF GiveEffect, Statements, Members
  <2>3. Clear(Problem, "test") \in Statements(r)'
    BY <2>2, MembersOfShort
  <2> QED BY <2>1, <2>3 DEF GiveEffect, Undisturbed, WillDelete
<1>3. CASE InsertArchive(r)
  <2> DEFINE q == [i \in 1 .. req[r].pairs |-> Insert(TestRow(r, i - 1))]
  <2>1. GiveEffect(r, q, "run") /\ step[r] = "put"
    BY <1>3, RunEffects DEF InsertArchive
  <2> HIDE DEF q
  <2>2. /\ step'[r] = "run" /\ req'[r] = req[r] /\ req[r].kind = "upload"
        /\ db' = db /\ tx'[r].ins = tx[r].ins /\ tx'[r].del = tx[r].del
    BY <1>0, <2>1 DEF GiveEffect, RequestInv
  <2>3. View(r)' = View(r)
    BY <2>2 DEF View
  <2>4. Tests(View(r))' = {}
    BY <2>1, <2>3 DEF Undisturbed, Tests, IdsOf, Ids
  <2> QED BY <2>2, <2>4 DEF Undisturbed
<1>4. CASE Remove(r) \/ DeleteProblem(r) \/ Submit(r) \/ JudgeRecord(r)
  <2>1. \E statements : GiveEffect(r, statements, "run")
    BY <1>4, RunEffects DEF Remove, DeleteProblem, Submit, JudgeRecord
  <2>2. req[r].kind \notin {"add", "upload"}
    BY <1>0, <1>4 DEF Remove, DeleteProblem, Submit, JudgeRecord, At, RequestInv
  <2> QED BY <2>1, <2>2 DEF GiveEffect, Undisturbed
<1> QED BY <1>1, <1>2, <1>3, <1>4 DEF Gives

LEMMA UndisturbedStatement ==
  ASSUME FullInv, NEW r \in Requests, RunStatement(r), Undisturbed(r)
  PROVE  Undisturbed(r)'
<1>0. /\ RequestInv(r) /\ TransactionInv(r) /\ step'[r] = step[r] /\ req'[r] = req[r]
      /\ db' = db /\ tx[r].todo # <<>> /\ HarmlessList(tx[r].todo) /\ HarmlessList(Rest(r))
      /\ Archive(r)' = Archive(r)
  BY Parts, StatementEffects DEF Archive
<1>1. step[r] \in {"clear", "run"}
  BY <1>0 DEF TransactionInv
<1>2. View(r)' = (db \ tx'[r].del) \cup tx'[r].ins
  BY <1>0 DEF View
<1>3. Statements(r) = {Next1(r)} \cup Members(Rest(r)) /\ Statements(r)' = Members(tx'[r].todo)
  BY <1>0, Parts, MembersOfList DEF Next1, Rest, Statements, Members
<1>4. CASE InsertEffect(r)
  <2> DEFINE row == Next1(r).arg
  <2>1. Makes(r, row) /\ step[r] = "run"
    BY <1>0, <1>4, NextInsert DEF InsertEffect
  <2>2. /\ tx'[r].ins = tx[r].ins \cup {row} /\ tx'[r].del = tx[r].del /\ tx'[r].todo = Rest(r)
        /\ Next1(r) \in Statements(r)
    BY <1>3, <1>4 DEF InsertEffect
  <2>3. View(r)' = View(r) \cup {row}
    BY <1>2, <2>2 DEF View
  <2>4. Tests(View(r))' \subseteq Tests(View(r)) \cup {row.id}
    BY <2>3 DEF Tests, IdsOf, Ids
  <2>5. req[r].kind = "upload" => row.id \in Archive(r)
    BY <2>1 DEF Makes
  <2>6. Statements(r)' \subseteq Statements(r)
    BY <1>3, <2>2
  <2>7. Indexes(db)' = Indexes(db)
    BY <1>0 DEF Indexes, Tests, IdsOf, Ids
  <2> HIDE DEF row
  <2>8. req[r].kind = "upload" => Tests(View(r))' \subseteq Archive(r)
    BY <2>1, <2>4, <2>5 DEF Undisturbed
  <2>9. req[r].kind = "add" =>
          /\ \A x \in tx'[r].ins : x.id[3] \notin Indexes(db)
          /\ \A s \in Statements(r)' : s.arg.id[3] \notin Indexes(db)
    BY <2>1, <2>2, <2>6 DEF Undisturbed, row
  <2> QED BY <1>0, <2>1, <2>7, <2>8, <2>9 DEF Undisturbed
<1>5. ASSUME NEW id \in Next1(r).arg, DeleteEffect(r, id) PROVE Undisturbed(r)'
  <2>1. step[r] = "run" => req[r].kind \notin {"add", "upload"}
    <3>1. ~PlansInserts(r)
      BY <1>3, <1>5 DEF DeleteEffect, PlansInserts
    <3> QED BY <1>0, <3>1 DEF TransactionInv
  <2>2. CASE step[r] = "clear"
    <3> DEFINE arg == Next1(r).arg  out == Victims(r, id)
    <3>1. PlansRemovals(r) /\ Next1(r) \in Statements(r) /\ Next1(r) # Clear(Problem, "test")
      BY <1>0, <1>3, <1>5, <2>2 DEF TransactionInv, DeleteEffect, Clear, Statement
    <3>2. arg \subseteq TestIds
      BY <3>1 DEF PlansRemovals
    <3>3. Statements(r)' = Members(Delete(arg \ {id})) \cup Members(Rest(r))
      <4>1. \A i \in arg \ {id} : Removable(i)
        BY <3>2, RowShapes DEF Removable
      <4>2. HarmlessList(Delete(arg \ {id}))
        BY <4>1, ListShort
      <4> QED BY <1>0, <1>3, <1>5, <4>2, MembersOfConcat DEF DeleteEffect
    <3>4. View(r)' \subseteq View(r) \ out
      BY <1>2, <1>5 DEF DeleteEffect, View
    <3>5. \A x \in View(r)' : x \in View(r) /\ x.id # id
      BY <3>4, VictimsOf
    <3>6. Tests(View(r))' \subseteq Tests(View(r)) \ {id}
      BY <3>5 DEF Tests, IdsOf, Ids
    <3>7. ASSUME NEW t \in Tests(View(r))' PROVE WillDelete(r, t)'
      <4>1. t # id /\ t \in Tests(View(r))
        BY <3>6
      <4>2. WillDelete(r, t)
        BY <2>2, <4>1 DEF Undisturbed
      <4>3. PICK s \in Statements(r) : s = Clear(Problem, "test") \/ (s.op = "delete" /\ t \in s.arg)
        BY <4>2 DEF WillDelete
      <4>4. CASE s \in Members(Rest(r))
        BY <3>3, <4>3, <4>4 DEF WillDelete
      <4>5. CASE s = Next1(r)
        <5>1. t \in arg \ {id}
          BY <3>1, <4>1, <4>3, <4>5
        <5>2. Statement("delete", arg \ {id}) \in Members(Delete(arg \ {id}))
          BY <5>1, MembersOfShort
        <5> DEFINE left == Statement("delete", arg \ {id})
        <5>3. left.op = "delete" /\ t \in left.arg /\ left \in Statements(r)'
          BY <3>3, <5>1, <5>2 DEF Statement
        <5> HIDE DEF left
        <5> QED BY <5>3 DEF WillDelete
      <4> QED BY <1>3, <4>3, <4>4, <4>5
    <3> QED BY <1>0, <2>2, <3>7 DEF Undisturbed
  <2> QED BY <1>0, <1>1, <2>1, <2>2 DEF Undisturbed
<1>6. ASSUME NEW ids, ClearEffect(r, ids) PROVE Undisturbed(r)'
  <2>1. step[r] = "run" => req[r].kind \notin {"add", "upload"}
    <3>1. ~PlansInserts(r)
      BY <1>3, <1>6 DEF ClearEffect, PlansInserts
    <3> QED BY <1>0, <3>1 DEF TransactionInv
  <2>2. CASE step[r] = "clear"
    <3>1. Next1(r) = Clear(Problem, "test")
      BY <1>0, <1>3, <1>6, <2>2 DEF TransactionInv, PlansRemovals, ClearEffect
    <3>2. Next1(r).arg[1] = "test" /\ Next1(r).arg[2] = Problem
      BY <3>1 DEF Clear, Statement
    <3>3. ids = {x.id : x \in {y \in View(r) : y.id[1] = "test" /\ RefersTo(y, Problem)}}
      BY <1>6, <3>2 DEF ClearEffect, Ids
    <3>4. View(r)' = View(r)
      BY <1>2, <1>6 DEF ClearEffect, View
    <3>5. \A x \in View(r) : x.id[1] = "test" => x.id \in ids
      <4>1. \A x \in View(r) : x.id[1] = "test" => RefersTo(x, Problem)
        BY ViewShaped, ShapedRows DEF RefersTo
      <4> QED BY <3>3, <4>1
    <3>6. Tests(View(r))' \subseteq ids
      BY <3>4, <3>5 DEF Tests, IdsOf, Ids
    <3>7. ids \subseteq TestIds
      BY <3>3, ViewShaped, ShapedRows
    <3>8. Statements(r)' = Members(Delete(ids)) \cup Members(Rest(r))
      <4>1. \A i \in ids : Removable(i)
        BY <3>7, RowShapes DEF Removable
      <4>2. HarmlessList(Delete(ids))
        BY <4>1, ListShort
      <4> QED BY <1>0, <1>3, <1>6, <4>2, MembersOfConcat DEF ClearEffect
    <3>9. ASSUME NEW t \in ids PROVE WillDelete(r, t)'
      <4> DEFINE left == Statement("delete", ids)
      <4>1. left \in Members(Delete(ids))
        BY MembersOfShort
      <4>2. left.op = "delete" /\ left.arg = ids /\ left \in Statements(r)'
        BY <3>8, <4>1 DEF Statement
      <4> HIDE DEF left
      <4> QED BY <4>2 DEF WillDelete
    <3> QED BY <1>0, <2>2, <3>6, <3>9 DEF Undisturbed
  <2> QED BY <1>0, <1>1, <2>1, <2>2 DEF Undisturbed
<1> QED BY <1>4, <1>5, <1>6, StatementEffects

LEMMA OverlapStep ==
  ASSUME FullInv, NEW r \in Requests, StepOf(r)
  PROVE  OverlapInv'
<1>1. \A p, o \in Active' : p # o => p \in overlapped'
  BY OverlapsStep
<1>2. ASSUME ~Disturbed(r)' PROVE Undisturbed(r)'
  <2>1. Undisturbed(r) /\ TransactionInv(r) /\ RequestInv(r)
    BY <1>2, StepsProgress, Parts DEF Progress
  <2>2. CASE Gives(r)
    BY <2>1, <2>2, UndisturbedGives
  <2>3. CASE RunStatement(r)
    BY <2>1, <2>3, UndisturbedStatement
  <2>4. CASE Reads(r)
    <3>1. db' = db /\ tx' = tx
      BY <2>4, ReadEffects DEF ReadEffect
    <3>2. CASE step[r] = "clear" /\ tx[r].todo = <<>> /\ step'[r] = "put"
      <4>1. Statements(r) = {}
        BY <3>2 DEF Statements
      <4>2. Tests(View(r)) = {}
        BY <2>1, <3>2, <4>1 DEF Undisturbed, WillDelete
      <4>3. Tests(View(r))' = {}
        BY <3>1, <4>2 DEF Tests, IdsOf, Ids, View
      <4> QED BY <3>2, <4>3 DEF Undisturbed
    <3>3. CASE step'[r] \in {"index", "results", "related", "execute"}
      BY <3>3 DEF Undisturbed
    <3> QED BY <2>4, <3>2, <3>3, ReadEffects DEF ReadEffect
  <2>5. CASE PutFile(r)
    <3>1. /\ db' = db /\ tx' = tx /\ step' = step /\ step[r] = "put"
      BY <2>5, PutEffects
    <3>2. Tests(View(r))' = Tests(View(r))
      BY <3>1 DEF View, Tests, IdsOf, Ids
    <3> QED BY <2>1, <3>1, <3>2 DEF Undisturbed
  <2>6. CASE Refuses(r)
    BY <2>6, RefuseEffects DEF RefuseEffect, Undisturbed
  <2>7. CASE \E q \in AnyRequest : Begin(r, q)
    BY <2>7, BeginEffects DEF BeginEffect, Undisturbed
  <2>8. CASE Finish(r)
    BY <2>8, FinishEffects DEF FinishEffect, Undisturbed
  <2> QED BY <2>2, <2>3, <2>4, <2>5, <2>6, <2>7, <2>8, KindsOfSteps
<1>3. \A o \in Requests : ~Disturbed(o)' => Undisturbed(o)'
  BY <1>2, UndisturbedOthers DEF Others
<1> QED BY <1>1, <1>3 DEF OverlapInv

-----------------------------------------------------------------------------
(* Files                                                                   *)

(* A step stores one file or none.                                         *)
LEMMA FilesChange ==
  ASSUME FullInv, NEW r \in Requests, StepOf(r)
  PROVE  s3' = s3 \/ PutFile(r)
<1>1. CASE Gives(r)
  BY <1>1, GiveEffects DEF GiveEffect
<1> QED BY <1>1, KindsOfSteps, BeginEffects, ReadEffects, RefuseEffects,
           FinishEffects, StatementEffects
           DEF BeginEffect, ReadEffect, RefuseEffect, FinishEffect

LEMMA PutsGrow ==
  ASSUME FullInv, NEW r \in Requests, StepOf(r), NEW o \in Requests
  PROVE  /\ put[o] \in Nat /\ put[o] <= 2 * MaxPairs /\ put'[o] \in Nat
         /\ put'[o] = put[o] \/ (PutFile(r) /\ o = r /\ put'[o] = put[o] + 1)
<1>1. put[o] \in 0 .. 2 * MaxPairs
  BY DEF FullInv, MixtureInv, MixturesAreExplained, TypeOK
<1>2. put'[o] = put[o] \/ (PutFile(r) /\ o = r /\ put'[o] = put[o] + 1)
  <2>1. CASE Gives(r)
    BY <2>1, GiveEffects DEF GiveEffect
  <2>2. CASE o = r
    BY <2>1, <2>2, KindsOfSteps, BeginEffects, ReadEffects, RefuseEffects, PutEffects,
       FinishEffects, StatementEffects
       DEF BeginEffect, ReadEffect, RefuseEffect, FinishEffect
  <2> QED BY <2>2, OthersStandStill DEF Others, StandsStill
<1> QED BY <1>1, <1>2, MaxPairsAssumption

(* Where the text of a committed test case is does not change; that of a new *)
(* one is in S3 if it is from an archive.                                  *)
LEMMA TextStays ==
  ASSUME FullInv, NEW r \in Requests, StepOf(r), NEW t \in Tests(db)
  PROVE  TextIn(t)' = TextIn(t)
<1>1. PICK x \in db : x.id = t /\ x.id[1] = "test"
  BY DEF Tests, IdsOf, Ids
<1>2. x # ProblemRow
  BY <1>1, RowShapes
<1>3. t[2] \in Earlier \/ (t[2] \in Requests /\ step[t[2]] = "done")
  BY <1>1, <1>2 DEF FullInv, MixtureInv, RowsInv
<1>4. t[2] \in {"seed", "archive"} \/ req'[t[2]] = req[t[2]]
  BY <1>3, StepsProgress DEF Progress, StandsStill, Earlier
<1> QED BY <1>4 DEF TextIn

LEMMA TextOfNew ==
  ASSUME FullInv, NEW r \in Requests, StepOf(r), NEW t \in Tests(db') \ Tests(db)
  PROVE  /\ FinishEffect(r) /\ t[2] = r /\ t \in TestIds
         /\ TextIn(t)' = "s3" => req[r].kind = "upload" /\ t \in Archive(r)
         /\ req[r].kind \in {"add", "upload"}
         /\ \E x \in tx[r].ins : x.id = t
<1>1. PICK x \in db' : x.id = t /\ x.id[1] = "test"
  BY DEF Tests, IdsOf, Ids
<1>2. x \notin db
  BY <1>1 DEF Tests, IdsOf, Ids
<1>3. /\ FinishEffect(r) /\ req[r].kind \in {"add", "upload"} /\ t \in TestIds /\ t[2] = r
      /\ x \in tx[r].ins /\ Makes(r, x)
  BY <1>1, <1>2, TestsAppear
<1>4. r \notin {"seed", "archive"}
  BY NamesAreFresh DEF Earlier
<1>5. TextIn(t)' = IF req[r].kind = "upload" THEN "s3" ELSE "content"
  BY <1>3, <1>4 DEF TextIn, FinishEffect
<1>6. req[r].kind = "upload" => t \in Archive(r)
  BY <1>1, <1>3 DEF Makes
<1> QED BY <1>1, <1>3, <1>5, <1>6

LEMMA ArchiveIndexes ==
  ASSUME FullInv, NEW r \in Requests, req[r].kind = "upload", NEW t \in Archive(r)
  PROVE  t[3] \in Nat /\ t[3] + 1 <= req[r].pairs /\ t[3] < MaxPairs /\ t = Test(r, t[3])
<1>1. PICK i \in 1 .. req[r].pairs : t = Test(r, i - 1)
  BY DEF Archive
<1>2. step[r] # "idle"
  BY Parts DEF RequestInv
<1>3. req[r].pairs \in 1 .. MaxPairs
  BY <1>2, Parts DEF RequestInv
<1>4. t[3] = i - 1
  BY <1>1, RowShapes
<1> QED BY <1>1, <1>3, <1>4, MaxPairsAssumption

LEMMA FilesStep ==
  ASSUME FullInv, NEW r \in Requests, StepOf(r)
  PROVE  FilesInv'
<1>1. ASSUME NEW f \in Files, s3'[f] # NoFile
      PROVE  /\ s3'[f] \in TestIds /\ s3'[f] = Test(s3'[f][2], f[1])
             /\ s3'[f][2] \in Requests => put'[s3'[f][2]] > 0
  <2>1. CASE s3'[f] = s3[f]
    <3>1. /\ s3[f] \in TestIds /\ s3[f] = Test(s3[f][2], f[1])
          /\ s3[f][2] \in Requests => put[s3[f][2]] > 0
      BY <1>1, <2>1 DEF FullInv, MixtureInv, FilesInv
    <3>2. \A o \in Requests : put[o] > 0 => put'[o] > 0
      BY PutsGrow
    <3> QED BY <2>1, <3>1, <3>2
  <2>2. CASE PutFile(r) /\ f = File(put'[r])
    <3>1. s3'[f] = Test(r, f[1]) /\ Test(r, f[1]) \in TestIds /\ put'[r] > 0
      BY <2>2, StoredFiles
    <3> QED BY <3>1, RowShapes
  <2> QED BY <2>1, <2>2, FilesChange, StoredFiles
<1>2. ASSUME NEW t \in Tests(db'), TextIn(t)' = "s3" PROVE t[3] < MaxPairs
  <2>1. CASE t \in Tests(db)
    BY <1>2, <2>1, TextStays DEF FullInv, MixtureInv, FilesInv
  <2>2. CASE t \notin Tests(db)
    BY <1>2, <2>2, TextOfNew, ArchiveIndexes
  <2> QED BY <2>1, <2>2
<1>3. Tests(db)' = Tests(db')
  BY DEF Tests, IdsOf, Ids
<1> QED BY <1>1, <1>2, <1>3 DEF FilesInv

LEMMA HeldFilesStep ==
  ASSUME FullInv, NEW r \in Requests, StepOf(r), NEW o \in Requests
  PROVE  HeldFiles(o)'
<1> SUFFICES ASSUME step'[o] \in {"put", "run"}, NEW k \in 1 .. put'[o]
             PROVE  FileStands(o, File(k))'
  BY DEF HeldFiles
<1>0. put[o] \in Nat /\ put'[o] \in Nat /\ put[o] <= 2 * MaxPairs
  BY PutsGrow
<1>1. CASE PutFile(r) /\ o = r /\ k = put'[r]
  BY <1>1, StoredFiles DEF FileStands
<1>2. CASE ~(PutFile(r) /\ o = r /\ k = put'[r])
  <2>1. k \in 1 .. put[o] /\ File(k) \in Files /\ put[o] > 0
    <3>1. k <= put[o]
      BY <1>0, <1>2, PutsGrow
    <3>2. k \in Nat \ {0} /\ k <= 2 * MaxPairs
      BY <1>0, <3>1, MaxPairsAssumption
    <3>3. File(k) \in Files
      BY <3>2, FilesOfArchives
    <3>4. k \in 1 .. put[o] /\ put[o] > 0
      BY <1>0, <3>1, <3>2
    <3> QED BY <3>3, <3>4
  <2>2. req[o].kind = "upload" /\ step[o] \in {"put", "run"}
    <3>1. req[o].kind = "upload" /\ step[o] \in {"put", "run", "done"}
      BY <2>1, Parts DEF RequestInv
    <3>2. step[o] # "done"
      BY StepsProgress DEF Progress, StandsStill
    <3> QED BY <3>1, <3>2
  <2>3. FileStands(o, File(k))
    BY <2>1, <2>2, Parts DEF HeldFiles
  <2>4. CASE s3'[File(k)] = s3[File(k)]
    BY <2>3, <2>4, StepsProgress DEF FileStands, Progress
  <2>5. CASE PutFile(r) /\ File(k) = File(put'[r])
    <3>1. s3'[File(k)] = Test(r, File(k)[1])
      BY <2>5, StoredFiles
    <3>2. CASE o = r
      BY <3>1, <3>2 DEF FileStands
    <3>3. CASE o # r
      <4>1. r \in Active /\ o \in Active
        BY <2>2, <2>5, PutEffects DEF Active
      <4>2. Disturbed(r)
        BY <2>2, <3>3, <4>1, AddersDisturb DEF Others
      <4> QED BY <3>1, <4>2, StepsProgress DEF FileStands, Progress
    <3> QED BY <3>2, <3>3
  <2> QED BY <2>1, <2>4, <2>5, FilesChange, StoredFiles
<1> QED BY <1>1, <1>2

-----------------------------------------------------------------------------
(* The invariant                                                           *)

(* A new test case shares its index only with one it was made beside.       *)
LEMMA NewIndexes ==
  ASSUME FullInv, NEW r \in Requests, StepOf(r), NEW x \in Tests(db') \ Tests(db),
         NEW y \in Tests(db'), x # y, x[3] = y[3]
  PROVE  x[2] = r /\ Disturbed(r)
<1>1. /\ FinishEffect(r) /\ x[2] = r /\ x \in TestIds /\ req[r].kind \in {"add", "upload"}
      /\ \E row \in tx[r].ins : row.id = x
  BY TextOfNew
<1>2. x = Test(r, x[3])
  BY <1>1, RowShapes
<1>3. SUFFICES ASSUME ~Disturbed(r) PROVE FALSE
  BY <1>1
<1>4. Undisturbed(r) /\ step[r] = "run" /\ db' = View(r)
  BY <1>1, <1>3, Parts DEF FinishEffect
<1>5. CASE req[r].kind = "upload"
  <2>1. x \in Archive(r) /\ y \in Archive(r)
    BY <1>4, <1>5 DEF Undisturbed
  <2>2. x = Test(r, x[3]) /\ y = Test(r, y[3])
    BY <1>5, <2>1, ArchiveIndexes
  <2> QED BY <2>2
<1>6. CASE req[r].kind = "add"
  <2>1. x[3] \notin Indexes(db)
    BY <1>1, <1>4, <1>6 DEF Undisturbed
  <2>2. y \notin Tests(db)
    BY <2>1 DEF Indexes
  <2>3. y = Test(r, y[3])
    BY <2>2, TextOfNew, RowShapes
  <2> QED BY <1>2, <2>3
<1> QED BY <1>1, <1>5, <1>6

LEMMA OrderStep ==
  ASSUME FullInv, NEW r \in Requests, StepOf(r)
  PROVE  OrderIsExplained'
<1> SUFFICES ASSUME NEW x \in Tests(db'), NEW y \in Tests(db'), x # y, x[3] = y[3]
             PROVE  \E o \in {x[2], y[2]} : Disturbed(o)'
  BY DEF OrderIsExplained, Tests, IdsOf, Ids
<1>1. CASE x \in Tests(db) /\ y \in Tests(db)
  <2>1. \E o \in {x[2], y[2]} : Disturbed(o)
    BY <1>1 DEF FullInv, MixtureInv, MixturesAreExplained, OrderIsExplained
  <2> QED BY <2>1, StepsProgress DEF Progress
<1>2. CASE x \notin Tests(db)
  BY <1>2, NewIndexes, StepsProgress DEF Progress
<1>3. CASE y \notin Tests(db)
  BY <1>3, NewIndexes, StepsProgress DEF Progress
<1> QED BY <1>1, <1>2, <1>3

(* Test cases of archives have their keys in S3.                           *)
LEMMA KeysOfTests ==
  ASSUME FullInv, NEW r \in Requests, StepOf(r), NEW t \in Tests(db'), TextIn(t)' = "s3",
         NEW end \in {"in", "out"}
  PROVE  /\ <<t[3], end>> \in Files /\ <<t[3], end>>[1] = t[3] /\ t[3] \in Nat
         /\ \E k \in Nat \ {0} : File(k) = <<t[3], end>> /\ k <= 2 * (t[3] + 1)
<1>1. t[3] < MaxPairs
  BY FilesStep DEF FilesInv, Tests, IdsOf, Ids
<1>2. t[3] \in Nat
  BY ViewShaped, TextOfNew, RowShapes
<1>3. /\ <<t[3], end>>[1] = t[3]
      /\ \E k \in Nat \ {0} : File(k) = <<t[3], end>> /\ k <= 2 * (t[3] + 1)
  BY <1>2, FilesOfArchives
<1>4. PICK k \in Nat \ {0} : File(k) = <<t[3], end>> /\ k <= 2 * (t[3] + 1)
  BY <1>3
<1>5. k <= 2 * MaxPairs
  BY <1>1, <1>2, <1>4, MaxPairsAssumption
<1> QED BY <1>2, <1>3, <1>4, <1>5, FilesOfArchives

(* An upload whose files are there ends in one of two ways.                 *)
LEMMA UploadsEnd ==
  ASSUME FullInv, NEW r \in Requests, StepOf(r), put[r] > 0, step'[r] = "done"
  PROVE  \/ outcome'[r] = "storage" \/ Tests(db) = {}
         \/ FinishEffect(r) /\ req[r].kind = "upload"
<1>1. req[r].kind = "upload" /\ step[r] \in {"put", "run"}
  BY ActorsAreNotDone, Parts DEF RequestInv
<1>2. CASE Refuses(r)
  BY <1>1, <1>2, RefuseEffects, UploadsFail DEF RefuseEffect
<1>3. ~Gives(r)
  <2>1. Gives(r) => \E s \in {"run", "clear"} : \E statements : GiveEffect(r, statements, s)
    BY RunEffects
       DEF Gives, AddIndex, Remove, Upload, InsertArchive, DeleteProblem, Submit, JudgeRecord
  <2> QED BY <2>1 DEF GiveEffect
<1> QED BY <1>1, <1>2, <1>3, KindsOfSteps, BeginEffects, ReadEffects, PutEffects,
           FinishEffects, StatementEffects DEF BeginEffect, ReadEffect

LEMMA ObjectsStep ==
  ASSUME FullInv, NEW r \in Requests, StepOf(r)
  PROVE  ObjectsAreExplained'
<1> SUFFICES ASSUME NEW t \in Tests(db'), NEW end \in {"in", "out"}, TextIn(t)' = "s3"
             PROVE  \/ s3'[<<t[3], end>>] = t
                    \/ \E o \in Requests :
                         /\ s3'[<<t[3], end>>] = Test(o, t[3])
                         /\ step'[o] # "done" \/ outcome'[o] = "storage" \/ Disturbed(o)'
  BY DEF ObjectsAreExplained, Tests, IdsOf, Ids, Test
<1> DEFINE f == <<t[3], end>>
<1>1. f \in Files /\ f[1] = t[3] /\ t[3] \in Nat
  BY KeysOfTests
<1>2. CASE t \in Tests(db)
  <2>1. CASE PutFile(r) /\ f = File(put'[r])
    <3>1. s3'[f] = Test(r, t[3])
      BY <1>1, <2>1, StoredFiles
    <3>2. step'[r] # "done"
      BY <2>1, PutEffects
    <3> QED BY <3>1, <3>2
  <2>2. CASE s3'[f] = s3[f] /\ s3[f] = t
    BY <2>2
  <2>3. CASE s3'[f] = s3[f] /\ s3[f] # t
    <3>1. TextIn(t) = "s3"
      BY <1>2, TextStays
    <3>2. PICK o \in Requests :
            /\ s3[f] = Test(o, t[3])
            /\ step[o] # "done" \/ outcome[o] = "storage" \/ Disturbed(o)
      BY <1>2, <2>3, <3>1 DEF FullInv, MixtureInv, MixturesAreExplained, ObjectsAreExplained
    <3>3. CASE Disturbed(o)
      BY <2>3, <3>2, <3>3, StepsProgress DEF Progress
    <3>4. CASE step[o] = "done"
      BY <2>3, <3>2, <3>4, StepsProgress DEF Progress, StandsStill
    <3>5. CASE step'[o] # "done"
      BY <2>3, <3>2, <3>5
    <3>6. CASE step[o] # "done" /\ step'[o] = "done"
      <4>1. o = r
        BY <3>6, OthersStandStill DEF Others, StandsStill
      <4>2. put[r] > 0
        <5>1. s3[f] # NoFile /\ s3[f][2] = r
          BY <3>2, <4>1, RowShapes DEF NoFile
        <5> HIDE DEF f
        <5> QED BY <1>1, <5>1 DEF FullInv, MixtureInv, FilesInv
      <4>3. CASE outcome'[r] = "storage"
        BY <2>3, <3>2, <4>1, <4>3
      <4>4. CASE FinishEffect(r) /\ req[r].kind = "upload" /\ ~Disturbed(r)
        <5>1. t \in Archive(r)
          BY <4>4, Parts DEF FinishEffect, Undisturbed
        <5>2. t = Test(r, t[3])
          BY <4>4, <5>1, ArchiveIndexes
        <5> QED BY <2>3, <3>2, <4>1, <5>2
      <4>5. CASE Disturbed(r)
        BY <3>3, <4>1, <4>5
      <4> QED BY <1>2, <3>6, <4>1, <4>2, <4>3, <4>4, <4>5, UploadsEnd
    <3> QED BY <3>3, <3>4, <3>5, <3>6
  <2>4. s3'[f] = s3[f] \/ (PutFile(r) /\ f = File(put'[r]))
    <3> HIDE DEF f
    <3> QED BY <1>1, FilesChange, StoredFiles
  <2> QED BY <2>1, <2>2, <2>3, <2>4
<1>3. CASE t \notin Tests(db)
  <2>1. FinishEffect(r) /\ req[r].kind = "upload" /\ t \in Archive(r)
    BY <1>3, TextOfNew
  <2>2. t = Test(r, t[3]) /\ t[3] + 1 <= req[r].pairs
    BY <2>1, ArchiveIndexes
  <2>3. step[r] = "run" /\ s3' = s3 /\ req[r].pairs \in Nat /\ put[r] = 2 * req[r].pairs
    BY <2>1, Parts, MaxPairsAssumption DEF FinishEffect, RequestInv
  <2>4. PICK k \in Nat \ {0} : File(k) = f /\ k <= 2 * (t[3] + 1)
    BY KeysOfTests
  <2>5. k \in 1 .. put[r]
    BY <1>1, <2>2, <2>3, <2>4
  <2>6. FileStands(r, f)
    BY <2>3, <2>4, <2>5, Parts DEF HeldFiles
  <2> QED BY <1>1, <2>2, <2>3, <2>6, StepsProgress DEF FileStands, Progress
<1> QED BY <1>2, <1>3

LEMMA MixtureFrame ==
  ASSUME MixtureInv, Records, UNCHANGED vars
  PROVE  MixtureInv' /\ Records'
<1> USE DEF vars
<1>1. /\ Tests(db)' = Tests(db) /\ Indexes(db)' = Indexes(db) /\ Active' = Active
      /\ Records'
  BY DEF Tests, IdsOf, Ids, Indexes, Active, MixtureInv, Records
<1>2. \A t : TextIn(t)' = TextIn(t)
  BY DEF TextIn
<1>3. \A x : Disturbed(x)' <=> Disturbed(x)
  BY DEF Disturbed
<1>4. \A r : /\ Tests(View(r))' = Tests(View(r)) /\ Statements(r)' = Statements(r)
             /\ Archive(r)' = Archive(r)
  BY DEF Tests, IdsOf, Ids, View, Statements, Archive
<1>5. TypeOK' /\ OrderIsExplained' /\ ObjectsAreExplained'
  <2>1. TypeOK'
    BY DEF MixtureInv, MixturesAreExplained, TypeOK
  <2>2. OrderIsExplained'
    BY <1>1, <1>3 DEF MixtureInv, MixturesAreExplained, OrderIsExplained
  <2>3. ObjectsAreExplained'
    BY <1>1, <1>2, <1>3 DEF MixtureInv, MixturesAreExplained, ObjectsAreExplained
  <2> QED BY <2>1, <2>2, <2>3
<1>6. RowsInv' /\ FilesInv'
  BY <1>1, <1>2 DEF MixtureInv, RowsInv, FilesInv, Shaped
<1>7. OverlapInv'
  <2>1. \A r, t : WillDelete(r, t)' = WillDelete(r, t)
    BY <1>4 DEF WillDelete
  <2>2. ASSUME NEW r \in Requests, Undisturbed(r) PROVE Undisturbed(r)'
    BY <1>1, <1>4, <2>1, <2>2 DEF Undisturbed
  <2> QED BY <1>1, <1>3, <2>2 DEF MixtureInv, OverlapInv
<1>8. ASSUME NEW r \in Requests PROVE RequestInv(r)' /\ TransactionInv(r)' /\ HeldFiles(r)'
  <2>1. RequestInv(r)'
    BY DEF MixtureInv, RequestInv
  <2>2. TransactionInv(r)'
    BY TransactionFrame DEF MixtureInv
  <2>3. HeldFiles(r)'
    BY <1>3 DEF MixtureInv, HeldFiles, FileStands
  <2> QED BY <2>1, <2>2, <2>3
<1> QED BY <1>1, <1>5, <1>6, <1>7, <1>8 DEF MixtureInv, MixturesAreExplained

LEMMA FullInvInductive == FullInv /\ [Next]_vars => FullInv'
<1> SUFFICES ASSUME FullInv, [Next]_vars PROVE FullInv'
  OBVIOUS
<1>1. LockInv'
  BY NextKeepsLocks DEF FullInv
<1>2. KeptInv'
  BY NextKeepsTransactions, NextKeepsRequests DEF FullInv, KeptInv
<1>3. CASE UNCHANGED vars
  BY <1>1, <1>2, <1>3, MixtureFrame DEF FullInv
<1>4. ASSUME NEW r \in Requests, StepOf(r) PROVE FullInv'
  <2>1. Records' /\ RowsInv' /\ OverlapInv' /\ FilesInv' /\ OrderIsExplained' /\ ObjectsAreExplained'
    BY <1>4, RecordsStep, RowsStep, OverlapStep, FilesStep, OrderStep, ObjectsStep
  <2>2. TypeOK'
    BY <1>1, <1>4, TypeStep DEF LockInv
  <2>3. \A o \in Requests : RequestInv(o)' /\ TransactionInv(o)' /\ HeldFiles(o)'
    BY <1>4, RequestStep, TransactionStep, HeldFilesStep
  <2> QED BY <1>1, <1>2, <2>1, <2>2, <2>3 DEF FullInv, MixtureInv, MixturesAreExplained
<1> QED BY <1>3, <1>4, StepsOfRequests

LEMMA InitMixtures ==
  ASSUME Init
  PROVE  FullInv
<1>1. PICK by \in Earlier, n \in 0 .. MaxPairs, submitted \in BOOLEAN, judged \in BOOLEAN :
        LET tests == {TestRow(by, i) : i \in 0 .. n - 1}
            submission == IF submitted THEN {SubmissionRow("seed")} ELSE {}
            results == IF submitted /\ judged /\ by = "seed"
                       THEN {ResultRow("seed", Submission("seed"), t.id) : t \in tests} ELSE {}
        IN  /\ db = {ProblemRow} \cup tests \cup submission \cup results
            /\ s3 = [f \in Files |-> IF by = "archive" /\ f[1] < n THEN Test(by, f[1]) ELSE NoFile]
  BY DEF Init
<1> DEFINE tests == {TestRow(by, i) : i \in 0 .. n - 1}
           others == {SubmissionRow("seed")}
                       \cup {ResultRow("seed", Submission("seed"), t.id) : t \in tests}
<1>2. by \in Makers /\ by \notin Requests
  BY NamesAreFresh DEF Makers
<1>3. ASSUME NEW i \in 0 .. n - 1 PROVE i \in Nat /\ i < n /\ i < MaxPairs
  BY MaxPairsAssumption
<1>4. ASSUME NEW x \in db
      PROVE  \/ x = ProblemRow
             \/ /\ x.id \in TestIds /\ x = TestRow(x.id[2], x.id[3])
                /\ x.id[2] = by /\ x.id[3] < n /\ x.id[3] < MaxPairs
             \/ /\ x.id[1] \in {"submission", "result"} /\ x.keys = {} /\ ~x.cascade
                /\ x.id[2] = "seed"
  <2>1. db \subseteq {ProblemRow} \cup tests \cup others
    BY <1>1
  <2>2. ASSUME x \in tests
        PROVE  /\ x.id \in TestIds /\ x = TestRow(x.id[2], x.id[3])
               /\ x.id[2] = by /\ x.id[3] < n /\ x.id[3] < MaxPairs
    <3>1. PICK i \in 0 .. n - 1 : x = TestRow(by, i)
      BY <2>2
    <3> QED BY <1>2, <1>3, <3>1, RowShapes
  <2>3. ASSUME x \in others
        PROVE  /\ x.id[1] \in {"submission", "result"} /\ x.keys = {} /\ ~x.cascade
               /\ x.id[2] = "seed"
    BY <2>3 DEF SubmissionRow, ResultRow, Submission
  <2> HIDE DEF tests, others
  <2> QED BY <2>1, <2>2, <2>3
<1>5. RowsInv
  BY <1>4 DEF RowsInv, Shaped, Earlier
<1>6. ASSUME NEW t \in Tests(db)
      PROVE  t \in TestIds /\ t[2] = by /\ t[3] < n /\ t[3] < MaxPairs /\ t[3] \in Nat
                /\ t = Test(by, t[3])
  <2>1. PICK x \in db : x.id = t /\ x.id[1] = "test"
    BY DEF Tests, IdsOf, Ids
  <2> QED BY <1>4, <2>1, RowShapes
<1>7. /\ tx = [r \in Requests |-> NoTransaction]
      /\ req = [r \in Requests |-> NoRequest]
      /\ step = [r \in Requests |-> "idle"]
      /\ loaded = [r \in Requests |-> {}]
      /\ put = [r \in Requests |-> 0]
      /\ outcome = [r \in Requests |-> "none"]
      /\ overlapped = {}
  BY DEF Init
<1>8. ASSUME NEW f \in Files
      PROVE  /\ f[1] \in Nat /\ Test(by, f[1]) \in TestIds
             /\ s3[f] = IF by = "archive" /\ f[1] < n THEN Test(by, f[1]) ELSE NoFile
  <2>1. PICK k \in 1 .. 2 * MaxPairs : f = File(k)
    BY DEF Files
  <2>2. k \in Nat \ {0}
    BY <2>1, MaxPairsAssumption
  <2>3. f[1] \in Nat
    BY <2>1, <2>2, FilesOfArchives
  <2> QED BY <1>1, <1>2, <2>3, RowShapes
<1>9. TypeOK
  <2>1. s3 \in [Files -> TestIds \cup {NoFile}]
    <3>1. DOMAIN s3 = Files /\ s3 = [f \in Files |-> s3[f]]
      BY <1>1
    <3>2. \A f \in Files : s3[f] \in TestIds \cup {NoFile}
      BY <1>8
    <3> QED BY <3>1, <3>2
  <2>2. 0 \in 0 .. 2 * MaxPairs
    BY MaxPairsAssumption
  <2> QED BY <1>7, <2>1, <2>2 DEF TypeOK, NoTransaction
<1>10. OrderIsExplained
  BY <1>6 DEF OrderIsExplained
<1>11. ObjectsAreExplained
  <2> SUFFICES ASSUME NEW t \in Tests(db), NEW end \in {"in", "out"}, TextIn(t) = "s3"
               PROVE  s3[<<t[3], end>>] = t
    BY DEF ObjectsAreExplained
  <2>1. by = "archive"
    BY <1>6 DEF TextIn, Earlier
  <2>2. PICK k \in Nat \ {0} : File(k) = <<t[3], end>> /\ k <= 2 * (t[3] + 1)
    BY <1>6, FilesOfArchives
  <2>3. k <= 2 * MaxPairs
    <3>1. t[3] \in Nat /\ t[3] < MaxPairs
      BY <1>6
    <3> QED BY <2>2, <3>1, MaxPairsAssumption
  <2>4. <<t[3], end>> \in Files /\ <<t[3], end>>[1] = t[3]
    BY <2>2, <2>3, FilesOfArchives
  <2> QED BY <1>6, <1>8, <2>1, <2>4
<1>12. OverlapInv
  BY <1>7 DEF OverlapInv, Active, Undisturbed
<1>13. FilesInv
  <2>1. ASSUME NEW f \in Files, s3[f] # NoFile
        PROVE  /\ s3[f] \in TestIds /\ s3[f] = Test(s3[f][2], f[1])
               /\ s3[f][2] \in Requests => put[s3[f][2]] > 0
    BY <1>2, <1>8, <2>1, RowShapes
  <2> QED BY <1>6, <2>1 DEF FilesInv
<1>14. ASSUME NEW r \in Requests
       PROVE  RequestInv(r) /\ TransactionInv(r) /\ HeldFiles(r)
  <2>1. /\ tx[r].ins = {} /\ tx[r].del = {} /\ tx[r].todo = <<>>
        /\ step[r] = "idle" /\ req[r].kind = "none" /\ put[r] = 0 /\ outcome[r] = "none"
    BY <1>7 DEF NoTransaction, NoRequest
  <2>2. Ids(tx[r].del) = {}
    BY <2>1 DEF Ids
  <2> QED BY <2>1, <2>2 DEF RequestInv, TransactionInv, HeldFiles
<1>15. Records
  BY <1>7 DEF Records, NoTransaction
<1>16. LockInv
  BY InitConsistent, FreshKeeps DEF Init
<1> QED BY <1>5, <1>9, <1>10, <1>11, <1>12, <1>13, <1>14, <1>15, <1>16, InitKept
        DEF FullInv, MixtureInv, MixturesAreExplained

(* Two test cases share an order_index, or the text of one its files with   *)
(* another, only after requests that add some overlapped or an upload       *)
(* failed on the way, for any number of requests and any size of archives.  *)
THEOREM MixturesHaveCauses == Spec => []MixturesAreExplained
<1>1. FullInv => MixturesAreExplained
  BY DEF FullInv, MixtureInv
<1> QED BY <1>1, InitMixtures, FullInvInductive, PTL DEF Spec

(* An upload answered with success has left the test cases of its archive   *)
(* and no others, unless another addition overlapped with it.              *)
THEOREM UploadsReplaceAll == Spec => UploadReplacesAll
<1> DEFINE Replaces(r) == UploadSucceeds(r) /\ ~Disturbed(r) =>
                            Tests(db') = {Test(r, i - 1) : i \in 1 .. req[r].pairs}
<1>1. ASSUME FullInv, NEW r \in Requests, NEW o \in Requests, StepOf(o) PROVE Replaces(r)
  <2> SUFFICES ASSUME req[r].kind = "upload", outcome[r] = "none", outcome'[r] = "ok", ~Disturbed(r)
               PROVE  Tests(db') = Archive(r)
    BY DEF UploadSucceeds, Archive
  <2>1. o = r
    BY <1>1, OthersStandStill DEF Others, StandsStill
  <2>2. FinishEffect(r)
    <3>1. CASE Refuses(r)
      BY <1>1, <3>1, RefuseEffects, NoConflicts DEF RefuseEffect
    <3>2. CASE Gives(r)
      BY <1>1, <3>2, GiveEffects DEF GiveEffect
    <3> QED BY <1>1, <2>1, <3>1, <3>2, KindsOfSteps, BeginEffects, ReadEffects, PutEffects,
               FinishEffects, StatementEffects DEF BeginEffect, ReadEffect
  <2>3. Tests(db') \subseteq Archive(r)
    BY <1>1, <2>2, Parts DEF FinishEffect, Undisturbed
  <2>4. ASSUME NEW id \in Archive(r) PROVE id \in Tests(db')
    <3>1. Statements(r) = {}
      BY <2>2 DEF Statements, FinishEffect
    <3>2. id \in Ids(tx[r].ins)
      BY <1>1, <2>2, <3>1, Parts DEF TransactionInv, FinishEffect
    <3>3. id[1] = "test"
      BY RowShapes DEF Archive
    <3> QED BY <2>2, <3>2, <3>3 DEF FinishEffect, View, Tests, IdsOf, Ids
  <2> QED BY <2>3, <2>4
<1>2. ASSUME FullInv, [Next]_vars PROVE [\A r \in Requests : Replaces(r)]_vars
  BY <1>1, <1>2, StepsOfRequests
<1>3. FullInv /\ [Next]_vars => [\A r \in Requests : Replaces(r)]_vars
  BY <1>2
<1> QED BY <1>3, InitMixtures, FullInvInductive, PTL DEF Spec, UploadReplacesAll
=============================================================================
