------------------------- MODULE TestCasesProperties --------------------------
(* What administration, submission and judging leave of a problem's tests.  *)
EXTENDS TestCases

TestIds == {"test"} \X Makers \X Nat

(* Type of the state. A handler has read only test cases, S3 keys hold      *)
(* files of test cases, a transaction deletes only rows it still holds.    *)
TypeOK ==
  /\ \A r \in Requests : tx[r].del \subseteq db
  /\ loaded \in [Requests -> SUBSET TestIds]
  /\ put \in [Requests -> 0 .. 2 * MaxPairs]
  /\ s3 \in [Files -> TestIds \cup {NoFile}]
  /\ step \in [Requests -> {"idle", "load", "index", "results", "clear", "put", "related",
                            "execute", "run", "done"}]
  /\ outcome \in [Requests -> {"none", "ok", "missing", "bad_reference", "storage", "internal"}]
  /\ overlapped \subseteq Requests

(* r overlapped with a request that adds test cases.                       *)
Disturbed(r) ==
  /\ r \in overlapped
  /\ \E o \in overlapped \ {r} : req[o].kind \in {"add", "upload"}

(* The order_index, which nothing in the schema makes unique, orders the    *)
(* test cases strictly, unless requests that add some overlapped.          *)
OrderIsExplained ==
  \A x, y \in Tests(db) : x # y /\ x[3] = y[3] => \E r \in {x[2], y[2]} : Disturbed(r)

(* The S3 keys of a test case of an archive hold its own files, unless an    *)
(* upload that is under way, has failed on the way, or overlapped with      *)
(* another one has put its own there.                                      *)
ObjectsAreExplained ==
  \A t \in Tests(db), end \in {"in", "out"} :
    LET held == s3[<<t[3], end>>] IN
    TextIn(t) = "s3" =>
      \/ held = t
      \/ \E o \in Requests :
           /\ held = Test(o, t[3])
           /\ step[o] # "done" \/ outcome[o] = "storage" \/ Disturbed(o)

(* Nothing but overlapping requests and failed uploads takes the test cases *)
(* out of order or mixes their files.                                      *)
MixturesAreExplained == TypeOK /\ OrderIsExplained /\ ObjectsAreExplained

(* An upload that is answered with success has replaced all test cases by   *)
(* those of its archive, whoever judged, submitted or removed meanwhile.   *)
UploadSucceeds(r) == req[r].kind = "upload" /\ outcome[r] = "none" /\ outcome'[r] = "ok"
UploadReplacesAll ==
  [][\A r \in Requests : UploadSucceeds(r) /\ ~Disturbed(r) =>
       Tests(db') = {Test(r, i - 1) : i \in 1 .. req[r].pairs}]_vars

(* What was submitted and judged is never lost by administering test cases: *)
(* the request that would lose it is refused instead.                      *)
HistoryStays ==
  [][Submissions(db) \cup IdsOf(db, "result") \subseteq Ids(db')]_vars

(* The inductive invariant behind it. Only test cases are deleted with what  *)
(* they refer to, and no handler deletes anything but test cases and the    *)
(* problem itself.                                                         *)
Removable(id) == id[1] \in {"test", "problem"}
Stored(x)     == x.cascade => Removable(x.id)
Harmless(s) ==
  \/ s.op = "insert" /\ Stored(s.arg)
  \/ s.op = "delete" /\ \A id \in s.arg : Removable(id)
  \/ s.op = "clear"  /\ s.arg[1] = "test"
RowsAreStored ==
  /\ \A x \in db : Stored(x)
  /\ \A r \in Requests : \A x \in tx[r].ins : Stored(x)
DeletionsAreHarmless ==
  \A r \in Requests :
    /\ \A x \in tx[r].del : Removable(x.id)
    /\ \A i \in DOMAIN tx[r].todo : Harmless(tx[r].todo[i])
HandlersAreHarmless ==
  \A r \in Requests :
    /\ \A id \in loaded[r] : Removable(id)
    /\ step[r] = "results" => Removable(req[r].test)
HistoryInv == RowsAreStored /\ DeletionsAreHarmless /\ HandlersAreHarmless

(***************************************************************************)
(* The inductive invariant behind MixturesAreExplained and                 *)
(* UploadReplacesAll                                                       *)
(***************************************************************************)

(* Rows other than the problem are named after an earlier seed or upload,   *)
(* or after a request that is done: a new row never takes a name in use.   *)
Shaped(x) ==
  \/ x = ProblemRow
  \/ x.id \in TestIds /\ x = TestRow(x.id[2], x.id[3])
  \/ x.id[1] \in {"submission", "result"} /\ x.keys = {} /\ ~x.cascade
RowsInv ==
  \A x \in db :
    /\ Shaped(x)
    /\ x # ProblemRow => \/ x.id[2] \in Earlier
                         \/ x.id[2] \in Requests /\ step[x.id[2]] = "done"

(* Where a handler stands agrees with what it was asked.                   *)
RequestInv(r) ==
  /\ step[r] = "idle" => req[r].kind = "none"
  /\ step[r] # "idle" =>
       \/ req[r].kind \in {"add", "delete_problem", "submit", "judge"}
       \/ req[r].kind = "upload" /\ req[r].pairs \in 1 .. MaxPairs
       \/ req[r].kind = "remove" /\ req[r].test \in TestIds
  /\ step[r] = "index"   => req[r].kind = "add"
  /\ step[r] = "results" => req[r].kind = "remove"
  /\ step[r] \in {"clear", "put"} => req[r].kind = "upload"
  /\ step[r] = "related" => req[r].kind = "delete_problem"
  /\ step[r] = "execute" => req[r].kind = "judge"
  /\ step[r] # "done" => outcome[r] = "none"
  /\ put[r] > 0 => req[r].kind = "upload" /\ step[r] \in {"put", "run", "done"}
  /\ req[r].kind = "upload" => put[r] <= 2 * req[r].pairs
  /\ req[r].kind = "upload" /\ step[r] = "run" => put[r] = 2 * req[r].pairs

(* What a transaction adds and has still to do. Every row to insert has a   *)
(* name of its own; a problem that is deleted is the last thing deleted.   *)
Statements(r) == {tx[r].todo[i] : i \in DOMAIN tx[r].todo}
Archive(r)    == {Test(r, i - 1) : i \in 1 .. req[r].pairs}
Makes(r, x) ==
  /\ Shaped(x) /\ x # ProblemRow /\ x.id[2] = r
  /\ \/ req[r].kind = "add" /\ x.id \in TestIds
     \/ req[r].kind = "upload" /\ x.id \in Archive(r)
     \/ req[r].kind \in {"submit", "judge"} /\ x.id \notin TestIds
PlansInserts(r) ==
  /\ \A s \in Statements(r) : s.op = "insert" /\ Makes(r, s.arg) /\ s.arg.id \notin Ids(tx[r].ins)
  /\ \A i, j \in DOMAIN tx[r].todo : i # j => tx[r].todo[i].arg.id # tx[r].todo[j].arg.id
PlansRemovals(r) ==
  \A s \in Statements(r) :
    s = Clear(Problem, "test") \/ (s.op = "delete" /\ s.arg \subseteq TestIds)
PlansDeletion(r) ==
  \/ tx[r].todo = <<>>
  \/ \E ids \in SUBSET loaded[r] : tx[r].todo = Delete(ids) \o Delete({Problem})
TransactionInv(r) ==
  /\ step[r] # "run" => tx[r].ins = {}
  /\ step[r] \notin {"clear", "put", "run"} => tx[r].del = {}
  /\ step[r] \notin {"clear", "run"} => tx[r].todo = <<>>
  /\ \A x \in tx[r].ins : Makes(r, x)
  /\ Problem \in Ids(tx[r].del) => req[r].kind = "delete_problem" /\ tx[r].todo = <<>>
  /\ step[r] = "clear" => PlansRemovals(r)
  /\ step[r] = "run" =>
       CASE req[r].kind = "remove" -> PlansRemovals(r)
         [] req[r].kind = "delete_problem" -> PlansDeletion(r)
         [] OTHER -> PlansInserts(r)
  /\ step[r] = "run" /\ req[r].kind = "upload" =>
       \A id \in Archive(r) : \/ id \in Ids(tx[r].ins)
                              \/ \E s \in Statements(r) : s.arg.id = id

(* Unless another request adds test cases meanwhile, an upload sees no test *)
(* cases but those it will delete and its own, and the index of an added   *)
(* one stays free.                                                         *)
WillDelete(r, t) ==
  \E s \in Statements(r) : s = Clear(Problem, "test") \/ (s.op = "delete" /\ t \in s.arg)
Undisturbed(r) ==
  /\ step[r] = "clear" => \A t \in Tests(View(r)) : WillDelete(r, t)
  /\ step[r] = "put" => Tests(View(r)) = {}
  /\ step[r] = "run" /\ req[r].kind = "upload" => Tests(View(r)) \subseteq Archive(r)
  /\ step[r] = "run" /\ req[r].kind = "add" =>
       /\ \A x \in tx[r].ins : x.id[3] \notin Indexes(db)
       /\ \A s \in Statements(r) : s.arg.id[3] \notin Indexes(db)
OverlapInv ==
  /\ \A r, o \in Active : r # o => r \in overlapped
  /\ \A r \in Requests : ~Disturbed(r) => Undisturbed(r)

(* Files come from uploads. Those of an upload under way are still there or *)
(* were replaced by another upload, which it has disturbed.                *)
FilesInv ==
  /\ \A f \in Files :
       s3[f] # NoFile => /\ s3[f] \in TestIds /\ s3[f] = Test(s3[f][2], f[1])
                         /\ s3[f][2] \in Requests => put[s3[f][2]] > 0
  /\ \A t \in Tests(db) : TextIn(t) = "s3" => t[3] < MaxPairs
FileStands(r, f) ==
  \/ s3[f] = Test(r, f[1])
  \/ \E o \in Requests : s3[f] = Test(o, f[1]) /\ Disturbed(o)
HeldFiles(r) ==
  step[r] \in {"put", "run"} => \A k \in 1 .. put[r] : FileStands(r, File(k))

MixtureInv ==
  /\ MixturesAreExplained
  /\ RowsInv /\ OverlapInv /\ FilesInv
  /\ \A r \in Requests : RequestInv(r) /\ TransactionInv(r) /\ HeldFiles(r)
=============================================================================
