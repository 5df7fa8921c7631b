--------------------------- MODULE Administration ---------------------------
(***************************************************************************)
(* The pages of an administrator: the dashboard with its tabs              *)
(* (AdminDashboard), the page that creates a problem                       *)
(* (AdminCreateProblemPage) and the page that edits one and its test cases *)
(* (AdminEditProblemPage).  There is one administrator, in one tab.        *)
(*                                                                         *)
(* Three lists of the dashboard are queries with a cache; the edit page    *)
(* fetches by hand, into the state of the mounted page.  Calls outlive the *)
(* page that made them: their continuation then changes no state of it,    *)
(* but navigates and refetches all the same.                               *)
(***************************************************************************)
EXTENDS Calls, Integers, FiniteSets

CONSTANTS
    Problems,
    TestCases,
    MaxCalls,      \* bound on calls
    MaxMoves,      \* bound on the moves of the user from page to page
    MaxContests    \* bound on contests

ASSUME AdministrationAssumption ==
    /\ Problems # {} /\ TestCases # {}
    /\ MaxAttempts \in Nat \ {0}
    /\ MaxCalls \in Nat
    /\ MaxMoves \in Nat
    /\ MaxContests \in Nat
    /\ MaxFaults \in Nat

VARIABLES
    content,    \* content[p]: {} or {the problem, as saved}
    ids,        \* the ids given to problems so far
    tests,      \* tests[p]: its test cases
    testIds,    \* the ids given to test cases so far
    role,       \* the role of the user in the list
    contests,   \* contests created
    page,       \* the page on screen
    edit,       \* local state of the edit page
    form,       \* local state of the create page and of the contest form
    query,      \* query[k]: the list k in the query cache
    calls,      \* calls under way
    made,       \* calls so far
    moves,      \* moves so far
    overtaken,  \* an answer that was read before a change came after it, or
                \* the page that made the change was left before its answer
    jumped      \* the edit page went from one problem to another in place

vars == <<content, ids, tests, testIds, role, contests, page, edit, form, query, calls, made,
          moves, overtaken, jumped, faults>>
server == <<content, ids, tests, testIds, role, contests>>

Slot(S) == {{}} \union {{x} : x \in S}

(* The text of a problem: whose it is, and whether it was written when the *)
(* problem was created (and edited since), or typed from scratch into the  *)
(* fields of the edit page.                                                *)
Text == [of : Problems, how : {"written", "scratch"}]
Written(p) == [of |-> p, how |-> "written"]
Scratch(p) == [of |-> p, how |-> "scratch"]

AProblem == CHOOSE p \in Problems : TRUE
ATestCase == CHOOSE t \in TestCases : TRUE

Exists(p) == content[p] # {}

Tabs == {"dashboard", "users", "problems", "contests"}
Page == [at : {"admin"}, tab : Tabs] \union [at : {"create", "other"}]
          \union [at : {"edit"}, id : Problems]
Admin(tab) == [at |-> "admin", tab |-> tab]
Other == [at |-> "other"]
EditPage(p) == [at |-> "edit", id |-> p]

(* Mutation: the page shows its fields before they are loaded.             *)
NoEditLoaded == [loading |-> FALSE, submitting |-> FALSE, adding |-> FALSE, text |-> {},
                 listed |-> {}, loads |-> {}, listings |-> {}]

(* loading; submitting; adding; the fields ({} when they hold the defaults *)
(* and no title); testCases; the answers of getById and listTestCases      *)
(* that are under way to this page.                                        *)
Load == [of : Problems, text : Slot(Text)]
Listing == [of : Problems, tests : SUBSET TestCases]
Edit == [loading : BOOLEAN, submitting : BOOLEAN, adding : BOOLEAN, text : Slot(Text),
         listed : SUBSET TestCases, loads : SUBSET Load, listings : SUBSET Listing]
NoEdit == [loading |-> TRUE, submitting |-> FALSE, adding |-> FALSE, text |-> {},
           listed |-> {}, loads |-> {}, listings |-> {}]

(* Of the create page and the contest form: shown, filled in, submitting.  *)
Form == [open : BOOLEAN, filled : BOOLEAN, submitting : BOOLEAN]
NoForm == [open |-> FALSE, filled |-> FALSE, submitting |-> FALSE]

Kinds == {"update", "add", "remove", "create", "delete", "role", "contest"}

(* live: the page that made the call is still mounted.                     *)
Call == [n : 1..MaxCalls, kind : Kinds, of : Problems, text : Slot(Text), test : TestCases,
         attempt : 1..MaxAttempts, stored : BOOLEAN, live : BOOLEAN]

(***************************************************************************)
(* The lists of the dashboard.                                             *)
(***************************************************************************)
Lists == {"users", "problems", "contests"}
Value(k) == CASE k = "users"    -> [role |-> role]
              [] k = "problems" -> [rows |-> {p \in Problems : Exists(p)}]
              [] k = "contests" -> [count |-> contests]
Values == [role : BOOLEAN] \union [rows : SUBSET Problems] \union [count : 0..MaxContests]
Query == [data : Slot(Values), flight : Slot(Values)]
NoQuery == [data |-> {}, flight |-> {}]

ListsOf(p) == CASE p = Admin("users")    -> {"users"}
                [] p = Admin("problems") -> {"problems"}
                [] p = Admin("contests") -> {"contests", "problems"}
                [] OTHER                 -> {}

(* Mounting: useProblems always fetches, the others when their data is     *)
(* older than its staleTime.  A fetch that is under way already serves the *)
(* page, though it may have been read before the last change.              *)
Mounted(p) ==
    /\ \E old \in BOOLEAN :
       query' = [k \in Lists |->
           IF k \in ListsOf(p) /\ query[k].flight = {}
                /\ (old \/ k = "problems" \/ query[k].data = {})
           THEN [query[k] EXCEPT !.flight = {Value(k)}] ELSE query[k]]
    /\ overtaken' = \/ overtaken
                     \/ \E k \in ListsOf(p) : query'[k].flight \notin {{}, {Value(k)}}

(* refetch(): a fetch under way is replaced if there is data already.      *)
Refetched(k) ==
    IF query[k].flight # {} /\ query[k].data = {} THEN query
    ELSE [query EXCEPT ![k].flight = {Value(k)}]

(* invalidateQueries: a list that is not on screen is only marked, to be   *)
(* fetched when it is mounted; the answer to a fetch that is under way     *)
(* removes the mark.                                                       *)
Invalidated(k) ==
    IF k \in ListsOf(page) THEN Refetched(k)
    ELSE IF query[k].flight # {} THEN query
    ELSE [query EXCEPT ![k] = NoQuery]

Init ==
    /\ content = [p \in Problems |-> IF p = AProblem THEN {Written(p)} ELSE {}]
    /\ ids = {AProblem}
    /\ tests = [p \in Problems |-> {}]
    /\ testIds = {}
    /\ role = FALSE
    /\ contests = 0
    /\ page = Admin("dashboard")
    /\ edit = NoEdit
    /\ form = NoForm
    /\ query = [k \in Lists |-> NoQuery]
    /\ calls = {}
    /\ made = 0
    /\ moves = 0
    /\ overtaken = FALSE
    /\ jumped = FALSE
    /\ faults = 0

(***************************************************************************)
(* Going from page to page: what is local to a page ends with it.          *)
(***************************************************************************)
FetchOf(p) ==
    [loads |-> {[of |-> p, text |-> content[p]]},
     listings |-> {[of |-> p, tests |-> tests[p]]}]

Show(p) ==
    /\ page' = p
    /\ edit' = IF p.at # "edit" THEN NoEdit
               ELSE [NoEdit EXCEPT !.loads = FetchOf(p.id).loads,
                                   !.listings = FetchOf(p.id).listings]
    /\ form' = NoForm

Move == moves < MaxMoves /\ moves' = moves + 1

Unmounted(cs) == {[c EXCEPT !.live = FALSE] : c \in cs}

(* The dashboard opens on its first tab; its list of problems leads to the *)
(* pages that create and edit one, and these lead back.                    *)
Go(p) ==
    /\ page # p
    /\ p.at = "admin" => page.at = "admin" \/ p = Admin("dashboard")
    /\ p.at \in {"create", "edit"} => page = Admin("problems")
    /\ p.at = "edit" => \E v \in query["problems"].data : p.id \in v.rows
    /\ Move
    /\ Show(p)
    /\ Mounted(p)
    /\ calls' = Unmounted(calls)
    /\ UNCHANGED <<server, made, jumped, faults>>

(* The browser's history goes from the edit page of one problem to that of *)
(* another: the page stays mounted, its effects run for the new id.        *)
Elsewhere(p) ==
    /\ page' = p
    /\ edit' = [edit EXCEPT !.loads = @ \union FetchOf(p.id).loads,
                            !.listings = @ \union FetchOf(p.id).listings]
    /\ jumped' = TRUE
    /\ UNCHANGED form

Jump(p) ==
    /\ page.at = "edit" /\ page.id # p
    /\ p \in ids
    /\ Move
    /\ Elsewhere(EditPage(p))
    /\ UNCHANGED <<server, query, calls, made, overtaken, faults>>

(***************************************************************************)
(* Answers to what was fetched.                                            *)
(***************************************************************************)
ListArrives(k) ==
    /\ query[k].flight # {}
    /\ query' = [query EXCEPT ![k] = [data |-> query[k].flight, flight |-> {}]]
    /\ UNCHANGED <<server, page, edit, form, calls, made, overtaken, jumped, faults, moves>>

ListFails(k) ==
    /\ query[k].flight # {}
    /\ faults < MaxFaults
    /\ faults' = faults + 1
    /\ query' = [query EXCEPT ![k].flight = {}]
    /\ UNCHANGED <<server, page, edit, form, calls, made, overtaken, jumped, moves>>

Edited(e) ==
    /\ page.at = "edit"
    /\ edit' = e
    /\ UNCHANGED <<server, page, form, query, calls, made, overtaken, jumped, faults, moves>>

(* getById: the fields are those of the answer, whichever problem the page *)
(* is on by now; a problem that is gone leaves them as they are.           *)
LoadArrives(load) ==
    Edited([edit EXCEPT !.loads = @ \ {load}, !.loading = FALSE,
                        !.text = IF load.text = {} THEN @ ELSE load.text])

LoadFails(load) ==
    /\ page.at = "edit"
    /\ faults < MaxFaults
    /\ faults' = faults + 1
    /\ edit' = [edit EXCEPT !.loads = @ \ {load}, !.loading = FALSE]
    /\ UNCHANGED <<server, page, form, query, calls, made, overtaken, jumped, moves>>

ListingArrives(listing) ==
    /\ overtaken' = (overtaken \/ listing.tests # tests[listing.of])
    /\ edit' = [edit EXCEPT !.listings = @ \ {listing}, !.listed = listing.tests]
    /\ UNCHANGED <<server, page, form, query, calls, made, jumped, faults, moves>>

ListingFails(listing) ==
    /\ faults < MaxFaults
    /\ faults' = faults + 1
    /\ edit' = [edit EXCEPT !.listings = @ \ {listing}]
    /\ UNCHANGED <<server, page, form, query, calls, made, overtaken, jumped, moves>>

(***************************************************************************)
(* What the administrator does: fields and buttons.                        *)
(***************************************************************************)
EditFields ==
    /\ page.at = "edit" /\ ~edit.loading
    /\ edit.text = {}
    /\ Edited([edit EXCEPT !.text = {Scratch(page.id)}])

Fill ==
    /\ page.at = "create" \/ form.open
    /\ form' = [form EXCEPT !.filled = TRUE]
    /\ UNCHANGED <<server, page, edit, query, calls, made, overtaken, jumped, faults, moves>>

(* The button above the list of contests opens an empty form, or closes it.*)
ToggleForm ==
    /\ page = Admin("contests")
    /\ form' = [NoForm EXCEPT !.open = ~form.open, !.submitting = form.submitting]
    /\ UNCHANGED <<server, page, edit, query, calls, made, overtaken, jumped, faults, moves>>

Send(kind, p, text, test) ==
    /\ made < MaxCalls
    /\ made' = made + 1
    /\ calls' = calls \union {[n |-> made', kind |-> kind, of |-> p, text |-> text, test |-> test,
                               attempt |-> 1, stored |-> FALSE, live |-> TRUE]}
    /\ UNCHANGED <<server, page, query, overtaken, jumped, faults, moves>>

(* The page shows its fields once it is not loading, and saves what has a  *)
(* title and a description.                                                *)
Save ==
    /\ page.at = "edit" /\ ~edit.loading
    /\ edit.text # {} /\ ~edit.submitting
    /\ edit' = [edit EXCEPT !.submitting = TRUE]
    /\ Send("update", page.id, edit.text, ATestCase)
    /\ UNCHANGED form

AddTestCase ==
    /\ page.at = "edit" /\ ~edit.loading
    /\ ~edit.adding
    /\ edit' = [edit EXCEPT !.adding = TRUE]
    /\ Send("add", page.id, {}, ATestCase)
    /\ UNCHANGED form

DeleteTestCase(t) ==
    /\ page.at = "edit" /\ ~edit.loading
    /\ t \in edit.listed
    /\ Send("remove", page.id, {}, t)
    /\ UNCHANGED <<edit, form>>

CreateProblem ==
    /\ page.at = "create"
    /\ form.filled /\ ~form.submitting
    /\ form' = [form EXCEPT !.submitting = TRUE]
    /\ Send("create", AProblem, {}, ATestCase)
    /\ UNCHANGED edit

DeleteProblem(p) ==
    /\ page = Admin("problems")
    /\ \E v \in query["problems"].data : p \in v.rows
    /\ Send("delete", p, {}, ATestCase)
    /\ UNCHANGED <<edit, form>>

(* The select is disabled while a change is pending.                       *)
ChangeRole ==
    /\ page = Admin("users")
    /\ query["users"].data # {}
    /\ ~\E c \in calls : c.kind = "role" /\ c.live
    /\ Send("role", AProblem, {}, ATestCase)
    /\ UNCHANGED <<edit, form>>

CreateContest ==
    /\ page = Admin("contests")
    /\ form.open /\ form.filled /\ ~form.submitting
    /\ form' = [form EXCEPT !.submitting = TRUE]
    /\ Send("contest", AProblem, {}, ATestCase)
    /\ UNCHANGED edit

(***************************************************************************)
(* The server.                                                             *)
(***************************************************************************)
Applies(c) ==
    CASE c.kind = "update" -> Exists(c.of)
      [] c.kind = "add"    -> Exists(c.of) /\ testIds # TestCases
      [] c.kind = "remove" -> c.test \in tests[c.of]
      [] c.kind = "create" -> ids # Problems
      [] c.kind = "delete" -> Exists(c.of)
      [] c.kind = "role"   -> TRUE
      [] c.kind = "contest" -> contests < MaxContests

Effect(c) ==
    CASE c.kind = "update" -> content' = [content EXCEPT ![c.of] = c.text]
                              /\ UNCHANGED <<tests, role, contests>>
      [] c.kind = "add"    -> (\E t \in TestCases \ testIds :
                                 tests' = [tests EXCEPT ![c.of] = @ \union {t}])
                              /\ UNCHANGED <<content, role, contests>>
      [] c.kind = "remove" -> tests' = [tests EXCEPT ![c.of] = @ \ {c.test}]
                              /\ UNCHANGED <<content, role, contests>>
      [] c.kind = "create" -> content' = [content EXCEPT ![c.of] = {Written(c.of)}]
                              /\ UNCHANGED <<tests, role, contests>>
      [] c.kind = "delete" -> content' = [content EXCEPT ![c.of] = {}]
                              /\ tests' = [tests EXCEPT ![c.of] = {}]
                              /\ UNCHANGED <<role, contests>>
      [] c.kind = "role"   -> role' = ~role /\ UNCHANGED <<content, tests, contests>>
      [] c.kind = "contest" -> contests' = contests + 1
                              /\ UNCHANGED <<content, tests, role>>

Replace(c, d) == calls' = (calls \ {c}) \union {d}

(* A new problem, like a new test case, gets an id that none had.          *)
Store(c) ==
    /\ ~c.stored
    /\ Applies(c)
    /\ LET p == IF c.kind = "create" THEN CHOOSE q \in Problems : q \notin ids ELSE c.of
           d == [c EXCEPT !.of = p, !.stored = TRUE]
       IN  /\ Effect(d) /\ Replace(c, d)
           /\ ids' = ids \union {p} /\ testIds' = testIds \union tests'[p]
    /\ UNCHANGED <<page, edit, form, query, made, overtaken, jumped, faults, moves>>

(***************************************************************************)
(* The continuations of the calls.                                         *)
(***************************************************************************)
Settle(c) ==
    /\ c \in calls
    /\ UNCHANGED <<server, made, moves>>

(* The form that waits is released.                                        *)
Released(c) ==
    CASE c.kind = "update" -> edit' = [edit EXCEPT !.submitting = FALSE] /\ UNCHANGED form
      [] c.kind = "add" -> edit' = [edit EXCEPT !.adding = FALSE] /\ UNCHANGED form
      [] c.kind \in {"create", "contest"} ->
            form' = [form EXCEPT !.submitting = FALSE] /\ UNCHANGED edit
      [] OTHER -> UNCHANGED <<edit, form>>

Arrives(c) == c.stored /\ Settle(c) /\ UNCHANGED faults

(* Saving and creating lead to another page, wherever the user is by now.  *)
SavedOrCreated(c) ==
    /\ c.kind \in {"update", "create"}
    /\ Arrives(c)
    /\ LET p == IF c.kind = "update" THEN Admin("dashboard") ELSE EditPage(c.of) IN
       CASE page.at = p.at /\ (p.at = "admin" \/ page = p) ->
               /\ calls' = calls \ {c}
               /\ edit' = IF c.live THEN [edit EXCEPT !.submitting = FALSE] ELSE edit
               /\ UNCHANGED <<page, form, jumped>>
         [] page.at = p.at /\ p.at = "edit" /\ page # p ->
               /\ Elsewhere(p)
               /\ calls' = calls \ {c}
         [] page.at # p.at ->
               /\ Show(p)
               /\ calls' = Unmounted(calls \ {c})
               /\ UNCHANGED jumped
    /\ UNCHANGED <<query, overtaken>>

(* A page that was left and opened again does not learn of the change that *)
(* was made from it before.                                                *)
Unnoticed(c) == overtaken' = (overtaken \/ (~c.live /\ page = EditPage(c.of)))

(* Mutation: the list is not fetched again.                                *)
AddedUnseen(c) ==
    /\ c.kind = "add"
    /\ Arrives(c)
    /\ calls' = calls \ {c}
    /\ edit' = IF c.live THEN [edit EXCEPT !.adding = FALSE] ELSE edit
    /\ Unnoticed(c)
    /\ UNCHANGED <<page, form, query, jumped>>

(* A test case was added: the list is fetched again, beside any fetch that *)
(* is under way.                                                           *)
Added(c) ==
    /\ c.kind = "add"
    /\ Arrives(c)
    /\ calls' = calls \ {c}
    /\ edit' = IF ~c.live THEN edit
               ELSE [edit EXCEPT !.adding = FALSE,
                        !.listings = @ \union {[of |-> c.of, tests |-> tests[c.of]]}]
    /\ Unnoticed(c)
    /\ UNCHANGED <<page, form, query, jumped>>

(* A test case was removed: it is struck from the list on screen.          *)
Removed(c) ==
    /\ c.kind = "remove"
    /\ Arrives(c)
    /\ calls' = calls \ {c}
    /\ edit' = IF c.live THEN [edit EXCEPT !.listed = @ \ {c.test}] ELSE edit
    /\ Unnoticed(c)
    /\ UNCHANGED <<page, form, query, jumped>>

ListOf(c) == CASE c.kind = "delete" -> "problems"
               [] c.kind = "role" -> "users"
               [] c.kind = "contest" -> "contests"

(* Mutation: the list is fetched again only by the tab that is still there.*)
ListChangedWhileShown(c) ==
    /\ c.kind \in {"delete", "role", "contest"}
    /\ Arrives(c)
    /\ calls' = calls \ {c}
    /\ query' = IF c.live THEN Refetched(ListOf(c)) ELSE query
    /\ overtaken' = (overtaken \/ query'[ListOf(c)].flight \notin {{}, {Value(ListOf(c))}})
    /\ form' = IF c.live /\ c.kind = "contest" THEN NoForm ELSE form
    /\ UNCHANGED <<page, edit, jumped>>

(* A change of a list: it is fetched again; the contest form is emptied.   *)
ListChanged(c) ==
    /\ c.kind \in {"delete", "role", "contest"}
    /\ Arrives(c)
    /\ calls' = calls \ {c}
    /\ query' = IF c.kind = "role" THEN Invalidated("users") ELSE Refetched(ListOf(c))
    /\ overtaken' = (overtaken \/ query'[ListOf(c)].flight \notin {{}, {Value(ListOf(c))}})
    /\ form' = IF c.live /\ c.kind = "contest" THEN NoForm ELSE form
    /\ UNCHANGED <<page, edit, jumped>>

(* 4xx: there is nothing to update or delete.  Nothing is fetched again.   *)
Refuse(c) ==
    /\ ~c.stored /\ ~Applies(c)
    /\ Settle(c)
    /\ calls' = calls \ {c}
    /\ IF c.live THEN Released(c) ELSE UNCHANGED <<edit, form>>
    /\ UNCHANGED <<page, query, overtaken, faults, jumped>>

(* The answer is lost: the client tries again, also what was carried out,  *)
(* and reports an error in the end.                                        *)
Lose(c) ==
    /\ faults < MaxFaults
    /\ faults' = faults + 1
    /\ Settle(c)
    /\ IF c.attempt < MaxAttempts
       THEN /\ Replace(c, [c EXCEPT !.attempt = @ + 1, !.stored = FALSE])
            /\ UNCHANGED <<edit, form>>
       ELSE /\ calls' = calls \ {c}
            /\ IF c.live THEN Released(c) ELSE UNCHANGED <<edit, form>>
    /\ UNCHANGED <<page, query, overtaken, jumped>>

Next ==
    \/ \E p \in Page : Go(p)
    \/ \E p \in Problems : Jump(p) \/ DeleteProblem(p)
    \/ \E k \in Lists : ListArrives(k) \/ ListFails(k)
    \/ \E load \in edit.loads : LoadArrives(load) \/ LoadFails(load)
    \/ \E listing \in edit.listings : ListingArrives(listing) \/ ListingFails(listing)
    \/ EditFields \/ Fill \/ ToggleForm
    \/ Save \/ AddTestCase \/ CreateProblem \/ ChangeRole \/ CreateContest
    \/ \E t \in TestCases : DeleteTestCase(t)
    \/ \E c \in calls :
          \/ Store(c) \/ Refuse(c) \/ Lose(c)
          \/ SavedOrCreated(c) \/ Added(c) \/ Removed(c) \/ ListChanged(c)

Spec == Init /\ [][Next]_vars
=============================================================================
