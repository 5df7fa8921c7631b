---------------------- MODULE AdministrationProperties ----------------------
(***************************************************************************)
(* What an administrator may rely on, on the pages of Administration.      *)
(***************************************************************************)
EXTENDS Administration

TypeOK ==
    /\ content \in [Problems -> Slot(Text)]
    /\ ids \subseteq Problems
    /\ tests \in [Problems -> SUBSET TestCases]
    /\ testIds \subseteq TestCases
    /\ role \in BOOLEAN
    /\ contests \in 0..MaxContests
    /\ page \in Page
    /\ edit \in Edit
    /\ form \in Form
    /\ query \in [Lists -> Query]
    /\ calls \subseteq Call
    /\ made \in 0..MaxCalls
    /\ moves \in 0..MaxMoves
    /\ overtaken \in BOOLEAN /\ jumped \in BOOLEAN
    /\ faults \in 0..MaxFaults

(* The fields of the edit page are those of the problem it edits, and what *)
(* is saved under a problem was loaded from it or typed for it, unless the *)
(* page went from one problem to another while it stayed mounted.  And a   *)
(* problem is written over from scratch only after an answer was lost: the *)
(* page shows its empty fields when loading failed (AdminEditProblemPage). *)
FormsAreOfTheirProblem ==
    /\ TypeOK
    /\ jumped
       \/ /\ \A t \in edit.text : page = EditPage(t.of)
          /\ \A p \in Problems : \A t \in content[p] :
                t.of = p /\ (t.how = "scratch" => faults > 0)

(* With nothing under way, the edit page lists the test cases its problem  *)
(* has.  It refetches after an addition and strikes out what was deleted;  *)
(* only an answer read before a change and shown after it, a page that was *)
(* left before its change was answered or changed its problem in place, or *)
(* a lost answer explains a difference.                                    *)
ListedTestsExist ==
    \/ page.at # "edit" \/ edit.listings # {} \/ calls # {}
    \/ overtaken \/ jumped \/ faults > 0
    \/ Exists(page.id) => edit.listed = tests[page.id]

(* With nothing under way, the lists on a tab of the dashboard show what   *)
(* is stored: every change refetches its list, also when the tab that made *)
(* it is gone (AdminDashboard, useAdmin, useProblems, useContests).        *)
ListsAreCurrent ==
    \/ calls # {} \/ overtaken \/ faults > 0
    \/ \A k \in ListsOf(page) :
          query[k].flight # {} \/ query[k].data = {Value(k)}

-----------------------------------------------------------------------------
(* What makes these inductive.                                             *)

(* What is shown, or was created, has an id that was given; an update has  *)
(* a text to store.                                                        *)
IdsInv ==
    /\ \A p \in Problems : (Exists(p) => p \in ids) /\ tests[p] \subseteq testIds
    /\ query["problems"].data \union query["problems"].flight \subseteq [rows : SUBSET ids]
    /\ page.at = "edit" => page.id \in ids
    /\ \A c \in calls : /\ c.kind = "create" /\ c.stored => c.of \in ids
                        /\ (c.kind = "update") <=> (c.text # {})

(* A text that is on its way was typed from scratch only if the one before *)
(* could not be loaded, or if its problem is gone and will not be back.    *)
HasCause(t) == t.how = "scratch" => faults > 0 \/ (t.of \in ids /\ ~Exists(t.of))
FormInv ==
    jumped
    \/ /\ \A t \in edit.text : page = EditPage(t.of) /\ HasCause(t)
       /\ \A l \in edit.loads :
             /\ page = EditPage(l.of)
             /\ l.text = {} => ~Exists(l.of)
             /\ \A t \in l.text : t.of = l.of /\ HasCause(t)
       /\ page.at = "edit" /\ ~edit.loading /\ edit.text = {} => faults > 0 \/ ~Exists(page.id)
       /\ \A c \in calls : \A t \in c.text : t.of = c.of /\ HasCause(t)
       /\ \A p \in Problems : \A t \in content[p] : t.of = p /\ (t.how = "scratch" => faults > 0)

(* Unless an addition is still to be answered, the list on screen has every *)
(* test case, and nothing else but those whose removal is.                 *)
Answering(kind, p) == {c \in calls : c.kind = kind /\ c.stored /\ c.of = p}
Listed ==
    /\ \A c \in calls : c.live /\ c.kind \in {"add", "remove"} => page = EditPage(c.of)
    /\ \A l \in edit.listings : page = EditPage(l.of)
    /\ \A p \in Problems : \A c \in Answering("remove", p) : c.test \in testIds \ tests[p]
    /\ page.at = "edit" /\ Exists(page.id) /\ edit.listings = {}
         /\ Answering("add", page.id) = {} =>
           /\ tests[page.id] \subseteq edit.listed
           /\ edit.listed \ tests[page.id] \subseteq {c.test : c \in Answering("remove", page.id)}
ListInv == overtaken \/ jumped \/ faults > 0 \/ Listed

(* Unless a change is still to be answered, a list that is on screen, or   *)
(* that will not be fetched when it is next, is up to date.                *)
Changes(k) == CASE k = "users"    -> {"role"}
                [] k = "problems" -> {"create", "delete"}
                [] k = "contests" -> {"contest"}
Pending(k) == \E c \in calls : c.stored /\ c.kind \in Changes(k)
Current(k) ==
    /\ k # "problems" \/ k \in ListsOf(page) =>
          /\ query[k].flight \subseteq {Value(k)}
          /\ query[k].flight = {} => query[k].data \subseteq {Value(k)}
    /\ k \in ListsOf(page) => query[k].data \union query[k].flight # {}
QueryInv == overtaken \/ faults > 0 \/ \A k \in Lists : Pending(k) \/ Current(k)
=============================================================================
