------------------------ MODULE AdministrationProofs ------------------------
(***************************************************************************)
(* Proofs about the pages of an administrator: fields are saved under the  *)
(* problem they were loaded from, and the lists come to show what is       *)
(* stored, for any number of problems, test cases, calls, moves and faults.*)
(***************************************************************************)
EXTENDS AdministrationProperties, TLAPS

(* The state of the pages.                                                 *)
LEMMA SlotMember == \A S, x : {} \in Slot(S) /\ (x \in S => {x} \in Slot(S))
BY DEF Slot

LEMMA EmptyEdit == NoEdit \in Edit
<1>1. {} \in Slot(Text)
  BY SlotMember
<1> QED BY <1>1 DEF NoEdit, Edit

(* What the fetches of the edit page bring.                                *)
LEMMA FetchType ==
  ASSUME TypeOK, NEW p \in Problems
  PROVE  FetchOf(p).loads \subseteq Load /\ FetchOf(p).listings \subseteq Listing
<1>1. content[p] \in Slot(Text) /\ tests[p] \in SUBSET TestCases
  BY DEF TypeOK
<1> QED BY <1>1 DEF FetchOf, Load, Listing

LEMMA PageCases ==
  ASSUME NEW p \in Page
  PROVE  /\ \/ p.at = "admin" /\ p.tab \in Tabs /\ p = Admin(p.tab)
            \/ p.at = "edit" /\ p.id \in Problems /\ p = EditPage(p.id)
            \/ p.at \in {"create", "other"}
BY DEF Page, Admin, EditPage

LEMMA PagesAre ==
  /\ \A t \in Tabs : Admin(t) \in Page /\ Admin(t).at = "admin" /\ Admin(t).tab = t
  /\ \A q \in Problems : EditPage(q) \in Page /\ EditPage(q).at = "edit" /\ EditPage(q).id = q
BY DEF Page, Admin, EditPage

(* A page that is opened, and an edit page that changes its problem in     *)
(* place.                                                                  *)
LEMMA ShowTypes ==
  ASSUME TypeOK, NEW p \in Page, Show(p)
  PROVE  page' \in Page /\ edit' \in Edit /\ form' \in Form
         /\ (p.at # "edit" => edit' = NoEdit)
         /\ (p.at = "edit" => /\ edit'.loads = FetchOf(p.id).loads
                              /\ edit'.listings = FetchOf(p.id).listings
                              /\ edit'.text = {} /\ edit'.loading)
<1>1. form' \in Form /\ page' \in Page
  BY DEF Show, NoForm, Form
<1>2. CASE p.at # "edit"
  BY <1>1, <1>2, EmptyEdit DEF Show
<1>3. CASE p.at = "edit"
  <2> DEFINE ls == FetchOf(p.id).loads
             gs == FetchOf(p.id).listings
  <2>1. ls \subseteq Load /\ gs \subseteq Listing
    BY <1>3, FetchType, PageCases
  <2>2. edit' = [NoEdit EXCEPT !.loads = ls, !.listings = gs]
    BY <1>3 DEF Show
  <2> HIDE DEF ls, gs
  <2>3. edit' = [loading |-> TRUE, submitting |-> FALSE, adding |-> FALSE, text |-> {},
                 listed |-> {}, loads |-> ls, listings |-> gs]
    BY <2>2 DEF NoEdit
  <2>4. {} \in Slot(Text)
    BY SlotMember
  <2>5. edit' \in Edit
    BY <2>1, <2>3, <2>4 DEF Edit
  <2>6. edit'.loads = ls /\ edit'.listings = gs /\ edit'.text = {} /\ edit'.loading
    BY <2>3
  <2> QED BY <1>1, <1>3, <2>5, <2>6 DEF ls, gs
<1> QED BY <1>2, <1>3

LEMMA ElsewhereTypes ==
  ASSUME TypeOK, NEW p \in Problems, Elsewhere(EditPage(p))
  PROVE  page' \in Page /\ edit' \in Edit /\ form' \in Form /\ jumped'
<1> DEFINE ls == FetchOf(p).loads
           gs == FetchOf(p).listings
<1>1. ls \subseteq Load /\ gs \subseteq Listing
  BY FetchType
<1>2. page' = EditPage(p) /\ form' = form /\ jumped'
      /\ edit' = [edit EXCEPT !.loads = @ \union ls, !.listings = @ \union gs]
  BY PagesAre DEF Elsewhere
<1> HIDE DEF ls, gs
<1>3. edit' \in Edit
  BY <1>1, <1>2 DEF TypeOK, Edit
<1> QED BY <1>2, <1>3, PagesAre DEF TypeOK

-----------------------------------------------------------------------------
(* The lists of the dashboard in the query cache.                          *)
LEMMA ValueType ==
  ASSUME TypeOK, NEW k \in Lists
  PROVE  {Value(k)} \in Slot(Values)
<1>1. Value(k) \in Values
  BY DEF TypeOK, Value, Values, Lists
<1> QED BY <1>1, SlotMember

LEMMA EmptyQuery == NoQuery \in Query
<1>1. {} \in Slot(Values)
  BY SlotMember
<1> QED BY <1>1 DEF NoQuery, Query

LEMMA FetchOfList ==
  ASSUME TypeOK, NEW k \in Lists
  PROVE  LET f == [query[k] EXCEPT !.flight = {Value(k)}]
         IN  f \in Query /\ f.flight = {Value(k)} /\ f.data = query[k].data
<1> DEFINE v == {Value(k)}
<1>1. v \in Slot(Values) /\ query[k] \in Query
  BY ValueType DEF TypeOK
<1> HIDE DEF v
<1>2. LET f == [query[k] EXCEPT !.flight = v] IN f \in Query /\ f.flight = v /\ f.data = query[k].data
  BY <1>1 DEF Query
<1> QED BY <1>2 DEF v

LEMMA MountedTypes ==
  ASSUME TypeOK, NEW p, Mounted(p)
  PROVE  /\ query' \in [Lists -> Query] /\ overtaken' \in BOOLEAN
         /\ \A k \in Lists :
              /\ query'[k].data = query[k].data
              /\ query'[k].flight \in {query[k].flight, {Value(k)}}
              /\ k \in ListsOf(p) /\ query[k].flight = {} /\ (k = "problems" \/ query[k].data = {})
                   => query'[k].flight = {Value(k)}
         /\ overtaken' = (overtaken \/ \E k \in ListsOf(p) : query'[k].flight \notin {{}, {Value(k)}})
<1> DEFINE fetched(k) == [query[k] EXCEPT !.flight = {Value(k)}]
<1>1. \A k \in Lists : /\ fetched(k) \in Query /\ fetched(k).flight = {Value(k)}
                       /\ fetched(k).data = query[k].data /\ query[k] \in Query
  BY FetchOfList DEF TypeOK
<1>2. PICK old \in BOOLEAN :
        query' = [k \in Lists |->
           IF k \in ListsOf(p) /\ query[k].flight = {}
                /\ (old \/ k = "problems" \/ query[k].data = {})
           THEN fetched(k) ELSE query[k]]
  BY DEF Mounted
<1>3. overtaken' = (overtaken \/ \E k \in ListsOf(p) : query'[k].flight \notin {{}, {Value(k)}})
  BY DEF Mounted
<1> HIDE DEF fetched
<1>4. \A k \in Lists :
        /\ query'[k] \in {query[k], fetched(k)}
        /\ k \in ListsOf(p) /\ query[k].flight = {} /\ (k = "problems" \/ query[k].data = {})
             => query'[k] = fetched(k)
  BY <1>2
<1>5. query' \in [Lists -> Query]
  BY <1>1, <1>2
<1>6. overtaken' \in BOOLEAN
  BY <1>3 DEF TypeOK
<1> QED BY <1>1, <1>3, <1>4, <1>5, <1>6

(* A list that is fetched again, or marked to be.                          *)
LEMMA RefetchedTypes ==
  ASSUME TypeOK, NEW k \in Lists
  PROVE  /\ Refetched(k) \in [Lists -> Query]
         /\ \A j \in Lists : j # k => Refetched(k)[j] = query[j]
         /\ \/ Refetched(k) = query /\ query[k].flight # {}
            \/ Refetched(k)[k].flight = {Value(k)} /\ Refetched(k)[k].data = query[k].data
<1> DEFINE f == [query[k] EXCEPT !.flight = {Value(k)}]
<1>1. f \in Query /\ f.flight = {Value(k)} /\ f.data = query[k].data /\ query \in [Lists -> Query]
  BY FetchOfList DEF TypeOK
<1>2. Refetched(k) = IF query[k].flight # {} /\ query[k].data = {} THEN query
                     ELSE [query EXCEPT ![k] = f]
  BY DEF Refetched, TypeOK
<1> HIDE DEF f
<1> QED BY <1>1, <1>2

LEMMA InvalidatedTypes ==
  ASSUME TypeOK, NEW k \in Lists
  PROVE  /\ Invalidated(k) \in [Lists -> Query]
         /\ \A j \in Lists : j # k => Invalidated(k)[j] = query[j]
         /\ \/ Invalidated(k) = query /\ query[k].flight # {}
            \/ Invalidated(k)[k].flight = {Value(k)} /\ Invalidated(k)[k].data = query[k].data
            \/ Invalidated(k)[k] = NoQuery /\ k \notin ListsOf(page)
<1>1. CASE k \in ListsOf(page)
  BY <1>1, RefetchedTypes DEF Invalidated
<1>2. CASE k \notin ListsOf(page)
  BY <1>2, EmptyQuery DEF Invalidated, TypeOK
<1> QED BY <1>1, <1>2

(* The calls.                                                              *)
LEMMA SomeOfEach == AProblem \in Problems /\ ATestCase \in TestCases
BY AdministrationAssumption DEF AProblem, ATestCase

LEMMA CallsOfLeftPage ==
  ASSUME NEW cs, cs \subseteq Call
  PROVE  /\ Unmounted(cs) \subseteq Call
         /\ \A u \in Unmounted(cs) : ~u.live /\ \E c \in cs : u = [c EXCEPT !.live = FALSE]
         /\ \A c \in cs : [c EXCEPT !.live = FALSE] \in Unmounted(cs)
         /\ \A c \in cs : LET u == [c EXCEPT !.live = FALSE] IN
              /\ u.kind = c.kind /\ u.of = c.of /\ u.text = c.text /\ u.test = c.test
              /\ u.stored = c.stored
BY DEF Unmounted, Call

(* What was sent, and what becomes of it.                                  *)
LEMMA SentCall ==
  ASSUME TypeOK, NEW kind \in Kinds, NEW p \in Problems, NEW text \in Slot(Text),
         NEW test \in TestCases, Send(kind, p, text, test)
  PROVE  /\ made' \in 0..MaxCalls /\ calls' \subseteq Call
         /\ \E x \in Call : /\ x.kind = kind /\ x.of = p /\ x.text = text /\ x.test = test
                            /\ ~x.stored /\ x.live /\ calls' = calls \union {x}
<1> DEFINE x == [n |-> made', kind |-> kind, of |-> p, text |-> text, test |-> test,
                 attempt |-> 1, stored |-> FALSE, live |-> TRUE]
<1>1. made' \in 1..MaxCalls /\ calls' = calls \union {x} /\ 1 \in 1..MaxAttempts
  BY AdministrationAssumption DEF Send, TypeOK
<1>2. x \in Call
  BY <1>1 DEF Call
<1>3. /\ x.kind = kind /\ x.of = p /\ x.text = text /\ x.test = test
      /\ ~x.stored /\ x.live
  OBVIOUS
<1> HIDE DEF x
<1> QED BY <1>1, <1>2, <1>3 DEF TypeOK

(* A call that is carried out, and one that is tried again.                *)
LEMMA StoredCall ==
  ASSUME NEW c \in Call, NEW p \in Problems
  PROVE  LET d == [c EXCEPT !.of = p, !.stored = TRUE]
         IN  /\ d \in Call /\ d.kind = c.kind /\ d.of = p /\ d.text = c.text /\ d.test = c.test
             /\ d.stored /\ d.live = c.live
BY DEF Call

LEMMA RetriedCall ==
  ASSUME NEW c \in Call, c.attempt < MaxAttempts
  PROVE  LET d == [c EXCEPT !.attempt = @ + 1, !.stored = FALSE]
         IN  d \in Call /\ d.kind = c.kind /\ d.of = c.of /\ d.text = c.text /\ d.test = c.test
             /\ ~d.stored /\ d.live = c.live
<1> DEFINE a == c.attempt + 1
           d == [c EXCEPT !.attempt = a, !.stored = FALSE]
<1>1. a \in 1..MaxAttempts
  BY AdministrationAssumption DEF Call
<1>2. [c EXCEPT !.attempt = @ + 1, !.stored = FALSE] = d
  BY DEF Call
<1> HIDE DEF a
<1>3. d \in Call /\ d.kind = c.kind /\ d.of = c.of /\ d.text = c.text /\ d.test = c.test
      /\ ~d.stored /\ d.live = c.live
  BY <1>1 DEF Call
<1> QED BY <1>2, <1>3

(* What the server does with a call.                                       *)
LEMMA StoreTypes ==
  ASSUME TypeOK, NEW c \in calls, Store(c)
  PROVE  /\ content' \in [Problems -> Slot(Text)] /\ tests' \in [Problems -> SUBSET TestCases]
         /\ role' \in BOOLEAN /\ contests' \in 0..MaxContests
         /\ \E d \in Call :
              /\ d.kind = c.kind /\ d.text = c.text /\ d.test = c.test /\ d.stored /\ d.live = c.live
              /\ IF c.kind = "create" THEN d.of \notin ids ELSE d.of = c.of
              /\ calls' = (calls \ {c}) \union {d}
              /\ Effect(d) /\ ids' = ids \union {d.of} /\ testIds' = testIds \union tests'[d.of]
              /\ d.of \in Problems
<1> DEFINE p == IF c.kind = "create" THEN CHOOSE q \in Problems : q \notin ids ELSE c.of
           d == [c EXCEPT !.of = p, !.stored = TRUE]
<1>1. c \in Call
  BY DEF TypeOK
<1>2. p \in Problems /\ IF c.kind = "create" THEN p \notin ids ELSE p = c.of
  <2>1. CASE c.kind = "create"
    <3>1. ids # Problems /\ ids \subseteq Problems
      BY <2>1 DEF Store, Applies, TypeOK
    <3>2. \E q \in Problems : q \notin ids
      BY <3>1
    <3> QED BY <2>1, <3>2
  <2>2. CASE c.kind # "create"
    BY <1>1, <2>2 DEF Call
  <2> QED BY <2>1, <2>2
<1>3. /\ Effect(d) /\ calls' = (calls \ {c}) \union {d}
      /\ ids' = ids \union {p} /\ testIds' = testIds \union tests'[p]
  BY DEF Store, Replace
<1> HIDE DEF p
<1>4. /\ d \in Call /\ d.kind = c.kind /\ d.text = c.text /\ d.test = c.test /\ d.stored
      /\ d.live = c.live /\ d.of = p
  BY <1>1, <1>2, StoredCall
<1> HIDE DEF d
<1>5. d.kind \in Kinds /\ d.of \in Problems /\ d.text \in Slot(Text) /\ d.test \in TestCases
  BY <1>4 DEF Call
<1>6. {Written(d.of)} \in Slot(Text) /\ {} \in Slot(Text)
  BY <1>5, SlotMember DEF Written, Text
<1>7. contests \in 0..MaxContests /\ (d.kind = "contest" => contests < MaxContests)
  BY <1>4 DEF Store, Applies, TypeOK
<1>8. /\ content \in [Problems -> Slot(Text)] /\ tests \in [Problems -> SUBSET TestCases]
      /\ role \in BOOLEAN
  BY DEF TypeOK
<1>9. content' \in [Problems -> Slot(Text)] /\ tests' \in [Problems -> SUBSET TestCases]
      /\ role' \in BOOLEAN /\ contests' \in 0..MaxContests
  <2>1. CASE d.kind = "update"
    BY <1>3, <1>5, <1>7, <1>8, <2>1 DEF Effect
  <2>2. CASE d.kind = "add"
    <3>1. PICK t \in TestCases \ testIds : tests' = [tests EXCEPT ![d.of] = @ \union {t}]
      BY <1>3, <2>2 DEF Effect
    <3>2. UNCHANGED <<content, role, contests>>
      BY <1>3, <2>2 DEF Effect
    <3>3. tests' \in [Problems -> SUBSET TestCases]
      BY <1>5, <1>8, <3>1
    <3> QED BY <1>7, <1>8, <3>2, <3>3
  <2>3. CASE d.kind = "remove"
    BY <1>3, <1>5, <1>7, <1>8, <2>3 DEF Effect
  <2>4. CASE d.kind = "create"
    BY <1>3, <1>5, <1>6, <1>7, <1>8, <2>4 DEF Effect
  <2>5. CASE d.kind = "delete"
    BY <1>3, <1>5, <1>6, <1>7, <1>8, <2>5 DEF Effect
  <2>6. CASE d.kind = "role"
    BY <1>3, <1>5, <1>7, <1>8, <2>6 DEF Effect
  <2>7. CASE d.kind = "contest"
    BY <1>3, <1>5, <1>7, <1>8, <2>7, AdministrationAssumption DEF Effect
  <2> QED BY <1>5, <2>1, <2>2, <2>3, <2>4, <2>5, <2>6, <2>7 DEF Kinds
<1> QED BY <1>2, <1>3, <1>4, <1>9

(* The form that waits is released.                                        *)
LEMMA ReleasedTypes ==
  ASSUME TypeOK, NEW c, Released(c)
  PROVE  /\ form' \in Form /\ edit' \in Edit
         /\ edit'.text = edit.text /\ edit'.loading = edit.loading /\ edit'.loads = edit.loads
         /\ edit'.listings = edit.listings /\ edit'.listed = edit.listed
<1>1. form \in Form /\ edit \in Edit
  BY DEF TypeOK
<1>2. CASE UNCHANGED <<form, edit>>
  BY <1>1, <1>2
<1>3. CASE form' = form /\ edit' = [edit EXCEPT !.submitting = FALSE]
  BY <1>1, <1>3 DEF Edit
<1>4. CASE form' = form /\ edit' = [edit EXCEPT !.adding = FALSE]
  BY <1>1, <1>4 DEF Edit
<1>5. CASE form' = [form EXCEPT !.submitting = FALSE] /\ edit' = edit
  BY <1>1, <1>5 DEF Form
<1> QED BY <1>2, <1>3, <1>4, <1>5 DEF Released

(* Types.                                                                  *)
LEMMA InitHasTypes == Init => TypeOK
<1> SUFFICES ASSUME Init PROVE TypeOK
  OBVIOUS
<1> USE AdministrationAssumption
<1>1. content \in [Problems -> Slot(Text)] /\ ids \subseteq Problems
  <2>1. {Written(AProblem)} \in Slot(Text) /\ {} \in Slot(Text) /\ AProblem \in Problems
    BY SomeOfEach, SlotMember DEF Written, Text
  <2> QED BY <2>1 DEF Init
<1>2. page \in Page /\ edit \in Edit /\ form \in Form
  BY EmptyEdit, PagesAre DEF Init, Tabs, NoForm, Form
<1>3. query \in [Lists -> Query]
  BY EmptyQuery DEF Init
<1>4. /\ contests \in 0..MaxContests /\ made \in 0..MaxCalls /\ moves \in 0..MaxMoves
      /\ faults \in 0..MaxFaults
  <2>1. contests = 0 /\ made = 0 /\ moves = 0 /\ faults = 0
    BY DEF Init
  <2>2. \A m \in Nat : 0 \in 0..m
    OBVIOUS
  <2> QED BY <2>1, <2>2
<1>5. tests \in [Problems -> SUBSET TestCases]
  BY DEF Init
<1> QED BY <1>1, <1>2, <1>3, <1>4, <1>5 DEF Init, TypeOK

LEMMA ArrivedQuery ==
  ASSUME TypeOK, NEW k \in Lists
  PROVE  /\ [query EXCEPT ![k] = [data |-> query[k].flight, flight |-> {}]] \in [Lists -> Query]
         /\ [query EXCEPT ![k].flight = {}] \in [Lists -> Query]
         /\ \A j \in Lists : [query EXCEPT ![k].flight = {}][j].data = query[j].data
         /\ \A j \in Lists : [query EXCEPT ![k].flight = {}][j].flight \in {{}, query[j].flight}
<1> DEFINE a == [data |-> query[k].flight, flight |-> {}]
           b == [query[k] EXCEPT !.flight = {}]
<1>1. {} \in Slot(Values) /\ query \in [Lists -> Query]
  BY SlotMember DEF TypeOK
<1>2. a \in Query /\ b \in Query /\ b.data = query[k].data /\ b.flight = {}
  BY <1>1 DEF Query
<1>3. [query EXCEPT ![k].flight = {}] = [query EXCEPT ![k] = b]
  BY <1>1
<1> HIDE DEF b
<1>4. /\ [query EXCEPT ![k] = b] \in [Lists -> Query]
      /\ \A j \in Lists : /\ [query EXCEPT ![k] = b][j].data = query[j].data
                         /\ [query EXCEPT ![k] = b][j].flight \in {{}, query[j].flight}
  BY <1>1, <1>2
<1>5. [query EXCEPT ![k] = a] \in [Lists -> Query]
  <2> HIDE DEF a
  <2> QED BY <1>1, <1>2
<1> QED BY <1>3, <1>4, <1>5

(* What an answer to a fetch of the edit page does to it.                  *)
LEMMA LoadedEdit ==
  ASSUME TypeOK, NEW load \in edit.loads
  PROVE  /\ LET e == [edit EXCEPT !.loads = @ \ {load}, !.loading = FALSE,
                                  !.text = IF load.text = {} THEN @ ELSE load.text]
            IN  /\ e \in Edit /\ e.loads = edit.loads \ {load} /\ ~e.loading
                /\ e.text = IF load.text = {} THEN edit.text ELSE load.text
                /\ e.listings = edit.listings /\ e.listed = edit.listed
         /\ LET e == [edit EXCEPT !.loads = @ \ {load}, !.loading = FALSE]
            IN  /\ e \in Edit /\ e.loads = edit.loads \ {load} /\ ~e.loading
                /\ e.text = edit.text
                /\ e.listings = edit.listings /\ e.listed = edit.listed
<1> DEFINE ls == edit.loads \ {load}
           x == IF load.text = {} THEN edit.text ELSE load.text
<1>1. edit \in Edit /\ ls \subseteq Load /\ x \in Slot(Text)
  BY DEF TypeOK, Edit, Load
<1>2. /\ [edit EXCEPT !.loads = @ \ {load}, !.loading = FALSE,
                      !.text = IF load.text = {} THEN @ ELSE load.text]
           = [edit EXCEPT !.loads = ls, !.loading = FALSE, !.text = x]
      /\ [edit EXCEPT !.loads = @ \ {load}, !.loading = FALSE]
           = [edit EXCEPT !.loads = ls, !.loading = FALSE]
  BY <1>1 DEF Edit
<1>3. edit = [loading |-> edit.loading, submitting |-> edit.submitting, adding |-> edit.adding,
              text |-> edit.text, listed |-> edit.listed, loads |-> edit.loads,
              listings |-> edit.listings]
  BY <1>1 DEF Edit
<1> HIDE DEF ls, x
<1>4. /\ LET e == [edit EXCEPT !.loads = ls, !.loading = FALSE, !.text = x]
         IN  /\ e \in Edit /\ e.loads = ls /\ ~e.loading /\ e.text = x
             /\ e.listings = edit.listings /\ e.listed = edit.listed
      /\ LET e == [edit EXCEPT !.loads = ls, !.loading = FALSE]
         IN  /\ e \in Edit /\ e.loads = ls /\ ~e.loading /\ e.text = edit.text
             /\ e.listings = edit.listings /\ e.listed = edit.listed
  BY <1>1 DEF Edit
<1> QED BY <1>2, <1>4 DEF ls, x

LEMMA ListedEdit ==
  ASSUME TypeOK, NEW l \in edit.listings
  PROVE  /\ LET e == [edit EXCEPT !.listings = @ \ {l}, !.listed = l.tests]
            IN  /\ e \in Edit /\ e.loads = edit.loads /\ e.loading = edit.loading
                /\ e.text = edit.text
                /\ e.listings = edit.listings \ {l} /\ e.listed = l.tests
         /\ LET e == [edit EXCEPT !.listings = @ \ {l}]
            IN  /\ e \in Edit /\ e.loads = edit.loads /\ e.loading = edit.loading
                /\ e.text = edit.text
                /\ e.listings = edit.listings \ {l} /\ e.listed = edit.listed
<1> DEFINE gs == edit.listings \ {l}
           x == l.tests
<1>1. edit \in Edit /\ gs \subseteq Listing /\ x \in SUBSET TestCases
  BY DEF TypeOK, Edit, Listing
<1>2. /\ [edit EXCEPT !.listings = @ \ {l}, !.listed = l.tests]
           = [edit EXCEPT !.listings = gs, !.listed = x]
      /\ [edit EXCEPT !.listings = @ \ {l}] = [edit EXCEPT !.listings = gs]
  BY <1>1 DEF Edit
<1> HIDE DEF gs, x
<1>3. /\ LET e == [edit EXCEPT !.listings = gs, !.listed = x]
         IN  /\ e \in Edit /\ e.loads = edit.loads /\ e.loading = edit.loading
             /\ e.text = edit.text /\ e.listings = gs /\ e.listed = x
      /\ LET e == [edit EXCEPT !.listings = gs]
         IN  /\ e \in Edit /\ e.loads = edit.loads /\ e.loading = edit.loading
             /\ e.text = edit.text /\ e.listings = gs /\ e.listed = edit.listed
  BY <1>1 DEF Edit
<1> QED BY <1>2, <1>3 DEF gs, x

(* Fields of the edit page that are set without its lists and fetches.     *)
LEMMA ButtonEdit ==
  ASSUME TypeOK, NEW e \in {[edit EXCEPT !.submitting = TRUE], [edit EXCEPT !.adding = TRUE],
                            [edit EXCEPT !.submitting = FALSE], edit}
  PROVE  /\ e \in Edit /\ e.loads = edit.loads /\ e.loading = edit.loading
         /\ e.text = edit.text /\ e.listings = edit.listings /\ e.listed = edit.listed
BY DEF TypeOK, Edit

LEMMA TypedEdit ==
  ASSUME TypeOK, NEW p \in Problems
  PROVE  LET e == [edit EXCEPT !.text = {Scratch(p)}]
         IN  /\ e \in Edit /\ e.loads = edit.loads /\ e.loading = edit.loading
             /\ e.text = {Scratch(p)} /\ e.listings = edit.listings /\ e.listed = edit.listed
<1> DEFINE x == {Scratch(p)}
<1>1. x \in Slot(Text) /\ edit \in Edit
  BY SlotMember DEF Scratch, Text, TypeOK
<1> HIDE DEF x
<1>2. LET e == [edit EXCEPT !.text = x]
      IN  /\ e \in Edit /\ e.loads = edit.loads /\ e.loading = edit.loading
          /\ e.text = x /\ e.listings = edit.listings /\ e.listed = edit.listed
  BY <1>1 DEF Edit
<1> QED BY <1>2 DEF x

(* What the answer to an addition or a removal does to the page.           *)
LEMMA AddedEdit ==
  ASSUME TypeOK, NEW c \in calls, c.live, Added(c)
  PROVE  /\ edit' \in Edit /\ edit'.loads = edit.loads /\ edit'.loading = edit.loading
         /\ edit'.text = edit.text /\ edit'.listed = edit.listed
         /\ edit'.listings = edit.listings \union {[of |-> c.of, tests |-> tests[c.of]]}
<1> DEFINE gs == edit.listings \union {[of |-> c.of, tests |-> tests[c.of]]}
<1>1. edit \in Edit /\ gs \subseteq Listing
  BY DEF TypeOK, Edit, Listing, Call
<1>2. edit' = [edit EXCEPT !.adding = FALSE, !.listings = gs]
  <2>1. edit' = [edit EXCEPT !.adding = FALSE,
                       !.listings = @ \union {[of |-> c.of, tests |-> tests[c.of]]}]
    BY DEF Added
  <2> QED BY <1>1, <2>1 DEF Edit
<1> HIDE DEF gs
<1>3. /\ edit' \in Edit /\ edit'.loads = edit.loads /\ edit'.loading = edit.loading
      /\ edit'.text = edit.text /\ edit'.listed = edit.listed /\ edit'.listings = gs
  BY <1>1, <1>2 DEF Edit
<1> QED BY <1>3 DEF gs

LEMMA RemovedEdit ==
  ASSUME TypeOK, NEW c \in calls, c.live, Removed(c)
  PROVE  /\ edit' \in Edit /\ edit'.loads = edit.loads /\ edit'.loading = edit.loading
         /\ edit'.text = edit.text /\ edit'.listed = edit.listed \ {c.test}
         /\ edit'.listings = edit.listings
<1> DEFINE x == edit.listed \ {c.test}
<1>1. edit \in Edit /\ x \in SUBSET TestCases
  BY DEF TypeOK, Edit
<1>2. edit' = [edit EXCEPT !.listed = x]
  <2>1. edit' = [edit EXCEPT !.listed = @ \ {c.test}]
    BY DEF Removed
  <2> QED BY <1>1, <2>1 DEF Edit
<1> HIDE DEF x
<1>3. /\ edit' \in Edit /\ edit'.loads = edit.loads /\ edit'.loading = edit.loading
      /\ edit'.text = edit.text /\ edit'.listed = x
      /\ edit'.listings = edit.listings
  BY <1>1, <1>2 DEF Edit
<1> QED BY <1>3 DEF x

(* Saving and creating: the page stays, goes to another problem in place,  *)
(* or is left.                                                             *)
LEMMA SavedCases ==
  ASSUME TypeOK, NEW c \in calls, SavedOrCreated(c)
  PROVE  /\ UNCHANGED <<server, query, overtaken, faults, made, moves>> /\ c.stored
         /\ \/ /\ UNCHANGED <<page, form, jumped>> /\ calls' = calls \ {c}
               /\ c.kind = "update" => page.at = "admin"
               /\ c.kind = "create" => page = EditPage(c.of)
               /\ edit' \in {[edit EXCEPT !.submitting = FALSE], edit}
            \/ c.kind = "create" /\ Elsewhere(EditPage(c.of)) /\ calls' = calls \ {c}
            \/ /\ UNCHANGED jumped /\ calls' = Unmounted(calls \ {c})
               /\ \/ c.kind = "update" /\ Show(Admin("dashboard"))
                  \/ c.kind = "create" /\ Show(EditPage(c.of))
<1> DEFINE p == IF c.kind = "update" THEN Admin("dashboard") ELSE EditPage(c.of)
<1>1. c.of \in Problems /\ c.kind \in {"update", "create"}
  BY DEF TypeOK, Call, SavedOrCreated
<1>2. /\ c.kind = "update" => p = Admin("dashboard") /\ p.at = "admin"
      /\ c.kind = "create" => p = EditPage(c.of) /\ p.at = "edit"
  BY <1>1, PagesAre DEF Tabs
<1>3. /\ page.at = p.at /\ p.at = "edit" /\ page # p =>
           Elsewhere(p) /\ calls' = calls \ {c}
      /\ page.at = p.at /\ (p.at = "admin" \/ page = p) =>
           /\ calls' = calls \ {c}
           /\ edit' = IF c.live THEN [edit EXCEPT !.submitting = FALSE] ELSE edit
           /\ UNCHANGED <<page, form, jumped>>
      /\ page.at # p.at =>
           Show(p) /\ calls' = Unmounted(calls \ {c}) /\ UNCHANGED jumped
  <2>1. p.at \in {"admin", "edit"}
    BY <1>1, <1>2
  <2> HIDE DEF p
  <2>2. CASE page.at = p.at /\ (p.at = "admin" \/ page = p)
    BY <2>1, <2>2 DEF SavedOrCreated, p
  <2>3. CASE page.at = p.at /\ p.at = "edit" /\ page # p
    BY <2>1, <2>3 DEF SavedOrCreated, p
  <2>4. CASE page.at # p.at
    BY <2>1, <2>4 DEF SavedOrCreated, p
  <2> QED BY <2>1, <2>2, <2>3, <2>4
<1>4. UNCHANGED <<server, query, overtaken, faults, made, moves>> /\ c.stored
  BY DEF SavedOrCreated, Arrives, Settle
<1> HIDE DEF p
<1>5. CASE page.at = p.at /\ (p.at = "admin" \/ page = p)
  <2>1. /\ calls' = calls \ {c}
        /\ edit' = IF c.live THEN [edit EXCEPT !.submitting = FALSE] ELSE edit
        /\ UNCHANGED <<page, form, jumped>>
    BY <1>3, <1>5
  <2> QED BY <1>1, <1>2, <1>4, <1>5, <2>1
<1>6. CASE page.at = p.at /\ p.at = "edit" /\ page # p
  BY <1>1, <1>2, <1>3, <1>4, <1>6
<1>7. CASE page.at # p.at
  <2>1. Show(p) /\ calls' = Unmounted(calls \ {c}) /\ UNCHANGED jumped
    BY <1>3, <1>7
  <2> QED BY <1>1, <1>2, <1>4, <2>1
<1> QED BY <1>1, <1>2, <1>5, <1>6, <1>7

LEMMA EndedCalls ==
  ASSUME TypeOK, NEW c \in calls
  PROVE  calls \ {c} \subseteq Call /\ Unmounted(calls \ {c}) \subseteq Call
         /\ Unmounted(calls) \subseteq Call
<1>1. calls \subseteq Call /\ calls \ {c} \subseteq Call
  BY DEF TypeOK
<1> QED BY <1>1, CallsOfLeftPage

(* Lemmas that say what a group of actions does, for the proofs of         *)
(* invariants.                                                             *)
LEMMA ChangedTypes ==
  ASSUME TypeOK, NEW c \in calls, ListChanged(c)
  PROVE  /\ query' \in [Lists -> Query] /\ overtaken' \in BOOLEAN /\ form' \in Form
         /\ calls' = calls \ {c} /\ c.stored
         /\ UNCHANGED <<server, page, edit, jumped, faults, made, moves>>
<1>1. ListOf(c) \in Lists /\ "users" \in Lists
  BY DEF ListOf, ListChanged, Lists
<1>2. query' \in [Lists -> Query]
  BY <1>1, RefetchedTypes, InvalidatedTypes DEF ListChanged
<1>3. form' \in Form
  BY DEF ListChanged, NoForm, Form, TypeOK
<1> QED BY <1>2, <1>3 DEF ListChanged, Arrives, Settle, TypeOK

LEMMA FaultCounts == faults \in 0..MaxFaults /\ faults < MaxFaults =>
                       faults + 1 \in 0..MaxFaults /\ faults + 1 > 0
BY AdministrationAssumption

LEMMA LoseCases ==
  ASSUME TypeOK, NEW c \in calls, Lose(c)
  PROVE  /\ faults' \in 0..MaxFaults /\ faults' > 0
         /\ UNCHANGED <<server, page, query, overtaken, jumped, made, moves>>
         /\ edit' \in Edit /\ form' \in Form
         /\ edit'.text = edit.text /\ edit'.loading = edit.loading /\ edit'.loads = edit.loads
         /\ edit'.listings = edit.listings /\ edit'.listed = edit.listed
         /\ \/ calls' = calls \ {c}
            \/ \E d \in Call : /\ d.kind = c.kind /\ d.of = c.of /\ d.text = c.text /\ ~d.stored
                               /\ d.live = c.live /\ calls' = (calls \ {c}) \union {d}
<1>1. c \in Call /\ form \in Form /\ edit \in Edit
  BY DEF TypeOK
<1>2. /\ faults' \in 0..MaxFaults /\ faults' > 0
      /\ UNCHANGED <<server, page, query, overtaken, jumped, made, moves>>
  BY FaultCounts DEF Lose, Settle, TypeOK
<1>3. CASE c.attempt < MaxAttempts
  <2> DEFINE d == [c EXCEPT !.attempt = @ + 1, !.stored = FALSE]
  <2>1. calls' = (calls \ {c}) \union {d} /\ UNCHANGED <<edit, form>>
    BY <1>3 DEF Lose, Replace
  <2>2. /\ d \in Call /\ d.kind = c.kind /\ d.of = c.of /\ d.text = c.text /\ ~d.stored
        /\ d.live = c.live
    BY <1>1, <1>3, RetriedCall
  <2> HIDE DEF d
  <2> QED BY <1>1, <1>2, <2>1, <2>2
<1>4. CASE ~(c.attempt < MaxAttempts)
  <2>1. calls' = calls \ {c} /\ (Released(c) \/ UNCHANGED <<edit, form>>)
    BY <1>4 DEF Lose
  <2> QED BY <1>1, <1>2, <2>1, ReleasedTypes
<1> QED BY <1>3, <1>4

LEMMA RefuseCases ==
  ASSUME TypeOK, NEW c \in calls, Refuse(c)
  PROVE  /\ UNCHANGED <<server, page, query, overtaken, jumped, made, moves, faults>>
         /\ edit' \in Edit /\ form' \in Form /\ ~c.stored
         /\ edit'.text = edit.text /\ edit'.loading = edit.loading /\ edit'.loads = edit.loads
         /\ edit'.listings = edit.listings /\ edit'.listed = edit.listed
         /\ calls' = calls \ {c}
<1>1. form \in Form /\ edit \in Edit
  BY DEF TypeOK
<1>2. Released(c) \/ UNCHANGED <<edit, form>>
  BY DEF Refuse
<1> QED BY <1>1, <1>2, ReleasedTypes DEF Refuse, Settle

LEMMA SendCases ==
  ASSUME TypeOK, Save \/ AddTestCase \/ CreateProblem \/ ChangeRole \/ CreateContest
                 \/ (\E t \in TestCases : DeleteTestCase(t)) \/ (\E p \in Problems : DeleteProblem(p))
  PROVE  /\ UNCHANGED <<server, page, query, overtaken, jumped, faults, moves>>
         /\ edit' \in Edit /\ form' \in Form /\ made' \in 0..MaxCalls /\ calls' \subseteq Call
         /\ edit'.text = edit.text /\ edit'.loading = edit.loading /\ edit'.loads = edit.loads
         /\ edit'.listings = edit.listings /\ edit'.listed = edit.listed
         /\ \E x \in Call :
              /\ ~x.stored /\ calls' = calls \union {x}
              /\ x.kind \in {"update", "add", "remove"} =>
                   page.at = "edit" /\ x.of = page.id /\ page = EditPage(x.of)
              /\ IF x.kind = "update" THEN x.text = edit.text /\ edit.text # {} ELSE x.text = {}
<1> USE DEF Kinds
<1>1. /\ {} \in Slot(Text) /\ edit.text \in Slot(Text) /\ AProblem \in Problems
      /\ ATestCase \in TestCases /\ form \in Form /\ edit \in Edit
      /\ page.at = "edit" => page.id \in Problems /\ page = EditPage(page.id)
  BY SlotMember, SomeOfEach, PageCases DEF TypeOK, Edit
<1>2. CASE Save
  <2>1. Send("update", page.id, edit.text, ATestCase) /\ page.at = "edit" /\ edit.text # {}
        /\ form' = form /\ edit' = [edit EXCEPT !.submitting = TRUE]
    BY <1>2 DEF Save
  <2>2. UNCHANGED <<server, page, query, overtaken, jumped, faults, moves>>
    BY <2>1 DEF Send
  <2> QED BY <1>1, <2>1, <2>2, SentCall, ButtonEdit
<1>3. CASE AddTestCase
  <2>1. Send("add", page.id, {}, ATestCase) /\ page.at = "edit"
        /\ form' = form /\ edit' = [edit EXCEPT !.adding = TRUE]
    BY <1>3 DEF AddTestCase
  <2>2. UNCHANGED <<server, page, query, overtaken, jumped, faults, moves>>
    BY <2>1 DEF Send
  <2> QED BY <1>1, <2>1, <2>2, SentCall, ButtonEdit
<1>4. CASE CreateProblem \/ CreateContest
  <2>1. /\ Send("create", AProblem, {}, ATestCase) \/ Send("contest", AProblem, {}, ATestCase)
        /\ edit' = edit /\ form' = [form EXCEPT !.submitting = TRUE]
    BY <1>4 DEF CreateProblem, CreateContest
  <2>2. UNCHANGED <<server, page, query, overtaken, jumped, faults, moves>> /\ form' \in Form
    BY <1>1, <2>1 DEF Send, Form
  <2> QED BY <1>1, <2>1, <2>2, SentCall
<1>5. CASE ChangeRole \/ \E p \in Problems : DeleteProblem(p)
  <2>1. PICK p \in Problems :
          /\ Send("role", p, {}, ATestCase) \/ Send("delete", p, {}, ATestCase)
          /\ edit' = edit /\ form' = form
    BY <1>1, <1>5 DEF ChangeRole, DeleteProblem
  <2>2. UNCHANGED <<server, page, query, overtaken, jumped, faults, moves>>
    BY <2>1 DEF Send
  <2> QED BY <1>1, <2>1, <2>2, SentCall
<1>6. ASSUME NEW t \in TestCases, DeleteTestCase(t)
      PROVE  /\ UNCHANGED <<server, page, query, overtaken, jumped, faults, moves>>
             /\ UNCHANGED <<edit, form>> /\ made' \in 0..MaxCalls /\ calls' \subseteq Call
             /\ \E x \in Call :
                  /\ ~x.stored /\ calls' = calls \union {x}
                  /\ x.kind \in {"update", "add", "remove"} =>
                       page.at = "edit" /\ x.of = page.id /\ page = EditPage(x.of)
                  /\ IF x.kind = "update" THEN x.text = edit.text /\ edit.text # {} ELSE x.text = {}
  <2>1. Send("remove", page.id, {}, t) /\ page.at = "edit" /\ UNCHANGED <<edit, form>>
    BY <1>6 DEF DeleteTestCase
  <2>2. UNCHANGED <<server, page, query, overtaken, jumped, faults, moves>>
    BY <2>1 DEF Send
  <2> QED BY <1>1, <2>1, <2>2, SentCall
<1> QED BY <1>1, <1>2, <1>3, <1>4, <1>5, <1>6

Sends == Save \/ AddTestCase \/ CreateProblem \/ ChangeRole \/ CreateContest
         \/ (\E t \in TestCases : DeleteTestCase(t)) \/ (\E p \in Problems : DeleteProblem(p))

LEMMA MovesType == TypeOK /\ Move => moves' \in 0..MaxMoves
BY AdministrationAssumption DEF TypeOK, Move

LEMMA StepAdmin == TypeOK /\ [Next]_vars => TypeOK'
<1> SUFFICES ASSUME TypeOK, [Next]_vars PROVE TypeOK'
  OBVIOUS
<1> USE DEF server
<1>1. ASSUME NEW p \in Page, Go(p) PROVE TypeOK'
  <2>1. page' \in Page /\ edit' \in Edit /\ form' \in Form
    BY <1>1, ShowTypes DEF Go
  <2>2. query' \in [Lists -> Query] /\ overtaken' \in BOOLEAN
    BY <1>1, MountedTypes DEF Go
  <2>3. calls' \subseteq Call
    BY <1>1, CallsOfLeftPage DEF Go, TypeOK
  <2>4. moves' \in 0..MaxMoves
    BY <1>1, MovesType DEF Go
  <2> QED BY <1>1, <2>1, <2>2, <2>3, <2>4 DEF Go, TypeOK
<1>2. ASSUME NEW p \in Problems, Jump(p) PROVE TypeOK'
  <2>1. page' \in Page /\ edit' \in Edit /\ form' \in Form /\ jumped' = TRUE
    BY <1>2, ElsewhereTypes DEF Jump, Elsewhere
  <2>2. moves' \in 0..MaxMoves
    BY <1>2, MovesType DEF Jump
  <2> QED BY <1>2, <2>1, <2>2 DEF Jump, TypeOK
<1>3. ASSUME NEW k \in Lists, ListArrives(k) PROVE TypeOK'
  BY <1>3, ArrivedQuery DEF ListArrives, TypeOK
<1>4. ASSUME NEW k \in Lists, ListFails(k) PROVE TypeOK'
  <2>1. faults' \in 0..MaxFaults /\ query' \in [Lists -> Query]
    BY <1>4, FaultCounts, ArrivedQuery DEF ListFails, TypeOK
  <2> QED BY <1>4, <2>1 DEF ListFails, TypeOK
<1>5. ASSUME NEW l \in edit.loads, LoadArrives(l) PROVE TypeOK'
  <2>1. edit' \in Edit
    BY <1>5, LoadedEdit DEF LoadArrives, Edited
  <2> QED BY <1>5, <2>1 DEF LoadArrives, Edited, TypeOK
<1>6. ASSUME NEW l \in edit.loads, LoadFails(l) PROVE TypeOK'
  <2>1. edit' \in Edit
    BY <1>6, LoadedEdit DEF LoadFails
  <2>2. faults' \in 0..MaxFaults
    BY <1>6, FaultCounts DEF LoadFails, TypeOK
  <2> QED BY <1>6, <2>1, <2>2 DEF LoadFails, TypeOK
<1>7. ASSUME NEW l \in edit.listings, ListingArrives(l) PROVE TypeOK'
  <2>1. edit' \in Edit
    BY <1>7, ListedEdit DEF ListingArrives
  <2>2. overtaken' \in BOOLEAN
    BY <1>7 DEF ListingArrives, TypeOK
  <2> QED BY <1>7, <2>1, <2>2 DEF ListingArrives, TypeOK
<1>8. ASSUME NEW l \in edit.listings, ListingFails(l) PROVE TypeOK'
  <2>1. edit' \in Edit
    BY <1>8, ListedEdit DEF ListingFails
  <2>2. faults' \in 0..MaxFaults
    BY <1>8, FaultCounts DEF ListingFails, TypeOK
  <2> QED BY <1>8, <2>1, <2>2 DEF ListingFails, TypeOK
<1>9. CASE EditFields
  <2>1. page.id \in Problems
    BY <1>9, PageCases DEF EditFields, TypeOK
  <2>2. edit' \in Edit
    BY <1>9, <2>1, TypedEdit DEF EditFields, Edited
  <2> QED BY <1>9, <2>2 DEF EditFields, Edited, TypeOK
<1>10. CASE Fill \/ ToggleForm
  <2>1. form' \in Form
    BY <1>10 DEF Fill, ToggleForm, NoForm, Form, TypeOK
  <2> QED BY <1>10, <2>1 DEF Fill, ToggleForm, TypeOK
<1>11. CASE Sends
  <2>1. /\ UNCHANGED <<server, page, query, overtaken, jumped, faults, moves>>
        /\ edit' \in Edit /\ form' \in Form /\ made' \in 0..MaxCalls /\ calls' \subseteq Call
    BY <1>11, SendCases DEF Sends
  <2> QED BY <2>1 DEF TypeOK
<1>12. ASSUME NEW c \in calls, Store(c) PROVE TypeOK'
  <2>1. PICK d \in Call :
          /\ calls' = (calls \ {c}) \union {d} /\ d.of \in Problems
          /\ ids' = ids \union {d.of} /\ testIds' = testIds \union tests'[d.of]
    BY <1>12, StoreTypes
  <2>2. content' \in [Problems -> Slot(Text)] /\ tests' \in [Problems -> SUBSET TestCases]
        /\ role' \in BOOLEAN /\ contests' \in 0..MaxContests
    BY <1>12, StoreTypes
  <2>3. calls' \subseteq Call /\ ids' \subseteq Problems /\ testIds' \subseteq TestCases
    BY <2>1, <2>2 DEF TypeOK
  <2> QED BY <1>12, <2>2, <2>3 DEF Store, TypeOK
<1>13. ASSUME NEW c \in calls, Refuse(c) PROVE TypeOK'
  BY <1>13, RefuseCases, EndedCalls DEF TypeOK
<1>14. ASSUME NEW c \in calls, Lose(c) PROVE TypeOK'
  <2>1. /\ faults' \in 0..MaxFaults
        /\ UNCHANGED <<server, page, query, overtaken, jumped, made, moves>>
        /\ edit' \in Edit /\ form' \in Form
    BY <1>14, LoseCases
  <2>2. calls' = calls \ {c} \/ \E d \in Call : calls' = (calls \ {c}) \union {d}
    BY <1>14, LoseCases
  <2>3. calls' \subseteq Call
    BY <2>2, EndedCalls
  <2> QED BY <2>1, <2>3 DEF TypeOK
<1>15. ASSUME NEW c \in calls, SavedOrCreated(c) PROVE TypeOK'
  <2>1. /\ UNCHANGED <<server, query, overtaken, faults, made, moves>>
        /\ calls' \in {calls \ {c}, Unmounted(calls \ {c})}
    BY <1>15, SavedCases
  <2>2. calls' \subseteq Call /\ c.of \in Problems
    BY <2>1, EndedCalls DEF TypeOK, Call
  <2>3. page' \in Page /\ edit' \in Edit /\ form' \in Form /\ jumped' \in BOOLEAN
    <3>1. CASE UNCHANGED <<page, form, jumped>>
               /\ edit' \in {[edit EXCEPT !.submitting = FALSE], edit}
      BY <3>1, ButtonEdit DEF TypeOK
    <3>2. CASE Elsewhere(EditPage(c.of))
      BY <2>2, <3>2, ElsewhereTypes DEF Elsewhere
    <3>3. CASE UNCHANGED jumped /\ (Show(Admin("dashboard")) \/ Show(EditPage(c.of)))
      BY <2>2, <3>3, ShowTypes, PagesAre DEF Tabs, TypeOK
    <3> QED BY <1>15, <3>1, <3>2, <3>3, SavedCases
  <2> QED BY <2>1, <2>2, <2>3 DEF TypeOK
<1>16. ASSUME NEW c \in calls, Added(c) \/ Removed(c) PROVE TypeOK'
  <2>1. edit' \in Edit
    BY <1>16, AddedEdit, RemovedEdit DEF Added, Removed, TypeOK
  <2>2. overtaken' \in BOOLEAN /\ calls' = calls \ {c}
    BY <1>16 DEF Added, Removed, Unnoticed, TypeOK
  <2>3. calls' \subseteq Call
    BY <2>2, EndedCalls
  <2>4. UNCHANGED <<server, page, form, query, jumped, faults, made, moves>>
    BY <1>16 DEF Added, Removed, Arrives, Settle
  <2> QED BY <2>1, <2>2, <2>3, <2>4 DEF TypeOK
<1>17. ASSUME NEW c \in calls, ListChanged(c) PROVE TypeOK'
  BY <1>17, ChangedTypes, EndedCalls DEF TypeOK
<1>18. CASE UNCHANGED vars
  BY <1>18 DEF vars, TypeOK
<1> QED BY <1>1, <1>2, <1>3, <1>4, <1>5, <1>6, <1>7, <1>8, <1>9, <1>10, <1>11, <1>12, <1>13,
           <1>14, <1>15, <1>16, <1>17, <1>18 DEF Next, Sends

(* What the server does with a call, kind by kind.                         *)
LEMMA StoreCases ==
  ASSUME TypeOK, NEW c \in calls, Store(c)
  PROVE  \E d \in Call :
          /\ d.kind = c.kind /\ d.text = c.text /\ d.test = c.test /\ d.stored /\ d.live = c.live
          /\ IF c.kind = "create" THEN d.of \notin ids ELSE d.of = c.of
          /\ ~c.stored /\ calls' = (calls \ {c}) \union {d}
          /\ d.of \in Problems /\ d.kind \in Kinds
          /\ ids' = ids \union {d.of} /\ testIds' = testIds \union tests'[d.of]
          /\ \A q \in Problems : q # d.of => content'[q] = content[q] /\ tests'[q] = tests[q]
          /\ c.kind \notin {"update", "create", "delete"} => content' = content
          /\ c.kind \notin {"add", "remove", "delete"} => tests' = tests
          /\ c.kind = "update" => Exists(d.of) /\ content'[d.of] = d.text
          /\ c.kind = "create" => content'[d.of] = {Written(d.of)}
          /\ c.kind = "delete" => content'[d.of] = {} /\ tests'[d.of] = {}
          /\ c.kind = "add" => \E t \in TestCases \ testIds : tests'[d.of] = tests[d.of] \union {t}
          /\ c.kind = "remove" => c.test \in tests[d.of] /\ tests'[d.of] = tests[d.of] \ {c.test}
          /\ (c.kind # "role" => role' = role) /\ (c.kind # "contest" => contests' = contests)
          /\ UNCHANGED <<page, edit, form, query, made, overtaken, jumped, faults, moves>>
<1>1. PICK d \in Call :
        /\ d.kind = c.kind /\ d.text = c.text /\ d.test = c.test /\ d.stored /\ d.live = c.live
        /\ IF c.kind = "create" THEN d.of \notin ids ELSE d.of = c.of
        /\ calls' = (calls \ {c}) \union {d}
        /\ Effect(d) /\ ids' = ids \union {d.of} /\ testIds' = testIds \union tests'[d.of]
        /\ d.of \in Problems
  BY StoreTypes
<1>2. d.kind \in Kinds /\ ~c.stored
      /\ UNCHANGED <<page, edit, form, query, made, overtaken, jumped, faults, moves>>
  BY DEF Call, Store
<1>3. content \in [Problems -> Slot(Text)] /\ tests \in [Problems -> SUBSET TestCases]
  BY DEF TypeOK
<1>4. /\ \A q \in Problems : q # d.of => content'[q] = content[q] /\ tests'[q] = tests[q]
      /\ c.kind \notin {"update", "create", "delete"} => content' = content
      /\ c.kind \notin {"add", "remove", "delete"} => tests' = tests
      /\ c.kind = "update" => Exists(d.of) /\ content'[d.of] = d.text
      /\ c.kind = "create" => content'[d.of] = {Written(d.of)}
      /\ c.kind = "delete" => content'[d.of] = {} /\ tests'[d.of] = {}
      /\ c.kind = "add" => \E t \in TestCases \ testIds : tests'[d.of] = tests[d.of] \union {t}
      /\ c.kind = "remove" => c.test \in tests[d.of] /\ tests'[d.of] = tests[d.of] \ {c.test}
      /\ (c.kind # "role" => role' = role) /\ (c.kind # "contest" => contests' = contests)
  <2>1. CASE d.kind = "update"
    <3>1. Exists(d.of)
      BY <1>1, <2>1 DEF Store, Applies
    <3> QED BY <1>1, <1>3, <2>1, <3>1 DEF Effect
  <2>2. CASE d.kind = "add"
    <3>1. PICK t \in TestCases \ testIds : tests' = [tests EXCEPT ![d.of] = @ \union {t}]
      BY <1>1, <2>2 DEF Effect
    <3>2. UNCHANGED <<content, role, contests>>
      BY <1>1, <2>2 DEF Effect
    <3> QED BY <1>1, <1>3, <2>2, <3>1, <3>2
  <2>3. CASE d.kind = "remove"
    <3>1. c.test \in tests[d.of]
      BY <1>1, <2>3 DEF Store, Applies
    <3> QED BY <1>1, <1>3, <2>3, <3>1 DEF Effect
  <2>4. CASE d.kind = "create"
    BY <1>1, <1>3, <2>4 DEF Effect
  <2>5. CASE d.kind = "delete"
    BY <1>1, <1>3, <2>5 DEF Effect
  <2>6. CASE d.kind = "role"
    BY <1>1, <1>3, <2>6 DEF Effect
  <2>7. CASE d.kind = "contest"
    BY <1>1, <1>3, <2>7 DEF Effect
  <2> QED BY <1>2, <2>1, <2>2, <2>3, <2>4, <2>5, <2>6, <2>7 DEF Kinds
<1> QED BY <1>1, <1>2, <1>4

-----------------------------------------------------------------------------
(* What is fetched exists, and so has an id.                               *)
LEMMA RowsHaveIds ==
  ASSUME TypeOK, IdsInv
  PROVE  {Value("problems")} \subseteq [rows : SUBSET ids]
<1>1. {p \in Problems : Exists(p)} \in SUBSET ids
  BY DEF IdsInv
<1> QED BY <1>1 DEF Value

LEMMA IdsOfQuery ==
  ASSUME TypeOK, IdsInv, ids \subseteq ids',
         query'["problems"].data \in {{}, query["problems"].data, query["problems"].flight},
         query'["problems"].flight \in {{}, query["problems"].flight, {Value("problems")}}
  PROVE  query'["problems"].data \union query'["problems"].flight \subseteq [rows : SUBSET ids']
<1>1. query["problems"].data \union query["problems"].flight \union {Value("problems")}
        \subseteq [rows : SUBSET ids]
  BY RowsHaveIds DEF IdsInv
<1>2. query'["problems"].data \union query'["problems"].flight \subseteq [rows : SUBSET ids]
  BY <1>1
<1>3. [rows : SUBSET ids] \subseteq [rows : SUBSET ids']
  OBVIOUS
<1> QED BY <1>2, <1>3

(* A step moves, drops or fetches the list of problems.                    *)
LEMMA QueryStep ==
  ASSUME TypeOK, [Next]_vars
  PROVE  /\ query'["problems"].data \in {{}, query["problems"].data, query["problems"].flight}
         /\ query'["problems"].flight \in {{}, query["problems"].flight, {Value("problems")}}
<1> DEFINE Goal == /\ query'["problems"].data \in {{}, query["problems"].data, query["problems"].flight}
                   /\ query'["problems"].flight \in {{}, query["problems"].flight, {Value("problems")}}
<1>0. "problems" \in Lists /\ query \in [Lists -> Query]
  BY DEF Lists, TypeOK
<1>1. ASSUME NEW p \in Page, Go(p) PROVE Goal
  BY <1>0, <1>1, MountedTypes DEF Go
<1>2. ASSUME NEW k \in Lists, ListArrives(k) PROVE Goal
  <2>1. query' = [query EXCEPT ![k] = [data |-> query[k].flight, flight |-> {}]]
    BY <1>2 DEF ListArrives
  <2> QED BY <1>0, <2>1
<1>3. ASSUME NEW k \in Lists, ListFails(k) PROVE Goal
  BY <1>0, <1>3, ArrivedQuery DEF ListFails
<1>4. ASSUME NEW c \in calls, ListChanged(c) PROVE Goal
  <2>1. PICK k \in Lists : query' \in {Invalidated(k), Refetched(k)}
    BY <1>4 DEF ListChanged, ListOf, Lists
  <2>2. CASE k = "problems"
    BY <2>1, <2>2, RefetchedTypes, InvalidatedTypes DEF NoQuery
  <2>3. CASE k # "problems"
    <3>1. query'["problems"] = query["problems"]
      BY <1>0, <2>1, <2>3, RefetchedTypes, InvalidatedTypes
    <3> QED BY <3>1
  <2> QED BY <2>2, <2>3
<1>5. ASSUME UNCHANGED query PROVE Goal
  BY <1>5
<1> HIDE DEF Goal
<1>6. CASE Sends
  BY <1>5, <1>6, SendCases DEF Sends
<1>7. ASSUME NEW c \in calls, Store(c) \/ Refuse(c) \/ Lose(c) \/ SavedOrCreated(c)
               \/ Added(c) \/ Removed(c)
      PROVE  Goal
  BY <1>5, <1>7, RefuseCases, LoseCases, SavedCases DEF Store, Added, Removed
<1>8. CASE \/ \E p \in Problems : Jump(p)
           \/ \E l \in edit.loads : LoadArrives(l) \/ LoadFails(l)
           \/ \E l \in edit.listings : ListingArrives(l) \/ ListingFails(l)
           \/ EditFields \/ Fill \/ ToggleForm \/ UNCHANGED vars
  BY <1>5, <1>8 DEF Jump, LoadArrives, LoadFails, ListingArrives, ListingFails, EditFields,
     Edited, Fill, ToggleForm, vars
<1> QED BY <1>1, <1>2, <1>3, <1>4, <1>6, <1>7, <1>8 DEF Next, Sends, Goal

(* Ids are given once: what exists, is shown or was created has one.       *)
LEMMA StepIds == TypeOK /\ TypeOK' /\ IdsInv /\ [Next]_vars => IdsInv'
<1> SUFFICES ASSUME TypeOK, TypeOK', IdsInv, [Next]_vars PROVE IdsInv'
  OBVIOUS
<1> DEFINE ServerPart == \A p \in Problems : (Exists(p) => p \in ids) /\ tests[p] \subseteq testIds
           PagePart == page.at = "edit" => page.id \in ids
           CallPart == \A c \in calls : /\ c.kind = "create" /\ c.stored => c.of \in ids
                                        /\ (c.kind = "update") <=> (c.text # {})
<1>1. ServerPart /\ PagePart /\ CallPart
  BY DEF IdsInv
<1>2. ASSUME ids \subseteq ids', ServerPart', PagePart', CallPart' PROVE IdsInv'
  <2>1. query'["problems"].data \union query'["problems"].flight \subseteq [rows : SUBSET ids']
    BY <1>2, QueryStep, IdsOfQuery
  <2> QED BY <1>2, <2>1 DEF IdsInv
<1>3. ASSUME UNCHANGED server PROVE ids \subseteq ids' /\ ServerPart'
  BY <1>1, <1>3 DEF server, Exists
<1>4. ASSUME UNCHANGED <<server, page>>, \A c \in calls' : c \in calls
                                            \/ (~c.stored /\ ((c.kind = "update") <=> (c.text # {})))
      PROVE  IdsInv'
  <2>1. PagePart' /\ CallPart'
    BY <1>1, <1>4 DEF server
  <2> QED BY <1>2, <1>3, <1>4, <2>1
<1>5. \A cs \in SUBSET calls : \A u \in Unmounted(cs) :
         /\ u.kind = "create" /\ u.stored => u.of \in ids
         /\ (u.kind = "update") <=> (u.text # {})
  <2> SUFFICES ASSUME NEW cs \in SUBSET calls, NEW u \in Unmounted(cs)
               PROVE  /\ u.kind = "create" /\ u.stored => u.of \in ids
                      /\ (u.kind = "update") <=> (u.text # {})
    OBVIOUS
  <2>1. PICK c \in cs : u.kind = c.kind /\ u.of = c.of /\ u.text = c.text /\ u.stored = c.stored
    <3>1. cs \subseteq Call
      BY DEF TypeOK
    <3>2. PICK c \in cs : u = [c EXCEPT !.live = FALSE]
      BY <3>1, CallsOfLeftPage
    <3> QED BY <3>1, <3>2, CallsOfLeftPage
  <2> QED BY <1>1, <2>1
<1>6. ASSUME NEW p \in Page, Go(p) PROVE IdsInv'
  <2>1. UNCHANGED server /\ page' = p /\ calls' = Unmounted(calls)
    BY <1>6 DEF Go, Show
  <2>2. p.at = "edit" => p.id \in ids
    BY <1>6 DEF Go, IdsInv
  <2>3. PagePart' /\ CallPart'
    BY <1>5, <2>1, <2>2 DEF server
  <2> QED BY <1>2, <1>3, <2>1, <2>3
<1>7. ASSUME NEW p \in Problems, Jump(p) PROVE IdsInv'
  <2>1. UNCHANGED <<server, calls>> /\ page'.id \in ids
    BY <1>7, PagesAre DEF Jump, Elsewhere
  <2>2. PagePart' /\ CallPart'
    BY <1>1, <2>1 DEF server
  <2> QED BY <1>2, <1>3, <2>1, <2>2
<1>8. CASE Sends
  BY <1>4, <1>8, SendCases DEF Sends
<1>9. ASSUME NEW c \in calls, Store(c) PROVE IdsInv'
  <2>1. PICK d \in Call :
          /\ d.kind = c.kind /\ d.text = c.text
          /\ ~c.stored /\ calls' = (calls \ {c}) \union {d} /\ d.of \in Problems
          /\ ids' = ids \union {d.of} /\ testIds' = testIds \union tests'[d.of]
          /\ \A q \in Problems : q # d.of => content'[q] = content[q] /\ tests'[q] = tests[q]
          /\ page' = page
    BY <1>9, StoreCases
  <2>2. ServerPart'
    BY <1>1, <2>1 DEF Exists
  <2>3. PagePart' /\ CallPart'
    BY <1>1, <2>1
  <2> QED BY <1>2, <2>1, <2>2, <2>3
<1>10. ASSUME NEW c \in calls, Refuse(c) PROVE IdsInv'
  BY <1>4, <1>10, RefuseCases
<1>11. ASSUME NEW c \in calls, Lose(c) PROVE IdsInv'
  <2>1. \A u \in calls' : u \in calls \/ (~u.stored /\ ((u.kind = "update") <=> (u.text # {})))
    BY <1>1, <1>11, LoseCases
  <2> QED BY <1>4, <1>11, <2>1, LoseCases
<1>12. ASSUME NEW c \in calls, SavedOrCreated(c) PROVE IdsInv'
  <2>1. UNCHANGED server /\ c.stored /\ calls' \in {calls \ {c}, Unmounted(calls \ {c})}
    BY <1>12, SavedCases
  <2>2. CallPart'
    BY <1>1, <1>5, <2>1 DEF server
  <2>3. \/ page' = page
        \/ page' = Admin("dashboard")
        \/ c.kind = "create" /\ page' = EditPage(c.of)
    BY <1>12, SavedCases DEF Show, Elsewhere
  <2>4. c.of \in Problems
    BY DEF TypeOK, Call
  <2>5. PagePart'
    BY <1>1, <2>1, <2>3, <2>4, PagesAre DEF server, Tabs
  <2> QED BY <1>2, <1>3, <2>1, <2>2, <2>5
<1>13. ASSUME NEW c \in calls, Added(c) \/ Removed(c) \/ ListChanged(c) PROVE IdsInv'
  BY <1>4, <1>13, ChangedTypes DEF Added, Removed, Arrives, Settle
<1>14. CASE \/ \E k \in Lists : ListArrives(k) \/ ListFails(k)
            \/ \E l \in edit.loads : LoadArrives(l) \/ LoadFails(l)
            \/ \E l \in edit.listings : ListingArrives(l) \/ ListingFails(l)
            \/ EditFields \/ Fill \/ ToggleForm \/ UNCHANGED vars
  <2>1. UNCHANGED <<server, page, calls>>
    BY <1>14 DEF ListArrives, ListFails, LoadArrives, LoadFails, ListingArrives,
       ListingFails,
       EditFields, Edited, Fill, ToggleForm, vars, server
  <2> QED BY <1>4, <2>1
<1> QED BY <1>6, <1>7, <1>8, <1>9, <1>10, <1>11, <1>12, <1>13, <1>14 DEF Next, Sends

(* A problem that is gone stays away, and faults are not forgotten.        *)
LEMMA GoneForGood ==
  ASSUME TypeOK, IdsInv, [Next]_vars
  PROVE  /\ ids \subseteq ids' /\ faults' \in Nat /\ faults' >= faults
         /\ \A p \in ids : ~Exists(p) => ~Exists(p)'
<1> DEFINE Goal == /\ ids \subseteq ids' /\ faults' \in Nat /\ faults' >= faults
                   /\ \A p \in ids : ~Exists(p) => ~Exists(p)'
<1>0. faults \in Nat
  BY DEF TypeOK
<1>1. ASSUME NEW c \in calls, Store(c) PROVE Goal
  <2>1. PICK d \in Call :
          /\ IF c.kind = "create" THEN d.of \notin ids ELSE d.of = c.of
          /\ ids' = ids \union {d.of} /\ d.of \in Problems
          /\ \A q \in Problems : q # d.of => content'[q] = content[q]
          /\ c.kind \notin {"update", "create", "delete"} => content' = content
          /\ c.kind = "update" => Exists(d.of)
          /\ c.kind = "delete" => content'[d.of] = {}
          /\ faults' = faults
    BY <1>1, StoreCases
  <2>2. ASSUME NEW p \in ids, ~Exists(p) PROVE ~Exists(p)'
    <3>1. p \in Problems
      BY DEF TypeOK
    <3> QED BY <2>1, <2>2, <3>1 DEF Exists
  <2> QED BY <1>0, <2>1, <2>2
<1>2. ASSUME UNCHANGED server, faults' \in {faults, faults + 1} PROVE Goal
  BY <1>0, <1>2 DEF server, Exists
<1> HIDE DEF Goal
<1>4. ASSUME NEW c \in calls, Refuse(c) \/ Lose(c) \/ SavedOrCreated(c) \/ Added(c)
               \/ Removed(c) \/ ListChanged(c)
      PROVE  Goal
  <2>1. CASE Lose(c)
    <3>1. UNCHANGED server /\ faults' = faults + 1
      BY <2>1 DEF Lose, Settle
    <3> QED BY <1>2, <3>1
  <2>2. CASE Refuse(c) \/ SavedOrCreated(c) \/ ListChanged(c)
    <3>1. UNCHANGED server /\ faults' = faults
      BY <2>2, RefuseCases, SavedCases, ChangedTypes
    <3> QED BY <1>2, <3>1
  <2>3. CASE Added(c) \/ Removed(c)
    <3>1. UNCHANGED server /\ faults' = faults
      BY <2>3 DEF Added, Removed, Arrives, Settle
    <3> QED BY <1>2, <3>1
  <2> QED BY <1>4, <2>1, <2>2, <2>3
<1>5. CASE Sends
  <2>1. UNCHANGED server /\ faults' = faults
    BY <1>5, SendCases DEF Sends
  <2> QED BY <1>2, <2>1 DEF Goal
<1>6. CASE \/ \E p \in Page : Go(p)
           \/ \E p \in Problems : Jump(p)
           \/ \E k \in Lists : ListArrives(k)
           \/ \E l \in edit.loads : LoadArrives(l)
           \/ \E l \in edit.listings : ListingArrives(l)
           \/ EditFields \/ Fill \/ ToggleForm \/ UNCHANGED vars
  <2>1. UNCHANGED server /\ faults' = faults
    BY <1>6 DEF Go, Jump, ListArrives, LoadArrives, ListingArrives, EditFields, Edited,
       Fill,
       ToggleForm, vars, server
  <2> QED BY <1>2, <2>1 DEF Goal
<1>7. CASE \/ \E k \in Lists : ListFails(k)
           \/ \E l \in edit.loads : LoadFails(l)
           \/ \E l \in edit.listings : ListingFails(l)
  <2>1. UNCHANGED server /\ faults' = faults + 1
    BY <1>7 DEF ListFails, LoadFails, ListingFails
  <2> QED BY <1>2, <2>1 DEF Goal
<1> QED BY <1>1, <1>4, <1>5, <1>6, <1>7 DEF Next, Sends, Goal

LEMMA CausesStay ==
  ASSUME TypeOK, IdsInv, [Next]_vars
  PROVE  /\ \A t : HasCause(t) => HasCause(t)'
         /\ faults > 0 => faults' > 0
<1>1. faults \in Nat
  BY DEF TypeOK
<1> QED BY <1>1, GoneForGood DEF HasCause

(* Steps that leave texts alone, or end calls.                             *)
LEMMA FormStays ==
  ASSUME TypeOK, IdsInv, FormInv, [Next]_vars, UNCHANGED <<content, ids, page>>,
         jumped => jumped',
         edit'.text = edit.text, edit'.loading = edit.loading, edit'.loads \subseteq edit.loads,
         \A u \in calls' : u.text = {} \/ \E c \in calls : u.text = c.text /\ u.of = c.of
  PROVE  FormInv'
<1>1. CASE jumped
  BY <1>1 DEF FormInv
<1>2. CASE ~jumped
  <2>1. /\ \A t : HasCause(t) => HasCause(t)'
        /\ faults > 0 => faults' > 0
    BY CausesStay
  <2>2. \A p : Exists(p)' <=> Exists(p)
    BY DEF Exists
  <2>3. \A u \in calls' : \A t \in u.text : t.of = u.of /\ HasCause(t)'
    BY <1>2, <2>1 DEF FormInv
  <2>4. \A t \in edit'.text : page' = EditPage(t.of) /\ HasCause(t)'
    BY <1>2, <2>1 DEF FormInv
  <2>5. \A l \in edit'.loads :
          /\ page' = EditPage(l.of)
          /\ l.text = {} => ~Exists(l.of)'
          /\ \A t \in l.text : t.of = l.of /\ HasCause(t)'
    BY <1>2, <2>1, <2>2 DEF FormInv
  <2>6. page'.at = "edit" /\ ~edit'.loading /\ edit'.text = {} => faults' > 0 \/ ~Exists(page.id)'
    BY <1>2, <2>1, <2>2 DEF FormInv
  <2>7. \A p \in Problems : \A t \in content'[p] : t.of = p /\ (t.how = "scratch" => faults' > 0)
    BY <1>2, <2>1 DEF FormInv
  <2> QED BY <2>3, <2>4, <2>5, <2>6, <2>7 DEF FormInv
<1> QED BY <1>1, <1>2

LEMMA UnmountedTexts ==
  ASSUME TypeOK, NEW cs, cs \subseteq calls
  PROVE  \A u \in Unmounted(cs) : \E c \in calls :
            /\ u.text = c.text /\ u.of = c.of /\ u.kind = c.kind /\ u.stored = c.stored
            /\ u.test = c.test /\ ~u.live /\ c \in cs
<1>1. cs \subseteq Call
  BY DEF TypeOK
<1> SUFFICES ASSUME NEW u \in Unmounted(cs)
             PROVE  \E c \in calls :
                      /\ u.text = c.text /\ u.of = c.of /\ u.kind = c.kind /\ u.stored = c.stored
                      /\ u.test = c.test /\ ~u.live /\ c \in cs
  OBVIOUS
<1>2. PICK c \in cs : u = [c EXCEPT !.live = FALSE] /\ ~u.live
  BY <1>1, CallsOfLeftPage
<1> QED BY <1>1, <1>2, CallsOfLeftPage

(* An edit page starts with nothing but a fetch of its problem.            *)
LEMMA FormOfShown ==
  ASSUME TypeOK, IdsInv, FormInv, [Next]_vars, UNCHANGED server, UNCHANGED jumped,
         NEW p \in Page, Show(p), NEW cs, cs \subseteq calls, calls' = Unmounted(cs)
  PROVE  FormInv'
<1>1. CASE jumped
  BY <1>1 DEF FormInv
<1>2. CASE ~jumped
  <2>1. /\ \A t : HasCause(t) => HasCause(t)'
        /\ faults > 0 => faults' > 0
    BY CausesStay
  <2>2. \A q : Exists(q)' <=> Exists(q)
    BY DEF Exists, server
  <2>3. \A u \in calls' : \A t \in u.text : t.of = u.of /\ HasCause(t)'
    BY <1>2, <2>1, UnmountedTexts DEF FormInv
  <2>4. \A q \in Problems : \A t \in content'[q] :
          t.of = q /\ (t.how = "scratch" => faults' > 0) /\ HasCause(t)'
    BY <1>2, <2>1 DEF FormInv, server, HasCause
  <2>5. page' = p
    BY DEF Show
  <2>6. CASE p.at # "edit"
    <3>1. edit' = NoEdit
      BY <2>6, ShowTypes
    <3>2. edit'.text = {} /\ edit'.loads = {}
      BY <3>1 DEF NoEdit
    <3> QED BY <2>3, <2>4, <2>5, <2>6, <3>2 DEF FormInv
  <2>7. CASE p.at = "edit"
    <3>1. p.id \in Problems /\ p = EditPage(p.id)
      BY <2>7, PageCases
    <3>2. edit'.loads = FetchOf(p.id).loads /\ edit'.text = {} /\ edit'.loading
      BY <2>7, ShowTypes
    <3>3. FetchOf(p.id).loads = {[of |-> p.id, text |-> content[p.id]]}
      BY DEF FetchOf
    <3>4. content' = content
      BY DEF server
    <3>5. \A l \in edit'.loads :
            /\ page' = EditPage(l.of)
            /\ l.text = {} => ~Exists(l.of)'
            /\ \A t \in l.text : t.of = l.of /\ HasCause(t)'
      BY <2>2, <2>4, <2>5, <3>1, <3>2, <3>3, <3>4 DEF Exists
    <3> QED BY <2>3, <2>4, <3>2, <3>5 DEF FormInv
  <2> QED BY <2>6, <2>7
<1> QED BY <1>1, <1>2

(* The server stores a text: it is of the problem it is stored under.      *)
LEMMA FormOfStored ==
  ASSUME TypeOK, IdsInv, FormInv, [Next]_vars, NEW c \in calls, Store(c)
  PROVE  FormInv'
<1>1. CASE jumped
  BY <1>1 DEF FormInv, Store
<1>2. CASE ~jumped
  <2>1. /\ \A t : HasCause(t) => HasCause(t)'
        /\ faults > 0 => faults' > 0
        /\ \A p \in ids : ~Exists(p) => ~Exists(p)'
    BY CausesStay, GoneForGood
  <2>2. PICK d \in Call :
          /\ d.kind = c.kind /\ d.text = c.text
          /\ IF c.kind = "create" THEN d.of \notin ids ELSE d.of = c.of
          /\ calls' = (calls \ {c}) \union {d} /\ d.of \in Problems
          /\ \A q \in Problems : q # d.of => content'[q] = content[q]
          /\ c.kind \notin {"update", "create", "delete"} => content' = content
          /\ c.kind = "update" => Exists(d.of) /\ content'[d.of] = d.text
          /\ c.kind = "create" => content'[d.of] = {Written(d.of)}
          /\ c.kind = "delete" => content'[d.of] = {}
          /\ UNCHANGED <<page, edit, jumped, faults>>
    BY StoreCases
  <2>3. \A t \in d.text : t.of = d.of /\ HasCause(t)
    BY <1>2, <2>2 DEF FormInv, IdsInv
  <2>4. \A u \in calls' : \A t \in u.text : t.of = u.of /\ HasCause(t)'
    BY <1>2, <2>1, <2>2, <2>3 DEF FormInv
  <2>5. \A t \in edit'.text : page' = EditPage(t.of) /\ HasCause(t)'
    BY <1>2, <2>1, <2>2 DEF FormInv
  <2>6. page.at = "edit" => page.id \in ids
    BY DEF IdsInv
  <2>7. \A l \in edit'.loads :
          /\ page' = EditPage(l.of)
          /\ l.text = {} => ~Exists(l.of)'
          /\ \A t \in l.text : t.of = l.of /\ HasCause(t)'
    <3> SUFFICES ASSUME NEW l \in edit.loads
                 PROVE  /\ page = EditPage(l.of)
                        /\ l.text = {} => ~Exists(l.of)'
                        /\ \A t \in l.text : t.of = l.of /\ HasCause(t)'
      BY <2>2
    <3>1. /\ page = EditPage(l.of)
          /\ l.text = {} => ~Exists(l.of)
          /\ \A t \in l.text : t.of = l.of /\ HasCause(t)
      BY <1>2 DEF FormInv
    <3>2. l.of \in ids
      BY <2>6, <3>1 DEF EditPage
    <3> QED BY <2>1, <3>1, <3>2
  <2>8. page'.at = "edit" /\ ~edit'.loading /\ edit'.text = {} => faults' > 0 \/ ~Exists(page.id)'
    BY <1>2, <2>1, <2>2, <2>6 DEF FormInv, Exists
  <2>9. \A p \in Problems : \A t \in content'[p] : t.of = p /\ (t.how = "scratch" => faults' > 0)
    <3> SUFFICES ASSUME NEW p \in Problems, NEW t \in content'[p]
                 PROVE  t.of = p /\ (t.how = "scratch" => faults' > 0)
      OBVIOUS
    <3>1. CASE content'[p] = content[p]
      BY <1>2, <2>1, <3>1 DEF FormInv
    <3>2. CASE p = d.of /\ c.kind = "update"
      BY <2>2, <2>3, <3>2 DEF HasCause
    <3>3. CASE p = d.of /\ c.kind = "create"
      BY <2>2, <3>3 DEF Written
    <3>4. CASE p = d.of /\ c.kind = "delete"
      BY <2>2, <3>4
    <3> QED BY <2>2, <3>1, <3>2, <3>3, <3>4
  <2> QED BY <2>4, <2>5, <2>7, <2>8, <2>9 DEF FormInv
<1> QED BY <1>1, <1>2

(* A text that is typed from scratch has its cause: the load of the        *)
(* problem failed, or the problem is gone and its id is not given again.   *)
LEMMA StepForm == TypeOK /\ IdsInv /\ FormInv /\ [Next]_vars => FormInv'
<1> SUFFICES ASSUME TypeOK, IdsInv, FormInv, [Next]_vars PROVE FormInv'
  OBVIOUS
<1>0. /\ \A t : HasCause(t) => HasCause(t)'
      /\ faults > 0 => faults' > 0
  BY CausesStay
<1>1. ASSUME NEW p \in Page, Go(p) PROVE FormInv'
  BY <1>1, FormOfShown DEF Go
<1>2. ASSUME NEW p \in Problems, Jump(p) PROVE FormInv'
  BY <1>2 DEF Jump, Elsewhere, FormInv
<1>3. ASSUME NEW c \in calls, Store(c) PROVE FormInv'
  BY <1>3, FormOfStored
<1>4. ASSUME NEW l \in edit.loads, LoadArrives(l) PROVE FormInv'
  <2>1. /\ edit'.loads = edit.loads \ {l} /\ ~edit'.loading
        /\ edit'.text = IF l.text = {} THEN edit.text ELSE l.text
        /\ UNCHANGED <<content, ids, page, calls, jumped, faults>>
    BY <1>4, LoadedEdit DEF LoadArrives, Edited, server
  <2>2. \A q : Exists(q)' <=> Exists(q)
    BY <2>1 DEF Exists
  <2>3. CASE jumped
    BY <2>1, <2>3 DEF FormInv
  <2>4. CASE ~jumped
    <3>1. /\ page = EditPage(l.of)
          /\ l.text = {} => ~Exists(l.of)
          /\ \A t \in l.text : t.of = l.of /\ HasCause(t)
      BY <2>4 DEF FormInv
    <3>2. page.id = l.of
      BY <3>1 DEF EditPage
    <3>3. \A t \in edit'.text : page' = EditPage(t.of) /\ HasCause(t)'
      BY <1>0, <2>1, <2>4, <3>1 DEF FormInv
    <3>4. \A m \in edit'.loads :
            /\ page' = EditPage(m.of)
            /\ m.text = {} => ~Exists(m.of)'
            /\ \A t \in m.text : t.of = m.of /\ HasCause(t)'
      BY <1>0, <2>1, <2>2, <2>4 DEF FormInv
    <3>5. edit'.text = {} => ~Exists(page.id)'
      BY <2>1, <2>2, <3>1, <3>2
    <3>6. /\ \A c \in calls' : \A t \in c.text : t.of = c.of /\ HasCause(t)'
          /\ \A p \in Problems : \A t \in content'[p] : t.of = p /\ (t.how = "scratch" => faults' > 0)
      BY <1>0, <2>1, <2>4 DEF FormInv
    <3> QED BY <3>3, <3>4, <3>5, <3>6 DEF FormInv
  <2> QED BY <2>3, <2>4
<1>5. ASSUME NEW l \in edit.loads, LoadFails(l) PROVE FormInv'
  <2>1. /\ edit'.loads = edit.loads \ {l} /\ edit'.text = edit.text
        /\ UNCHANGED <<content, ids, page, calls, jumped>> /\ faults' > 0
    BY <1>5, LoadedEdit, FaultCounts DEF LoadFails, TypeOK, server
  <2>2. \A q : Exists(q)' <=> Exists(q)
    BY <2>1 DEF Exists
  <2> QED BY <1>0, <2>1, <2>2 DEF FormInv
<1>6. ASSUME NEW l \in edit.listings, ListingArrives(l) \/ ListingFails(l) PROVE FormInv'
  <2>1. edit'.loads = edit.loads /\ edit'.loading = edit.loading /\ edit'.text = edit.text
    <3>1. CASE ListingArrives(l)
      BY <3>1, ListedEdit DEF ListingArrives
    <3>2. CASE ListingFails(l)
      BY <3>2, ListedEdit DEF ListingFails
    <3> QED BY <1>6, <3>1, <3>2
  <2>2. UNCHANGED <<content, ids, page, calls, jumped>>
    BY <1>6 DEF ListingArrives, ListingFails, server
  <2> QED BY <2>1, <2>2, FormStays
<1>7. CASE EditFields
  <2>1. /\ page.at = "edit" /\ page.id \in Problems /\ page = EditPage(page.id)
        /\ ~edit.loading /\ edit.text = {}
        /\ UNCHANGED <<content, ids, page, calls, jumped, faults>>
        /\ page.id \in ids
    BY <1>7, PageCases DEF EditFields, Edited, TypeOK, server, IdsInv
  <2>2. edit'.loads = edit.loads /\ edit'.loading = edit.loading /\ edit'.text = {Scratch(page.id)}
    BY <1>7, <2>1, TypedEdit DEF EditFields, Edited
  <2>3. \A q : Exists(q)' <=> Exists(q)
    BY <2>1 DEF Exists
  <2>4. Scratch(page.id).of = page.id
    BY DEF Scratch
  <2>5. ~jumped => HasCause(Scratch(page.id))
    BY <2>1, <2>4 DEF FormInv, HasCause
  <2> QED BY <1>0, <2>1, <2>2, <2>3, <2>4, <2>5 DEF FormInv
<1>8. CASE Sends
  <2>1. PICK x \in Call :
          /\ calls' = calls \union {x}
          /\ x.kind \in {"update", "add", "remove"} => x.of = page.id
          /\ IF x.kind = "update" THEN x.text = edit.text ELSE x.text = {}
    BY <1>8, SendCases DEF Sends
  <2>2. /\ UNCHANGED <<content, ids, page, jumped, faults>>
        /\ edit'.text = edit.text /\ edit'.loading = edit.loading /\ edit'.loads = edit.loads
    BY <1>8, SendCases DEF Sends, server
  <2>3. \A q : Exists(q)' <=> Exists(q)
    BY <2>2 DEF Exists
  <2>4. ~jumped => \A t \in x.text : t.of = x.of /\ HasCause(t)
    BY <2>1 DEF FormInv, EditPage
  <2> QED BY <1>0, <2>1, <2>2, <2>3, <2>4 DEF FormInv
<1>9. ASSUME NEW c \in calls, Refuse(c) PROVE FormInv'
  BY <1>9, RefuseCases, FormStays DEF server
<1>10. ASSUME NEW c \in calls, Lose(c) PROVE FormInv'
  <2>1. \A u \in calls' : \E b \in calls : u.text = b.text /\ u.of = b.of
    BY <1>10, LoseCases
  <2> QED BY <1>10, <2>1, LoseCases, FormStays DEF server
<1>11. ASSUME NEW c \in calls, SavedOrCreated(c) PROVE FormInv'
  <2>1. UNCHANGED server /\ c.of \in Problems
    BY <1>11, SavedCases DEF TypeOK, Call
  <2>2. CASE /\ UNCHANGED <<page, form, jumped>> /\ calls' = calls \ {c}
             /\ edit' \in {[edit EXCEPT !.submitting = FALSE], edit}
    BY <2>1, <2>2, ButtonEdit, FormStays DEF server
  <2>3. CASE Elsewhere(EditPage(c.of))
    BY <2>3 DEF Elsewhere, FormInv
  <2>4. CASE /\ UNCHANGED jumped /\ calls' = Unmounted(calls \ {c})
             /\ Show(Admin("dashboard")) \/ Show(EditPage(c.of))
    <3>1. Admin("dashboard") \in Page /\ EditPage(c.of) \in Page /\ calls \ {c} \subseteq calls
      BY <2>1, PagesAre DEF Tabs
    <3> QED BY <2>1, <2>4, <3>1, FormOfShown
  <2> QED BY <1>11, <2>2, <2>3, <2>4, SavedCases
<1>12. ASSUME NEW c \in calls, Added(c) \/ Removed(c) PROVE FormInv'
  <2>1. UNCHANGED <<content, ids, page, jumped>> /\ calls' = calls \ {c}
    BY <1>12 DEF Added, Removed, Arrives, Settle, server
  <2>2. edit'.text = edit.text /\ edit'.loading = edit.loading /\ edit'.loads = edit.loads
    <3>1. CASE c.live
      BY <1>12, <3>1, AddedEdit, RemovedEdit
    <3>2. CASE ~c.live
      BY <1>12, <3>2 DEF Added, Removed
    <3> QED BY <3>1, <3>2
  <2> QED BY <2>1, <2>2, FormStays
<1>13. ASSUME NEW c \in calls, ListChanged(c) PROVE FormInv'
  BY <1>13, ChangedTypes, FormStays DEF server
<1>14. CASE (\E k \in Lists : ListArrives(k) \/ ListFails(k)) \/ Fill \/ ToggleForm \/ UNCHANGED vars
  <2>1. UNCHANGED <<content, ids, page, edit, calls, jumped>>
    BY <1>14 DEF ListArrives, ListFails, Fill, ToggleForm, vars, server
  <2> QED BY <2>1, FormStays
<1> QED BY <1>1, <1>2, <1>3, <1>4, <1>5, <1>6, <1>7, <1>8, <1>9, <1>10, <1>11, <1>12, <1>13,
    <1>14
        DEF Next, Sends

(* What explains a difference is not forgotten.                            *)
LEMMA ExcusesStay ==
  ASSUME TypeOK, IdsInv, [Next]_vars
  PROVE  /\ overtaken => overtaken'
         /\ jumped => jumped'
         /\ faults > 0 => faults' > 0
<1> DEFINE Goal == (overtaken => overtaken') /\ (jumped => jumped')
<1>1. faults > 0 => faults' > 0
  BY CausesStay
<1>2. ASSUME UNCHANGED <<overtaken, jumped>> PROVE Goal
  BY <1>2
<1>3. ASSUME NEW p \in Page, Go(p) PROVE Goal
  BY <1>3, MountedTypes DEF Go
<1>4. ASSUME NEW p \in Problems, Jump(p) PROVE Goal
  BY <1>4 DEF Jump, Elsewhere
<1>5. ASSUME NEW c \in calls, SavedOrCreated(c) PROVE Goal
  BY <1>5, SavedCases DEF Elsewhere
<1>6. ASSUME NEW c \in calls, Added(c) \/ Removed(c) \/ ListChanged(c) PROVE Goal
  <2>1. CASE Added(c) \/ Removed(c)
    <3>1. UNCHANGED jumped /\ Unnoticed(c)
      BY <2>1 DEF Added, Removed
    <3>2. overtaken => overtaken'
      BY <3>1 DEF Unnoticed
    <3> QED BY <3>1, <3>2
  <2>2. CASE ListChanged(c)
    <3>1. overtaken => overtaken'
      BY <2>2 DEF ListChanged
    <3> QED BY <2>2, <3>1, ChangedTypes
  <2> QED BY <1>6, <2>1, <2>2
<1>7. ASSUME NEW l \in edit.listings, ListingArrives(l) PROVE Goal
  BY <1>7 DEF ListingArrives
<1>8. ASSUME NEW c \in calls, Store(c) \/ Refuse(c) \/ Lose(c) PROVE Goal
  BY <1>8 DEF Store, Refuse, Lose
<1>9. CASE Sends
  BY <1>9, SendCases DEF Sends
<1>10. CASE \/ \E k \in Lists : ListArrives(k) \/ ListFails(k)
            \/ \E l \in edit.loads : LoadArrives(l) \/ LoadFails(l)
            \/ \E l \in edit.listings : ListingFails(l)
            \/ EditFields \/ Fill \/ ToggleForm \/ UNCHANGED vars
  <2>1. UNCHANGED <<overtaken, jumped>>
    BY <1>10 DEF ListArrives, ListFails, LoadArrives, LoadFails, ListingFails,
       EditFields, Edited, Fill, ToggleForm, vars
  <2> QED BY <1>1, <2>1
<1> HIDE DEF Goal
<1>11. Goal
  BY <1>3, <1>4, <1>5, <1>6, <1>7, <1>8, <1>9, <1>10 DEF Next, Sends, Goal
<1> QED BY <1>1, <1>11 DEF Goal

(* Steps that neither change test cases nor answer.                        *)
LEMMA ListedStays ==
  ASSUME TypeOK, Listed, UNCHANGED <<content, tests, testIds, page>>,
         edit'.listings = edit.listings, edit'.listed = edit.listed,
         \A u \in calls' : u \in calls
             \/ (~u.stored /\ (u.kind \in {"add", "remove"} => page = EditPage(u.of))),
         \A c \in calls : c.stored /\ c.kind \in {"add", "remove"} => c \in calls'
  PROVE  Listed'
<1>1. \A p : /\ Answering("add", p)' = Answering("add", p)
             /\ Answering("remove", p)' = Answering("remove", p)
  BY DEF Answering
<1>2. Exists(page.id)' <=> Exists(page.id)
  BY DEF Exists
<1>3. \A c \in calls' : c.live /\ c.kind \in {"add", "remove"} => page' = EditPage(c.of)
  BY DEF Listed
<1>4. \A l \in edit'.listings : page' = EditPage(l.of)
  BY DEF Listed
<1>5. \A p \in Problems : \A c \in Answering("remove", p)' : c.test \in testIds' \ tests'[p]
  BY <1>1 DEF Listed
<1>6. page'.at = "edit" /\ Exists(page.id)' /\ edit'.listings = {}
        /\ Answering("add", page.id)' = {} =>
          /\ tests'[page'.id] \subseteq edit'.listed
          /\ edit'.listed \ tests'[page'.id] \subseteq {c.test : c \in Answering("remove", page.id)'}
  BY <1>1, <1>2 DEF Listed
<1> QED BY <1>3, <1>4, <1>5, <1>6 DEF Listed

(* A page that is opened fetches its list, and no call was made from it.   *)
LEMMA ListedShown ==
  ASSUME TypeOK, Listed, UNCHANGED server,
         NEW p \in Page, Show(p), NEW cs, cs \subseteq calls, calls' = Unmounted(cs)
  PROVE  Listed'
<1>1. \A u \in calls' : \E c \in calls :
         ~u.live /\ u.kind = c.kind /\ u.of = c.of /\ u.test = c.test /\ u.stored = c.stored
  BY UnmountedTexts
<1>2. \A c \in calls' : c.live /\ c.kind \in {"add", "remove"} => page' = EditPage(c.of)
  BY <1>1
<1>3. \A q \in Problems : \A c \in Answering("remove", q)' : c.test \in testIds' \ tests'[q]
  <2> SUFFICES ASSUME NEW q \in Problems, NEW u \in Answering("remove", q)'
               PROVE  u.test \in testIds \ tests[q]
    BY DEF server
  <2>1. u \in calls' /\ u.kind = "remove" /\ u.stored /\ u.of = q
    BY DEF Answering
  <2>2. PICK c \in calls : u.kind = c.kind /\ u.of = c.of /\ u.test = c.test /\ u.stored = c.stored
    BY <1>1, <2>1
  <2>3. c \in Answering("remove", q)
    BY <2>1, <2>2 DEF Answering
  <2> QED BY <2>2, <2>3 DEF Listed
<1>4. CASE p.at # "edit"
  <2>1. edit'.listings = {} /\ page' = p
    BY <1>4, ShowTypes DEF NoEdit, Show
  <2> QED BY <1>2, <1>3, <1>4, <2>1 DEF Listed
<1>5. CASE p.at = "edit"
  <2>1. edit'.listings = {[of |-> p.id, tests |-> tests[p.id]]} /\ page' = p /\ p = EditPage(p.id)
    BY <1>5, ShowTypes, PageCases DEF FetchOf, Show
  <2>2. edit'.listings # {} /\ \A l \in edit'.listings : page' = EditPage(l.of)
    BY <2>1
  <2> QED BY <1>2, <1>3, <2>2 DEF Listed
<1> QED BY <1>4, <1>5

(* The server adds or removes a test case: its answer is to come.          *)
LEMMA ListedStored ==
  ASSUME TypeOK, IdsInv, Listed, NEW c \in calls, Store(c)
  PROVE  Listed'
<1>1. PICK d \in Call :
        /\ d.kind = c.kind /\ d.test = c.test /\ d.stored /\ d.live = c.live
        /\ IF c.kind = "create" THEN d.of \notin ids ELSE d.of = c.of
        /\ ~c.stored /\ calls' = (calls \ {c}) \union {d}
        /\ d.of \in Problems /\ d.kind \in Kinds
        /\ testIds' = testIds \union tests'[d.of]
        /\ \A q \in Problems : q # d.of => content'[q] = content[q] /\ tests'[q] = tests[q]
        /\ c.kind \notin {"update", "create", "delete"} => content' = content
        /\ c.kind \notin {"add", "remove", "delete"} => tests' = tests
        /\ c.kind = "update" => Exists(d.of)
        /\ c.kind = "delete" => content'[d.of] = {} /\ tests'[d.of] = {}
        /\ c.kind = "add" => \E t \in TestCases \ testIds : tests'[d.of] = tests[d.of] \union {t}
        /\ c.kind = "remove" => c.test \in tests[d.of] /\ tests'[d.of] = tests[d.of] \ {c.test}
        /\ UNCHANGED <<page, edit>>
  BY StoreCases
<1>2. \A u \in calls' : u.live /\ u.kind \in {"add", "remove"} => page' = EditPage(u.of)
  BY <1>1 DEF Listed
<1>3. \A l \in edit'.listings : page' = EditPage(l.of)
  BY <1>1 DEF Listed
<1>4. \A p \in Problems : \A u \in Answering("remove", p)' : u.test \in testIds' \ tests'[p]
  <2> SUFFICES ASSUME NEW p \in Problems, NEW u \in Answering("remove", p)'
               PROVE  u.test \in testIds' \ tests'[p]
    OBVIOUS
  <2>1. u \in calls' /\ u.kind = "remove" /\ u.stored /\ u.of = p
    BY DEF Answering
  <2>2. tests[p] \subseteq testIds
    BY DEF IdsInv
  <2>3. CASE u = d
    BY <1>1, <2>1, <2>2, <2>3
  <2>4. CASE u # d
    <3>1. u \in Answering("remove", p)
      BY <1>1, <2>1, <2>4 DEF Answering
    <3>2. u.test \in testIds \ tests[p]
      BY <3>1 DEF Listed
    <3>3. tests'[p] \subseteq tests[p] \union (TestCases \ testIds)
      <4>1. CASE p # d.of \/ c.kind \notin {"add", "remove", "delete"}
        BY <1>1, <4>1
      <4>2. CASE p = d.of /\ c.kind \in {"add", "remove", "delete"}
        BY <1>1, <4>2
      <4> QED BY <4>1, <4>2
    <3> QED BY <1>1, <3>2, <3>3
  <2> QED BY <2>3, <2>4
<1>5. ASSUME page'.at = "edit", Exists(page.id)', edit'.listings = {}, Answering("add", page.id)' = {}
      PROVE  /\ tests'[page'.id] \subseteq edit'.listed
             /\ edit'.listed \ tests'[page'.id] \subseteq {u.test : u \in Answering("remove", page.id)'}
  <2>0. PICK q : q = page.id
    OBVIOUS
  <2>1. q \in Problems /\ q \in ids /\ page.at = "edit" /\ page'.id = q
    BY <1>1, <1>5, <2>0, PageCases DEF TypeOK, IdsInv
  <2>2. content'[q] # {} /\ edit'.listed = edit.listed /\ edit.listings = {}
    BY <1>1, <1>5, <2>0 DEF Exists
  <2>3. \A u \in calls' : ~(u.kind = "add" /\ u.stored /\ u.of = q)
    BY <1>1, <1>5, <2>0 DEF Answering
  <2>4. Answering("add", q) = {}
    BY <1>1, <2>3 DEF Answering
  <2>5. Answering("remove", q) \subseteq Answering("remove", q)'
    BY <1>1 DEF Answering
  <2>6. Exists(q) => /\ tests[q] \subseteq edit.listed
                     /\ edit.listed \ tests[q] \subseteq {u.test : u \in Answering("remove", q)}
    BY <2>0, <2>1, <2>2, <2>4 DEF Listed
  <2>7. CASE d.of # q \/ c.kind \notin {"add", "remove", "delete", "create"}
    <3>1. Exists(q) /\ tests'[q] = tests[q]
      BY <1>1, <2>1, <2>2, <2>7 DEF Exists
    <3> QED BY <1>1, <2>0, <2>1, <2>2, <2>5, <2>6, <3>1 DEF Answering
  <2>8. CASE d.of = q /\ c.kind \in {"delete", "create", "add"}
    BY <1>1, <2>1, <2>2, <2>3, <2>8
  <2>9. CASE d.of = q /\ c.kind = "remove"
    <3>1. Exists(q) /\ tests'[q] = tests[q] \ {c.test}
      BY <1>1, <2>2, <2>9 DEF Exists
    <3>2. d \in Answering("remove", q)' /\ d.test = c.test
      BY <1>1, <2>9 DEF Answering
    <3> QED BY <1>1, <2>0, <2>1, <2>2, <2>5, <2>6, <3>1, <3>2 DEF Answering
  <2> QED BY <2>7, <2>8, <2>9
<1> QED BY <1>2, <1>3, <1>4, <1>5 DEF Listed

LEMMA AnswerGone ==
  ASSUME TypeOK, NEW c \in calls, calls' = calls \ {c}, NEW p
  PROVE  /\ c.of # p \/ c.kind # "add" => Answering("add", p)' = Answering("add", p)
         /\ c.of # p \/ c.kind # "remove" => Answering("remove", p)' = Answering("remove", p)
         /\ Answering("remove", p)' = Answering("remove", p) \ {c}
BY DEF Answering

(* The answer to an addition or a removal.                                 *)
LEMMA ListedAnswered ==
  ASSUME TypeOK, Listed, NEW c \in calls, Added(c) \/ Removed(c), ~overtaken'
  PROVE  Listed'
<1>1. /\ UNCHANGED <<content, tests, testIds, page>> /\ calls' = calls \ {c} /\ c.stored
      /\ c.kind \in {"add", "remove"} /\ (Added(c) => c.kind = "add")
           /\ (Removed(c) => c.kind = "remove")
      /\ c.live \/ page # EditPage(c.of)
  BY DEF Added, Removed, Arrives, Settle, server, Unnoticed
<1>2. c.of \in Problems
  BY DEF TypeOK, Call
<1>3. \A u \in calls' : u.live /\ u.kind \in {"add", "remove"} => page' = EditPage(u.of)
  BY <1>1 DEF Listed
<1>4. \A p \in Problems : \A u \in Answering("remove", p)' : u.test \in testIds' \ tests'[p]
  BY <1>1, AnswerGone DEF Listed
<1>5. Exists(page.id)' <=> Exists(page.id)
  BY <1>1 DEF Exists
<1>6. CASE ~c.live
  <2>1. edit' = edit
    BY <1>6 DEF Added, Removed
  <2>2. page.at = "edit" => page.id # c.of
    BY <1>1, <1>6, PageCases DEF TypeOK
  <2>3. page.at = "edit" => /\ Answering("add", page.id)' = Answering("add", page.id)
                            /\ Answering("remove", page.id)' = Answering("remove", page.id)
    <3>1. \A p : c.of # p => /\ Answering("add", p)' = Answering("add", p)
                             /\ Answering("remove", p)' = Answering("remove", p)
      BY <1>1, AnswerGone
    <3>2. page' = page
      BY <1>1
    <3> QED BY <2>2, <3>1, <3>2 DEF Answering
  <2>4. \A l \in edit'.listings : page' = EditPage(l.of)
    BY <1>1, <2>1 DEF Listed
  <2>5. page'.at = "edit" /\ Exists(page.id)' /\ edit'.listings = {}
          /\ Answering("add", page.id)' = {} =>
            /\ tests'[page'.id] \subseteq edit'.listed
            /\ edit'.listed \ tests'[page'.id] \subseteq {u.test : u \in Answering("remove", page.id)'}
    BY <1>1, <1>5, <2>1, <2>3 DEF Listed
  <2> QED BY <1>3, <1>4, <2>4, <2>5 DEF Listed
<1>7. CASE c.live /\ Added(c)
  <2>1. edit'.listings = edit.listings \union {[of |-> c.of, tests |-> tests[c.of]]}
    BY <1>7, AddedEdit
  <2>2. page = EditPage(c.of)
    BY <1>1, <1>7 DEF Listed
  <2>3. edit'.listings # {} /\ \A l \in edit'.listings : page' = EditPage(l.of)
    <3>1. [of |-> c.of, tests |-> tests[c.of]].of = c.of
      OBVIOUS
    <3> QED BY <1>1, <2>1, <2>2, <3>1 DEF Listed
  <2> QED BY <1>3, <1>4, <2>3 DEF Listed
<1>8. CASE c.live /\ Removed(c)
  <2>1. edit'.listings = edit.listings /\ edit'.listed = edit.listed \ {c.test}
    BY <1>8, RemovedEdit
  <2>2. page = EditPage(c.of) /\ page.id = c.of /\ c.kind = "remove"
    BY <1>1, <1>2, <1>8, PagesAre DEF Listed
  <2>3. c \in Answering("remove", c.of)
    BY <1>1, <2>2 DEF Answering
  <2>4. c.test \notin tests[c.of]
    BY <1>2, <2>3 DEF Listed
  <2>5. /\ Answering("add", page.id)' = Answering("add", page.id)
        /\ Answering("remove", page.id)' = Answering("remove", page.id) \ {c}
    BY <1>1, <2>2 DEF Answering
  <2>6. \A l \in edit'.listings : page' = EditPage(l.of)
    BY <1>1, <2>1 DEF Listed
  <2>7. ASSUME page'.at = "edit", Exists(page.id)', edit'.listings = {}, Answering("add", page.id)' = {}
        PROVE  /\ tests'[page'.id] \subseteq edit'.listed
               /\ edit'.listed \ tests'[page'.id] \subseteq {u.test : u \in Answering("remove", page.id)'}
    <3>1. /\ tests[page.id] \subseteq edit.listed
          /\ edit.listed \ tests[page.id] \subseteq {u.test : u \in Answering("remove", page.id)}
      BY <1>1, <1>5, <2>1, <2>5, <2>7 DEF Listed
    <3> QED BY <1>1, <2>1, <2>2, <2>4, <2>5, <3>1
  <2> QED BY <1>3, <1>4, <2>6, <2>7 DEF Listed
<1> QED BY <1>6, <1>7, <1>8

(* The list of test cases on screen lacks only what is being added, and    *)
(* has too much only of what is being removed.                             *)
LEMMA StepListed == TypeOK /\ IdsInv /\ ListInv /\ [Next]_vars => ListInv'
<1> SUFFICES ASSUME TypeOK, IdsInv, ListInv, [Next]_vars, ~overtaken', ~jumped', ~(faults' > 0)
             PROVE  Listed'
  BY DEF ListInv
<1>1. Listed
  BY ExcusesStay DEF ListInv
<1>2. ASSUME UNCHANGED <<server, page, calls>>, edit'.listings = edit.listings,
             edit'.listed = edit.listed
      PROVE  Listed'
  BY <1>1, <1>2, ListedStays DEF server
<1>3. ASSUME NEW p \in Page, Go(p) PROVE Listed'
  BY <1>1, <1>3, ListedShown DEF Go
<1>4. ASSUME NEW p \in Problems, Jump(p) PROVE Listed'
  BY <1>4 DEF Jump, Elsewhere
<1>5. ASSUME NEW c \in calls, Store(c) PROVE Listed'
  BY <1>1, <1>5, ListedStored
<1>6. ASSUME NEW l \in edit.loads, LoadArrives(l) PROVE Listed'
  <2>1. edit'.listings = edit.listings /\ edit'.listed = edit.listed
    BY <1>6, LoadedEdit DEF LoadArrives, Edited
  <2>2. UNCHANGED <<server, page, calls>>
    BY <1>6 DEF LoadArrives, Edited
  <2> QED BY <1>2, <2>1, <2>2
<1>7. ASSUME NEW l \in edit.listings, ListingArrives(l) PROVE Listed'
  <2>1. edit'.listings = edit.listings \ {l} /\ edit'.listed = l.tests
    BY <1>7, ListedEdit DEF ListingArrives
  <2>2. UNCHANGED <<content, tests, testIds, page, calls>> /\ l.tests = tests[l.of]
    BY <1>7 DEF ListingArrives, server
  <2>3. page = EditPage(l.of) /\ page.id = l.of
    BY <1>1 DEF Listed, EditPage
  <2>4. \A p : /\ Answering("add", p)' = Answering("add", p)
               /\ Answering("remove", p)' = Answering("remove", p)
    BY <2>2 DEF Answering
  <2>5. edit'.listed = tests'[page'.id]
    BY <2>1, <2>2, <2>3
  <2> QED BY <1>1, <2>1, <2>2, <2>4, <2>5 DEF Listed
<1>8. CASE EditFields
  <2>1. page.id \in Problems
    BY <1>8, PageCases DEF EditFields, TypeOK
  <2>2. edit'.listings = edit.listings /\ edit'.listed = edit.listed
    BY <1>8, <2>1, TypedEdit DEF EditFields, Edited
  <2>3. UNCHANGED <<server, page, calls>>
    BY <1>8 DEF EditFields, Edited
  <2> QED BY <1>2, <2>2, <2>3
<1>9. CASE Sends
  <2>1. PICK x \in Call :
          /\ ~x.stored /\ calls' = calls \union {x}
          /\ x.kind \in {"update", "add", "remove"} => page = EditPage(x.of)
    BY <1>9, SendCases DEF Sends
  <2>2. UNCHANGED <<server, page>> /\ edit'.listings = edit.listings /\ edit'.listed = edit.listed
    BY <1>9, SendCases DEF Sends
  <2> QED BY <1>1, <2>1, <2>2, ListedStays DEF server
<1>10. ASSUME NEW c \in calls, Refuse(c) PROVE Listed'
  BY <1>1, <1>10, RefuseCases, ListedStays DEF server
<1>11. ASSUME NEW c \in calls, SavedOrCreated(c) PROVE Listed'
  <2>1. UNCHANGED server /\ c.of \in Problems /\ c.kind \in {"update", "create"}
    BY <1>11, SavedCases DEF TypeOK, Call, SavedOrCreated
  <2>2. CASE /\ UNCHANGED page /\ calls' = calls \ {c}
             /\ edit' \in {[edit EXCEPT !.submitting = FALSE], edit}
    BY <1>1, <2>1, <2>2, ButtonEdit, ListedStays DEF server
  <2>3. CASE Elsewhere(EditPage(c.of))
    BY <2>3 DEF Elsewhere
  <2>4. CASE /\ calls' = Unmounted(calls \ {c})
             /\ Show(Admin("dashboard")) \/ Show(EditPage(c.of))
    <3>1. Admin("dashboard") \in Page /\ EditPage(c.of) \in Page /\ calls \ {c} \subseteq calls
      BY <2>1, PagesAre DEF Tabs
    <3> QED BY <1>1, <2>1, <2>4, <3>1, ListedShown
  <2> QED BY <1>11, <2>2, <2>3, <2>4, SavedCases
<1>12. ASSUME NEW c \in calls, Added(c) \/ Removed(c) PROVE Listed'
  BY <1>1, <1>12, ListedAnswered
<1>13. ASSUME NEW c \in calls, ListChanged(c) PROVE Listed'
  <2>1. c.kind \notin {"add", "remove"}
    BY <1>13 DEF ListChanged
  <2>2. UNCHANGED <<server, page, edit>> /\ calls' = calls \ {c}
    BY <1>13, ChangedTypes
  <2> QED BY <1>1, <2>1, <2>2, ListedStays DEF server
<1>14. CASE (\E k \in Lists : ListArrives(k)) \/ Fill \/ ToggleForm \/ UNCHANGED vars
  <2>1. UNCHANGED <<server, page, calls, edit>>
    BY <1>14 DEF ListArrives, Fill, ToggleForm, vars, server
  <2> QED BY <1>2, <2>1
<1>15. CASE \/ \E k \in Lists : ListFails(k)
            \/ \E l \in edit.loads : LoadFails(l)
            \/ \E l \in edit.listings : ListingFails(l)
  <2>1. faults' = faults + 1
    BY <1>15 DEF ListFails, LoadFails, ListingFails
  <2> QED BY <2>1, FaultCounts DEF TypeOK
<1>16. ASSUME NEW c \in calls, Lose(c) PROVE Listed'
  BY <1>16, LoseCases
<1> QED BY <1>3, <1>4, <1>5, <1>6, <1>7, <1>8, <1>9, <1>10, <1>11, <1>12, <1>13, <1>14,
    <1>15,
           <1>16 DEF Next, Sends

-----------------------------------------------------------------------------
(* Only three tabs of the dashboard show a list.                           *)
LEMMA TabsWithLists ==
  /\ ListsOf(Admin("dashboard")) = {}
  /\ \A p \in Problems : ListsOf(EditPage(p)) = {}
BY DEF ListsOf, Admin, EditPage

(* What a list shows changes only with what it lists.                      *)
LEMMA SameValue ==
  ASSUME NEW k \in Lists,
         k = "problems" => \A p \in Problems : Exists(p)' <=> Exists(p),
         k = "users" => UNCHANGED role, k = "contests" => UNCHANGED contests
  PROVE  Value(k)' = Value(k)
<1>1. CASE k = "problems"
  <2>1. {p \in Problems : Exists(p)'} = {p \in Problems : Exists(p)}
    BY <1>1
  <2> QED BY <1>1, <2>1 DEF Value
<1>2. CASE k = "users"
  BY <1>2 DEF Value
<1>3. CASE k = "contests"
  BY <1>3 DEF Value
<1> QED BY <1>1, <1>2, <1>3 DEF Lists

LEMMA ServerValues ==
  ASSUME UNCHANGED server
  PROVE  \A k \in Lists : Value(k)' = Value(k)
BY SameValue DEF server, Exists

LEMMA CurrentStays ==
  ASSUME NEW k \in Lists, UNCHANGED <<page, query>>, Value(k)' = Value(k),
         Pending(k) \/ Current(k),
         \A c \in calls : c.stored /\ c.kind \in Changes(k) => c \in calls'
  PROVE  Pending(k)' \/ Current(k)'
BY DEF Pending, Current, Changes

(* The server carries out a change.                                        *)
LEMMA CurrentOfStored ==
  ASSUME TypeOK, IdsInv, NEW c \in calls, Store(c), NEW k \in Lists, Pending(k) \/ Current(k)
  PROVE  Pending(k)' \/ Current(k)'
<1>1. PICK d \in Call :
        /\ d.kind = c.kind /\ d.text = c.text /\ d.stored
        /\ ~c.stored /\ calls' = (calls \ {c}) \union {d}
        /\ d.of \in Problems /\ d.kind \in Kinds
        /\ \A q \in Problems : q # d.of => content'[q] = content[q]
        /\ c.kind \notin {"update", "create", "delete"} => content' = content
        /\ c.kind = "update" => Exists(d.of) /\ content'[d.of] = d.text
        /\ (c.kind # "role" => role' = role) /\ (c.kind # "contest" => contests' = contests)
        /\ UNCHANGED <<page, query>>
  BY StoreCases
<1>2. CASE c.kind \in Changes(k)
  BY <1>1, <1>2 DEF Pending, Changes
<1>3. CASE c.kind \notin Changes(k)
  <2>1. k = "problems" => \A p \in Problems : Exists(p)' <=> Exists(p)
    <3>1. c.kind = "update" => c.text # {}
      BY DEF IdsInv
    <3> QED BY <1>1, <1>3, <3>1 DEF Exists, Changes
  <2>2. (k = "users" => UNCHANGED role) /\ (k = "contests" => UNCHANGED contests)
    BY <1>1, <1>3 DEF Changes
  <2>3. Value(k)' = Value(k)
    BY <2>1, <2>2, SameValue
  <2> QED BY <1>1, <2>3, CurrentStays
<1> QED BY <1>2, <1>3

(* A tab is opened: what it shows is fetched, or was up to date.           *)
LEMMA CurrentOfMounted ==
  ASSUME TypeOK, NEW p \in Page, Go(p), ~overtaken', NEW k \in Lists, Pending(k) \/ Current(k)
  PROVE  Pending(k)' \/ Current(k)'
<1>1. UNCHANGED server /\ page' = p /\ calls' = Unmounted(calls) /\ Mounted(p)
  BY DEF Go, Show
<1>2. CASE Pending(k)
  <2>1. PICK c \in calls : c.stored /\ c.kind \in Changes(k)
    BY <1>2 DEF Pending
  <2>2. \E u \in Unmounted(calls) : u.stored /\ u.kind = c.kind
    BY <2>1, CallsOfLeftPage DEF TypeOK
  <2> QED BY <1>1, <2>1, <2>2 DEF Pending, Changes
<1>3. CASE Current(k)
  <2>1. /\ query'[k].data = query[k].data
        /\ query'[k].flight \in {query[k].flight, {Value(k)}}
        /\ k \in ListsOf(p) /\ query[k].flight = {} /\ (k = "problems" \/ query[k].data = {})
             => query'[k].flight = {Value(k)}
        /\ k \in ListsOf(p) => query'[k].flight \in {{}, {Value(k)}}
    BY <1>1, MountedTypes
  <2>2. Value(k)' = Value(k)
    BY <1>1, ServerValues
  <2>3. k # "problems" \/ k \in ListsOf(p) =>
           /\ query'[k].flight \subseteq {Value(k)}
           /\ query'[k].flight = {} => query'[k].data \subseteq {Value(k)}
    BY <1>3, <2>1 DEF Current
  <2>4. k \in ListsOf(p) => query'[k].data \union query'[k].flight # {}
    BY <2>1
  <2>5. ListsOf(page)' = ListsOf(p)
    BY <1>1 DEF ListsOf
  <2> QED BY <2>2, <2>3, <2>4, <2>5 DEF Current
<1> QED BY <1>2, <1>3

(* The answer to a change of a list.                                       *)
LEMMA CurrentOfChanged ==
  ASSUME TypeOK, NEW c \in calls, ListChanged(c), ~overtaken', NEW k \in Lists,
         Pending(k) \/ Current(k)
  PROVE  Pending(k)' \/ Current(k)'
<1>1. UNCHANGED <<server, page>> /\ calls' = calls \ {c}
  BY ChangedTypes
<1>2. Value(k)' = Value(k) /\ ListsOf(page)' = ListsOf(page)
  BY <1>1, ServerValues DEF ListsOf
<1>3. PICK j \in Lists : /\ j = ListOf(c)
                         /\ query' \in {Refetched(j), Invalidated(j)}
                         /\ j # k => c.kind \notin Changes(k)
  <2>1. c.kind \in {"delete", "role", "contest"} /\ ListOf(c) \in Lists
    BY DEF ListChanged, ListOf, Lists
  <2>2. ListOf(c) # k => c.kind \notin Changes(k)
    BY <2>1 DEF ListOf, Changes, Lists
  <2>3. query' \in {Refetched(ListOf(c)), Invalidated(ListOf(c))}
    BY <2>1 DEF ListChanged, ListOf
  <2> QED BY <2>1, <2>2, <2>3
<1>4. CASE j # k
  <2>1. query'[k] = query[k]
    BY <1>3, <1>4, RefetchedTypes, InvalidatedTypes
  <2>2. Pending(k) => Pending(k)'
    BY <1>1, <1>3, <1>4 DEF Pending, Changes
  <2> QED BY <1>1, <1>2, <2>1, <2>2 DEF Current
<1>5. CASE j = k
  <2>1. query'[k].flight \in {{}, {Value(k)}}
    <3>1. query'[ListOf(c)].flight \in {{}, {Value(ListOf(c))}}
      BY DEF ListChanged
    <3> QED BY <1>3, <1>5, <3>1
  <2>2. \/ query'[k].flight # {}
        \/ query'[k] = NoQuery /\ k \notin ListsOf(page)
    BY <1>3, <1>5, RefetchedTypes, InvalidatedTypes
  <2>3. CASE query'[k].flight = {Value(k)}
    BY <1>2, <2>3 DEF Current
  <2>4. CASE query'[k] = NoQuery /\ k \notin ListsOf(page)
    BY <1>2, <2>4 DEF Current, NoQuery
  <2> QED BY <2>1, <2>2, <2>3, <2>4
<1> QED BY <1>4, <1>5

(* A list is up to date, unless a change to it is still to be answered.    *)
LEMMA StepLists == TypeOK /\ IdsInv /\ QueryInv /\ [Next]_vars => QueryInv'
<1> SUFFICES ASSUME TypeOK, IdsInv, QueryInv, [Next]_vars, ~overtaken', ~(faults' > 0),
                    NEW k \in Lists
             PROVE  Pending(k)' \/ Current(k)'
  BY DEF QueryInv
<1> DEFINE Goal == Pending(k)' \/ Current(k)'
<1>1. Pending(k) \/ Current(k)
  BY ExcusesStay DEF QueryInv
<1>2. ASSUME UNCHANGED <<server, page, query>>,
             \A c \in calls : c.stored /\ c.kind \in Changes(k) => c \in calls'
      PROVE  Goal
  BY <1>1, <1>2, CurrentStays, ServerValues
<1>3. ASSUME NEW p \in Page, Go(p) PROVE Goal
  BY <1>1, <1>3, CurrentOfMounted
<1>4. ASSUME NEW p \in Problems, Jump(p) PROVE Goal
  <2>1. UNCHANGED <<server, query, calls>> /\ page' = EditPage(p)
    BY <1>4 DEF Jump, Elsewhere
  <2>2. ListsOf(page)' = {} /\ Value(k)' = Value(k)
    BY <2>1, TabsWithLists, ServerValues DEF ListsOf
  <2> QED BY <1>1, <2>1, <2>2 DEF Pending, Current, Changes
<1>5. ASSUME NEW c \in calls, Store(c) PROVE Goal
  BY <1>1, <1>5, CurrentOfStored
<1>6. ASSUME NEW j \in Lists, ListArrives(j) PROVE Goal
  <2>1. /\ query' = [query EXCEPT ![j] = [data |-> query[j].flight, flight |-> {}]]
        /\ query[j].flight # {} /\ UNCHANGED <<server, page, calls>>
        /\ query \in [Lists -> Query]
    BY <1>6 DEF ListArrives, TypeOK
  <2>2. CASE j # k
    <3>1. query'[k] = query[k]
      BY <2>1, <2>2
    <3> QED BY <1>1, <2>1, <3>1, ServerValues DEF Pending, Current, Changes, ListsOf
  <2>3. CASE j = k
    <3>1. query'[k].data = query[k].flight /\ query'[k].flight = {}
      BY <2>1, <2>3
    <3> QED BY <1>1, <2>1, <2>3, <3>1, ServerValues DEF Pending, Current, Changes, ListsOf
  <2> QED BY <2>2, <2>3
<1>7. ASSUME NEW c \in calls, SavedOrCreated(c) PROVE Goal
  <2>1. /\ UNCHANGED <<server, query>> /\ c.stored /\ c.kind \in {"update", "create"}
        /\ calls' \in {calls \ {c}, Unmounted(calls \ {c})}
        /\ c.of \in Problems
    BY <1>7, SavedCases DEF TypeOK, Call, SavedOrCreated
  <2>2. \/ page' = page /\ c.kind = "update"
        \/ page' = EditPage(c.of)
        \/ page' = Admin("dashboard") /\ c.kind = "update"
    BY <1>7, <2>1, SavedCases DEF Show, Elsewhere
  <2>3. Value(k)' = Value(k)
    BY <2>1, ServerValues
  <2>4. ASSUME Pending(k), c.kind \notin Changes(k) PROVE Pending(k)'
    <3>1. PICK b \in calls \ {c} : b.stored /\ b.kind \in Changes(k)
      BY <2>4 DEF Pending
    <3>2. \E u \in calls' : u.stored /\ u.kind = b.kind
      <4>1. calls \ {c} \subseteq Call
        BY DEF TypeOK
      <4> QED BY <2>1, <3>1, <4>1, CallsOfLeftPage
    <3> QED BY <3>1, <3>2 DEF Pending, Changes
  <2>5. CASE page' = page /\ c.kind = "update"
    <3>1. c.kind \notin Changes(k)
      BY <2>5 DEF Changes, Lists
    <3> QED BY <1>1, <2>1, <2>3, <2>4, <2>5, <3>1 DEF Current, ListsOf
  <2>6. CASE page' \in {EditPage(c.of), Admin("dashboard")}
    <3>1. ListsOf(page)' = {}
      BY <2>1, <2>6, TabsWithLists DEF ListsOf
    <3>2. c.kind \in Changes(k) => k = "problems"
      BY <2>1 DEF Changes, Lists
    <3>3. CASE k = "problems"
      BY <3>1, <3>3 DEF Current
    <3>4. CASE k # "problems"
      BY <1>1, <2>1, <2>3, <2>4, <3>1, <3>2, <3>4 DEF Current
    <3> QED BY <3>3, <3>4
  <2> QED BY <2>2, <2>5, <2>6
<1>8. ASSUME NEW c \in calls, Added(c) \/ Removed(c) PROVE Goal
  <2>1. UNCHANGED <<server, page, query>> /\ calls' = calls \ {c} /\ c.kind \in {"add", "remove"}
    BY <1>8 DEF Added, Removed, Arrives, Settle
  <2>2. c.kind \notin Changes(k)
    BY <2>1 DEF Changes, Lists
  <2> QED BY <1>2, <2>1, <2>2
<1>9. ASSUME NEW c \in calls, ListChanged(c) PROVE Goal
  BY <1>1, <1>9, CurrentOfChanged
<1>10. ASSUME NEW c \in calls, Refuse(c) PROVE Goal
  <2>1. UNCHANGED <<server, page, query>> /\ calls' = calls \ {c} /\ ~c.stored
    BY <1>10, RefuseCases
  <2> QED BY <1>2, <2>1
<1>11. CASE Sends
  <2>1. PICK x : calls' = calls \union {x}
    BY <1>11, SendCases DEF Sends
  <2>2. UNCHANGED <<server, page, query>>
    BY <1>11, SendCases DEF Sends
  <2> QED BY <1>2, <2>1, <2>2
<1>12. CASE \/ \E l \in edit.loads : LoadArrives(l)
            \/ \E l \in edit.listings : ListingArrives(l)
            \/ EditFields \/ Fill \/ ToggleForm \/ UNCHANGED vars
  <2>1. UNCHANGED <<server, page, calls, query>>
    BY <1>12 DEF LoadArrives, ListingArrives, EditFields, Edited, Fill, ToggleForm, vars,
       server
  <2> QED BY <1>2, <2>1
<1>13. CASE \/ \E j \in Lists : ListFails(j)
            \/ \E l \in edit.loads : LoadFails(l)
            \/ \E l \in edit.listings : ListingFails(l)
  <2>1. faults' = faults + 1
    BY <1>13 DEF ListFails, LoadFails, ListingFails
  <2> QED BY <2>1, FaultCounts DEF TypeOK
<1>14. ASSUME NEW c \in calls, Lose(c) PROVE Goal
  BY <1>14, LoseCases
<1> QED BY <1>3, <1>4, <1>5, <1>6, <1>7, <1>8, <1>9, <1>10, <1>11, <1>12, <1>13, <1>14
        DEF Next, Sends

-----------------------------------------------------------------------------
(* The dashboard, when it is opened.                                       *)
LEMMA InitIds == Init => IdsInv
<1> SUFFICES ASSUME Init PROVE IdsInv
  OBVIOUS
<1>1. page.at = "admin" /\ calls = {} /\ tests = [p \in Problems |-> {}]
  BY DEF Init, Admin
<1>2. query["problems"].data = {} /\ query["problems"].flight = {}
  BY DEF Init, NoQuery, Lists
<1>3. \A p \in Problems : Exists(p) => p \in ids
  BY DEF Init, Exists
<1> QED BY <1>1, <1>2, <1>3 DEF IdsInv

LEMMA InitForm == Init => FormInv
<1> SUFFICES ASSUME Init PROVE FormInv
  OBVIOUS
<1>1. page.at = "admin" /\ calls = {} /\ edit.text = {} /\ edit.loads = {}
  BY DEF Init, Admin, NoEdit
<1>2. \A p \in Problems : \A t \in content[p] : t.of = p /\ t.how = "written"
  BY DEF Init, Written
<1> QED BY <1>1, <1>2 DEF FormInv

LEMMA InitList == Init => ListInv
<1> SUFFICES ASSUME Init PROVE ListInv
  OBVIOUS
<1>1. page.at = "admin" /\ calls = {} /\ edit.listings = {}
  BY DEF Init, Admin, NoEdit
<1> QED BY <1>1 DEF ListInv, Listed, Answering

LEMMA InitQuery == Init => QueryInv
<1> SUFFICES ASSUME Init PROVE QueryInv
  OBVIOUS
<1>1. ListsOf(page) = {} /\ \A k \in Lists : query[k].data = {} /\ query[k].flight = {}
  BY TabsWithLists DEF Init, NoQuery
<1> QED BY <1>1 DEF QueryInv, Current

(* Everything that holds of the pages of an administrator, together.       *)
AdministrationInv ==
    TypeOK /\ IdsInv /\ FormInv /\ ListInv /\ QueryInv

(* The inductive invariant of the pages of an administrator.               *)
THEOREM AdministrationInvariant == Spec => []AdministrationInv
<1>1. Init => AdministrationInv
  BY InitHasTypes, InitIds, InitForm, InitList, InitQuery DEF AdministrationInv
<1>2. AdministrationInv /\ [Next]_vars => AdministrationInv'
  BY StepAdmin, StepIds, StepForm, StepListed, StepLists DEF AdministrationInv
<1> QED BY <1>1, <1>2, PTL DEF Spec

(* The fields of the edit page, and what is saved, belong to the problem,  *)
(* unless the page changed its problem in place; an empty form is saved    *)
(* over a problem only after a failed load.                                *)
THEOREM FormsStayWithTheirProblem == Spec => []FormsAreOfTheirProblem
<1>1. AdministrationInv => FormsAreOfTheirProblem
  BY DEF AdministrationInv, FormInv, FormsAreOfTheirProblem
<1> QED BY <1>1, AdministrationInvariant, PTL

(* With nothing under way the edit page lists the test cases its problem   *)
(* has, however additions, removals, listings and moves interleave, with   *)
(* the excuses that ListedTestsExist names.                                *)
THEOREM TestListsSettle == Spec => []ListedTestsExist
<1>1. AdministrationInv => ListedTestsExist
  BY DEF AdministrationInv, ListInv, Listed, Answering, ListedTestsExist
<1> QED BY <1>1, AdministrationInvariant, PTL

(* With nothing under way a tab shows what is stored, also when the tab    *)
(* that made the change was left before its answer.                        *)
THEOREM DashboardSettles == Spec => []ListsAreCurrent
<1>1. AdministrationInv => ListsAreCurrent
  <2> SUFFICES ASSUME AdministrationInv, calls = {}, ~overtaken, ~(faults > 0),
                      NEW k \in ListsOf(page), query[k].flight = {}
               PROVE  query[k].data = {Value(k)}
    BY DEF ListsAreCurrent
  <2>1. k \in Lists
    BY DEF ListsOf, Lists
  <2>2. Current(k)
    BY <2>1 DEF AdministrationInv, QueryInv, Pending
  <2> QED BY <2>2 DEF Current
<1> QED BY <1>1, AdministrationInvariant, PTL
=============================================================================
