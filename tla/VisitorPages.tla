---------------------------- MODULE VisitorPages ----------------------------
(***************************************************************************)
(* The pages of a visitor other than those of submissions and scoreboards: *)
(* the list of problems, the contests and the registration for one, the    *)
(* profiles, and the forms that create an account, verify an email address *)
(* and reset a password.  One page is on screen at a time.  A call that a  *)
(* page made outlives it; so does the timer that leads to the login page.  *)
(***************************************************************************)
EXTENDS Calls, Integers, FiniteSets

CONSTANTS
    Start, End,    \* instants at which the contest starts and ends
    LinkEnds,      \* instant at which the link that verifies an address expires
    MaxTime,       \* bound on the clock
    Filters,       \* what can be searched for in the list of problems
    Matches,       \* Matches[f]: the pages of problems that match f
    MaxCalls,      \* bound on calls
    MaxMoves       \* bound on the moves of the visitor from page to page

ASSUME VisitorAssumption ==
    /\ {Start, End, LinkEnds, MaxTime, MaxCalls, MaxMoves, MaxFaults} \subseteq Nat
    /\ 0 < Start /\ Start < End
    /\ MaxAttempts \in Nat \ {0}
    /\ Matches \in [Filters -> Nat]
    /\ \E f \in Filters : \A g \in Filters : Matches[f] >= Matches[g]   \* no filter at all

VARIABLES
    now,
    done,       \* what the server has carried out
    page,       \* the page on screen
    form,       \* the form of the page
    clock,      \* the countdown of the contest page
    browse,     \* the list of problems: filter and page number
    query,      \* the contest and the list of contests, in the query cache
    calls,      \* calls under way
    sent,       \* sent[k]: calls of kind k so far
    moves,      \* moves so far
    redirects,  \* timers that lead to the login page
    overtaken   \* a fetch read before a registration served a page after it

vars == <<now, done, page, form, clock, browse, query, calls, sent,
          moves, redirects, overtaken, faults>>

(* Each kind of call belongs to a page; "own" and "theirs" are profiles.   *)
Kinds == {"signup", "verify", "forgot", "reset", "register", "profile"}
Pages == {"other", "login", "signup", "verify", "forgot", "reset",
          "problems", "contests", "contest", "own", "theirs"}
Profiles == {"own", "theirs"}
KindOf(p) == CASE p \in Profiles   -> "profile"
               [] p = "contest"    -> "register"
               [] p \in Kinds      -> p
               [] OTHER            -> "none"

Slot(S) == {{}} \union {{x} : x \in S}

(* isLoading, success and error of the page, or those of its mutation; and *)
(* whether the profile shows its form.                                     *)
Form == [status : {"idle", "pending", "success", "error"}, editing : BOOLEAN]
NoForm == [status |-> "idle", editing |-> FALSE]

Call == [n : 1..MaxCalls, kind : Kinds, own : BOOLEAN, attempt : 1..MaxAttempts,
         stored : BOOLEAN, live : BOOLEAN]

Made == sent["signup"] + sent["verify"] + sent["forgot"] + sent["reset"]
          + sent["register"] + sent["profile"]

(***************************************************************************)
(* Contests.                                                               *)
(***************************************************************************)
Status(t) == IF t < Start THEN "upcoming" ELSE IF t <= End THEN "running" ELSE "ended"

(* target: what is counted down to; left: what is shown of it; seen: the   *)
(* time of the last rendering, from which the badge and the button come.   *)
Clock == [target : {"none", "start", "end"}, left : {"time", "ended"}, seen : 0..MaxTime]
Remaining(target, t) ==
    IF (target = "start" /\ t < Start) \/ (target = "end" /\ t < End) THEN "time" ELSE "ended"
NoClock == [target |-> "none", left |-> "ended", seen |-> 0]

(* Mutation: only the start of the contest is counted down to.             *)
CountdownToStart ==
    LET target == IF Status(now) = "upcoming" THEN "start" ELSE "none" IN
    [target |-> target, left |-> Remaining(target, now), seen |-> now]

(* The effect on a contest that has arrived or changed.                    *)
Countdown ==
    LET target == CASE Status(now) = "upcoming" -> "start"
                    [] Status(now) = "running"  -> "end"
                    [] Status(now) = "ended"    -> "none"
    IN  [target |-> target, left |-> Remaining(target, now), seen |-> now]

(* Rendering matters on the pages that compare the clock with a contest.   *)
Rendered == IF page \in {"contest", "contests"} THEN [clock EXCEPT !.seen = now] ELSE clock

(* Of the contest and the list: whether the visitor is counted among the   *)
(* participants.  failed: the last fetch failed.                           *)
Keys == {"contest", "contests"}
Query == [data : Slot(BOOLEAN), flight : Slot(BOOLEAN), failed : BOOLEAN]
NoQuery == [data |-> {}, flight |-> {}, failed |-> FALSE]
Registered == "register" \in done

Shows(k) == page = k /\ query[k].data # {} /\ ~query[k].failed
Loading(k) == page = k /\ query[k].data = {} /\ query[k].flight # {}
SaysNotFound(k) == page = k /\ query[k].flight = {} /\ (query[k].data = {} \/ query[k].failed)

OffersRegistration == Shows("contest") /\ Status(clock.seen) # "ended"
OffersScoreboard == Shows("contest") /\ Status(clock.seen) # "upcoming"

(***************************************************************************)
(* The list of problems.                                                   *)
(***************************************************************************)
(* typed: the filter was changed without going back to the first page.     *)
Browse == [filter : Filters, page : Nat, typed : BOOLEAN]
AllProblems == CHOOSE f \in Filters : \A g \in Filters : Matches[f] >= Matches[g]
NoBrowse == [filter |-> AllProblems, page |-> 1, typed |-> FALSE]

(* At most seven buttons, around the current page.                         *)
Buttons(p, total) ==
    LET first == CASE total <= 7                                -> 1
                   [] total > 7 /\ p <= 4                       -> 1
                   [] total > 7 /\ p > 4 /\ p >= total - 3      -> total - 6
                   [] OTHER                                     -> p - 3
        count == IF total < 7 THEN total ELSE 7
    IN  IF total > 1 THEN first .. (first + count - 1) ELSE {}

Init ==
    /\ now = 0
    /\ done = {}
    /\ page = "other"
    /\ form = NoForm
    /\ clock = NoClock
    /\ browse = NoBrowse
    /\ query = [k \in Keys |-> NoQuery]
    /\ calls = {}
    /\ sent = [k \in Kinds |-> 0]
    /\ moves = 0
    /\ redirects = 0
    /\ overtaken = FALSE
    /\ faults = 0

Tick ==
    /\ now < MaxTime
    /\ now' = now + 1
    /\ UNCHANGED <<done, page, form, clock, browse, query, calls, sent,
                   moves, redirects, overtaken, faults>>

(***************************************************************************)
(* Going from page to page.                                                *)
(***************************************************************************)
(* Mounting a page with a query fetches it when there is no data, or only  *)
(* old data; a fetch under way already serves the page.                    *)
Mounted(p) ==
    /\ \E old \in BOOLEAN :
          query' = [k \in Keys |->
              IF k = p /\ query[k].flight = {} /\ (old \/ query[k].data = {})
              THEN [query[k] EXCEPT !.flight = {Registered}] ELSE query[k]]
    /\ overtaken' = (overtaken \/ (p \in Keys /\ query'[p].flight \notin {{}, {Registered}}))

New(kind, own, n) ==
    [n |-> n, kind |-> kind, own |-> own, attempt |-> 1, stored |-> FALSE, live |-> TRUE]

Unmounted(cs) == {[c EXCEPT !.live = FALSE] : c \in cs}

(* The page that verifies an email address posts its token when it is      *)
(* mounted, in StrictMode twice.                                           *)
Opened(p) ==
    IF p # "verify"
    THEN calls' = Unmounted(calls) /\ UNCHANGED sent
    ELSE \E n \in {1, 2} :
           /\ Made + n <= MaxCalls
           /\ calls' = Unmounted(calls) \union {New("verify", TRUE, Made + i) : i \in 1..n}
           /\ sent' = [sent EXCEPT !["verify"] = @ + n]

Show(p) ==
    /\ page' = p
    /\ form' = IF p = "verify" THEN [NoForm EXCEPT !.status = "pending"] ELSE NoForm
    /\ clock' = IF p = "contest" /\ query["contest"].data # {} THEN Countdown
                ELSE IF p = "contests" THEN [NoClock EXCEPT !.seen = now]
                ELSE NoClock
    /\ browse' = NoBrowse
    /\ Mounted(p)
    /\ Opened(p)

Go(p) ==
    /\ page # p
    /\ ~{page, p} \subseteq Profiles
    /\ moves < MaxMoves
    /\ moves' = moves + 1
    /\ Show(p)
    /\ UNCHANGED <<now, done, redirects, faults>>

(* From one profile to another: the page stays mounted.                    *)
Jump ==
    /\ page \in Profiles
    /\ moves < MaxMoves
    /\ moves' = moves + 1
    /\ page' = CHOOSE p \in Profiles : p # page
    /\ UNCHANGED <<now, done, form, clock, browse, query, calls, sent,
                   redirects, overtaken, faults>>

(* The three seconds after a success are over, whatever the page.          *)
Redirect ==
    /\ redirects > 0
    /\ redirects' = redirects - 1
    /\ IF page = "login" THEN UNCHANGED <<page, form, clock, browse, query, calls, sent, overtaken>>
       ELSE Show("login")
    /\ UNCHANGED <<now, done, moves, faults>>

(***************************************************************************)
(* The contest pages.                                                      *)
(***************************************************************************)
(* The answer to a fetch.  The same contest again is no change: the effect *)
(* of the contest page does not run, nor is anything rendered.             *)
Arrive(k) ==
    /\ query[k].flight # {}
    /\ query' = [query EXCEPT ![k] = [data |-> query[k].flight, flight |-> {}, failed |-> FALSE]]
    /\ clock' = IF page # k \/ query[k].flight = query[k].data THEN clock
                ELSE IF k = "contest" THEN Countdown
                ELSE Rendered
    /\ UNCHANGED <<now, done, page, form, browse, calls, sent, moves,
                   redirects, overtaken, faults>>

FetchFails(k) ==
    /\ query[k].flight # {}
    /\ faults < MaxFaults
    /\ faults' = faults + 1
    /\ query' = [query EXCEPT ![k].flight = {}, ![k].failed = TRUE]
    /\ UNCHANGED <<now, done, page, form, clock, browse, calls, sent, moves,
                   redirects, overtaken>>

(* The interval of one second: what is left is shown as long as it changes.*)
TickOfPage ==
    /\ clock.left = "time"
    /\ clock' = [clock EXCEPT !.left = Remaining(clock.target, now), !.seen = now]
    /\ UNCHANGED <<now, done, page, form, browse, query, calls, sent, moves,
                   redirects, overtaken, faults>>

(* One of the tabs of the contest is chosen.                               *)
ChooseTab ==
    /\ Shows("contest")
    /\ clock' = [clock EXCEPT !.seen = now]
    /\ UNCHANGED <<now, done, page, form, browse, query, calls, sent, moves,
                   redirects, overtaken, faults>>

(***************************************************************************)
(* The list of problems.                                                   *)
(***************************************************************************)
Browsed(b) ==
    /\ page = "problems"
    /\ browse' = b
    /\ UNCHANGED <<now, done, page, form, clock, query, calls, sent, moves,
                   redirects, overtaken, faults>>

(* Every character typed into the search field changes the filter.         *)
TypeSearch(f) == Browsed([browse EXCEPT !.filter = f, !.typed = TRUE])
Search == Browsed([browse EXCEPT !.page = 1, !.typed = FALSE])

(* Mutation: a difficulty is chosen on the page one is on.                 *)
ChooseDifficultyHere(f) == Browsed([browse EXCEPT !.filter = f])

ChooseDifficulty(f) == Browsed([filter |-> f, page |-> 1, typed |-> FALSE])

(* The buttons are there when the page on screen has rows, or none.        *)
TurnTo(p) ==
    /\ Matches[browse.filter] > 1
    /\ \/ p \in Buttons(browse.page, Matches[browse.filter])
       \/ browse.page > 1 /\ p = browse.page - 1
       \/ browse.page < Matches[browse.filter] /\ p = browse.page + 1
    /\ Browsed([browse EXCEPT !.page = p,
                              !.typed = browse.typed /\ p > Matches[browse.filter]])

(***************************************************************************)
(* Forms.                                                                  *)
(***************************************************************************)
(* The profile page shows its form on request, for the visitor's own       *)
(* profile; it is closed by Cancel or by saving what is not changed.       *)
StartEdit ==
    /\ page = "own" /\ ~form.editing
    /\ form' = [form EXCEPT !.editing = TRUE]
    /\ UNCHANGED <<now, done, page, clock, browse, query, calls, sent, moves,
                   redirects, overtaken, faults>>

CloseEdit ==
    /\ page \in Profiles /\ form.editing
    /\ form' = [form EXCEPT !.editing = FALSE]
    /\ UNCHANGED <<now, done, page, clock, browse, query, calls, sent, moves,
                   redirects, overtaken, faults>>

(* A form is replaced by the message of its success; a mutation can be     *)
(* repeated.                                                               *)
MaySend ==
    /\ form.status # "pending"
    /\ page \in {"signup", "forgot", "reset"} => form.status # "success"
    /\ page \in Profiles => form.editing
    /\ page = "contest" => OffersRegistration

(* Mutation: the success is shown before the answer.                       *)
SendOptimistic ==
    /\ page \in {"signup", "forgot", "reset", "contest"} \union Profiles
    /\ MaySend
    /\ Made < MaxCalls
    /\ form' = [form EXCEPT !.status = "success"]
    /\ calls' = calls \union {New(KindOf(page), page = "own", Made + 1)}
    /\ sent' = [sent EXCEPT ![KindOf(page)] = @ + 1]
    /\ clock' = Rendered
    /\ UNCHANGED <<now, done, page, browse, query, moves, redirects,
                   overtaken, faults>>

Send ==
    /\ page \in {"signup", "forgot", "reset", "contest"} \union Profiles
    /\ MaySend
    /\ Made < MaxCalls
    /\ form' = [form EXCEPT !.status = "pending"]
    /\ calls' = calls \union {New(KindOf(page), page = "own", Made + 1)}
    /\ sent' = [sent EXCEPT ![KindOf(page)] = @ + 1]
    /\ clock' = Rendered
    /\ UNCHANGED <<now, done, page, browse, query, moves, redirects,
                   overtaken, faults>>

(* What the server accepts.  It wants new_password, where the page sends   *)
(* newPassword; of a profile it changes nothing that the page sends.       *)
Accepts(c) ==
    CASE c.kind = "signup"   -> "signup" \notin done
      [] c.kind = "verify"   -> now < LinkEnds /\ "verify" \notin done
      [] c.kind = "forgot"   -> TRUE
      [] c.kind = "reset"    -> FALSE
      [] c.kind = "register" -> now < Start /\ "register" \notin done
      [] c.kind = "profile"  -> c.own

CarryOut(c) ==
    /\ ~c.stored
    /\ Accepts(c)
    /\ done' = IF c.kind \in {"signup", "verify", "register"} THEN done \union {c.kind} ELSE done
    /\ calls' = (calls \ {c}) \union {[c EXCEPT !.stored = TRUE]}
    /\ UNCHANGED <<now, page, form, clock, browse, query, sent, moves,
                   redirects, overtaken, faults>>

(* The page that made the call shows how it ended.                         *)
Shown(c, status) ==
    /\ form' = IF c.live
               THEN [status |-> status,
                     editing |-> form.editing /\ ~(c.kind = "profile" /\ status = "success")]
               ELSE form
    /\ clock' = IF c.live THEN Rendered ELSE clock

(* Mutation: the list of contests keeps its numbers of participants.       *)
InvalidatedContestOnly ==
    query' = [query EXCEPT !["contest"] =
        IF page = "contest" /\ ~(@.flight # {} /\ @.data = {}) THEN [@ EXCEPT !.flight = {Registered}]
        ELSE IF @.flight # {} THEN @ ELSE NoQuery]

(* invalidateQueries for the contest and for the list: what is on screen   *)
(* is fetched again, also when a fetch is under way, unless that is the    *)
(* first one; what is not is marked, and a fetch under way removes the     *)
(* mark.                                                                   *)
Invalidated ==
    query' = [k \in Keys |->
        CASE page = k /\ (query[k].flight = {} \/ query[k].data # {}) ->
                [query[k] EXCEPT !.flight = {Registered}]
          [] page # k /\ query[k].flight = {} -> NoQuery
          [] OTHER -> query[k]]

Succeed(c) ==
    /\ c.stored
    /\ calls' = calls \ {c}
    /\ Shown(c, "success")
    /\ redirects' = IF c.kind \in {"verify", "reset"} THEN redirects + 1 ELSE redirects
    /\ IF c.kind = "register"
       THEN /\ Invalidated
            /\ overtaken' = (overtaken \/ \E k \in Keys : query'[k].flight \notin {{}, {Registered}})
       ELSE UNCHANGED <<query, overtaken>>
    /\ UNCHANGED <<now, done, page, browse, sent, moves, faults>>

Refuse(c) ==
    /\ ~c.stored /\ ~Accepts(c)
    /\ calls' = calls \ {c}
    /\ Shown(c, "error")
    /\ UNCHANGED <<now, done, page, browse, query, sent, moves, redirects,
                   overtaken, faults>>

(* The answer is lost: the client tries again, also what was carried out,  *)
(* and reports an error in the end.                                        *)
Lose(c) ==
    /\ faults < MaxFaults
    /\ faults' = faults + 1
    /\ IF c.attempt < MaxAttempts
       THEN /\ calls' = (calls \ {c})
                          \union {[c EXCEPT !.attempt = @ + 1, !.stored = FALSE]}
            /\ UNCHANGED <<form, clock>>
       ELSE /\ calls' = calls \ {c}
            /\ Shown(c, "error")
    /\ UNCHANGED <<now, done, page, browse, query, sent, moves, redirects,
                   overtaken>>

Next ==
    \/ Tick
    \/ \E p \in Pages : Go(p)
    \/ Jump \/ Redirect
    \/ \E k \in Keys : Arrive(k) \/ FetchFails(k)
    \/ TickOfPage \/ ChooseTab
    \/ \E f \in Filters : TypeSearch(f) \/ ChooseDifficulty(f)
    \/ Search
    \/ \E p \in 1 .. (Matches[AllProblems] + 1) : TurnTo(p)
    \/ StartEdit \/ CloseEdit \/ Send
    \/ \E c \in calls : CarryOut(c) \/ Succeed(c) \/ Refuse(c) \/ Lose(c)

Spec == Init /\ [][Next]_vars
=============================================================================
