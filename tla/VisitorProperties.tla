------------------------- MODULE VisitorProperties --------------------------
(***************************************************************************)
(* What a visitor may rely on, on the pages of VisitorPages.               *)
(***************************************************************************)
EXTENDS VisitorPages

TypeOK ==
    /\ now \in 0..MaxTime
    /\ done \subseteq Kinds
    /\ page \in Pages
    /\ form \in Form
    /\ clock \in Clock
    /\ browse \in Browse
    /\ query \in [Keys -> Query]
    /\ calls \subseteq Call
    /\ sent \in [Kinds -> 0..MaxCalls]
    /\ moves \in 0..MaxMoves
    /\ redirects \in 0..MaxCalls
    /\ overtaken \in BOOLEAN
    /\ faults \in 0..MaxFaults

(* What a form reports is what happened: after its success the account,    *)
(* the verification or the registration is there; after an error it is     *)
(* not, unless an answer was lost and the client posted again what had     *)
(* been carried out, or an earlier call of the same kind had carried it    *)
(* out (the second post of StrictMode, a second click).                    *)
OutcomesAreTrue ==
    /\ TypeOK
    /\ LET k == KindOf(page) IN
       k \in {"signup", "verify", "register"} =>
          /\ form.status = "success" => k \in done
          /\ form.status = "error" /\ k \in done => faults > 0 \/ sent[k] > 1

(* The badge of the contest page, and with it the button that registers,   *)
(* follow the contest: they lag behind the clock by one second at most, or *)
(* from the end on if the page was opened before the start: the interval   *)
(* goes on counting down to the start, and nothing is rendered any more.   *)
(* (The instant of the end itself still counts as running.)                *)
BadgeFollowsContest ==
    Shows("contest") =>
       \/ Status(clock.seen) = Status(now)
       \/ clock.left = "time"
       \/ clock.target = "start" /\ Status(clock.seen) = "running"
       \/ clock.seen = End

(* With nothing under way, the contest page and the list of contests count *)
(* the visitor as a participant when he is one: registering invalidates    *)
(* both, also when the page was left.  Only a fetch that was read before   *)
(* and serves a page after it, or a lost answer, explains a difference.    *)
ParticipantsAreCounted ==
    \/ calls # {} \/ overtaken \/ faults > 0
    \/ \A k \in Keys : Shows(k) /\ query[k].flight = {} => query[k].data = {Registered}

(* The list of problems is empty only if nothing matches, unless what was  *)
(* typed changed the matches under the page one is on; and its buttons     *)
(* lead to pages there are, the current one among them.                    *)
PagingIsSound ==
    LET total == Matches[browse.filter]
        offered == Buttons(browse.page, total)
    IN  page = "problems" =>
           /\ browse.page > total /\ total > 0 => browse.typed
           /\ offered \subseteq 1..total
           /\ total > 1 /\ browse.page <= total => browse.page \in offered
-----------------------------------------------------------------------------
(* What makes these inductive.  Each part is kept by every step, given the  *)
(* parts before it.                                                        *)

(* No more timers and calls than were sent; two calls of a kind were sent  *)
(* one after the other.                                                    *)
CountInv ==
    /\ Made <= MaxCalls
    /\ IsFiniteSet(calls) /\ redirects + Cardinality(calls) <= Made
    /\ \A c \in calls : sent[c.kind] >= 1
    /\ \A c, d \in calls : c # d /\ c.kind = d.kind => sent[c.kind] >= 2

(* What has been carried out was sent, and is carried out again, or        *)
(* reported as an error, only if it was sent again.                        *)
Again(k) == faults > 0 \/ sent[k] > 1
CallsInv ==
    /\ \A c \in calls :
          /\ c.live => c.kind = KindOf(page)
          /\ c.stored /\ c.kind \in {"signup", "verify", "register"} => c.kind \in done
          /\ ~c.stored /\ c.kind \in done => Again(c.kind)
          /\ form.status = "error" /\ c.kind = KindOf(page) => Again(c.kind)
    /\ \A k \in done : sent[k] >= 1

(* Time does not run backwards, and the interval stops at what it counts   *)
(* down to.                                                                *)
ClockInv ==
    /\ clock.seen <= now
    /\ clock.left = "time" => clock.target # "none"
    /\ page = "contest" /\ query["contest"].data # {} =>
          \/ clock.left = "time"
          \/ clock.target = "start" /\ clock.seen >= Start
          \/ clock.target = "end" /\ clock.seen >= End
          \/ clock.target = "none" /\ clock.seen > End

(* Between the registration and its answer, nothing is promised.           *)
QueryInv ==
    \/ overtaken \/ faults > 0
    \/ \E c \in calls : c.kind = "register" /\ c.stored
    \/ \A k \in Keys : /\ query[k].flight \subseteq {Registered}
                       /\ query[k].flight = {} => query[k].data \subseteq {Registered}

BrowseInv ==
    /\ browse.page >= 1
    /\ LET total == Matches[browse.filter]
       IN  browse.page > total /\ total > 0 => browse.typed
=============================================================================
