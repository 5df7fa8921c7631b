------------------------- MODULE SessionProperties -------------------------
(***************************************************************************)
(* What must hold of a browser's session.                                  *)
(***************************************************************************)
EXTENDS Session

(* Every variable of the session has its type.                             *)
SessionTypeOK ==
    /\ stored \in {{}} \union {{a} : a \in Account}
    /\ memory \in [Tabs -> Account]
    /\ request \in [Requests -> Request]
    /\ refreshing \in [Tabs -> {{}} \union {{r} : r \in Requests}]
    /\ refreshes \subseteq Refresh
    /\ unloading \subseteq Tabs
    /\ issued \in 0..MaxTokens
    /\ expired \in 0..issued
    /\ sessions \in Sessions
    /\ ended \subseteq Sessions
    /\ crossed \in BOOLEAN
    /\ made \in 0..MaxCalls
    /\ faults \in 0..MaxFaults

(* refreshToken (client.ts:72) shares one refresh between all requests of  *)
(* a tab that fail with 401 at the same time: there is never a second one, *)
(* the promise kept in refreshing is the refresh in flight, and a request  *)
(* that waits, waits for a refresh that is still to be answered.           *)
RefreshesAreShared ==
    /\ \A t \in Tabs :
          {f.by : f \in {g \in refreshes : g.tab = t}} = refreshing[t]
    /\ \A r \in Requests :
          request[r].state = "waiting" => request[r].on \in refreshing[request[r].tab]
OneRefreshPerTab == SessionTypeOK /\ RefreshesAreShared

(* A session whose logout is complete never comes back: no answer to a     *)
(* refresh that was in flight, no other tab whose store still holds it and *)
(* no reload puts its user into localStorage again, from where             *)
(* authStore.ts:60 would authenticate it.                                  *)
EndedSessionsStayEnded == StoredAccount.user \notin ended

(* The access token in localStorage is of the user beside it, unless the   *)
(* answer to a refresh arrived after the account had changed:              *)
(* setAccessToken (client.ts:194) stores it without a look at the user.    *)
TokenIsTheUsers ==
    StoredAccount.access.of \in {0, StoredAccount.user} \/ crossed

(* post is carried out again only after a fault that left its outcome      *)
(* unknown (client.ts:145), never by the resend after a 401, and at most   *)
(* MaxAttempts times.                                                      *)
RepeatsFollowFaults ==
    \A r \in Requests :
       /\ request[r].executed <= request[r].doubts + 1
       /\ request[r].executed <= MaxAttempts

(* Every call of the client ends, or waits for a refresh: the refresh is   *)
(* the one request without a timeout (client.ts:85).                       *)
CallsEndOrWaitForARefresh ==
    \A r \in Requests :
       request[r].state \in {"sent", "backoff"}
          ~> request[r].state \in {"settled", "waiting"}
-----------------------------------------------------------------------------
(* What makes the safety properties inductive.                             *)

(* A tab has one refresh in flight, and a call that is to be repeated has  *)
(* an attempt left.                                                        *)
RefreshesAreSingle == \A f, g \in refreshes : f.tab = g.tab => f = g
AttemptsAreLeft ==
    \A r \in Requests : request[r].state = "backoff" => request[r].attempt < MaxAttempts
RefreshInv ==
    /\ SessionTypeOK
    /\ RefreshesAreShared
    /\ RefreshesAreSingle
    /\ AttemptsAreLeft

(* No session is known before it was opened: the next one was never ended. *)
SessionsAreOpened ==
    /\ ended \subseteq 1..sessions
    /\ StoredAccount.user <= sessions
    /\ \A t \in Tabs : memory[t].user <= sessions
    /\ \A r \in Requests : request[r].session <= sessions

(* A call under way was carried out by earlier attempts only, each of them *)
(* with a fault; one that is over, once more at most.                      *)
Counted(rec) ==
    /\ rec.state \in {"sent", "waiting", "backoff"} =>
          rec.executed <= rec.doubts /\ rec.executed <= rec.attempt
    /\ rec.state \in {"sent", "waiting"} => rec.executed < rec.attempt
    /\ rec.executed <= rec.doubts + 1 /\ rec.executed <= MaxAttempts
CallsAreCounted == \A r \in Requests : Counted(request[r])
=============================================================================
