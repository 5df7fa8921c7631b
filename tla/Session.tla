------------------------------ MODULE Session ------------------------------
(***************************************************************************)
(* The session of a browser: the API client (frontend/src/api/client.ts)   *)
(* and the account store (frontend/src/stores/authStore.ts).               *)
(*                                                                         *)
(* Tabs of one browser share localStorage ("auth-storage").  Every tab has *)
(* a copy of it in memory (the zustand store) and a client of its own.     *)
(* The store reads localStorage when the page loads and overwrites it      *)
(* whole with every set; the client reads and edits localStorage behind    *)
(* the store's back.  Requests, logins and logouts all pass through the    *)
(* client, which resends after a 401 once the token is refreshed, repeats  *)
(* after a fault, and shares one refresh between the requests of a tab.    *)
(*                                                                         *)
(* A login opens a session, numbered from 1; 0 is "no session".  An access *)
(* token carries the session it speaks for and the order of its issue: all *)
(* live equally long, so the older one expires first.                      *)
(*                                                                         *)
(* authStore.ts:4 imports a default export that client.ts does not have;   *)
(* the import is read as the apiClient that client.ts exports.             *)
(***************************************************************************)
EXTENDS Calls, Integers, FiniteSets

CONSTANTS
    Tabs,           \* browser tabs
    Requests,       \* slots for calls of get, post, put and delete
    MaxCalls,       \* bound on calls
    MaxSessions,    \* bound on logins
    MaxTokens       \* bound on access tokens issued

ASSUME SessionAssumption ==
    /\ Tabs # {}
    /\ MaxAttempts \in Nat \ {0}
    /\ MaxCalls \in Nat
    /\ MaxSessions \in Nat
    /\ MaxTokens \in Nat
    /\ MaxFaults \in Nat

Sessions == 0..MaxSessions
Token == [of : Sessions, no : 0..MaxTokens]
NoToken == [of |-> 0, no |-> 0]

(* What the store holds and persists: the user, the access token and the   *)
(* refresh token (the user and the refresh token by their session).        *)
Account == [user : Sessions, access : Token, refresh : Sessions]
NoAccount == [user |-> 0, access |-> NoToken, refresh |-> 0]

Kinds == {"api", "login", "logout"}
States == {"idle", "sent", "waiting", "backoff", "settled"}

Request == [
    kind : Kinds,
    tab : Tabs,
    state : States,
    attempt : 0..MaxAttempts,    \* attempt of retryRequest's loop
    retried : BOOLEAN,           \* _retry of the request's config
    token : Token,               \* the Authorization header
    on : Requests,               \* whose refresh it waits for
    session : Sessions,          \* the store's session when it was made
    executed : Nat,              \* times the server carried it out
    doubts : Nat]                \* faults after which that is unknown

VARIABLES
    stored,       \* localStorage 'auth-storage': {} or {an account}
    memory,       \* memory[t]: the store of the tab
    request,      \* request[r]
    refreshing,   \* refreshing[t]: {} or {the request that started it}
    refreshes,    \* refresh requests in flight
    unloading,    \* tabs that have set window.location and are not reloaded
    issued,       \* access tokens issued so far
    expired,      \* access tokens up to this one have expired
    sessions,     \* logins so far
    ended,        \* sessions whose logout is complete
    crossed,      \* a refresh of one session was stored in another
    made          \* calls so far

sessionVars == <<stored, memory, request, refreshing, refreshes, unloading, issued,
                 expired, sessions, ended, crossed, made, faults>>
tokens == <<issued, expired, sessions>>

Refresh == [by : Requests, tab : Tabs, of : Sessions]

(* The account that the client finds in localStorage.                      *)
StoredAccount == IF stored = {} THEN NoAccount ELSE CHOOSE a \in stored : TRUE

SessionInit ==
    /\ stored = {}
    /\ memory = [t \in Tabs |-> NoAccount]
    /\ request = [r \in Requests |->
                    [kind |-> "api", tab |-> CHOOSE t \in Tabs : TRUE,
                     state |-> "idle", attempt |-> 0, retried |-> FALSE,
                     token |-> NoToken, on |-> r, session |-> 0,
                     executed |-> 0, doubts |-> 0]]
    /\ refreshing = [t \in Tabs |-> {}]
    /\ refreshes = {}
    /\ unloading = {}
    /\ issued = 0
    /\ expired = 0
    /\ sessions = 0
    /\ ended = {}
    /\ crossed = FALSE
    /\ made = 0
    /\ faults = 0

(***************************************************************************)
(* The store: set writes the tab's state and persists all of it.           *)
(***************************************************************************)
SetStore(t, account) ==
    /\ memory' = [memory EXCEPT ![t] = account]
    /\ stored' = {account}

(* Mutation: the whole answer to the refresh is stored, user included.     *)
WithAccountOfToken(token) ==
    IF stored = {} THEN {}
    ELSE {[user |-> token.of, access |-> token, refresh |-> token.of]}

(* The client's setAccessToken edits what is stored, if anything is.       *)
WithAccessToken(token) ==
    IF stored = {} THEN {} ELSE {[StoredAccount EXCEPT !.access = token]}

(***************************************************************************)
(* Sending: the request interceptor attaches the stored access token.      *)
(***************************************************************************)
Attempt(rec) ==
    [rec EXCEPT !.state = "sent", !.attempt = @ + 1, !.retried = FALSE,
                !.token = StoredAccount.access]

Start(r, t, kind) ==
    /\ request[r].state \in {"idle", "settled"}
    /\ t \notin unloading
    /\ made < MaxCalls
    /\ made' = made + 1
    /\ kind = "login" => sessions < MaxSessions
    /\ kind = "logout" => memory[t].refresh # 0
    /\ request' = [request EXCEPT
           ![r] = Attempt([@ EXCEPT !.kind = kind, !.tab = t, !.attempt = 0,
                                    !.session = memory[t].user,
                                    !.executed = 0, !.doubts = 0])]
    /\ UNCHANGED <<stored, memory, refreshing, refreshes, unloading, tokens,
                   ended, crossed, faults>>

(* Mutation: the loop of retryRequest ends one attempt early.              *)
ResendButTheLast(r) ==
    /\ request[r].state = "backoff"
    /\ request[r].attempt < MaxAttempts - 1
    /\ request' = [request EXCEPT ![r] = Attempt(@)]
    /\ UNCHANGED <<stored, memory, refreshing, refreshes, unloading, tokens,
                   ended, crossed, made, faults>>

Resend(r) ==
    /\ request[r].state = "backoff"
    /\ request' = [request EXCEPT ![r] = Attempt(@)]
    /\ UNCHANGED <<stored, memory, refreshing, refreshes, unloading, tokens,
                   ended, crossed, made, faults>>

(***************************************************************************)
(* Settling a call.  A logout empties the store whether or not the server  *)
(* answered: /auth/logout lacks the /api prefix, so what it gets at best   *)
(* is a 404.                                                               *)
(***************************************************************************)
Settled(rec) ==
    [rec EXCEPT !.state = "settled", !.attempt = 0, !.retried = FALSE,
                !.token = NoToken, !.session = 0]

LeaveSession(r) ==
    /\ SetStore(request[r].tab, NoAccount)
    /\ ended' = ended \union ({request[r].session} \ {0})

Fail(r, rec) ==
    /\ request' = [request EXCEPT ![r] = Settled(rec)]
    /\ IF rec.kind = "logout"
       THEN LeaveSession(r)
       ELSE UNCHANGED <<stored, memory, ended>>

(* retryRequest: another attempt after a fault, up to MaxAttempts.         *)
FailAttempt(r, rec) ==
    IF rec.attempt < MaxAttempts
    THEN /\ request' = [request EXCEPT ![r] = [rec EXCEPT !.state = "backoff"]]
         /\ UNCHANGED <<stored, memory, ended>>
    ELSE Fail(r, rec)

(***************************************************************************)
(* Answers.                                                                *)
(***************************************************************************)
Expired(token) == token.no <= expired      \* NoToken is always "expired"

AnswerApi(r) ==
    /\ request[r].state = "sent"
    /\ request[r].kind = "api"
    /\ ~Expired(request[r].token)
    /\ request' = [request EXCEPT ![r] = Settled([request[r] EXCEPT !.executed = @ + 1])]
    /\ UNCHANGED <<stored, memory, refreshing, refreshes, unloading, tokens,
                   ended, crossed, made, faults>>

(* Mutation: the login's tokens are left out of the store.                 *)
AnswerLoginUserOnly(r) ==
    /\ request[r].state = "sent"
    /\ request[r].kind = "login"
    /\ sessions < MaxSessions
    /\ issued < MaxTokens
    /\ sessions' = sessions + 1
    /\ issued' = issued + 1
    /\ SetStore(request[r].tab, [memory[request[r].tab] EXCEPT
                                   !.user = sessions', !.refresh = sessions'])
    /\ request' = [request EXCEPT ![r] = Settled([request[r] EXCEPT !.executed = @ + 1])]
    /\ UNCHANGED <<refreshing, refreshes, unloading, expired, ended, crossed,
                   made, faults>>

(* Login page: setUser and setTokens in the continuation of the call.      *)
AnswerLogin(r) ==
    /\ request[r].state = "sent"
    /\ request[r].kind = "login"
    /\ sessions < MaxSessions
    /\ issued < MaxTokens
    /\ sessions' = sessions + 1
    /\ issued' = issued + 1
    /\ SetStore(request[r].tab,
                [user |-> sessions', access |-> [of |-> sessions', no |-> issued'],
                 refresh |-> sessions'])
    /\ request' = [request EXCEPT ![r] = Settled([request[r] EXCEPT !.executed = @ + 1])]
    /\ UNCHANGED <<refreshing, refreshes, unloading, expired, ended, crossed,
                   made, faults>>

(* A 4xx answer other than 401 and 429 is final; the logout's 404 is one,  *)
(* and so is the 401 of a login, which never leads to a refresh.           *)
Refuse(r) ==
    /\ request[r].state = "sent"
    /\ Fail(r, request[r])
    /\ UNCHANGED <<refreshing, refreshes, unloading, tokens, crossed, made, faults>>

(* A lost answer, a timeout, a 429 or a 5xx: executed or not.              *)
Fault(r) ==
    /\ request[r].state = "sent"
    /\ faults < MaxFaults
    /\ faults' = faults + 1
    /\ \E done \in IF request[r].kind = "api" /\ ~Expired(request[r].token)
                   THEN {0, 1} ELSE {0} :
          FailAttempt(r, [request[r] EXCEPT !.executed = @ + done,
                                            !.doubts = @ + 1])
    /\ UNCHANGED <<refreshing, refreshes, unloading, tokens, crossed, made>>

(***************************************************************************)
(* 401: the response interceptor waits for a refresh, its own or the one   *)
(* under way, and sends the request once more.                             *)
(***************************************************************************)
Unauthorized(r) ==
    /\ request[r].state = "sent"
    /\ request[r].kind = "api"
    /\ Expired(request[r].token)

(* The second 401 of an attempt is final.                                  *)
RejectTwice(r) ==
    /\ Unauthorized(r)
    /\ request[r].retried
    /\ Fail(r, request[r])
    /\ UNCHANGED <<refreshing, refreshes, unloading, tokens, crossed, made, faults>>

JoinRefresh(r) ==
    LET t == request[r].tab IN
    /\ Unauthorized(r)
    /\ ~request[r].retried
    /\ refreshing[t] # {}
    /\ \E first \in refreshing[t] :
          request' = [request EXCEPT ![r].state = "waiting", ![r].retried = TRUE,
                                     ![r].on = first]
    /\ UNCHANGED <<stored, memory, refreshing, refreshes, unloading, tokens,
                   ended, crossed, made, faults>>

(* Mutation: every 401 starts a refresh of its own.                        *)
StartRefreshAlone(r) ==
    LET t == request[r].tab IN
    /\ Unauthorized(r)
    /\ ~request[r].retried
    /\ StoredAccount.refresh # 0
    /\ refreshing' = [refreshing EXCEPT ![t] = {r}]
    /\ refreshes' = refreshes \union
                      {[by |-> r, tab |-> t, of |-> StoredAccount.refresh]}
    /\ request' = [request EXCEPT ![r].state = "waiting", ![r].retried = TRUE,
                                  ![r].on = r]
    /\ UNCHANGED <<stored, memory, unloading, tokens, ended, crossed, made, faults>>

StartRefresh(r) ==
    LET t == request[r].tab IN
    /\ Unauthorized(r)
    /\ ~request[r].retried
    /\ refreshing[t] = {}
    /\ StoredAccount.refresh # 0
    /\ refreshing' = [refreshing EXCEPT ![t] = {r}]
    /\ refreshes' = refreshes \union
                      {[by |-> r, tab |-> t, of |-> StoredAccount.refresh]}
    /\ request' = [request EXCEPT ![r].state = "waiting", ![r].retried = TRUE,
                                  ![r].on = r]
    /\ UNCHANGED <<stored, memory, unloading, tokens, ended, crossed, made, faults>>

(* Nothing to refresh with: the attempt fails, what is stored is removed   *)
(* and the page goes to /login.                                            *)
NoRefreshToken(r) ==
    LET t == request[r].tab IN
    /\ Unauthorized(r)
    /\ ~request[r].retried
    /\ refreshing[t] = {}
    /\ StoredAccount.refresh = 0
    /\ stored' = {}
    /\ unloading' = unloading \union {t}
    /\ request' = [request EXCEPT
           ![r] = IF @.attempt < MaxAttempts
                  THEN [@ EXCEPT !.state = "backoff"] ELSE Settled(@)]
    /\ UNCHANGED <<memory, refreshing, refreshes, tokens, ended, crossed, made, faults>>

(* Mutation: requests stay in the queue of a refresh after it was served.  *)
WaitersAndServed(f) ==
    {r \in Requests : request[r].state \in {"waiting", "settled"} /\ request[r].on = f.by}

Waiters(f) == {r \in Requests : request[r].state = "waiting" /\ request[r].on = f.by}

(* The new token is stored and every waiter sent again.  Their header is   *)
(* overwritten by the request interceptor when an access token is stored.  *)
RefreshSucceeds(f) ==
    /\ f \in refreshes
    /\ issued < MaxTokens
    /\ issued' = issued + 1
    /\ LET token == [of |-> f.of, no |-> issued'] IN
       /\ stored' = WithAccessToken(token)
       /\ crossed' = (crossed \/ (stored # {} /\ StoredAccount.user # f.of))
       /\ request' = [r \in Requests |->
             IF r \in Waiters(f)
             THEN [request[r] EXCEPT !.state = "sent", !.token = token]
             ELSE request[r]]
    /\ refreshes' = refreshes \ {f}
    /\ refreshing' = [refreshing EXCEPT ![f.tab] = {}]
    /\ UNCHANGED <<memory, unloading, expired, sessions, ended, made, faults>>

(* The refresh is refused (4xx: the waiters fail) or breaks (they try      *)
(* again); either way what is stored is removed and the page goes to       *)
(* /login.                                                                 *)
RefreshFails(f, refused) ==
    /\ f \in refreshes
    /\ stored' = {}
    /\ unloading' = unloading \union {f.tab}
    /\ request' = [r \in Requests |->
          IF r \notin Waiters(f) THEN request[r]
          ELSE IF refused \/ request[r].attempt = MaxAttempts
               THEN Settled(request[r])
               ELSE [request[r] EXCEPT !.state = "backoff"]]
    /\ refreshes' = refreshes \ {f}
    /\ refreshing' = [refreshing EXCEPT ![f.tab] = {}]
    /\ UNCHANGED <<memory, tokens, ended, crossed, made, faults>>

(***************************************************************************)
(* The page is loaded again, by the client or by the user: the tab's       *)
(* requests end with it and the store is read from localStorage.           *)
(***************************************************************************)
Reload(t) ==
    /\ memory' = [memory EXCEPT ![t] = StoredAccount]
    /\ request' = [r \in Requests |->
          IF request[r].tab = t /\ request[r].state # "idle"
          THEN Settled(request[r]) ELSE request[r]]
    /\ refreshes' = {f \in refreshes : f.tab # t}
    /\ refreshing' = [refreshing EXCEPT ![t] = {}]
    /\ unloading' = unloading \ {t}
    /\ UNCHANGED <<stored, tokens, ended, crossed, made, faults>>

Expire ==
    /\ expired < issued
    /\ expired' = expired + 1
    /\ UNCHANGED <<stored, memory, request, refreshing, refreshes, unloading,
                   issued, sessions, ended, crossed, made, faults>>

SessionNext ==
    \/ \E r \in Requests :
          \/ \E t \in Tabs, kind \in Kinds : Start(r, t, kind)
          \/ Resend(r)
          \/ AnswerApi(r)
          \/ AnswerLogin(r)
          \/ Refuse(r)
          \/ Fault(r)
          \/ RejectTwice(r)
          \/ JoinRefresh(r)
          \/ StartRefresh(r)
          \/ NoRefreshToken(r)
    \/ \E f \in refreshes :
          \/ RefreshSucceeds(f)
          \/ \E refused \in BOOLEAN : RefreshFails(f, refused)
    \/ \E t \in Tabs : Reload(t)
    \/ Expire

SessionSpec == SessionInit /\ [][SessionNext]_sessionVars

(* A request that was sent is answered, refused or times out after 30      *)
(* seconds (axios.create), the backoff's timer fires, and a page that has  *)
(* set window.location is loaded.  The refresh is sent with the bare axios,*)
(* which has no timeout: nothing is assumed of it, or of the user.         *)
Answered(r) ==
    \/ AnswerApi(r) \/ AnswerLogin(r) \/ Refuse(r) \/ RejectTwice(r)
    \/ JoinRefresh(r) \/ StartRefresh(r) \/ NoRefreshToken(r)

FairSessionSpec ==
    /\ SessionSpec
    /\ \A r \in Requests : WF_sessionVars(Answered(r)) /\ WF_sessionVars(Resend(r))
    /\ \A t \in Tabs : WF_sessionVars(t \in unloading /\ Reload(t))
=============================================================================
