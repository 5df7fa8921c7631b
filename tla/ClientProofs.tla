---------------------------- MODULE ClientProofs ----------------------------
(***************************************************************************)
(* Proofs about the API client and those who use it to submit: the session *)
(* of a browser (Session), for any number of tabs, calls, logins, tokens   *)
(* and faults, and a user who submits and reads the list of submissions    *)
(* (Submitting), for any number of submissions, visits, attempts and runs. *)
(***************************************************************************)
EXTENDS SessionProperties, SubmittingProperties, FiniteSetTheorems, TLAPS

-----------------------------------------------------------------------------
(* The session.  Every fact up to the pages that submit is about           *)
(* SessionSpec.                                                            *)

-----------------------------------------------------------------------------
(* The parts of the state                                                  *)

LEMMA AccountsHaveType ==
  ASSUME SessionTypeOK
  PROVE  /\ NoToken \in Token
         /\ NoAccount \in Account
         /\ StoredAccount \in Account
         /\ stored = {} => StoredAccount = NoAccount
         /\ stored # {} => stored = {StoredAccount}
<1>1. NoToken \in Token /\ NoAccount \in Account
  BY SessionAssumption DEF NoToken, Token, NoAccount, Account, Sessions
<1>2. CASE stored = {}
  BY <1>1, <1>2 DEF StoredAccount
<1>3. CASE stored # {}
  <2>1. PICK a \in Account : stored = {a}
    BY <1>3 DEF SessionTypeOK
  <2>2. StoredAccount = a
    BY <2>1 DEF StoredAccount
  <2> QED BY <1>1, <1>3, <2>1, <2>2
<1> QED BY <1>2, <1>3

LEMMA SettledHasType ==
  ASSUME NEW rec \in Request
  PROVE  /\ Settled(rec) \in Request
         /\ Settled(rec).state = "settled"
         /\ Settled(rec).executed = rec.executed
         /\ Settled(rec).doubts = rec.doubts
         /\ Settled(rec).session = 0
<1> DEFINE a == [rec EXCEPT !.state = "settled"]
           b == [a EXCEPT !.attempt = 0]
           c == [b EXCEPT !.retried = FALSE]
           d == [c EXCEPT !.token = NoToken]
           e == [d EXCEPT !.session = 0]
<1>0. NoToken \in Token /\ 0 \in Sessions /\ 0 \in 0..MaxAttempts
  BY SessionAssumption DEF NoToken, Token, Sessions
<1>1. a \in Request BY DEF Request, States
<1>2. b \in Request BY <1>0, <1>1 DEF Request
<1>3. c \in Request BY <1>2 DEF Request
<1>4. d \in Request BY <1>0, <1>3 DEF Request
<1>5. e \in Request BY <1>0, <1>4 DEF Request
<1>6. Settled(rec) = e BY DEF Settled
<1>7. /\ Settled(rec).state = "settled" /\ Settled(rec).session = 0
      /\ Settled(rec).executed = rec.executed /\ Settled(rec).doubts = rec.doubts
  BY DEF Settled, Request
<1> QED BY <1>5, <1>6, <1>7

LEMMA AttemptHasType ==
  ASSUME SessionTypeOK, NEW rec \in Request, rec.attempt < MaxAttempts
  PROVE  /\ Attempt(rec) \in Request
         /\ Attempt(rec).state = "sent"
         /\ Attempt(rec).attempt = rec.attempt + 1
         /\ Attempt(rec).executed = rec.executed
         /\ Attempt(rec).doubts = rec.doubts
         /\ Attempt(rec).session = rec.session
<1> DEFINE a == [rec EXCEPT !.state = "sent"]
           b == [a EXCEPT !.attempt = rec.attempt + 1]
           c == [b EXCEPT !.retried = FALSE]
           d == [c EXCEPT !.token = StoredAccount.access]
<1>0. StoredAccount.access \in Token /\ rec.attempt + 1 \in 0..MaxAttempts
  BY AccountsHaveType, SessionAssumption DEF Account, Request
<1>1. a \in Request BY DEF Request, States
<1>2. b \in Request BY <1>0, <1>1 DEF Request
<1>3. c \in Request BY <1>2 DEF Request
<1>4. d \in Request BY <1>0, <1>3 DEF Request
<1>5. Attempt(rec) = d BY DEF Attempt, Request
<1>6. /\ Attempt(rec).state = "sent" /\ Attempt(rec).attempt = rec.attempt + 1
      /\ Attempt(rec).executed = rec.executed /\ Attempt(rec).doubts = rec.doubts
      /\ Attempt(rec).session = rec.session
  BY DEF Attempt, Request
<1> QED BY <1>4, <1>5, <1>6

(* What a call is when it starts, before its first attempt.                *)
LEMMA StartHasType ==
  ASSUME SessionTypeOK, NEW r \in Requests, NEW t \in Tabs, NEW kind \in Kinds
  PROVE  LET rec == [request[r] EXCEPT !.kind = kind, !.tab = t, !.attempt = 0,
                                       !.session = memory[t].user,
                                       !.executed = 0, !.doubts = 0]
         IN  /\ rec \in Request /\ rec.attempt = 0
             /\ rec.session = memory[t].user
             /\ rec.executed = 0 /\ rec.doubts = 0
<1> DEFINE rec == [request[r] EXCEPT !.kind = kind, !.tab = t, !.attempt = 0,
                                     !.session = memory[t].user,
                                     !.executed = 0, !.doubts = 0]
           a == [request[r] EXCEPT !.kind = kind]
           b == [a EXCEPT !.tab = t]
           c == [b EXCEPT !.attempt = 0]
           d == [c EXCEPT !.session = memory[t].user]
           e == [d EXCEPT !.executed = 0]
           f == [e EXCEPT !.doubts = 0]
<1>0. request[r] \in Request /\ memory[t].user \in Sessions /\ 0 \in 0..MaxAttempts
  BY SessionAssumption DEF SessionTypeOK, Account
<1>1. a \in Request BY <1>0 DEF Request
<1>2. b \in Request BY <1>1 DEF Request
<1>3. c \in Request BY <1>0, <1>2 DEF Request
<1>4. d \in Request BY <1>0, <1>3 DEF Request
<1>5. e \in Request BY <1>4 DEF Request
<1>6. f \in Request BY <1>5 DEF Request
<1>7. rec = f OBVIOUS
<1>8. rec.attempt = 0 /\ rec.session = memory[t].user /\ rec.executed = 0 /\ rec.doubts = 0
  BY <1>0 DEF Request
<1> HIDE DEF f
<1> QED BY <1>6, <1>7, <1>8

-----------------------------------------------------------------------------
(* One refresh in a tab                                                    *)

(* A step that changes one call, to a state in which it waits for nothing. *)
LEMMA CallChanges ==
  ASSUME RefreshInv, NEW r \in Requests, NEW rec \in Request,
         rec.state # "waiting",
         rec.state = "backoff" => rec.attempt < MaxAttempts,
         request' = [request EXCEPT ![r] = rec],
         refreshing' = refreshing, refreshes' = refreshes
  PROVE  /\ request' \in [Requests -> Request]
         /\ RefreshesAreShared' /\ RefreshesAreSingle' /\ AttemptsAreLeft'
<1>1. request' \in [Requests -> Request]
  BY DEF RefreshInv, SessionTypeOK
<1>2. \A q \in Requests : request'[q] = IF q = r THEN rec ELSE request[q]
  BY DEF RefreshInv, SessionTypeOK
<1>3. RefreshesAreShared'
  BY <1>2 DEF RefreshInv, RefreshesAreShared
<1>4. RefreshesAreSingle' /\ AttemptsAreLeft'
  BY <1>2 DEF RefreshInv, RefreshesAreSingle, AttemptsAreLeft
<1> QED BY <1>1, <1>3, <1>4

LEMMA SetStoreHasType ==
  ASSUME SessionTypeOK, NEW t \in Tabs, NEW a \in Account, SetStore(t, a)
  PROVE  /\ memory' \in [Tabs -> Account]
         /\ stored' \in {{}} \union {{b} : b \in Account}
         /\ StoredAccount' = a
BY DEF SetStore, SessionTypeOK, StoredAccount

(* How a call ends, or goes on, when an attempt of it has failed.          *)
LEMMA FailKeeps ==
  ASSUME RefreshInv, NEW r \in Requests, NEW rec \in Request, Fail(r, rec),
         refreshing' = refreshing, refreshes' = refreshes
  PROVE  /\ request' \in [Requests -> Request]
         /\ RefreshesAreShared' /\ RefreshesAreSingle' /\ AttemptsAreLeft'
         /\ memory' \in [Tabs -> Account]
         /\ stored' \in {{}} \union {{a} : a \in Account}
         /\ ended' \subseteq Sessions
<1>1. SessionTypeOK /\ request[r] \in Request
  BY DEF RefreshInv, SessionTypeOK
<1>2. /\ request' \in [Requests -> Request]
      /\ RefreshesAreShared' /\ RefreshesAreSingle' /\ AttemptsAreLeft'
  BY CallChanges, SettledHasType DEF Fail
<1>3. CASE rec.kind = "logout"
  <2>1. LeaveSession(r) /\ request[r].tab \in Tabs /\ request[r].session \in Sessions
    BY <1>1, <1>3 DEF Fail, Request
  <2>2. memory' \in [Tabs -> Account] /\ stored' \in {{}} \union {{a} : a \in Account}
    BY <1>1, <2>1, SetStoreHasType, AccountsHaveType DEF LeaveSession
  <2> QED BY <1>1, <1>2, <2>1, <2>2 DEF LeaveSession, SessionTypeOK
<1>4. CASE rec.kind # "logout"
  BY <1>1, <1>2, <1>4 DEF Fail, SessionTypeOK
<1> QED BY <1>3, <1>4

LEMMA FailAttemptKeeps ==
  ASSUME RefreshInv, NEW r \in Requests, NEW rec \in Request, FailAttempt(r, rec),
         refreshing' = refreshing, refreshes' = refreshes
  PROVE  /\ request' \in [Requests -> Request]
         /\ RefreshesAreShared' /\ RefreshesAreSingle' /\ AttemptsAreLeft'
         /\ memory' \in [Tabs -> Account]
         /\ stored' \in {{}} \union {{a} : a \in Account}
         /\ ended' \subseteq Sessions
<1>1. CASE rec.attempt < MaxAttempts
  <2> DEFINE later == [rec EXCEPT !.state = "backoff"]
  <2>1. later \in Request /\ later.state = "backoff" /\ later.attempt < MaxAttempts
    BY <1>1 DEF Request, States
  <2>2. request' = [request EXCEPT ![r] = later] /\ UNCHANGED <<stored, memory, ended>>
    BY <1>1 DEF FailAttempt
  <2> HIDE DEF later
  <2> QED BY <2>1, <2>2, CallChanges DEF RefreshInv, SessionTypeOK
<1>2. CASE ~(rec.attempt < MaxAttempts)
  BY <1>2, FailKeeps DEF FailAttempt
<1> QED BY <1>1, <1>2

(* Each action keeps the type of the state, and the refreshes single.      *)
LEMMA RefreshInit ==
  ASSUME SessionInit
  PROVE  RefreshInv
<1>1. NoAccount \in Account /\ NoToken \in Token /\ 0 \in Sessions /\ 0 \in 0..MaxTokens
      /\ 0 \in 0..MaxCalls /\ 0 \in 0..MaxFaults /\ 0 \in 0..MaxAttempts
  BY SessionAssumption DEF NoAccount, NoToken, Account, Token, Sessions
<1>2. (CHOOSE t \in Tabs : TRUE) \in Tabs
  BY SessionAssumption
<1>3. \A r \in Requests : request[r] \in Request /\ request[r].state = "idle"
  BY <1>1, <1>2 DEF SessionInit, Request, States, Kinds
<1>4. request \in [Requests -> Request]
  BY <1>3 DEF SessionInit
<1>5. issued \in 0..MaxTokens /\ expired \in 0..issued /\ sessions \in Sessions
      /\ made \in 0..MaxCalls /\ faults \in 0..MaxFaults
  BY <1>1 DEF SessionInit
<1>6. SessionTypeOK
  BY <1>1, <1>4, <1>5 DEF SessionInit, SessionTypeOK
<1>7. RefreshesAreShared
  BY <1>3 DEF SessionInit, RefreshesAreShared
<1> QED BY <1>3, <1>6, <1>7 DEF SessionInit, RefreshInv, RefreshesAreSingle, AttemptsAreLeft

LEMMA CallsKeepRefreshInv ==
  ASSUME RefreshInv, NEW r \in Requests,
         \/ \E t \in Tabs, kind \in Kinds : Start(r, t, kind)
         \/ Resend(r) \/ AnswerApi(r) \/ AnswerLogin(r) \/ Refuse(r) \/ Fault(r)
         \/ RejectTwice(r)
  PROVE  RefreshInv'
<1>0. SessionTypeOK /\ request[r] \in Request /\ AttemptsAreLeft
  BY DEF RefreshInv, SessionTypeOK
<1>1. ASSUME NEW t \in Tabs, NEW kind \in Kinds, Start(r, t, kind)
      PROVE  RefreshInv'
  <2> DEFINE new == [request[r] EXCEPT !.kind = kind, !.tab = t, !.attempt = 0,
                                       !.session = memory[t].user,
                                       !.executed = 0, !.doubts = 0]
             sent == Attempt(new)
  <2>1. new \in Request /\ new.attempt = 0
    BY <1>0, StartHasType
  <2>2. request' = [request EXCEPT ![r] = sent]
    BY <1>1 DEF Start
  <2> HIDE DEF new
  <2>3. sent \in Request /\ sent.state = "sent"
    BY <1>0, <2>1, AttemptHasType, SessionAssumption
  <2> HIDE DEF sent
  <2>4. /\ request' \in [Requests -> Request]
        /\ RefreshesAreShared' /\ RefreshesAreSingle' /\ AttemptsAreLeft'
    BY <1>1, <2>2, <2>3, CallChanges DEF Start
  <2>5. made' \in 0..MaxCalls
    <3>1. made < MaxCalls /\ made' = made + 1
      BY <1>1 DEF Start
    <3>2. made \in 0..MaxCalls /\ MaxCalls \in Nat
      BY <1>0, SessionAssumption DEF SessionTypeOK
    <3> QED BY <3>1, <3>2
  <2> QED BY <1>0, <1>1, <2>4, <2>5 DEF Start, SessionTypeOK, RefreshInv, tokens
<1>2. CASE Resend(r)
  <2> DEFINE sent == Attempt(request[r])
  <2>1. request' = [request EXCEPT ![r] = sent]
    BY <1>2 DEF Resend
  <2>2. sent \in Request /\ sent.state = "sent"
    BY <1>0, <1>2, AttemptHasType DEF Resend, AttemptsAreLeft
  <2> HIDE DEF sent
  <2>3. /\ request' \in [Requests -> Request]
        /\ RefreshesAreShared' /\ RefreshesAreSingle' /\ AttemptsAreLeft'
    BY <1>2, <2>1, <2>2, CallChanges DEF Resend
  <2> QED BY <1>0, <1>2, <2>3 DEF Resend, SessionTypeOK, RefreshInv, tokens
<1>3. ASSUME request' = [request EXCEPT ![r] = Settled([request[r] EXCEPT !.executed = @ + 1])],
             refreshing' = refreshing, refreshes' = refreshes
      PROVE  /\ request' \in [Requests -> Request]
             /\ RefreshesAreShared' /\ RefreshesAreSingle' /\ AttemptsAreLeft'
  <2> DEFINE done == [request[r] EXCEPT !.executed = @ + 1]
  <2>1. done \in Request
    BY <1>0 DEF Request
  <2>2. request' = [request EXCEPT ![r] = Settled(done)]
    BY <1>3
  <2> HIDE DEF done
  <2> QED BY <1>3, <2>1, <2>2, SettledHasType, CallChanges
<1>4. CASE AnswerApi(r)
  BY <1>0, <1>3, <1>4 DEF AnswerApi, SessionTypeOK, RefreshInv, tokens
<1>5. CASE AnswerLogin(r)
  <2> DEFINE account == [user |-> sessions', access |-> [of |-> sessions', no |-> issued'],
                         refresh |-> sessions']
  <2>1. /\ issued' \in 0..MaxTokens /\ expired' \in 0..issued' /\ sessions' \in Sessions
        /\ ended' \subseteq Sessions
    BY <1>0, <1>5, SessionAssumption DEF AnswerLogin, SessionTypeOK, Sessions
  <2>2. account \in Account
    BY <2>1 DEF Account, Token
  <2>3. request[r].tab \in Tabs /\ SetStore(request[r].tab, account)
    BY <1>0, <1>5 DEF AnswerLogin, Request
  <2>4. memory' \in [Tabs -> Account] /\ stored' \in {{}} \union {{a} : a \in Account}
    BY <1>0, <2>2, <2>3, SetStoreHasType
  <2> QED BY <1>0, <1>3, <1>5, <2>1, <2>4 DEF AnswerLogin, SessionTypeOK, RefreshInv
<1>6. CASE Refuse(r)
  BY <1>0, <1>6, FailKeeps DEF Refuse, SessionTypeOK, RefreshInv, tokens
<1>7. CASE RejectTwice(r)
  BY <1>0, <1>7, FailKeeps DEF RejectTwice, SessionTypeOK, RefreshInv, tokens
<1>8. CASE Fault(r)
  <2>1. PICK done \in {0, 1} :
          FailAttempt(r, [request[r] EXCEPT !.executed = @ + done, !.doubts = @ + 1])
    BY <1>8 DEF Fault
  <2> DEFINE rec == [request[r] EXCEPT !.executed = @ + done, !.doubts = @ + 1]
  <2>2. rec \in Request
    <3> DEFINE a == [request[r] EXCEPT !.executed = @ + done]
               b == [a EXCEPT !.doubts = @ + 1]
    <3>1. a \in Request
      BY <1>0 DEF Request
    <3> HIDE DEF a
    <3>2. b \in Request
      BY <3>1 DEF Request
    <3> QED BY <3>2 DEF a
  <2>3. faults' \in 0..MaxFaults
    <3>1. faults < MaxFaults /\ faults' = faults + 1
      BY <1>8 DEF Fault
    <3>2. faults \in 0..MaxFaults /\ MaxFaults \in Nat
      BY <1>0, SessionAssumption DEF SessionTypeOK
    <3> QED BY <3>1, <3>2
  <2> HIDE DEF rec
  <2> QED BY <1>0, <1>8, <2>1, <2>2, <2>3, FailAttemptKeeps DEF rec, Fault, SessionTypeOK, RefreshInv, tokens
<1> QED BY <1>1, <1>2, <1>4, <1>5, <1>6, <1>7, <1>8

(* The refresh of a tab is over: none is in flight, and none is waited for.*)
LEMMA RefreshEnds ==
  ASSUME RefreshInv, NEW t \in Tabs,
         \A q \in Requests :
            /\ request'[q].state = "waiting" =>
                  /\ request[q].state = "waiting" /\ request[q].tab # t
                  /\ request'[q].on = request[q].on /\ request'[q].tab = request[q].tab
            /\ request'[q].state = "backoff" => request'[q].attempt < MaxAttempts,
         refreshes' = {f \in refreshes : f.tab # t},
         refreshing' = [refreshing EXCEPT ![t] = {}]
  PROVE  /\ RefreshesAreShared' /\ RefreshesAreSingle' /\ AttemptsAreLeft'
         /\ refreshing' \in [Tabs -> {{}} \union {{q} : q \in Requests}]
         /\ refreshes' \subseteq Refresh
<1>0. SessionTypeOK /\ RefreshesAreShared /\ RefreshesAreSingle /\ AttemptsAreLeft
  BY DEF RefreshInv
<1>1. \A u \in Tabs : refreshing'[u] = IF u = t THEN {} ELSE refreshing[u]
  BY <1>0 DEF SessionTypeOK
<1>2. ASSUME NEW u \in Tabs
      PROVE  {f.by : f \in {g \in refreshes' : g.tab = u}} = refreshing'[u]
  <2>1. CASE u = t
    BY <1>1, <2>1
  <2>2. CASE u # t
    <3>1. {f \in refreshes' : f.tab = u} = {f \in refreshes : f.tab = u}
      BY <2>2
    <3> QED BY <1>0, <1>1, <2>2, <3>1 DEF RefreshesAreShared
  <2> QED BY <2>1, <2>2
<1>3. ASSUME NEW q \in Requests, request'[q].state = "waiting"
      PROVE  request'[q].on \in refreshing'[request'[q].tab]
  <2>1. /\ request[q].tab # t /\ request[q].on \in refreshing[request[q].tab]
        /\ request'[q].on = request[q].on /\ request'[q].tab = request[q].tab
    BY <1>0, <1>3 DEF RefreshesAreShared
  <2>2. request[q].tab \in Tabs
    BY <1>0 DEF SessionTypeOK, Request
  <2> QED BY <1>1, <2>1, <2>2
<1>4. RefreshesAreShared'
  BY <1>2, <1>3 DEF RefreshesAreShared
<1>5. RefreshesAreSingle' /\ AttemptsAreLeft'
  BY <1>0 DEF RefreshesAreSingle, AttemptsAreLeft
<1>6. refreshing' \in [Tabs -> {{}} \union {{q} : q \in Requests}] /\ refreshes' \subseteq Refresh
  BY <1>0 DEF SessionTypeOK
<1> QED BY <1>4, <1>5, <1>6

(* The refresh that ends is the one its tab waits for.                     *)
LEMMA TabsRefresh ==
  ASSUME RefreshInv, NEW f \in refreshes
  PROVE  /\ f.tab \in Tabs
         /\ f.of \in Sessions
         /\ refreshes \ {f} = {g \in refreshes : g.tab # f.tab}
         /\ \A q \in Requests :
               request[q].state = "waiting" /\ q \notin Waiters(f) => request[q].tab # f.tab
<1>0. SessionTypeOK /\ RefreshesAreShared /\ RefreshesAreSingle
  BY DEF RefreshInv
<1>1. f.tab \in Tabs /\ f.of \in Sessions
  BY <1>0 DEF SessionTypeOK, Refresh
<1>2. \A g \in refreshes : g.tab = f.tab => g = f
  BY <1>0 DEF RefreshesAreSingle
<1>3. refreshing[f.tab] = {f.by}
  BY <1>0, <1>1, <1>2 DEF RefreshesAreShared
<1>4. ASSUME NEW q \in Requests, request[q].state = "waiting", q \notin Waiters(f)
      PROVE  request[q].tab # f.tab
  BY <1>0, <1>3, <1>4 DEF RefreshesAreShared, Waiters
<1> QED BY <1>1, <1>2, <1>4

LEMMA RefreshesKeepRefreshInv ==
  ASSUME RefreshInv,
         \/ \E r \in Requests : JoinRefresh(r) \/ StartRefresh(r) \/ NoRefreshToken(r)
         \/ \E f \in refreshes : RefreshSucceeds(f) \/ \E refused \in BOOLEAN : RefreshFails(f, refused)
         \/ \E t \in Tabs : Reload(t)
  PROVE  RefreshInv'
<1>0. SessionTypeOK /\ RefreshesAreShared /\ RefreshesAreSingle /\ AttemptsAreLeft
  BY DEF RefreshInv
<1>1. ASSUME NEW r \in Requests, JoinRefresh(r)
      PROVE  RefreshInv'
  <2>1. PICK first \in refreshing[request[r].tab] :
          request' = [request EXCEPT ![r].state = "waiting", ![r].retried = TRUE, ![r].on = first]
    BY <1>1 DEF JoinRefresh
  <2>2. request[r] \in Request /\ request[r].tab \in Tabs /\ first \in Requests
    BY <1>0, <2>1 DEF SessionTypeOK, Request
  <2> DEFINE joined == [request[r] EXCEPT !.state = "waiting", !.retried = TRUE, !.on = first]
  <2>3. joined \in Request /\ joined.state = "waiting" /\ joined.on = first
        /\ joined.tab = request[r].tab
    BY <2>2 DEF Request, States
  <2>4. request' = [request EXCEPT ![r] = joined]
    BY <1>0, <2>1 DEF SessionTypeOK
  <2> HIDE DEF joined
  <2>5. request' \in [Requests -> Request]
    BY <1>0, <2>3, <2>4 DEF SessionTypeOK
  <2>6. \A q \in Requests : request'[q] = IF q = r THEN joined ELSE request[q]
    BY <1>0, <2>4 DEF SessionTypeOK
  <2>7. refreshing' = refreshing /\ refreshes' = refreshes
    BY <1>1 DEF JoinRefresh
  <2>8. ASSUME NEW q \in Requests, request'[q].state = "waiting"
        PROVE  request'[q].on \in refreshing'[request'[q].tab]
    BY <1>0, <2>1, <2>3, <2>6, <2>7, <2>8 DEF RefreshesAreShared
  <2>9. ASSUME NEW q \in Requests, request'[q].state = "backoff"
        PROVE  request'[q].attempt < MaxAttempts
    BY <1>0, <2>3, <2>6, <2>9 DEF AttemptsAreLeft
  <2>10. RefreshesAreShared'
    BY <1>0, <2>7, <2>8 DEF RefreshesAreShared
  <2>11. RefreshesAreSingle' /\ AttemptsAreLeft'
    BY <1>0, <2>7, <2>9 DEF RefreshesAreSingle, AttemptsAreLeft
  <2> QED BY <1>0, <1>1, <2>5, <2>10, <2>11 DEF JoinRefresh, SessionTypeOK, RefreshInv, tokens
<1>2. ASSUME NEW r \in Requests, StartRefresh(r)
      PROVE  RefreshInv'
  <2> DEFINE t == request[r].tab
             new == [by |-> r, tab |-> t, of |-> StoredAccount.refresh]
             waits == [request[r] EXCEPT !.state = "waiting", !.retried = TRUE, !.on = r]
  <2>1. request[r] \in Request /\ t \in Tabs /\ new \in Refresh
    BY <1>0, AccountsHaveType DEF SessionTypeOK, Request, Refresh, Account
  <2>2. waits \in Request /\ waits.state = "waiting" /\ waits.on = r /\ waits.tab = t
    BY <2>1 DEF Request, States
  <2>3. /\ request' = [request EXCEPT ![r] = waits]
        /\ refreshing[t] = {} /\ refreshing' = [refreshing EXCEPT ![t] = {r}]
        /\ refreshes' = refreshes \union {new}
    BY <1>0, <1>2 DEF StartRefresh, SessionTypeOK
  <2>4. new.by = r /\ new.tab = t
    OBVIOUS
  <2> HIDE DEF waits, new
  <2>5. \A f \in refreshes : f.tab # t
    BY <1>0, <2>1, <2>3 DEF RefreshesAreShared
  <2>6. /\ request' \in [Requests -> Request]
        /\ refreshing' \in [Tabs -> {{}} \union {{q} : q \in Requests}]
        /\ refreshes' \subseteq Refresh
    BY <1>0, <2>1, <2>2, <2>3 DEF SessionTypeOK
  <2>7. \A q \in Requests : request'[q] = IF q = r THEN waits ELSE request[q]
    BY <1>0, <2>3 DEF SessionTypeOK
  <2>8. \A u \in Tabs : refreshing'[u] = IF u = t THEN {r} ELSE refreshing[u]
    BY <1>0, <2>3 DEF SessionTypeOK
  <2>9. ASSUME NEW u \in Tabs
        PROVE  {f.by : f \in {g \in refreshes' : g.tab = u}} = refreshing'[u]
    <3>1. CASE u = t
      <4>1. {g \in refreshes' : g.tab = u} = {new}
        BY <2>3, <2>4, <2>5, <3>1
      <4> QED BY <2>1, <2>4, <2>8, <3>1, <4>1
    <3>2. CASE u # t
      <4>1. {g \in refreshes' : g.tab = u} = {g \in refreshes : g.tab = u}
        BY <2>3, <2>4, <3>2
      <4> QED BY <1>0, <2>8, <3>2, <4>1 DEF RefreshesAreShared
    <3> QED BY <3>1, <3>2
  <2>10. ASSUME NEW q \in Requests, request'[q].state = "waiting"
         PROVE  request'[q].on \in refreshing'[request'[q].tab]
    <3>1. CASE q = r
      BY <2>1, <2>2, <2>7, <2>8, <3>1
    <3>2. CASE q # r
      <4>1. request[q].tab \in Tabs /\ request[q].on \in refreshing[request[q].tab]
        BY <1>0, <2>7, <2>10, <3>2 DEF RefreshesAreShared, SessionTypeOK, Request
      <4> QED BY <2>3, <2>7, <2>8, <3>2, <4>1
    <3> QED BY <3>1, <3>2
  <2>11. RefreshesAreSingle' /\ AttemptsAreLeft'
    BY <1>0, <2>2, <2>3, <2>4, <2>5, <2>7 DEF RefreshesAreSingle, AttemptsAreLeft
  <2>12. RefreshesAreShared'
    BY <2>9, <2>10 DEF RefreshesAreShared
  <2>13. SessionTypeOK'
    BY <1>0, <1>2, <2>6 DEF StartRefresh, SessionTypeOK, tokens
  <2> QED BY <2>11, <2>12, <2>13 DEF RefreshInv
<1>3. ASSUME NEW r \in Requests, NoRefreshToken(r)
      PROVE  RefreshInv'
  <2> DEFINE rec == IF request[r].attempt < MaxAttempts
                    THEN [request[r] EXCEPT !.state = "backoff"] ELSE Settled(request[r])
  <2>1. request[r] \in Request
    BY <1>0 DEF SessionTypeOK
  <2>2. /\ rec \in Request /\ rec.state # "waiting"
        /\ rec.state = "backoff" => rec.attempt < MaxAttempts
    BY <2>1, SettledHasType DEF Request, States
  <2>3. request' = [request EXCEPT ![r] = rec]
    BY <1>3 DEF NoRefreshToken
  <2> HIDE DEF rec
  <2>4. /\ request' \in [Requests -> Request]
        /\ RefreshesAreShared' /\ RefreshesAreSingle' /\ AttemptsAreLeft'
    BY <1>3, <2>2, <2>3, CallChanges DEF NoRefreshToken
  <2>5. unloading' \subseteq Tabs /\ stored' = {}
    BY <1>0, <1>3, <2>1 DEF NoRefreshToken, SessionTypeOK, Request
  <2> QED BY <1>0, <1>3, <2>4, <2>5 DEF NoRefreshToken, SessionTypeOK, RefreshInv, tokens
<1>4. ASSUME NEW f \in refreshes, RefreshSucceeds(f)
      PROVE  RefreshInv'
  <2> DEFINE token == [of |-> f.of, no |-> issued']
             again(r) == [request[r] EXCEPT !.state = "sent", !.token = token]
  <2>1. issued' \in 0..MaxTokens /\ expired' \in 0..issued'
    <3>1. /\ issued' = issued + 1 /\ issued < MaxTokens /\ expired' = expired
      BY <1>4 DEF RefreshSucceeds
    <3>2. issued \in 0..MaxTokens /\ expired \in 0..issued /\ MaxTokens \in Nat
      BY <1>0, SessionAssumption DEF SessionTypeOK
    <3> QED BY <3>1, <3>2
  <2>2. token \in Token
    BY <2>1, TabsRefresh DEF Token
  <2>3. request' = [r \in Requests |-> IF r \in Waiters(f) THEN again(r) ELSE request[r]]
        /\ stored' = WithAccessToken(token)
    BY <1>4 DEF RefreshSucceeds
  <2> HIDE DEF token
  <2>4. ASSUME NEW r \in Requests
        PROVE  again(r) \in Request /\ again(r).state = "sent"
    <3>1. request[r] \in Request
      BY <1>0 DEF SessionTypeOK
    <3> DEFINE a == [request[r] EXCEPT !.state = "sent"]
               b == [a EXCEPT !.token = token]
    <3>2. a \in Request /\ a.state = "sent"
      BY <3>1 DEF Request, States
    <3> HIDE DEF a
    <3>3. b \in Request /\ b.state = "sent"
      BY <2>2, <3>2 DEF Request
    <3> QED BY <3>3 DEF a
  <2> HIDE DEF again
  <2>5. request' \in [Requests -> Request]
    BY <1>0, <2>3, <2>4 DEF SessionTypeOK
  <2>6. stored' \in {{}} \union {{a} : a \in Account}
    BY <1>0, <2>2, <2>3, AccountsHaveType DEF WithAccessToken, Account
  <2>7. \A q \in Requests :
           /\ request'[q].state = "waiting" =>
                 /\ request[q].state = "waiting" /\ q \notin Waiters(f)
                 /\ request'[q].on = request[q].on /\ request'[q].tab = request[q].tab
           /\ request'[q].state = "backoff" => request'[q].attempt < MaxAttempts
    BY <1>0, <2>3, <2>4 DEF AttemptsAreLeft
  <2>8. /\ RefreshesAreShared' /\ RefreshesAreSingle' /\ AttemptsAreLeft'
        /\ refreshing' \in [Tabs -> {{}} \union {{q} : q \in Requests}]
        /\ refreshes' \subseteq Refresh
    <3>1. /\ f.tab \in Tabs
          /\ refreshes' = {g \in refreshes : g.tab # f.tab}
          /\ refreshing' = [refreshing EXCEPT ![f.tab] = {}]
      BY <1>4, TabsRefresh DEF RefreshSucceeds
    <3>2. \A q \in Requests :
             /\ request'[q].state = "waiting" =>
                   /\ request[q].state = "waiting" /\ request[q].tab # f.tab
                   /\ request'[q].on = request[q].on /\ request'[q].tab = request[q].tab
             /\ request'[q].state = "backoff" => request'[q].attempt < MaxAttempts
      BY <2>7, TabsRefresh
    <3> DEFINE t == f.tab
    <3> HIDE DEF t
    <3> QED BY <3>1, <3>2, RefreshEnds DEF t
  <2> QED BY <1>0, <1>4, <2>1, <2>5, <2>6, <2>8 DEF RefreshSucceeds, SessionTypeOK, RefreshInv
<1>5. ASSUME NEW f \in refreshes, NEW refused \in BOOLEAN, RefreshFails(f, refused)
      PROVE  RefreshInv'
  <2> DEFINE later(r) == [request[r] EXCEPT !.state = "backoff"]
  <2>1. request' = [r \in Requests |->
             IF r \notin Waiters(f) THEN request[r]
             ELSE IF refused \/ request[r].attempt = MaxAttempts
                  THEN Settled(request[r]) ELSE later(r)]
    BY <1>5 DEF RefreshFails
  <2>2. ASSUME NEW r \in Requests
        PROVE  /\ request[r] \in Request
               /\ Settled(request[r]) \in Request /\ Settled(request[r]).state = "settled"
               /\ later(r) \in Request /\ later(r).state = "backoff"
               /\ later(r).attempt = request[r].attempt
               /\ request[r].attempt # MaxAttempts => request[r].attempt < MaxAttempts
    <3>1. request[r] \in Request
      BY <1>0 DEF SessionTypeOK
    <3>2. request[r].attempt # MaxAttempts => request[r].attempt < MaxAttempts
      BY <3>1, SessionAssumption DEF Request
    <3> QED BY <3>1, <3>2, SettledHasType DEF Request, States
  <2> HIDE DEF later
  <2>3. request' \in [Requests -> Request]
    BY <2>1, <2>2
  <2>4. \A q \in Requests :
           /\ request'[q].state = "waiting" =>
                 /\ request[q].state = "waiting" /\ q \notin Waiters(f)
                 /\ request'[q].on = request[q].on /\ request'[q].tab = request[q].tab
           /\ request'[q].state = "backoff" => request'[q].attempt < MaxAttempts
    BY <1>0, <2>1, <2>2 DEF AttemptsAreLeft
  <2>5. /\ RefreshesAreShared' /\ RefreshesAreSingle' /\ AttemptsAreLeft'
        /\ refreshing' \in [Tabs -> {{}} \union {{q} : q \in Requests}]
        /\ refreshes' \subseteq Refresh
    <3>1. /\ f.tab \in Tabs
          /\ refreshes' = {g \in refreshes : g.tab # f.tab}
          /\ refreshing' = [refreshing EXCEPT ![f.tab] = {}]
      BY <1>5, TabsRefresh DEF RefreshFails
    <3>2. \A q \in Requests :
             /\ request'[q].state = "waiting" =>
                   /\ request[q].state = "waiting" /\ request[q].tab # f.tab
                   /\ request'[q].on = request[q].on /\ request'[q].tab = request[q].tab
             /\ request'[q].state = "backoff" => request'[q].attempt < MaxAttempts
      BY <2>4, TabsRefresh
    <3> DEFINE t == f.tab
    <3> HIDE DEF t
    <3> QED BY <3>1, <3>2, RefreshEnds DEF t
  <2>6. unloading' \subseteq Tabs /\ stored' = {}
    BY <1>0, <1>5, TabsRefresh DEF RefreshFails, SessionTypeOK
  <2> QED BY <1>0, <1>5, <2>3, <2>5, <2>6 DEF RefreshFails, SessionTypeOK, RefreshInv, tokens
<1>6. ASSUME NEW t \in Tabs, Reload(t)
      PROVE  RefreshInv'
  <2>1. request' = [r \in Requests |->
             IF request[r].tab = t /\ request[r].state # "idle"
             THEN Settled(request[r]) ELSE request[r]]
    BY <1>6 DEF Reload
  <2>2. \A r \in Requests : request[r] \in Request /\ Settled(request[r]) \in Request
                            /\ Settled(request[r]).state = "settled"
    BY <1>0, SettledHasType DEF SessionTypeOK
  <2>3. request' \in [Requests -> Request]
    BY <2>1, <2>2
  <2>4. \A q \in Requests :
           /\ request'[q].state = "waiting" =>
                 /\ request[q].state = "waiting" /\ request[q].tab # t
                 /\ request'[q].on = request[q].on /\ request'[q].tab = request[q].tab
           /\ request'[q].state = "backoff" => request'[q].attempt < MaxAttempts
    BY <1>0, <2>1, <2>2 DEF AttemptsAreLeft
  <2>5. /\ RefreshesAreShared' /\ RefreshesAreSingle' /\ AttemptsAreLeft'
        /\ refreshing' \in [Tabs -> {{}} \union {{q} : q \in Requests}]
        /\ refreshes' \subseteq Refresh
    BY <1>6, <2>4, RefreshEnds DEF Reload
  <2>6. memory' \in [Tabs -> Account] /\ unloading' \subseteq Tabs
    BY <1>0, <1>6, AccountsHaveType DEF Reload, SessionTypeOK
  <2> QED BY <1>0, <1>6, <2>3, <2>5, <2>6 DEF Reload, SessionTypeOK, RefreshInv, tokens
<1> QED BY <1>1, <1>2, <1>3, <1>4, <1>5, <1>6

(* Every reachable state has its type and shares the refresh of a tab:     *)
(* RefreshesAreShared alone is not kept, since what ends a refresh must    *)
(* know that there is no second one in the tab.                            *)
THEOREM SpecKeepsRefreshInv == SessionSpec => []RefreshInv
<1>1. SessionInit => RefreshInv
  BY RefreshInit
<1>2. ASSUME RefreshInv, [SessionNext]_sessionVars
      PROVE  RefreshInv'
  <2>1. CASE Expire
    <3>1. expired' = expired + 1 /\ expired < issued /\ issued' = issued
      BY <2>1 DEF Expire
    <3>2. SessionTypeOK /\ issued \in 0..MaxTokens /\ expired \in 0..issued
      BY <1>2 DEF RefreshInv, SessionTypeOK
    <3>3. expired' \in 0..issued'
      BY <3>1, <3>2
    <3>4. SessionTypeOK'
      BY <2>1, <3>2, <3>3 DEF Expire, SessionTypeOK
    <3> QED BY <1>2, <2>1, <3>4
            DEF Expire, RefreshInv, RefreshesAreShared, RefreshesAreSingle, AttemptsAreLeft
  <2>2. CASE UNCHANGED sessionVars
    BY <1>2, <2>2
    DEF sessionVars, RefreshInv, SessionTypeOK, RefreshesAreShared, RefreshesAreSingle, AttemptsAreLeft
  <2> QED BY <1>2, <2>1, <2>2, CallsKeepRefreshInv, RefreshesKeepRefreshInv DEF SessionNext
<1> QED BY <1>1, <1>2, PTL DEF SessionSpec

THEOREM RefreshesAreNeverDoubled == SessionSpec => []OneRefreshPerTab
<1>1. RefreshInv => OneRefreshPerTab
  BY DEF RefreshInv, OneRefreshPerTab
<1> QED BY <1>1, SpecKeepsRefreshInv, PTL

-----------------------------------------------------------------------------
(* What a step does to the stored account, and to the sessions known       *)

LEMMA FailChanges ==
  ASSUME SessionTypeOK, NEW r \in Requests, NEW rec \in Request, Fail(r, rec)
  PROVE  /\ \/ stored' = stored /\ memory' = memory /\ ended' = ended
            \/ /\ StoredAccount' = NoAccount
               /\ \A t \in Tabs : memory'[t] \in {memory[t], NoAccount}
               /\ ended' = ended \union ({request[r].session} \ {0})
         /\ \A q \in Requests : request'[q].session \in {request[q].session, 0}
<1>1. \A q \in Requests : request'[q] = IF q = r THEN Settled(rec) ELSE request[q]
  BY DEF Fail, SessionTypeOK
<1>2. \A q \in Requests : request'[q].session \in {request[q].session, 0}
  BY <1>1, SettledHasType
<1>3. CASE rec.kind = "logout"
  <2>1. /\ SetStore(request[r].tab, NoAccount) /\ request[r].tab \in Tabs
        /\ ended' = ended \union ({request[r].session} \ {0})
    BY <1>3 DEF Fail, LeaveSession, SessionTypeOK, Request
  <2>2. StoredAccount' = NoAccount
    BY <2>1 DEF SetStore, StoredAccount
  <2>3. \A t \in Tabs : memory'[t] \in {memory[t], NoAccount}
    BY <2>1 DEF SetStore, SessionTypeOK
  <2> QED BY <1>2, <2>1, <2>2, <2>3
<1>4. CASE rec.kind # "logout"
  BY <1>2, <1>4 DEF Fail
<1> QED BY <1>3, <1>4

(* The four ways in which a step treats the account in localStorage: as it *)
(* is, emptied, by a login, and by the answer to a refresh.                *)
Untouched == StoredAccount' = StoredAccount /\ UNCHANGED <<sessions, ended, crossed>>
Emptied ==
    /\ StoredAccount' = NoAccount
    /\ UNCHANGED <<sessions, crossed>>
    /\ \/ ended' = ended
       \/ \E r \in Requests : ended' = ended \union ({request[r].session} \ {0})
LoggedIn ==
    /\ sessions' = sessions + 1
    /\ StoredAccount'.user = sessions' /\ StoredAccount'.access.of = sessions'
    /\ UNCHANGED <<ended, crossed>>
Refreshed ==
    /\ StoredAccount'.user = StoredAccount.user
    /\ \E f \in refreshes :
          /\ StoredAccount'.access.of = f.of
          /\ crossed' = (crossed \/ StoredAccount.user # f.of)
    /\ UNCHANGED <<sessions, ended>>

(* Where the sessions that a tab or a call knows come from.                *)
SessionsAreHandedOn ==
    /\ \A t \in Tabs :
          memory'[t].user \in {memory[t].user, StoredAccount.user, StoredAccount'.user, 0}
    /\ \A r \in Requests :
          \/ request'[r].session \in {request[r].session, 0}
          \/ \E t \in Tabs : request'[r].session = memory[t].user

LEMMA CallsHandSessionsOn ==
  ASSUME SessionTypeOK, AttemptsAreLeft, NEW r \in Requests,
         \/ \E t \in Tabs, kind \in Kinds : Start(r, t, kind)
         \/ Resend(r) \/ AnswerApi(r) \/ AnswerLogin(r) \/ Refuse(r) \/ Fault(r)
         \/ RejectTwice(r)
  PROVE  SessionsAreHandedOn /\ (Untouched \/ Emptied \/ LoggedIn)
<1>0. request[r] \in Request /\ NoAccount.user = 0
  BY DEF SessionTypeOK, NoAccount
<1>1. ASSUME NEW t \in Tabs, NEW kind \in Kinds, Start(r, t, kind)
      PROVE  SessionsAreHandedOn /\ Untouched
  <2> DEFINE new == [request[r] EXCEPT !.kind = kind, !.tab = t, !.attempt = 0,
                                       !.session = memory[t].user,
                                       !.executed = 0, !.doubts = 0]
             sent == Attempt(new)
  <2>1. new \in Request /\ new.attempt = 0 /\ new.session = memory[t].user
    BY StartHasType
  <2>2. request' = [request EXCEPT ![r] = sent]
    BY <1>1 DEF Start
  <2> HIDE DEF new
  <2>3. sent.session = memory[t].user
    BY <2>1, AttemptHasType, SessionAssumption
  <2> HIDE DEF sent
  <2>4. \A q \in Requests : request'[q] = IF q = r THEN sent ELSE request[q]
    BY <2>2 DEF SessionTypeOK
  <2>5. UNCHANGED <<stored, memory, sessions, ended, crossed>>
    BY <1>1 DEF Start, tokens
  <2> QED BY <2>3, <2>4, <2>5 DEF SessionsAreHandedOn, Untouched, StoredAccount
<1>2. CASE Resend(r)
  <2>1. Attempt(request[r]).session = request[r].session
    BY <1>0, <1>2, AttemptHasType DEF Resend, AttemptsAreLeft
  <2> DEFINE sent == Attempt(request[r])
  <2>2. request' = [request EXCEPT ![r] = sent]
    BY <1>2 DEF Resend
  <2> HIDE DEF sent
  <2>3. \A q \in Requests : request'[q] = IF q = r THEN sent ELSE request[q]
    BY <2>2 DEF SessionTypeOK
  <2>4. UNCHANGED <<stored, memory, sessions, ended, crossed>>
    BY <1>2 DEF Resend, tokens
  <2> QED BY <2>1, <2>3, <2>4 DEF sent, SessionsAreHandedOn, Untouched, StoredAccount
<1>3. ASSUME request' = [request EXCEPT ![r] = Settled([request[r] EXCEPT !.executed = @ + 1])]
      PROVE  \A q \in Requests : request'[q].session \in {request[q].session, 0}
  <2> DEFINE done == [request[r] EXCEPT !.executed = @ + 1]
  <2>1. done \in Request
    BY <1>0 DEF Request
  <2>2. request' = [request EXCEPT ![r] = Settled(done)]
    BY <1>3
  <2> HIDE DEF done
  <2>3. \A q \in Requests : request'[q] = IF q = r THEN Settled(done) ELSE request[q]
    BY <2>2 DEF SessionTypeOK
  <2> QED BY <2>1, <2>3, SettledHasType
<1>4. CASE AnswerApi(r)
  BY <1>3, <1>4 DEF AnswerApi, tokens, SessionsAreHandedOn, Untouched, StoredAccount
<1>5. CASE AnswerLogin(r)
  <2> DEFINE account == [user |-> sessions', access |-> [of |-> sessions', no |-> issued'],
                         refresh |-> sessions']
  <2>1. request[r].tab \in Tabs /\ SetStore(request[r].tab, account)
    BY <1>0, <1>5 DEF AnswerLogin, Request
  <2>2. StoredAccount' = account
    BY <2>1 DEF SetStore, StoredAccount
  <2>3. \A t \in Tabs : memory'[t] \in {memory[t], StoredAccount'}
    BY <2>1, <2>2 DEF SetStore, SessionTypeOK
  <2> QED BY <1>3, <1>5, <2>2, <2>3 DEF AnswerLogin, SessionsAreHandedOn, LoggedIn
<1>6. ASSUME NEW rec \in Request, rec.session = request[r].session,
             Fail(r, rec), UNCHANGED <<sessions, crossed>>
      PROVE  SessionsAreHandedOn /\ (Untouched \/ Emptied)
  BY <1>0, <1>6, FailChanges DEF SessionsAreHandedOn, Untouched, Emptied, StoredAccount
<1>7. CASE Refuse(r)
  BY <1>0, <1>6, <1>7 DEF Refuse, tokens
<1>8. CASE RejectTwice(r)
  BY <1>0, <1>6, <1>8 DEF RejectTwice, tokens
<1>9. CASE Fault(r)
  <2>1. PICK done \in {0, 1} :
          FailAttempt(r, [request[r] EXCEPT !.executed = @ + done, !.doubts = @ + 1])
    BY <1>9 DEF Fault
  <2> DEFINE rec == [request[r] EXCEPT !.executed = @ + done, !.doubts = @ + 1]
             later == [rec EXCEPT !.state = "backoff"]
  <2>2. rec \in Request
    <3> DEFINE a == [request[r] EXCEPT !.executed = @ + done]
               b == [a EXCEPT !.doubts = @ + 1]
    <3>1. a \in Request
      BY <1>0 DEF Request
    <3> HIDE DEF a
    <3>2. b \in Request
      BY <3>1 DEF Request
    <3> QED BY <3>2 DEF a
  <2>3. rec.session = request[r].session
    BY <1>0 DEF Request
  <2>4. UNCHANGED <<sessions, crossed>>
    BY <1>9 DEF Fault, tokens
  <2>5. FailAttempt(r, rec)
    BY <2>1
  <2> HIDE DEF rec
  <2>6. later.session = request[r].session
    BY <2>2, <2>3 DEF Request
  <2>7. CASE rec.attempt < MaxAttempts
    <3>1. request' = [request EXCEPT ![r] = later] /\ UNCHANGED <<stored, memory, ended>>
      BY <2>5, <2>7 DEF FailAttempt
    <3> HIDE DEF later
    <3>2. \A q \in Requests : request'[q] = IF q = r THEN later ELSE request[q]
      BY <3>1 DEF SessionTypeOK
    <3> QED BY <2>4, <2>6, <3>1, <3>2 DEF SessionsAreHandedOn, Untouched, StoredAccount
  <2>8. CASE ~(rec.attempt < MaxAttempts)
    BY <1>6, <2>2, <2>3, <2>4, <2>5, <2>8 DEF FailAttempt
  <2> QED BY <2>7, <2>8
<1> QED BY <1>1, <1>2, <1>4, <1>5, <1>7, <1>8, <1>9


LEMMA RefreshesHandSessionsOn ==
  ASSUME SessionTypeOK,
         \/ \E r \in Requests : JoinRefresh(r) \/ StartRefresh(r) \/ NoRefreshToken(r)
         \/ \E f \in refreshes : RefreshSucceeds(f) \/ \E refused \in BOOLEAN : RefreshFails(f, refused)
         \/ \E t \in Tabs : Reload(t)
  PROVE  SessionsAreHandedOn /\ (Untouched \/ Emptied \/ Refreshed)
<1>0. \A q \in Requests : /\ request[q] \in Request
                          /\ Settled(request[q]).session = 0
  BY SettledHasType DEF SessionTypeOK
<1>1. ASSUME NEW r \in Requests, JoinRefresh(r) \/ StartRefresh(r)
      PROVE  SessionsAreHandedOn /\ Untouched
  <2>1. PICK first \in Requests :
          request' = [request EXCEPT ![r].state = "waiting", ![r].retried = TRUE, ![r].on = first]
    <3>1. CASE JoinRefresh(r)
      <4>1. refreshing[request[r].tab] \subseteq Requests
        BY <1>0 DEF SessionTypeOK, Request
      <4> QED BY <3>1, <4>1 DEF JoinRefresh
    <3>2. CASE StartRefresh(r)
      BY <3>2 DEF StartRefresh
    <3> QED BY <1>1, <3>1, <3>2
  <2>2. \A q \in Requests : request'[q].session = request[q].session
    BY <1>0, <2>1 DEF SessionTypeOK, Request
  <2>3. UNCHANGED <<stored, memory, sessions, ended, crossed>>
    BY <1>1 DEF JoinRefresh, StartRefresh, tokens
  <2> QED BY <2>2, <2>3 DEF SessionsAreHandedOn, Untouched, StoredAccount
<1>2. ASSUME NEW r \in Requests, NoRefreshToken(r)
      PROVE  SessionsAreHandedOn /\ Emptied
  <2>1. \A q \in Requests : request'[q].session \in {request[q].session, 0}
    BY <1>0, <1>2 DEF NoRefreshToken, SessionTypeOK, Request
  <2>2. stored' = {} /\ UNCHANGED <<memory, sessions, ended, crossed>>
    BY <1>2 DEF NoRefreshToken, tokens
  <2> QED BY <2>1, <2>2 DEF SessionsAreHandedOn, Emptied, StoredAccount
<1>3. ASSUME NEW f \in refreshes, RefreshSucceeds(f)
      PROVE  SessionsAreHandedOn /\ (Untouched \/ Refreshed)
  <2> DEFINE token == [of |-> f.of, no |-> issued']
  <2>1. \A q \in Requests : request'[q].session = request[q].session
    BY <1>0, <1>3 DEF RefreshSucceeds, Request
  <2>2. /\ stored' = WithAccessToken(token)
        /\ crossed' = (crossed \/ (stored # {} /\ StoredAccount.user # f.of))
        /\ UNCHANGED <<memory, sessions, ended>>
    BY <1>3 DEF RefreshSucceeds
  <2>3. CASE stored = {}
    <3>1. stored' = stored /\ crossed' = crossed
      BY <2>2, <2>3 DEF WithAccessToken, SessionTypeOK
    <3>2. StoredAccount' = StoredAccount
      BY <3>1 DEF StoredAccount
    <3>3. Untouched
      BY <2>2, <3>1, <3>2 DEF Untouched
    <3>4. SessionsAreHandedOn
      BY <2>1, <2>2 DEF SessionsAreHandedOn
    <3> QED BY <3>3, <3>4
  <2>4. CASE stored # {}
    <3>1. stored' = {[StoredAccount EXCEPT !.access = token]}
      BY <2>2, <2>4 DEF WithAccessToken
    <3>2. StoredAccount' = [StoredAccount EXCEPT !.access = token]
      BY <3>1 DEF StoredAccount
    <3>3. StoredAccount'.user = StoredAccount.user /\ StoredAccount'.access.of = f.of
      BY <3>2, AccountsHaveType DEF Account
    <3> QED BY <2>1, <2>2, <2>4, <3>3 DEF SessionsAreHandedOn, Refreshed
  <2> QED BY <2>3, <2>4
<1>4. ASSUME NEW f \in refreshes, NEW refused \in BOOLEAN, RefreshFails(f, refused)
      PROVE  SessionsAreHandedOn /\ Emptied
  <2>1. \A q \in Requests : request'[q].session \in {request[q].session, 0}
    BY <1>0, <1>4 DEF RefreshFails, Request
  <2>2. stored' = {} /\ UNCHANGED <<memory, sessions, ended, crossed>>
    BY <1>4 DEF RefreshFails, tokens
  <2> QED BY <2>1, <2>2 DEF SessionsAreHandedOn, Emptied, StoredAccount
<1>5. ASSUME NEW t \in Tabs, Reload(t)
      PROVE  SessionsAreHandedOn /\ Untouched
  <2>1. \A q \in Requests : request'[q].session \in {request[q].session, 0}
    BY <1>0, <1>5 DEF Reload
  <2>2. UNCHANGED <<stored, sessions, ended, crossed>>
    BY <1>5 DEF Reload, tokens
  <2>3. \A u \in Tabs : memory'[u].user \in {memory[u].user, StoredAccount.user}
    BY <1>5 DEF Reload, SessionTypeOK
  <2> QED BY <2>1, <2>2, <2>3 DEF SessionsAreHandedOn, Untouched, StoredAccount
<1> QED BY <1>1, <1>2, <1>3, <1>4, <1>5

LEMMA StepsHandSessionsOn ==
  ASSUME SessionTypeOK, AttemptsAreLeft, [SessionNext]_sessionVars
  PROVE  SessionsAreHandedOn /\ (Untouched \/ Emptied \/ LoggedIn \/ Refreshed)
<1>1. CASE Expire \/ UNCHANGED sessionVars
  <2>1. UNCHANGED <<stored, memory, request, sessions, ended, crossed>>
    BY <1>1 DEF Expire, sessionVars
  <2> QED BY <2>1 DEF SessionsAreHandedOn, Untouched, StoredAccount
<1> QED BY <1>1, CallsHandSessionsOn, RefreshesHandSessionsOn DEF SessionNext

(* No session comes back after its logout: whatever is stored, kept in a   *)
(* tab or carried by a call is of a session that was opened, and the one   *)
(* that a login opens is new.                                              *)
THEOREM LogoutsAreFinal == SessionSpec => []EndedSessionsStayEnded
<1> DEFINE Inv == SessionsAreOpened /\ EndedSessionsStayEnded
<1>1. SessionInit => Inv
  BY DEF SessionInit, SessionsAreOpened, EndedSessionsStayEnded, StoredAccount, NoAccount
<1>2. ASSUME RefreshInv, RefreshInv', Inv, [SessionNext]_sessionVars
      PROVE  Inv'
  <2>1. /\ SessionTypeOK /\ AttemptsAreLeft /\ sessions \in Nat /\ sessions' \in Nat
        /\ \A t \in Tabs : memory[t].user \in Nat
        /\ StoredAccount.user \in Nat
        /\ NoAccount.user = 0
    BY <1>2, AccountsHaveType, SessionAssumption
    DEF RefreshInv, SessionTypeOK, Sessions, Account, NoAccount
  <2>2. SessionsAreHandedOn /\ (Untouched \/ Emptied \/ LoggedIn \/ Refreshed)
    BY <1>2, <2>1, StepsHandSessionsOn
  <2>3. sessions <= sessions' /\ StoredAccount'.user <= sessions'
    BY <1>2, <2>1, <2>2 DEF Untouched, Emptied, LoggedIn, Refreshed, SessionsAreOpened
  <2>4. \A t \in Tabs : memory'[t].user <= sessions'
    BY <1>2, <2>1, <2>2, <2>3 DEF SessionsAreHandedOn, SessionsAreOpened
  <2>5. ASSUME NEW r \in Requests
        PROVE  request'[r].session <= sessions'
    <3>1. request[r].session \in Nat
      BY <2>1, SessionAssumption DEF SessionTypeOK, Request, Sessions
    <3> QED BY <1>2, <2>1, <2>2, <2>3, <3>1 DEF SessionsAreHandedOn, SessionsAreOpened
  <2>6. ended' \subseteq 1..sessions' /\ StoredAccount'.user \notin ended'
    <3>1. CASE Untouched \/ Refreshed
      BY <1>2, <3>1 DEF Untouched, Refreshed, SessionsAreOpened, EndedSessionsStayEnded
    <3>2. CASE LoggedIn
      BY <1>2, <2>1, <3>2 DEF LoggedIn, SessionsAreOpened
    <3>3. CASE Emptied
      <4>1. \A r \in Requests : request[r].session \in Nat /\ request[r].session <= sessions
        BY <1>2, <2>1, SessionAssumption DEF SessionsAreOpened, SessionTypeOK, Request, Sessions
      <4>2. ended' \subseteq 1..sessions
        <5>1. ended \subseteq 1..sessions
          BY <1>2 DEF SessionsAreOpened
        <5>2. CASE ended' = ended
          BY <5>1, <5>2
        <5>3. ASSUME NEW r \in Requests, ended' = ended \union ({request[r].session} \ {0})
              PROVE  ended' \subseteq 1..sessions
          <6>1. {request[r].session} \ {0} \subseteq 1..sessions
            BY <2>1, <4>1
          <6> QED BY <5>1, <5>3, <6>1
        <5> QED BY <3>3, <5>2, <5>3 DEF Emptied
      <4> QED BY <2>1, <3>3, <4>2 DEF Emptied
    <3> QED BY <2>2, <3>1, <3>2, <3>3
  <2> QED BY <2>3, <2>4, <2>5, <2>6 DEF SessionsAreOpened, EndedSessionsStayEnded
<1>3. Inv => EndedSessionsStayEnded
  OBVIOUS
<1> QED BY <1>1, <1>2, <1>3, SpecKeepsRefreshInv, PTL DEF SessionSpec

(* The access token in localStorage is of the user beside it, or a refresh *)
(* was answered after the account had changed.                             *)
THEOREM TokensAreOfTheirUsers == SessionSpec => []TokenIsTheUsers
<1>1. SessionInit => TokenIsTheUsers
  BY DEF SessionInit, TokenIsTheUsers, StoredAccount, NoAccount, NoToken
<1>2. ASSUME RefreshInv, TokenIsTheUsers, [SessionNext]_sessionVars
      PROVE  TokenIsTheUsers'
  <2>1. Untouched \/ Emptied \/ LoggedIn \/ Refreshed
    BY <1>2, StepsHandSessionsOn DEF RefreshInv
  <2>2. CASE Untouched \/ Emptied \/ LoggedIn
    BY <1>2, <2>2 DEF Untouched, Emptied, LoggedIn, TokenIsTheUsers, NoAccount, NoToken
  <2>3. CASE Refreshed
    <3>1. PICK f \in refreshes :
             /\ StoredAccount'.access.of = f.of
             /\ crossed' = (crossed \/ StoredAccount.user # f.of)
      BY <2>3 DEF Refreshed
    <3>2. StoredAccount'.user = StoredAccount.user
      BY <2>3 DEF Refreshed
    <3>3. CASE StoredAccount.user = f.of
      BY <3>1, <3>2, <3>3 DEF TokenIsTheUsers
    <3>4. CASE StoredAccount.user # f.of
      BY <3>1, <3>4 DEF TokenIsTheUsers
    <3> QED BY <3>3, <3>4
  <2> QED BY <2>1, <2>2, <2>3
<1> QED BY <1>1, <1>2, SpecKeepsRefreshInv, PTL DEF SessionSpec


-----------------------------------------------------------------------------
(* Repetitions                                                             *)

(* A step leaves a call as it is, or takes it on in one of these ways.     *)
LEMMA SettledIsCounted ==
  ASSUME NEW rec \in Request, Counted(rec)
  PROVE  Counted(Settled(rec))
BY SettledHasType DEF Counted

LEMMA AttemptIsCounted ==
  ASSUME SessionTypeOK, NEW rec \in Request, rec.attempt < MaxAttempts,
         rec.executed <= rec.doubts, rec.executed <= rec.attempt
  PROVE  Counted(Attempt(rec))
<1> DEFINE sent == Attempt(rec)
<1>1. /\ sent.state = "sent" /\ sent.attempt = rec.attempt + 1
      /\ sent.executed = rec.executed /\ sent.doubts = rec.doubts
  BY AttemptHasType
<1>2. rec.executed \in Nat /\ rec.doubts \in Nat /\ rec.attempt \in Nat /\ MaxAttempts \in Nat
  BY SessionAssumption DEF Request
<1> HIDE DEF sent
<1>3. Counted(sent)
  BY <1>1, <1>2 DEF Counted
<1> QED BY <1>3 DEF sent

LEMMA ExecutionIsCounted ==
  ASSUME NEW rec \in Request, Counted(rec), rec.state = "sent",
         NEW done \in {0, 1}, NEW doubt \in {0, 1}
  PROVE  LET once == [rec EXCEPT !.executed = @ + done, !.doubts = @ + doubt]
         IN  /\ once \in Request /\ once.attempt = rec.attempt
             /\ once.executed <= once.attempt
             /\ once.executed <= once.doubts + 1 /\ once.executed <= MaxAttempts
             /\ doubt = 1 => once.executed <= once.doubts
<1> DEFINE a == [rec EXCEPT !.executed = rec.executed + done]
           b == [a EXCEPT !.doubts = rec.doubts + doubt]
           once == [rec EXCEPT !.executed = @ + done, !.doubts = @ + doubt]
<1>1. rec.executed \in Nat /\ rec.doubts \in Nat /\ rec.attempt \in 0..MaxAttempts
      /\ MaxAttempts \in Nat
  BY SessionAssumption DEF Request
<1>2. rec.executed + done \in Nat /\ rec.doubts + doubt \in Nat
  BY <1>1
<1>3. a \in Request
  BY <1>2 DEF Request
<1>4. b \in Request
  BY <1>2, <1>3 DEF Request
<1>5. once = b
  BY DEF Request
<1>6. once.attempt = rec.attempt /\ once.executed = rec.executed + done
      /\ once.doubts = rec.doubts + doubt
  BY DEF Request
<1>7. rec.executed <= rec.doubts /\ rec.executed < rec.attempt
  BY DEF Counted
<1> HIDE DEF once, b
<1>8. /\ once.executed <= once.attempt
      /\ once.executed <= once.doubts + 1 /\ once.executed <= MaxAttempts
      /\ doubt = 1 => once.executed <= once.doubts
  BY <1>1, <1>6, <1>7
<1> QED BY <1>4, <1>5, <1>6, <1>8 DEF once


LEMMA CallsStayCounted ==
  ASSUME SessionTypeOK, AttemptsAreLeft, CallsAreCounted, NEW r \in Requests,
         \/ \E t \in Tabs, kind \in Kinds : Start(r, t, kind)
         \/ Resend(r) \/ AnswerApi(r) \/ AnswerLogin(r) \/ Refuse(r) \/ Fault(r)
         \/ RejectTwice(r)
  PROVE  CallsAreCounted'
<1>0. request[r] \in Request /\ Counted(request[r])
  BY DEF SessionTypeOK, CallsAreCounted
<1>1. ASSUME NEW rec, Counted(rec), request' = [request EXCEPT ![r] = rec]
      PROVE  CallsAreCounted'
  <2>1. \A q \in Requests : request'[q] = IF q = r THEN rec ELSE request[q]
    BY <1>1 DEF SessionTypeOK
  <2>2. \A q \in Requests : Counted(request'[q])
    BY <1>1, <2>1 DEF CallsAreCounted
  <2> QED BY <2>2 DEF CallsAreCounted, Counted
<1>2. ASSUME NEW t \in Tabs, NEW kind \in Kinds, Start(r, t, kind)
      PROVE  CallsAreCounted'
  <2> DEFINE new == [request[r] EXCEPT !.kind = kind, !.tab = t, !.attempt = 0,
                                       !.session = memory[t].user,
                                       !.executed = 0, !.doubts = 0]
             sent == Attempt(new)
  <2>1. new \in Request /\ new.attempt = 0 /\ new.executed = 0 /\ new.doubts = 0
    BY StartHasType
  <2>2. request' = [request EXCEPT ![r] = sent]
    BY <1>2 DEF Start
  <2> HIDE DEF new
  <2>3. new.attempt < MaxAttempts /\ new.executed <= new.doubts /\ new.executed <= new.attempt
    BY <2>1, SessionAssumption
  <2>4. Counted(sent)
    BY <2>1, <2>3, AttemptIsCounted
  <2> HIDE DEF sent
  <2> QED BY <1>1, <2>2, <2>4
<1>3. CASE Resend(r)
  <2> DEFINE sent == Attempt(request[r])
  <2>1. request' = [request EXCEPT ![r] = sent]
    BY <1>3 DEF Resend
  <2>2. /\ request[r].attempt < MaxAttempts
        /\ request[r].executed <= request[r].doubts
        /\ request[r].executed <= request[r].attempt
    BY <1>0, <1>3 DEF Resend, AttemptsAreLeft, Counted
  <2>3. Counted(sent)
    BY <1>0, <2>2, AttemptIsCounted
  <2> HIDE DEF sent
  <2> QED BY <1>1, <2>1, <2>3
<1>4. ASSUME NEW rec \in Request, rec.executed <= rec.doubts + 1, rec.executed <= MaxAttempts
      PROVE  Counted(Settled(rec))
  BY <1>4, SettledHasType DEF Counted
<1>5. CASE AnswerApi(r) \/ AnswerLogin(r)
  <2> DEFINE done == [request[r] EXCEPT !.executed = @ + 1]
  <2>1. request' = [request EXCEPT ![r] = Settled(done)] /\ request[r].state = "sent"
    BY <1>5 DEF AnswerApi, AnswerLogin
  <2>2. done \in Request /\ done.executed = request[r].executed + 1
        /\ done.doubts = request[r].doubts
    BY <1>0 DEF Request
  <2> HIDE DEF done
  <2>3. /\ request[r].executed <= request[r].doubts
        /\ request[r].executed < request[r].attempt
        /\ request[r].executed \in Nat /\ request[r].doubts \in Nat
        /\ request[r].attempt \in 0..MaxAttempts /\ MaxAttempts \in Nat
    BY <1>0, <2>1, SessionAssumption DEF Counted, Request
  <2>4. done.executed <= done.doubts + 1 /\ done.executed <= MaxAttempts
    BY <2>2, <2>3
  <2>5. Counted(Settled(done))
    BY <1>4, <2>2, <2>4
  <2> QED BY <1>1, <2>1, <2>5
<1>6. ASSUME NEW rec \in Request, rec.executed <= rec.doubts + 1, rec.executed <= MaxAttempts,
             Fail(r, rec)
      PROVE  CallsAreCounted'
  BY <1>1, <1>4, <1>6 DEF Fail
<1>7. CASE Refuse(r) \/ RejectTwice(r)
  BY <1>0, <1>6, <1>7 DEF Refuse, RejectTwice, Counted
<1>8. CASE Fault(r)
  <2>1. PICK done \in {0, 1} :
          FailAttempt(r, [request[r] EXCEPT !.executed = @ + done, !.doubts = @ + 1])
    BY <1>8 DEF Fault
  <2> DEFINE rec == [request[r] EXCEPT !.executed = @ + done, !.doubts = @ + 1]
             later == [rec EXCEPT !.state = "backoff"]
  <2>2. request[r].state = "sent"
    BY <1>8 DEF Fault
  <2>3. /\ rec \in Request /\ rec.executed <= rec.attempt
        /\ rec.executed <= rec.doubts + 1 /\ rec.executed <= MaxAttempts
        /\ rec.executed <= rec.doubts
    BY <1>0, <2>2, ExecutionIsCounted
  <2>4. FailAttempt(r, rec)
    BY <2>1
  <2> HIDE DEF rec
  <2>5. CASE rec.attempt < MaxAttempts
    <3>1. /\ later.state = "backoff" /\ later.attempt = rec.attempt
          /\ later.executed = rec.executed /\ later.doubts = rec.doubts
      BY <2>3 DEF Request
    <3>2. request' = [request EXCEPT ![r] = later]
      BY <2>4, <2>5 DEF FailAttempt
    <3> HIDE DEF later
    <3>3. Counted(later)
      BY <2>3, <3>1 DEF Counted
    <3> QED BY <1>1, <3>2, <3>3
  <2>6. CASE ~(rec.attempt < MaxAttempts)
    BY <1>6, <2>3, <2>4, <2>6 DEF FailAttempt
  <2> QED BY <2>5, <2>6
<1> QED BY <1>2, <1>3, <1>5, <1>7, <1>8

LEMMA WaitingCallsStayCounted ==
  ASSUME SessionTypeOK, CallsAreCounted,
         \/ \E r \in Requests : JoinRefresh(r) \/ StartRefresh(r) \/ NoRefreshToken(r)
         \/ \E f \in refreshes : RefreshSucceeds(f) \/ \E refused \in BOOLEAN : RefreshFails(f, refused)
         \/ \E t \in Tabs : Reload(t)
  PROVE  CallsAreCounted'
<1>0. \A q \in Requests : /\ request[q] \in Request /\ Counted(request[q])
                          /\ Counted(Settled(request[q]))
  BY SettledIsCounted DEF SessionTypeOK, CallsAreCounted
<1>1. ASSUME \A q \in Requests : Counted(request'[q])
      PROVE  CallsAreCounted'
  BY <1>1 DEF CallsAreCounted, Counted
<1>2. ASSUME NEW q \in Requests, request[q].state \in {"sent", "waiting"},
             NEW next, next.executed = request[q].executed,
             next.doubts = request[q].doubts, next.attempt = request[q].attempt
      PROVE  Counted(next)
  <2>1. /\ request[q].executed \in Nat /\ request[q].attempt \in Nat
        /\ request[q].executed <= request[q].doubts
        /\ request[q].executed < request[q].attempt
        /\ request[q].executed <= request[q].doubts + 1 /\ request[q].executed <= MaxAttempts
    BY <1>0, <1>2 DEF Counted, Request
  <2> QED BY <1>2, <2>1 DEF Counted
<1>3. ASSUME NEW r \in Requests, JoinRefresh(r) \/ StartRefresh(r)
      PROVE  CallsAreCounted'
  <2>1. PICK first :
          request' = [request EXCEPT ![r].state = "waiting", ![r].retried = TRUE, ![r].on = first]
    BY <1>3 DEF JoinRefresh, StartRefresh
  <2>2. request[r].state = "sent"
    BY <1>3 DEF JoinRefresh, StartRefresh, Unauthorized
  <2>3. /\ request'[r].executed = request[r].executed
        /\ request'[r].doubts = request[r].doubts /\ request'[r].attempt = request[r].attempt
    BY <1>0, <2>1 DEF SessionTypeOK, Request
  <2>4. \A q \in Requests : q # r => request'[q] = request[q]
    BY <2>1 DEF SessionTypeOK
  <2>5. Counted(request'[r])
    BY <1>2, <2>2, <2>3
  <2> QED BY <1>0, <1>1, <2>4, <2>5
<1>4. ASSUME NEW q \in Requests, request[q].state \in {"sent", "waiting"}
      PROVE  Counted([request[q] EXCEPT !.state = "backoff"])
  BY <1>0, <1>2, <1>4 DEF Request
<1>5. ASSUME NEW r \in Requests, NoRefreshToken(r)
      PROVE  CallsAreCounted'
  <2>1. request[r].state = "sent"
    BY <1>5 DEF NoRefreshToken, Unauthorized
  <2>2. \A q \in Requests :
           request'[q] = IF q # r THEN request[q]
                         ELSE IF request[q].attempt < MaxAttempts
                         THEN [request[q] EXCEPT !.state = "backoff"] ELSE Settled(request[q])
    BY <1>5 DEF NoRefreshToken, SessionTypeOK
  <2>3. \A q \in Requests : Counted(request'[q])
    BY <1>0, <1>4, <2>1, <2>2
  <2> QED BY <1>1, <2>3
<1>6. ASSUME NEW f \in refreshes, RefreshSucceeds(f)
      PROVE  CallsAreCounted'
  <2>1. PICK token :
          request' = [r \in Requests |->
             IF r \in Waiters(f) THEN [request[r] EXCEPT !.state = "sent", !.token = token]
             ELSE request[r]]
    BY <1>6 DEF RefreshSucceeds
  <2>2. ASSUME NEW q \in Requests
        PROVE  Counted(request'[q])
    <3>1. CASE q \in Waiters(f)
      <4>1. request'[q] = [request[q] EXCEPT !.state = "sent", !.token = token]
        BY <2>1, <3>1
      <4>2. /\ request'[q].executed = request[q].executed
            /\ request'[q].doubts = request[q].doubts
            /\ request'[q].attempt = request[q].attempt
        BY <1>0, <4>1 DEF Request
      <4> QED BY <1>2, <3>1, <4>2 DEF Waiters
    <3>2. CASE q \notin Waiters(f)
      BY <1>0, <2>1, <3>2
    <3> QED BY <3>1, <3>2
  <2> QED BY <1>1, <2>2
<1>7. ASSUME NEW f \in refreshes, NEW refused \in BOOLEAN, RefreshFails(f, refused)
      PROVE  CallsAreCounted'
  <2>1. \A q \in Requests : Counted(request'[q])
    BY <1>0, <1>4, <1>7 DEF RefreshFails, Waiters
  <2> QED BY <1>1, <2>1
<1>8. ASSUME NEW t \in Tabs, Reload(t)
      PROVE  CallsAreCounted'
  <2>1. \A q \in Requests : Counted(request'[q])
    BY <1>0, <1>8 DEF Reload
  <2> QED BY <1>1, <2>1
<1> QED BY <1>3, <1>5, <1>6, <1>7, <1>8

(* A call is carried out again only after a fault, and MaxAttempts times   *)
(* at most: neither the resend after a 401 nor a shared refresh repeats    *)
(* what the server has done.                                               *)
THEOREM RepetitionsHaveACause == SessionSpec => []RepeatsFollowFaults
<1>1. SessionInit => CallsAreCounted
  <2> SUFFICES ASSUME SessionInit, NEW r \in Requests
               PROVE  Counted(request[r])
    BY DEF CallsAreCounted
  <2>1. request[r].state = "idle" /\ request[r].executed = 0 /\ request[r].doubts = 0
    BY DEF SessionInit
  <2> QED BY <2>1, SessionAssumption DEF Counted
<1>2. ASSUME RefreshInv, CallsAreCounted, [SessionNext]_sessionVars
      PROVE  CallsAreCounted'
  <2>1. CASE Expire \/ UNCHANGED sessionVars
    <3>1. request' = request
      BY <2>1 DEF Expire, sessionVars
    <3> QED BY <1>2, <3>1 DEF CallsAreCounted, Counted
  <2> QED BY <1>2, <2>1, CallsStayCounted, WaitingCallsStayCounted DEF RefreshInv, SessionNext
<1>3. CallsAreCounted => RepeatsFollowFaults
  BY DEF CallsAreCounted, Counted, RepeatsFollowFaults
<1> QED BY <1>1, <1>2, <1>3, SpecKeepsRefreshInv, PTL DEF SessionSpec

-----------------------------------------------------------------------------
(* The pages that submit.  Every fact from here on is about Spec.          *)

-----------------------------------------------------------------------------
(* One submission per visit                                                *)

LEMMA NewFormHasType ==
  ASSUME NEW prefill \in BOOLEAN
  PROVE  NewForm(prefill) \in Form /\ ~NewForm(prefill).pending
BY SubmittingAssumption DEF NewForm, Form

LEMMA VisitInit ==
  ASSUME Init
  PROVE  VisitInv
<1>1. form \in Form /\ ~form.pending /\ calls = {} /\ mounts = 0
  BY NewFormHasType DEF Init
<1>2. page.at = "other"
  BY DEF Init, At
<1>3. mounts \in 0..MaxMounts
  BY <1>1, SubmittingAssumption
<1> QED BY <1>1, <1>2, <1>3 DEF VisitInv, OneSubmissionPerVisit, Mounted

(* Steps that leave the problem page, or go to a new visit of it.          *)
LEMMA NewPageKeepsVisitInv ==
  ASSUME VisitInv, NEW prefill \in BOOLEAN, form' = NewForm(prefill),
         calls' \subseteq calls,
         \/ page'.at # "problem" /\ mounts' = mounts
         \/ mounts < MaxMounts /\ mounts' = mounts + 1
  PROVE  VisitInv'
<1>1. form' \in Form /\ ~form'.pending
  BY NewFormHasType
<1>2. /\ mounts' \in 0..MaxMounts /\ mounts <= mounts'
      /\ page'.at = "problem" => mounts' > 0 /\ mounts < mounts'
  BY SubmittingAssumption DEF VisitInv
<1>3. \A c \in calls : c.mount \in Nat /\ c.mount <= mounts
  BY DEF VisitInv, Call
<1>4. \A c \in calls' : c.mount <= mounts' /\ ~(page'.at = "problem" /\ mounts' = c.mount)
  BY <1>2, <1>3, SubmittingAssumption DEF VisitInv
<1> QED BY <1>1, <1>2, <1>4 DEF VisitInv, OneSubmissionPerVisit, Mounted

(* Steps of the form that leave its call alone.                            *)
LEMMA EditKeepsVisitInv ==
  ASSUME VisitInv, NEW f \in Form, f.pending = form.pending, Edited(f)
  PROVE  VisitInv'
BY DEF VisitInv, Edited, OneSubmissionPerVisit, Mounted

(* Steps that another attempt, or the row it stored, makes of a call.      *)
LEMMA ReplaceKeepsVisitInv ==
  ASSUME VisitInv, NEW c \in calls, NEW d \in Call, d.mount = c.mount, Replace(c, d),
         UNCHANGED <<page, form, mounts>>
  PROVE  VisitInv'
BY DEF VisitInv, Replace, OneSubmissionPerVisit, Mounted

LEMMA FormKeepsVisitInv ==
  ASSUME VisitInv, ToggleSubmit \/ EditSource \/ Submit \/ Tick
  PROVE  VisitInv'
<1>0. form \in Form
  BY DEF VisitInv
<1>1. CASE ToggleSubmit
  <2> DEFINE f == [form EXCEPT !.open = ~@]
  <2>1. f \in Form /\ f.pending = form.pending
    BY <1>0 DEF Form
  <2>2. Edited(f)
    BY <1>1 DEF ToggleSubmit
  <2> HIDE DEF f
  <2> QED BY <2>1, <2>2, EditKeepsVisitInv
<1>2. CASE EditSource
  <2> DEFINE f == [form EXCEPT !.draft = ~@]
  <2>1. f \in Form /\ f.pending = form.pending
    BY <1>0 DEF Form
  <2>2. Edited(f)
    BY <1>2 DEF EditSource
  <2> HIDE DEF f
  <2> QED BY <2>1, <2>2, EditKeepsVisitInv
<1>3. CASE Tick
  <2> DEFINE f == [form EXCEPT !.cooldown = form.cooldown - 1]
  <2>1. form.cooldown - 1 \in 0..Cooldown
    BY <1>0, <1>3, SubmittingAssumption DEF Tick, Form
  <2>2. f \in Form /\ f.pending = form.pending
    BY <1>0, <2>1 DEF Form
  <2>3. Edited(f)
    BY <1>3 DEF Tick
  <2> HIDE DEF f
  <2> QED BY <2>2, <2>3, EditKeepsVisitInv
<1>4. CASE Submit
  <2> DEFINE f == [form EXCEPT !.pending = TRUE, !.limited = FALSE, !.failed = FALSE]
             new == [mount |-> mounts, attempt |-> 1, created |-> {}]
  <2>1. f \in Form /\ f.pending
    <3> DEFINE a == [form EXCEPT !.pending = TRUE]
               b == [a EXCEPT !.limited = FALSE]
    <3>1. a \in Form /\ a.pending
      BY <1>0 DEF Form
    <3> HIDE DEF a
    <3>2. b \in Form /\ b.pending
      BY <3>1 DEF Form
    <3> HIDE DEF b
    <3>3. [b EXCEPT !.failed = FALSE] \in Form /\ [b EXCEPT !.failed = FALSE].pending
      BY <3>2 DEF Form
    <3> QED BY <3>3 DEF a, b
  <2>2. new \in Call /\ new.mount = mounts
    BY <1>4, SubmittingAssumption DEF Submit, VisitInv, Call
  <2>3. /\ form' = f /\ calls' = calls \union {new}
        /\ UNCHANGED <<page, mounts>> /\ page.at = "problem"
    BY <1>4 DEF Submit
  <2>4. \A c \in calls : c.mount # mounts
    BY <1>4 DEF Submit, MaySubmit, VisitInv, OneSubmissionPerVisit, Mounted
  <2> HIDE DEF f, new
  <2>5. form' \in Form /\ calls' \subseteq Call /\ mounts' \in 0..MaxMounts
        /\ page'.at = "problem" /\ mounts' > 0 /\ \A c \in calls' : c.mount <= mounts'
    BY <2>1, <2>2, <2>3 DEF VisitInv
  <2>6. OneSubmissionPerVisit'
    BY <2>1, <2>2, <2>3, <2>4 DEF VisitInv, OneSubmissionPerVisit, Mounted
  <2> QED BY <2>5, <2>6 DEF VisitInv
<1> QED BY <1>1, <1>2, <1>3, <1>4

LEMMA CallsKeepVisitInv ==
  ASSUME VisitInv, NEW c \in calls,
         Store(c) \/ Succeed(c) \/ Repeat(c) \/ \E limited \in BOOLEAN : Break(c, limited)
  PROVE  VisitInv'
<1>0. c \in Call /\ form \in Form
  BY DEF VisitInv
<1>1. CASE Store(c)
  <2>1. PICK s \in Submissions : Replace(c, [c EXCEPT !.created = {s}])
    BY <1>1 DEF Store
  <2> DEFINE d == [c EXCEPT !.created = {s}]
  <2>2. d \in Call /\ d.mount = c.mount
    BY <1>0 DEF Call
  <2>3. Replace(c, d) /\ UNCHANGED <<page, form, mounts>>
    BY <1>1, <2>1 DEF Store
  <2> HIDE DEF d
  <2> QED BY <2>2, <2>3, ReplaceKeepsVisitInv
<1>2. CASE Succeed(c)
  <2>1. /\ form' = NewForm(FALSE) /\ page'.at # "problem"
        /\ mounts' = mounts /\ calls' \subseteq calls
    BY <1>2 DEF Succeed, ShowSubmission, Show
  <2> QED BY <2>1, NewPageKeepsVisitInv
<1>3. CASE Repeat(c)
  <2> DEFINE a == [c EXCEPT !.attempt = c.attempt + 1]
             d == [a EXCEPT !.created = {}]
  <2>1. c.attempt + 1 \in 1..MaxAttempts
    BY <1>0, <1>3, SubmittingAssumption DEF Repeat, Call
  <2>2. a \in Call /\ a.mount = c.mount
    BY <1>0, <2>1 DEF Call
  <2>3. Replace(c, d) /\ UNCHANGED <<page, form, mounts>>
    BY <1>0, <1>3 DEF Repeat, Call
  <2> HIDE DEF a
  <2>4. d \in Call /\ d.mount = c.mount
    BY <2>2 DEF Call
  <2> HIDE DEF d
  <2> QED BY <2>3, <2>4, ReplaceKeepsVisitInv
<1>4. ASSUME NEW limited \in BOOLEAN, Break(c, limited)
      PROVE  VisitInv'
  <2>1. calls' = calls \ {c} /\ UNCHANGED <<page, mounts>>
    BY <1>4 DEF Break
  <2>2. \A d \in calls' : d.mount # c.mount
    BY <2>1 DEF VisitInv, OneSubmissionPerVisit
  <2>3. CASE ~Mounted(c)
    <3>1. form' = form
      BY <1>4, <2>3 DEF Break
    <3> QED BY <2>1, <2>3, <3>1 DEF VisitInv, OneSubmissionPerVisit, Mounted
  <2>4. CASE Mounted(c)
    <3> DEFINE f == [form EXCEPT !.pending = FALSE, !.failed = ~limited, !.limited = limited,
                                 !.cooldown = IF limited THEN Cooldown ELSE @]
               f1 == [form EXCEPT !.pending = FALSE]
               f2 == [f1 EXCEPT !.failed = ~limited]
               f3 == [f2 EXCEPT !.limited = limited]
               wait == IF limited THEN Cooldown ELSE form.cooldown
               f4 == [f3 EXCEPT !.cooldown = wait]
    <3>1. wait \in 0..Cooldown
      BY <1>0, SubmittingAssumption DEF Form
    <3>2. f = f4
      BY <1>0 DEF Form
    <3>3. form' = f4
      BY <1>4, <2>4, <3>2 DEF Break
    <3>4. f1 \in Form /\ ~f1.pending
      BY <1>0 DEF Form
    <3> HIDE DEF f, f1, wait
    <3>5. f2 \in Form /\ ~f2.pending
      BY <3>4 DEF Form
    <3> HIDE DEF f2
    <3>6. f3 \in Form /\ ~f3.pending
      BY <3>5 DEF Form
    <3> HIDE DEF f3
    <3>7. f4 \in Form /\ ~f4.pending
      BY <3>1, <3>6 DEF Form
    <3> HIDE DEF f4
    <3>8. \A d \in calls' : ~(page'.at = "problem" /\ mounts' = d.mount)
      BY <2>1, <2>2, <2>4 DEF Mounted
    <3> QED BY <2>1, <3>3, <3>7, <3>8 DEF VisitInv, OneSubmissionPerVisit, Mounted
  <2> QED BY <2>3, <2>4
<1> QED BY <1>1, <1>2, <1>3, <1>4

(* Calls belong to visits, one to each that has one under way.             *)
THEOREM SpecKeepsVisitInv == Spec => []VisitInv
<1>1. Init => VisitInv
  BY VisitInit
<1>2. ASSUME VisitInv, [Next]_vars
      PROVE  VisitInv'
  <2>1. CASE \E s \in Submissions :
                \/ JudgeStarts(s) \/ JudgeReports(s)
                \/ Poll(s) \/ Arrive(s) \/ FetchFails(s) \/ Forget(s)
    <3>1. UNCHANGED <<page, form, calls, mounts>>
      BY <2>1 DEF JudgeStarts, JudgeReports, Poll, Arrive, FetchFails, Forget, Fetched, browser
    <3> QED BY <1>2, <3>1 DEF VisitInv, OneSubmissionPerVisit, Mounted
  <2>2. CASE ListArrives \/ ListFails \/ ListAges \/ UNCHANGED vars
    <3>1. UNCHANGED <<page, form, calls, mounts>>
      BY <2>2 DEF ListArrives, ListFails, ListAges, browser, vars
    <3> QED BY <1>2, <3>1 DEF VisitInv, OneSubmissionPerVisit, Mounted
  <2>3. ASSUME NEW prefill \in BOOLEAN, MountProblem(prefill)
        PROVE  VisitInv'
    BY <1>2, <2>3, NewPageKeepsVisitInv DEF MountProblem
  <2>4. CASE OpenProblem \/ \E s \in Submissions : Resubmit(s)
    BY <2>3, <2>4 DEF OpenProblem, Resubmit
  <2>5. CASE OpenList \/ Leave \/ \E s \in Submissions : OpenSubmission(s)
    <3>1. /\ form' = NewForm(FALSE) /\ page'.at # "problem"
          /\ mounts' = mounts /\ calls' = calls
      <4>1. CASE OpenList
        BY <4>1 DEF OpenList, Show, At
      <4>2. CASE Leave
        BY <4>2 DEF Leave, Show, At
      <4>3. CASE \E s \in Submissions : OpenSubmission(s)
        BY <4>3 DEF OpenSubmission, ShowSubmission, Show
      <4> QED BY <2>5, <4>1, <4>2, <4>3
    <3> QED BY <1>2, <3>1, NewPageKeepsVisitInv
  <2> QED BY <1>2, <2>1, <2>2, <2>4, <2>5, FormKeepsVisitInv, CallsKeepVisitInv DEF Next
<1> QED BY <1>1, <1>2, PTL DEF Spec

(* A visit to the problem page has one submission under way at most,       *)
(* whatever the user does and however calls fail and are repeated: a call  *)
(* that was left behind never counts as one of the visit on screen.        *)
THEOREM VisitsSubmitOnce == Spec => []OneSubmissionPerVisit
<1>1. VisitInv => OneSubmissionPerVisit
  BY DEF VisitInv
<1> QED BY <1>1, SpecKeepsVisitInv, PTL


-----------------------------------------------------------------------------
(* The list of submissions                                                 *)

(* A submission that is stored stays stored, whatever the judge does.      *)
LEMMA PhasesStay ==
  ASSUME ListInv, NEW s \in Submissions, Queue(s) \/ Judge(s) \/ Conclude(s)
  PROVE  /\ phase' \in [Submissions -> {"none", "queued", "judging", "judged"}]
         /\ Stored \subseteq Stored'
BY DEF ListInv, Queue, Judge, Conclude, SetPhase, Stored

LEMMA FetchListReads ==
  ASSUME NEW l \in List
  PROVE  /\ FetchList(l) \in List
         /\ FetchList(l).flight = IF l.flight = {} THEN {Stored} ELSE l.flight
         /\ FetchList(l).has = l.has /\ FetchList(l).stale = l.stale
         /\ FetchList(l).rows = l.rows
<1>1. CASE l.flight # {}
  BY <1>1 DEF FetchList
<1>2. CASE l.flight = {}
  <2> DEFINE e == (l.error /\ l.has)
             a == [l EXCEPT !.flight = {Stored}]
             b == [a EXCEPT !.error = e]
  <2>1. Stored \in Rows /\ e \in BOOLEAN
    BY DEF Stored, Rows, List
  <2>2. FetchList(l) = b
    BY <1>2 DEF FetchList, Stored, List
  <2>3. a \in List /\ a.flight = {Stored} /\ a.has = l.has /\ a.stale = l.stale /\ a.rows = l.rows
    BY <2>1 DEF List
  <2> HIDE DEF a, e
  <2>4. b \in List /\ b.flight = {Stored} /\ b.has = l.has /\ b.stale = l.stale /\ b.rows = l.rows
    BY <2>1, <2>3 DEF List
  <2> QED BY <1>2, <2>2, <2>4
<1> QED BY <1>1, <1>2

LEMMA InvalidatedIsStale ==
  ASSUME NEW l \in List
  PROVE  /\ Invalidated(l) \in List
         /\ Invalidated(l).has /\ ~Invalidated(l).stale => FALSE
         /\ \/ Invalidated(l).flight = l.flight
            \/ Invalidated(l).flight = {Stored}
<1> DEFINE stale == [l EXCEPT !.stale = l.has]
           again == [stale EXCEPT !.flight = {}]
<1>1. /\ stale \in List /\ stale.flight = l.flight
      /\ stale.has /\ ~stale.stale => FALSE
  BY DEF List
<1>2. /\ again \in List /\ again.flight = {}
      /\ again.has = stale.has /\ again.stale = stale.stale
  BY DEF List
<1>3. Invalidated(l) \in {stale, FetchList(again), FetchList(stale)}
  <2>1. l.has \in BOOLEAN
    BY DEF List
  <2> QED BY <2>1 DEF Invalidated
<1> HIDE DEF stale, again
<1> QED BY <1>1, <1>2, <1>3, FetchListReads

(* Steps of the judge, of the pages and of a submission's query.           *)
LEMMA OthersKeepListInv ==
  ASSUME ListInv, UNCHANGED <<list, answered, overtaken>>,
         phase' \in [Submissions -> {"none", "queued", "judging", "judged"}],
         Stored \subseteq Stored',
         \A c \in calls' : c.created \subseteq Stored'
  PROVE  ListInv'
BY DEF ListInv, MissingRowsAreExplained

(* Steps of the list's query: the rows that come were read for it, and the *)
(* rows that are read are all there are.                                   *)
LEMMA ListKeepsListInv ==
  ASSUME ListInv, UNCHANGED <<phase, calls, answered, overtaken>>, list' \in List,
         \A rows \in list'.flight : rows \in list.flight \/ rows = Stored,
         list'.has /\ ~list'.stale =>
            \/ list.has /\ ~list.stale /\ list'.rows = list.rows
            \/ list'.rows \in list.flight
  PROVE  ListInv'
<1>1. Stored' = Stored
  BY DEF Stored
<1>2. \A rows \in list'.flight : answered' \subseteq rows \union overtaken'
  BY DEF ListInv
<1>3. MissingRowsAreExplained'
  BY DEF ListInv, MissingRowsAreExplained
<1> QED BY <1>1, <1>2, <1>3 DEF ListInv

LEMMA QueryKeepsListInv ==
  ASSUME ListInv, ListArrives \/ ListFails \/ ListAges \/ OpenList
  PROVE  ListInv'
<1>0. list \in List
  BY DEF ListInv
<1>1. CASE ListArrives
  <2>1. PICK rows \in list.flight : list' = [NoList EXCEPT !.has = TRUE, !.rows = rows]
    BY <1>1 DEF ListArrives
  <2>2. rows \in Rows
    BY <1>0 DEF List
  <2>3. list' = [has |-> TRUE, rows |-> rows, stale |-> FALSE, error |-> FALSE, flight |-> {}]
    BY <2>1 DEF NoList
  <2>4. list' \in List /\ list'.flight = {} /\ list'.rows = rows
    BY <2>2, <2>3 DEF List
  <2> QED BY <1>1, <2>4, ListKeepsListInv DEF ListArrives, server, browser
<1>2. CASE ListFails
  <2> DEFINE a == [list EXCEPT !.flight = {}]
             b == [a EXCEPT !.error = TRUE]
  <2>1. list' = b
    BY <1>2 DEF ListFails
  <2>2. a \in List /\ a.flight = {} /\ a.has = list.has /\ a.stale = list.stale /\ a.rows = list.rows
    BY <1>0 DEF List
  <2> HIDE DEF a
  <2>3. b \in List /\ b.flight = {} /\ b.has = list.has /\ b.stale = list.stale /\ b.rows = list.rows
    BY <2>2 DEF List
  <2> HIDE DEF b
  <2> QED BY <1>2, <2>1, <2>3, ListKeepsListInv DEF ListFails, server, browser
<1>3. CASE ListAges
  <2>1. list' \in List /\ list'.flight = list.flight /\ list'.stale
    BY <1>0, <1>3 DEF ListAges, List
  <2> QED BY <1>3, <2>1, ListKeepsListInv DEF ListAges, server, browser
<1>4. CASE OpenList
  <2>1. list' \in List /\ list'.has = list.has /\ list'.stale = list.stale /\ list'.rows = list.rows
        /\ list'.flight \in {list.flight, {Stored}}
    BY <1>0, <1>4, FetchListReads DEF OpenList
  <2> QED BY <1>4, <2>1, ListKeepsListInv DEF OpenList, server
<1> QED BY <1>1, <1>2, <1>3, <1>4

LEMMA CallsKeepListInv ==
  ASSUME ListInv, calls \subseteq Call, NEW c \in calls,
         Store(c) \/ Succeed(c) \/ Repeat(c) \/ \E limited \in BOOLEAN : Break(c, limited)
  PROVE  ListInv'
<1>0. c \in Call /\ phase \in [Submissions -> {"none", "queued", "judging", "judged"}]
  BY DEF ListInv
<1>1. CASE Store(c)
  <2>1. PICK s \in Submissions : Queue(s) /\ Replace(c, [c EXCEPT !.created = {s}])
    BY <1>1 DEF Store
  <2> DEFINE d == [c EXCEPT !.created = {s}]
  <2>2. d.created = {s} /\ calls' = (calls \ {c}) \union {d}
    BY <1>0, <2>1 DEF Call, Replace
  <2> HIDE DEF d
  <2>3. phase' \in [Submissions -> {"none", "queued", "judging", "judged"}]
        /\ Stored \subseteq Stored'
    BY <2>1, PhasesStay
  <2>4. s \in Stored'
    BY <1>0, <2>1 DEF Queue, SetPhase, Stored
  <2>5. \A e \in calls' : e.created \subseteq Stored'
    BY <2>2, <2>3, <2>4 DEF ListInv
  <2> QED BY <1>1, <2>3, <2>5, OthersKeepListInv DEF Store
<1>2. CASE Repeat(c) \/ \E limited \in BOOLEAN : Break(c, limited)
  <2>1. UNCHANGED <<phase, list, answered, overtaken>>
    BY <1>2 DEF Repeat, Break, server
  <2>2. Stored' = Stored
    BY <2>1 DEF Stored
  <2>3. \A d \in calls' : d \in calls \/ d.created = {}
    <3>1. CASE Repeat(c)
      <4> DEFINE a == [c EXCEPT !.attempt = c.attempt + 1]
                 d == [a EXCEPT !.created = {}]
      <4>1. DOMAIN a = DOMAIN c
        OBVIOUS
      <4>2. "created" \in DOMAIN c
        BY <1>0 DEF Call
      <4>3. calls' = (calls \ {c}) \union {d}
        BY <1>0, <3>1 DEF Repeat, Replace, Call
      <4> HIDE DEF a
      <4>4. d.created = {}
        BY <4>1, <4>2
      <4> QED BY <4>3, <4>4
    <3>2. CASE \E limited \in BOOLEAN : Break(c, limited)
      BY <3>2 DEF Break
    <3> QED BY <1>2, <3>1, <3>2
  <2>4. \A d \in calls' : d.created \subseteq Stored'
    BY <2>2, <2>3 DEF ListInv
  <2> QED BY <1>0, <2>1, <2>2, <2>4, OthersKeepListInv
<1>3. CASE Succeed(c)
  <2>1. /\ phase' = phase /\ calls' = calls \ {c} /\ list' = Invalidated(list)
        /\ answered' = answered \union c.created
        /\ overtaken' = IF list'.flight # {} /\ list'.flight = list.flight
                        THEN overtaken \union c.created ELSE overtaken
    BY <1>3 DEF Succeed, server
  <2>2. Stored' = Stored /\ c.created \subseteq Stored /\ answered \subseteq Stored
    BY <2>1 DEF Stored, ListInv
  <2>3. list' \in List /\ list'.flight \in {list.flight, {Stored}}
        /\ ~(list'.has /\ ~list'.stale)
    BY <2>1, InvalidatedIsStale DEF ListInv
  <2>4. ASSUME NEW rows \in list'.flight
        PROVE  answered' \subseteq rows \union overtaken'
    <3>1. CASE list'.flight = list.flight
      BY <2>1, <2>4, <3>1 DEF ListInv
    <3>2. CASE list'.flight = {Stored}
      BY <2>1, <2>2, <2>4, <3>2
    <3> QED BY <2>3, <3>1, <3>2
  <2>5. MissingRowsAreExplained'
    BY <2>3 DEF MissingRowsAreExplained
  <2> QED BY <1>0, <2>1, <2>2, <2>3, <2>4, <2>5 DEF ListInv
<1> QED BY <1>1, <1>2, <1>3

(* What the next answer to a fetch of the list may miss, and what the list *)
(* may miss already.                                                       *)
THEOREM SpecKeepsListInv == Spec => []ListInv
<1>1. Init => ListInv
  <2> SUFFICES ASSUME Init
               PROVE  ListInv
    OBVIOUS
  <2>1. phase \in [Submissions -> {"none", "queued", "judging", "judged"}]
    BY DEF Init, LifecycleInit
  <2>2. list \in List /\ list.flight = {} /\ ~list.has
    BY DEF Init, NoList, List, Rows
  <2> QED BY <2>1, <2>2 DEF Init, ListInv, MissingRowsAreExplained
<1>2. ASSUME ListInv, calls \subseteq Call, [Next]_vars
      PROVE  ListInv'
  <2>1. CASE \E s \in Submissions : JudgeStarts(s) \/ JudgeReports(s)
    <3>1. PICK s \in Submissions : Judge(s) \/ Conclude(s)
      BY <2>1 DEF JudgeStarts, JudgeReports
    <3>2. UNCHANGED <<calls, list, answered, overtaken>>
      BY <2>1 DEF JudgeStarts, JudgeReports, browser
    <3>3. phase' \in [Submissions -> {"none", "queued", "judging", "judged"}]
          /\ Stored \subseteq Stored'
      BY <1>2, <3>1, PhasesStay
    <3>4. \A c \in calls' : c.created \subseteq Stored'
      BY <1>2, <3>2, <3>3 DEF ListInv
    <3> QED BY <1>2, <3>2, <3>3, <3>4, OthersKeepListInv
  <2>2. CASE UNCHANGED <<phase, calls, list, answered, overtaken>>
    <3>1. Stored' = Stored
      BY <2>2 DEF Stored
    <3>2. phase' \in [Submissions -> {"none", "queued", "judging", "judged"}]
          /\ \A c \in calls' : c.created \subseteq Stored'
      BY <1>2, <2>2, <3>1 DEF ListInv
    <3> QED BY <1>2, <2>2, <3>1, <3>2, OthersKeepListInv
  <2>3. CASE \E s \in Submissions :
                \/ Poll(s) \/ Arrive(s) \/ FetchFails(s) \/ Forget(s)
                \/ Resubmit(s) \/ OpenSubmission(s)
    BY <2>2, <2>3 DEF Poll, Arrive, FetchFails, Forget, Fetched, Resubmit, MountProblem,
                      OpenSubmission, server, browser
  <2>4. CASE OpenProblem \/ Leave \/ ToggleSubmit \/ EditSource \/ Tick \/ UNCHANGED vars
    BY <2>2, <2>4 DEF OpenProblem, MountProblem, Leave, ToggleSubmit, EditSource, Tick, Edited,
                      server, vars
  <2>5. CASE Submit
    <3>1. UNCHANGED <<phase, list, answered, overtaken>>
          /\ calls' = calls \union {[mount |-> mounts, attempt |-> 1, created |-> {}]}
      BY <2>5 DEF Submit, server
    <3>2. Stored' = Stored
      BY <3>1 DEF Stored
    <3>3. phase' \in [Submissions -> {"none", "queued", "judging", "judged"}]
          /\ \A c \in calls' : c.created \subseteq Stored'
      BY <1>2, <3>1, <3>2 DEF ListInv
    <3> QED BY <1>2, <3>1, <3>2, <3>3, OthersKeepListInv
  <2> QED BY <1>2, <2>1, <2>3, <2>4, <2>5, QueryKeepsListInv, CallsKeepListInv DEF Next
<1>3. VisitInv => calls \subseteq Call
  BY DEF VisitInv
<1> QED BY <1>1, <1>2, <1>3, SpecKeepsVisitInv, PTL DEF Spec

(* A list that counts as fresh lacks no submission whose creation was      *)
(* answered, but those that were answered while an older fetch of it was   *)
(* under way.                                                              *)
THEOREM FreshListsAreComplete == Spec => []MissingRowsAreExplained
<1>1. ListInv => MissingRowsAreExplained
  BY DEF ListInv
<1> QED BY <1>1, SpecKeepsListInv, PTL

-----------------------------------------------------------------------------
(* The page of a submission                                                *)

LEMMA ServerKeepsNumbers ==
  ASSUME ReportInv, NEW s \in Submissions, UNCHANGED server
  PROVE  Numbered(s)' /\ RunsOf(s)' = RunsOf(s)
<1>1. phase' = phase /\ reports' = reports
  BY DEF server
<1>2. RunsOf(s)' = RunsOf(s)
  BY <1>1 DEF RunsOf
<1> QED BY <1>1, <1>2 DEF ReportInv, Numbered

(* The judge adds a run with the next number.                              *)
LEMMA JudgeKeepsNumbers ==
  ASSUME ReportInv, phase \in [Submissions -> {"none", "queued", "judging", "judged"}],
         NEW s \in Submissions, JudgeStarts(s) \/ JudgeReports(s) \/ Queue(s),
         NEW d \in Submissions
  PROVE  Numbered(d)' /\ RunsOf(d) \subseteq RunsOf(d)' /\ reports' \subseteq Report
<1> DEFINE n == Cardinality(RunsOf(s))
<1>0. Numbered(d) /\ Numbered(s) /\ reports \subseteq Report /\ n \in Nat
  BY FS_CardinalityType DEF ReportInv, Numbered
<1>1. CASE JudgeStarts(s) \/ Queue(s)
  <2>1. /\ reports' = reports
        /\ phase' = [phase EXCEPT ![s] = IF JudgeStarts(s) THEN "judging" ELSE "queued"]
        /\ JudgeStarts(s) => n < MaxRuns
    BY <1>1 DEF JudgeStarts, Judge, Queue, SetPhase
  <2>2. RunsOf(d)' = RunsOf(d)
    BY <2>1 DEF RunsOf
  <2>3. /\ phase'[d] = "judged" => phase[d] = "judged"
        /\ phase'[d] = "judging" => phase[d] = "judging" \/ (d = s /\ n < MaxRuns)
    BY <2>1
  <2> QED BY <1>0, <2>1, <2>2, <2>3 DEF Numbered
<1>2. CASE JudgeReports(s)
  <2>1. PICK verdict \in Verdicts :
          reports' = reports \union {[sub |-> s, no |-> n + 1, verdict |-> verdict]}
    BY <1>2 DEF JudgeReports
  <2> DEFINE new == [sub |-> s, no |-> n + 1, verdict |-> verdict]
  <2>2. phase[s] = "judging" /\ phase' = [phase EXCEPT ![s] = "judged"]
    BY <1>2 DEF JudgeReports, Conclude, SetPhase
  <2>3. n < MaxRuns
    BY <1>0, <2>2 DEF Numbered
  <2>4. new \in Report /\ new.sub = s /\ new.no = n + 1
    BY <1>0, <2>3, SubmittingAssumption DEF Report
  <2>5. reports' = reports \union {new}
    BY <2>1
  <2> HIDE DEF new
  <2>6. reports' \subseteq Report
    BY <1>0, <2>4, <2>5
  <2>7. CASE d # s
    <3>1. RunsOf(d)' = RunsOf(d) /\ phase'[d] = phase[d]
      BY <2>2, <2>4, <2>5, <2>7 DEF RunsOf
    <3> QED BY <1>0, <2>6, <3>1 DEF Numbered
  <2>8. CASE d = s
    <3>1. RunsOf(s)' = RunsOf(s) \union {new}
      BY <2>4, <2>5 DEF RunsOf
    <3>2. /\ \A r \in RunsOf(s) : r.no \in Nat /\ r.no <= n
          /\ IsFiniteSet(RunsOf(s))
      BY <1>0 DEF RunsOf, Report, Numbered
    <3>3. new \notin RunsOf(s)
      BY <1>0, <2>4, <3>2
    <3>4. IsFiniteSet(RunsOf(s)') /\ Cardinality(RunsOf(s)') = n + 1
      BY <3>1, <3>2, <3>3, FS_AddElement
    <3>5. \A i \in 1..(n + 1) : \E r \in RunsOf(s)' : r.no = i
      <4>1. \A i \in 1..(n + 1) : i \in 1..n \/ i = n + 1
        BY <1>0
      <4> QED BY <1>0, <2>4, <3>1, <4>1 DEF Numbered
    <3>6. \A r \in RunsOf(s)' : r.no <= n + 1 /\ \A q \in RunsOf(s)' : q.no = r.no => q = r
      <4>1. ASSUME NEW r \in RunsOf(s)'
            PROVE  r.no <= n + 1
        BY <1>0, <2>4, <3>1, <3>2
      <4>2. ASSUME NEW r \in RunsOf(s)', NEW q \in RunsOf(s)', q.no = r.no
            PROVE  q = r
        <5>1. ASSUME r \in RunsOf(s), q \in RunsOf(s)
              PROVE  q = r
          BY <1>0, <4>2, <5>1 DEF Numbered
        <5>2. \A u \in RunsOf(s) : u.no # new.no
          BY <1>0, <2>4, <3>2
        <5> QED BY <3>1, <4>2, <5>1, <5>2
      <4> QED BY <4>1, <4>2
    <3>7. n + 1 <= MaxRuns /\ n + 1 > 0 /\ phase'[s] = "judged"
      BY <1>0, <2>2, <2>3, SubmittingAssumption
    <3>8. Numbered(s)'
      BY <3>4, <3>5, <3>6, <3>7 DEF Numbered
    <3> QED BY <2>6, <2>8, <3>1, <3>8
  <2> QED BY <2>7, <2>8
<1> QED BY <1>1, <1>2

LEMMA ViewsAreFaithful ==
  ASSUME ReportInv, phase \in [Submissions -> {"none", "queued", "judging", "judged"}],
         NEW s \in Submissions
  PROVE  ViewOf(s) \in Views /\ Faithful(s, ViewOf(s))
<1> DEFINE n == Cardinality(RunsOf(s))
<1>1. ViewOf(s).phase = phase[s] /\ ViewOf(s).runs = RunsOf(s)
  BY DEF ViewOf
<1>2. ViewOf(s) \in Views
  BY DEF ViewOf, Views, RunsOf, ReportInv
<1>3. ASSUME phase[s] = "judged"
      PROVE  \E r \in RunsOf(s) : \A q \in RunsOf(s) : q.no <= r.no
  <2>1. n \in Nat /\ n > 0 /\ Numbered(s)
    BY <1>3, FS_CardinalityType DEF ReportInv, Numbered
  <2>2. n \in 1..n
    BY <2>1
  <2> QED BY <2>1, <2>2 DEF Numbered
<1> QED BY <1>1, <1>2, <1>3 DEF Faithful, Final

LEMMA FetchIsFaithful ==
  ASSUME ReportInv, phase \in [Submissions -> {"none", "queued", "judging", "judged"}],
         NEW s \in Submissions
  PROVE  /\ Fetch(s) \in Entry
         /\ Fetch(s).data = entry[s].data
         /\ Fetch(s).flight \in {entry[s].flight, {ViewOf(s)}}
<1>0. entry[s] \in Entry
  BY DEF ReportInv
<1>1. CASE entry[s].flight # {}
  BY <1>0, <1>1 DEF Fetch
<1>2. CASE entry[s].flight = {}
  <2> DEFINE e == (entry[s].error /\ entry[s].data # NoView)
             a == [entry[s] EXCEPT !.flight = {ViewOf(s)}]
             b == [a EXCEPT !.error = e]
  <2>1. {ViewOf(s)} \in InFlight /\ e \in BOOLEAN
    BY <1>0, ViewsAreFaithful DEF InFlight, Entry
  <2>2. Fetch(s) = b
    BY <1>0, <1>2 DEF Fetch, Entry
  <2>3. a \in Entry /\ a.flight = {ViewOf(s)} /\ a.data = entry[s].data
    BY <1>0, <2>1 DEF Entry
  <2> HIDE DEF a, e
  <2>4. b \in Entry /\ b.flight = {ViewOf(s)} /\ b.data = entry[s].data
    BY <2>1, <2>3 DEF Entry
  <2> QED BY <2>2, <2>4
<1> QED BY <1>1, <1>2

(* A step that changes one entry of the cache, and nothing of the judge.   *)
LEMMA EntryKeepsReportInv ==
  ASSUME ReportInv, NEW s \in Submissions, NEW e \in Entry, Faithful(s, e.data),
         \A view \in e.flight : Faithful(s, view),
         entry' = [entry EXCEPT ![s] = e], UNCHANGED server
  PROVE  ReportInv'
<1>1. entry' \in [Submissions -> Entry] /\ reports' \subseteq Report
  BY DEF ReportInv, server
<1>2. ASSUME NEW d \in Submissions
      PROVE  /\ Numbered(d)'
             /\ Faithful(d, entry[d].data)'
             /\ \A view \in entry'[d].flight : Faithful(d, view)'
  <2>1. Numbered(d)' /\ RunsOf(d)' = RunsOf(d)
    BY ServerKeepsNumbers
  <2>2. /\ Faithful(d, entry'[d].data)
        /\ \A view \in entry'[d].flight : Faithful(d, view)
    BY DEF ReportInv
  <2> QED BY <2>1, <2>2 DEF Faithful
<1> QED BY <1>1, <1>2 DEF ReportInv

LEMMA JudgeKeepsReportInv ==
  ASSUME ReportInv, phase \in [Submissions -> {"none", "queued", "judging", "judged"}],
         entry' = entry, NEW s \in Submissions, JudgeStarts(s) \/ JudgeReports(s) \/ Queue(s)
  PROVE  ReportInv'
<1>1. ASSUME NEW d \in Submissions
      PROVE  /\ Numbered(d)'
             /\ Faithful(d, entry[d].data)'
             /\ \A view \in entry'[d].flight : Faithful(d, view)'
  <2>1. Numbered(d)' /\ RunsOf(d) \subseteq RunsOf(d)'
    BY JudgeKeepsNumbers
  <2>2. /\ Faithful(d, entry[d].data)
        /\ \A view \in entry[d].flight : Faithful(d, view)
    BY DEF ReportInv
  <2> QED BY <2>1, <2>2 DEF Faithful
<1>2. reports' \subseteq Report
  BY JudgeKeepsNumbers
<1> QED BY <1>1, <1>2 DEF ReportInv

LEMMA QueryKeepsReportInv ==
  ASSUME ReportInv, phase \in [Submissions -> {"none", "queued", "judging", "judged"}],
         NEW s \in Submissions,
         Poll(s) \/ Arrive(s) \/ FetchFails(s) \/ Forget(s)
  PROVE  ReportInv'
<1>0. /\ UNCHANGED server /\ entry[s] \in Entry
      /\ Faithful(s, entry[s].data) /\ \A view \in entry[s].flight : Faithful(s, view)
  BY DEF Poll, Arrive, FetchFails, Forget, Fetched, ReportInv
<1>1. NoEntry \in Entry /\ Faithful(s, NoView) /\ NoEntry.data = NoView /\ NoEntry.flight = {}
  BY DEF NoEntry, NoView, Entry, Views, InFlight, Faithful, Final
<1>2. CASE Poll(s)
  <2>1. entry' = [entry EXCEPT ![s] = Fetch(s)]
    BY <1>2 DEF Poll, Fetched
  <2>2. /\ Fetch(s) \in Entry /\ Faithful(s, Fetch(s).data)
        /\ \A view \in Fetch(s).flight : Faithful(s, view)
    BY <1>0, FetchIsFaithful, ViewsAreFaithful
  <2> QED BY <1>0, <2>1, <2>2, EntryKeepsReportInv
<1>3. CASE Arrive(s)
  <2>1. PICK view \in entry[s].flight : entry' = [entry EXCEPT ![s] = [NoEntry EXCEPT !.data = view]]
    BY <1>3 DEF Arrive, Fetched
  <2> DEFINE e == [NoEntry EXCEPT !.data = view]
  <2>2. view \in Views
    BY <1>0 DEF Entry, InFlight
  <2>3. e \in Entry /\ e.data = view /\ e.flight = {}
    BY <1>1, <2>2 DEF Entry
  <2> HIDE DEF e
  <2> QED BY <1>0, <2>1, <2>3, EntryKeepsReportInv DEF e
<1>4. CASE FetchFails(s)
  <2> DEFINE a == [entry[s] EXCEPT !.flight = {}]
             b == [a EXCEPT !.error = TRUE]
  <2>1. entry' = [entry EXCEPT ![s] = b]
    BY <1>4 DEF FetchFails, Fetched
  <2>2. a \in Entry /\ a.data = entry[s].data /\ a.flight = {}
    BY <1>0 DEF Entry, InFlight
  <2> HIDE DEF a
  <2>3. b \in Entry /\ b.data = entry[s].data /\ b.flight = {}
    BY <2>2 DEF Entry
  <2> HIDE DEF b
  <2> QED BY <1>0, <2>1, <2>3, EntryKeepsReportInv
<1>5. CASE Forget(s)
  <2>1. entry' = [entry EXCEPT ![s] = NoEntry]
    BY <1>5 DEF Forget, Fetched
  <2> QED BY <1>0, <1>1, <2>1, EntryKeepsReportInv
<1> QED BY <1>2, <1>3, <1>4, <1>5

LEMMA ShowKeepsReportInv ==
  ASSUME ReportInv, phase \in [Submissions -> {"none", "queued", "judging", "judged"}],
         NEW s \in Submissions, ShowSubmission(s), UNCHANGED server
  PROVE  ReportInv'
<1>0. /\ entry[s] \in Entry /\ Faithful(s, entry[s].data)
      /\ \A view \in entry[s].flight : Faithful(s, view)
  BY DEF ReportInv
<1>1. CASE entry' = [entry EXCEPT ![s] = Fetch(s)]
  <2>1. /\ Fetch(s) \in Entry /\ Faithful(s, Fetch(s).data)
        /\ \A view \in Fetch(s).flight : Faithful(s, view)
    BY <1>0, FetchIsFaithful, ViewsAreFaithful
  <2> QED BY <1>1, <2>1, EntryKeepsReportInv
<1>2. CASE entry' = entry
  <2>1. entry' = [entry EXCEPT ![s] = entry[s]]
    BY <1>2 DEF ReportInv
  <2> QED BY <1>0, <2>1, EntryKeepsReportInv
<1> QED BY <1>1, <1>2 DEF ShowSubmission

(* The browser holds of a submission what the judge has written, and of a  *)
(* final one the last run.                                                 *)
THEOREM SpecKeepsReportInv == Spec => []ReportInv
<1>1. Init => ReportInv
  <2> SUFFICES ASSUME Init
               PROVE  ReportInv
    OBVIOUS
  <2>1. phase = [s \in Submissions |-> "none"] /\ reports = {}
        /\ entry = [s \in Submissions |-> NoEntry]
    BY DEF Init, LifecycleInit
  <2>2. NoEntry \in Entry /\ NoEntry.data.phase = "none" /\ NoEntry.data.runs = {}
        /\ NoEntry.flight = {}
    BY DEF NoEntry, NoView, Entry, Views, InFlight
  <2>3. ASSUME NEW s \in Submissions
        PROVE  Numbered(s) /\ Faithful(s, entry[s].data) /\ entry[s].flight = {}
    <3>1. RunsOf(s) = {} /\ phase[s] = "none"
      BY <2>1 DEF RunsOf
    <3>2. IsFiniteSet({}) /\ Cardinality({}) = 0
      BY FS_EmptySet
    <3>3. Numbered(s)
      BY <3>1, <3>2, SubmittingAssumption DEF Numbered
    <3> QED BY <2>1, <2>2, <3>3 DEF Faithful, Final
  <2> QED BY <2>1, <2>2, <2>3 DEF ReportInv
<1>2. ASSUME ReportInv, ListInv, [Next]_vars
      PROVE  ReportInv'
  <2>0. phase \in [Submissions -> {"none", "queued", "judging", "judged"}]
    BY <1>2 DEF ListInv
  <2>1. ASSUME NEW s \in Submissions, JudgeStarts(s) \/ JudgeReports(s)
        PROVE  ReportInv'
    BY <1>2, <2>0, <2>1, JudgeKeepsReportInv DEF JudgeStarts, JudgeReports
  <2>2. ASSUME NEW c \in calls, Store(c)
        PROVE  ReportInv'
    <3>1. entry' = entry /\ \E s \in Submissions : Queue(s)
      BY <2>2 DEF Store
    <3> QED BY <1>2, <2>0, <3>1, JudgeKeepsReportInv
  <2>3. ASSUME NEW s \in Submissions, OpenSubmission(s)
        PROVE  ReportInv'
    BY <1>2, <2>0, <2>3, ShowKeepsReportInv DEF OpenSubmission
  <2>4. ASSUME NEW c \in calls, Succeed(c)
        PROVE  ReportInv'
    <3>1. PICK s \in c.created : ShowSubmission(s)
      BY <2>4 DEF Succeed
    <3>2. s \in Submissions /\ UNCHANGED server
      BY <1>2, <2>4 DEF Succeed, ListInv, Stored
    <3> QED BY <1>2, <2>0, <3>1, <3>2, ShowKeepsReportInv
  <2>5. CASE entry' = entry /\ UNCHANGED server
    <3>1. \A s \in Submissions : Numbered(s)' /\ RunsOf(s)' = RunsOf(s)
      BY <1>2, <2>5, ServerKeepsNumbers
    <3> QED BY <1>2, <2>5, <3>1 DEF ReportInv, Faithful, server
  <2>6. CASE \/ ListArrives \/ ListFails \/ ListAges \/ OpenProblem \/ OpenList \/ Leave
             \/ ToggleSubmit \/ EditSource \/ Submit \/ Tick \/ UNCHANGED vars
             \/ \E s \in Submissions : Resubmit(s)
    BY <2>5, <2>6 DEF ListArrives, ListFails, ListAges, OpenProblem, OpenList, Leave,
       ToggleSubmit, EditSource, Submit, Tick, Edited, MountProblem, Resubmit, vars, server
  <2>7. ASSUME NEW c \in calls, Repeat(c) \/ \E limited \in BOOLEAN : Break(c, limited)
        PROVE  ReportInv'
    BY <2>5, <2>7 DEF Repeat, Break
  <2> QED BY <1>2, <2>0, <2>1, <2>2, <2>3, <2>4, <2>6, <2>7, QueryKeepsReportInv DEF Next
<1> QED BY <1>1, <1>2, SpecKeepsListInv, PTL DEF Spec

(* Where the browser is, and what it may hold.                             *)
THEOREM SpecKeepsBrowserInv == Spec => []BrowserInv
<1>1. Init => BrowserInv
  BY SubmittingAssumption DEF Init, BrowserInv, Page, At
<1>2. ASSUME BrowserInv, ListInv, [Next]_vars
      PROVE  BrowserInv'
  <2>1. faults' \in 0..MaxFaults
    <3>1. faults' = faults \/ (faults < MaxFaults /\ faults' = faults + 1)
      BY <1>2 DEF Next, JudgeStarts, JudgeReports, Poll, Arrive, FetchFails, Forget, Fetched,
         Resubmit, OpenSubmission, ListArrives, ListFails, ListAges, OpenProblem, OpenList,
         Leave, MountProblem, ToggleSubmit, EditSource, Submit, Tick, Edited, Store, Succeed,
         Repeat, Break, vars
    <3> QED BY <1>2, <3>1, SubmittingAssumption DEF BrowserInv
  <2>2. overtaken' \subseteq answered'
    <3>1. \/ UNCHANGED <<overtaken, answered>>
          \/ \E c \in calls : /\ answered' = answered \union c.created
                              /\ overtaken' \in {overtaken, overtaken \union c.created}
      <4>1. CASE \E c \in calls : Succeed(c)
        BY <4>1 DEF Succeed
      <4>2. CASE ~\E c \in calls : Succeed(c)
        BY <1>2, <4>2 DEF Next, JudgeStarts, JudgeReports, Poll, Arrive, FetchFails, Forget,
           Fetched, Resubmit, OpenSubmission, ListArrives, ListFails, ListAges, OpenProblem,
           OpenList, Leave, MountProblem, ToggleSubmit, EditSource, Submit, Tick, Edited, Store,
           Repeat, Break, vars, browser
      <4> QED BY <4>1, <4>2
    <3> QED BY <1>2, <3>1 DEF BrowserInv
  <2>3. page' \in Page
    <3>1. \A s \in Submissions : [at |-> "submission", id |-> s] \in Page
      BY DEF Page
    <3>2. At("problem") \in Page /\ At("list") \in Page /\ At("other") \in Page
      BY DEF At, Page
    <3>3. CASE \E c \in calls : Succeed(c)
      <4>1. PICK c \in calls : Succeed(c)
        BY <3>3
      <4>2. PICK s \in c.created : page' = [at |-> "submission", id |-> s]
        BY <4>1 DEF Succeed, ShowSubmission, Show
      <4>3. s \in Submissions
        BY <1>2, <4>1, <4>2 DEF ListInv, Stored
      <4> QED BY <3>1, <4>2, <4>3
    <3>4. CASE \E s \in Submissions : OpenSubmission(s)
      BY <3>1, <3>4 DEF OpenSubmission, ShowSubmission, Show
    <3>5. CASE \/ OpenProblem \/ OpenList \/ Leave \/ \E s \in Submissions : Resubmit(s)
      BY <3>2, <3>5 DEF OpenProblem, OpenList, Leave, Resubmit, MountProblem, Show
    <3>6. CASE page' = page
      BY <1>2, <3>6 DEF BrowserInv
    <3>7. CASE \/ \E s \in Submissions : \/ JudgeStarts(s) \/ JudgeReports(s)
                                         \/ Poll(s) \/ Arrive(s) \/ FetchFails(s) \/ Forget(s)
               \/ ListArrives \/ ListFails \/ ListAges
               \/ ToggleSubmit \/ EditSource \/ Submit \/ Tick \/ UNCHANGED vars
               \/ \E c \in calls : Store(c) \/ Repeat(c) \/ \E limited \in BOOLEAN : Break(c, limited)
      BY <3>6, <3>7 DEF JudgeStarts, JudgeReports, Poll, Arrive, FetchFails, Forget, Fetched,
         ListArrives, ListFails, ListAges, ToggleSubmit, EditSource, Submit, Tick, Edited,
         Store, Repeat, Break, vars, browser
    <3> QED BY <1>2, <3>3, <3>4, <3>5, <3>7 DEF Next
  <2> QED BY <2>1, <2>2, <2>3 DEF BrowserInv
<1> QED BY <1>1, <1>2, SpecKeepsListInv, PTL DEF Spec

(* The types of the browser follow from the invariants.                    *)
LEMMA BrowserHasType ==
  ASSUME VisitInv, ListInv, ReportInv, BrowserInv
  PROVE  TypeOK
<1>1. ASSUME NEW s \in Submissions
      PROVE  /\ DOMAIN entry[s] = DOMAIN NoEntry
             /\ \A v \in {entry[s].data} \union entry[s].flight :
                   v.phase \in {"none", "queued", "judging", "judged"} /\ v.runs \subseteq Report
             /\ Cardinality(entry[s].flight) <= 1
             /\ entry[s].error \in BOOLEAN
  <2>1. entry[s] \in Entry
    BY DEF ReportInv
  <2>2. entry[s].flight = {} \/ \E v \in Views : entry[s].flight = {v}
    BY <2>1 DEF Entry, InFlight
  <2>3. Cardinality(entry[s].flight) \in {0, 1}
    BY <2>2, FS_EmptySet, FS_Singleton
  <2>4. DOMAIN entry[s] = DOMAIN NoEntry
    BY <2>1 DEF Entry, NoEntry
  <2>5. \A v \in {entry[s].data} \union entry[s].flight : v \in Views
    BY <2>1, <2>2 DEF Entry
  <2> QED BY <2>1, <2>3, <2>4, <2>5 DEF Entry, Views
<1>2. answered \subseteq Submissions
  BY DEF ListInv, Stored
<1> QED BY <1>1, <1>2 DEF TypeOK, VisitInv, ListInv, ReportInv, BrowserInv

(* The banner of a submission is the verdict of its last run, the grid and *)
(* the text below it are of runs there were, and a failed test case in the *)
(* grid of an accepted one is of an earlier run.                           *)
THEOREM BannersFitGrids == Spec => []BannerAgreesWithGrid
<1>1. ASSUME VisitInv, ListInv, ReportInv, BrowserInv
      PROVE  BannerAgreesWithGrid
  <2>1. ASSUME NEW s \in Submissions
        PROVE  /\ Grid(s) \subseteq RunsOf(s)
               /\ Banner(s) = "uncompiled" => ErrorPanel(s)
               /\ Banner(s) = "accepted" =>
                     \A r \in Grid(s) : r.verdict = "rejected" => \E q \in Grid(s) : q.no > r.no
    <3> DEFINE view == entry[s].data
    <3>1. view \in Views /\ Faithful(s, view) /\ Numbered(s) /\ reports \subseteq Report
      BY <1>1 DEF ReportInv, Entry
    <3>2. Grid(s) \subseteq RunsOf(s)
      BY <3>1 DEF Grid, Faithful
    <3>3. ASSUME Banner(s) \in {"accepted", "uncompiled"}
          PROVE  Final(view) /\ Banner(s) = LastRun(view).verdict
      <4>1. view.phase \notin {"accepted", "uncompiled"}
        BY <3>1 DEF Views
      <4> QED BY <3>3, <4>1 DEF Banner
    <3>4. ASSUME Final(view)
          PROVE  LastRun(view) \in view.runs /\ \A q \in view.runs : q.no <= LastRun(view).no
      BY <3>1, <3>4 DEF Faithful, LastRun
    <3>5. Banner(s) = "uncompiled" => ErrorPanel(s)
      BY <3>3, <3>4 DEF ErrorPanel
    <3>6. ASSUME Banner(s) = "accepted", NEW r \in Grid(s), r.verdict = "rejected"
          PROVE  LastRun(view) \in Grid(s) /\ LastRun(view).no > r.no
      <4>1. /\ LastRun(view) \in view.runs /\ LastRun(view).verdict = "accepted"
            /\ r \in view.runs /\ r.no <= LastRun(view).no
        BY <3>3, <3>4, <3>6 DEF Grid
      <4>2. r.no # LastRun(view).no
        BY <3>1, <3>6, <4>1 DEF Numbered, Faithful
      <4>3. r.no \in Int /\ LastRun(view).no \in Int
        BY <3>1, <4>1 DEF Faithful, RunsOf, Report
      <4> QED BY <4>1, <4>2, <4>3 DEF Grid
    <3> QED BY <3>2, <3>5, <3>6
  <2>2. \A s : OnSubmission(s) => s \in Submissions
    BY <1>1 DEF BrowserInv, OnSubmission, Page
  <2> QED BY <1>1, <2>1, BrowserHasType DEF BannerAgreesWithGrid
<1> QED BY <1>1, SpecKeepsVisitInv, SpecKeepsListInv, SpecKeepsReportInv, SpecKeepsBrowserInv, PTL
=============================================================================
