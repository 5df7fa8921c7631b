--------------------------- MODULE BoardsProofs ---------------------------
(***************************************************************************)
(* Proofs about the boards of a contest: the page that shows one and its   *)
(* subscription (Leaderboard), for any number of contests, versions,       *)
(* reconnections and faults, and the cache they are served from            *)
(* (Scoreboard), for any number of participants, problems, requests,       *)
(* judges, verdicts and Redis errors, for both rules and every schedule of *)
(* the contest; and the scores and the ranks a board is made of (Scoring), *)
(* for every list of submissions and every set of scores.                  *)
(***************************************************************************)
EXTENDS LeaderboardProperties, ScoreboardProperties, FiniteSetTheorems, WellFoundedInduction, TLAPS

-----------------------------------------------------------------------------
(* The query                                                               *)

LEMMA FetchReads ==
  ASSUME TypeOK, NEW c \in Contests
  PROVE  /\ Fetch(c) \in [Contests -> Query]
         /\ \A d \in Contests : d # c => Fetch(c)[d] = query[d]
         /\ Fetch(c)[c].data = query[c].data
         /\ \/ Fetch(c) = query /\ query[c].flight # {}
            \/ Fetch(c)[c].flight = {version[c]}
<1>1. CASE query[c].flight # {}
  BY <1>1 DEF Fetch, TypeOK
<1>2. CASE query[c].flight = {}
  <2> DEFINE e == (query[c].error /\ query[c].data # {})
             a == [query[c] EXCEPT !.flight = {version[c]}]
             b == [a EXCEPT !.error = e]
  <2>1. query[c] \in Query /\ {version[c]} \in Slot(Versions) /\ e \in BOOLEAN
    BY DEF TypeOK, Slot, Query
  <2>2. Fetch(c) = [query EXCEPT ![c] = b]
    BY <1>2, <2>1 DEF Fetch, TypeOK, Query
  <2>3. a \in Query /\ a.flight = {version[c]} /\ a.data = query[c].data
    BY <2>1 DEF Query
  <2> HIDE DEF a, e
  <2>4. b \in Query /\ b.flight = {version[c]} /\ b.data = query[c].data
    BY <2>1, <2>3 DEF Query
  <2> HIDE DEF b
  <2> QED BY <2>2, <2>4 DEF TypeOK
<1> QED BY <1>1, <1>2

LEMMA LoadReads ==
  ASSUME TypeOK, NEW c \in Contests, Load(c)
  PROVE  /\ query' \in [Contests -> Query]
         /\ \A d \in Contests : d # c => query'[d] = query[d]
         /\ query'[c].data = query[c].data
         /\ query' = query \/ query'[c].flight = {version[c]}
         /\ query'[c].data = {} => query'[c].flight # {}
<1>1. query' = Fetch(c) \/ (query' = query /\ query[c].data # {})
  BY DEF Load
<1>2. CASE query' = Fetch(c)
  BY <1>2, FetchReads
<1>3. CASE query' = query /\ query[c].data # {}
  BY <1>3 DEF TypeOK
<1> QED BY <1>1, <1>2, <1>3

LEMMA AnswerHasType ==
  ASSUME TypeOK, NEW c \in Contests,
         query' = [query EXCEPT ![c] = [NoQuery EXCEPT !.data = query[c].flight]]
  PROVE  /\ query' \in [Contests -> Query]
         /\ \A d \in Contests : d # c => query'[d] = query[d]
         /\ query'[c].data = query[c].flight
         /\ query'[c].flight = {} /\ ~query'[c].error
<1> DEFINE x == query[c].flight
           a == [NoQuery EXCEPT !.data = x]
<1>0. x \in Slot(Versions) /\ NoQuery \in Query /\ NoQuery.flight = {} /\ ~NoQuery.error
  BY DEF TypeOK, Query, Slot, NoQuery
<1> HIDE DEF x
<1>1. a \in Query /\ a.data = x /\ a.flight = {} /\ ~a.error
  BY <1>0 DEF Query
<1>2. query' = [query EXCEPT ![c] = a]
  BY DEF x
<1> HIDE DEF a
<1> QED BY <1>1, <1>2 DEF x, TypeOK

LEMMA FailureHasType ==
  ASSUME TypeOK, NEW c \in Contests,
         query' = [query EXCEPT ![c].flight = {}, ![c].error = TRUE]
  PROVE  /\ query' \in [Contests -> Query]
         /\ \A d \in Contests : d # c => query'[d] = query[d]
         /\ query'[c].data = query[c].data
         /\ query'[c].flight = {} /\ query'[c].error
<1> DEFINE a == [query[c] EXCEPT !.flight = {}]
           b == [a EXCEPT !.error = TRUE]
<1>0. query[c] \in Query
  BY DEF TypeOK
<1>1. query' = [query EXCEPT ![c] = b]
  BY <1>0 DEF TypeOK, Query
<1>2. a \in Query /\ a.flight = {} /\ a.data = query[c].data
  BY <1>0 DEF Query, Slot
<1> HIDE DEF a
<1>3. b \in Query /\ b.flight = {} /\ b.data = query[c].data /\ b.error
  BY <1>2 DEF Query
<1> HIDE DEF b
<1> QED BY <1>1, <1>3 DEF TypeOK

LEMMA ForgetHasType ==
  ASSUME TypeOK, NEW c \in Contests, query' = [query EXCEPT ![c] = NoQuery]
  PROVE  /\ query' \in [Contests -> Query]
         /\ \A d \in Contests : d # c => query'[d] = query[d]
         /\ query'[c].flight = {}
<1>1. NoQuery \in Query /\ NoQuery.flight = {}
  BY DEF NoQuery, Query, Slot
<1> QED BY <1>1 DEF TypeOK

-----------------------------------------------------------------------------
(* The page                                                                *)

LEMMA RenderHasType ==
  ASSUME TypeOK, NEW c \in Contests, Render(c)
  PROVE  /\ seen' \in BOOLEAN
         /\ handler' \in Slot(Contests) /\ handler' \subseteq {c}
         /\ handler' # {} => socket = "up"
         /\ rooms' \in [Contests -> Slot(Versions)]
         /\ socket # "up" => rooms' = rooms
         /\ \A d \in Contests : d # c => rooms'[d] = rooms[d]
         /\ rooms'[c] \in {rooms[c], {version[c]}}
<1>1. {version[c]} \in Slot(Versions)
  BY DEF TypeOK, Slot
<1> QED BY <1>1 DEF Render, TypeOK, Slot

LEMMA BoardsHaveType ==
  ASSUME NEW c \in Contests, NEW S \in Slot(Versions)
  PROVE  {[of |-> c, v |-> v] : v \in S} \in Slot(Board)
<1>1. CASE S = {}
  BY <1>1 DEF Slot
<1>2. ASSUME NEW w \in Versions, S = {w}
      PROVE  {[of |-> c, v |-> v] : v \in S} \in Slot(Board)
  <2>1. {[of |-> c, v |-> v] : v \in S} = {[of |-> c, v |-> w]}
    BY <1>2
  <2>2. [of |-> c, v |-> w] \in Board
    BY DEF Board
  <2> QED BY <2>1, <2>2 DEF Slot
<1> QED BY <1>1, <1>2 DEF Slot

LEMMA FromQueryHasType ==
  ASSUME TypeOK, NEW c \in Contests, NEW q \in [Contests -> Query], FromQuery(c, q)
  PROVE  shown' \in Slot(Board)
<1>1. q[c].data \in Slot(Versions)
  BY DEF Query
<1> QED BY <1>1, BoardsHaveType DEF FromQuery, TypeOK

LEMMA UpdateHasType ==
  ASSUME TypeOK, NEW b \in Board, Update(b)
  PROVE  /\ shown' = {b} /\ shown' \in Slot(Board)
         /\ flashed' \in BOOLEAN /\ timers' \in Nat /\ (flashed' => timers' > 0)
<1>1. PICK moved \in BOOLEAN :
        flashed' = moved /\ timers' = IF moved THEN timers + 1 ELSE timers
  BY DEF Update
<1>2. timers \in Nat
  BY DEF TypeOK
<1>3. flashed' \in BOOLEAN /\ timers' \in Nat /\ (flashed' => timers' > 0)
  BY <1>1, <1>2
<1> QED BY <1>3 DEF Update, Slot


-----------------------------------------------------------------------------
(* Nothing is left behind                                                  *)

LEMMA TidyInit ==
  ASSUME Init
  PROVE  TidyInv
<1>1. NoQuery \in Query /\ 0 \in Versions
  BY LeaderboardAssumption DEF NoQuery, Query, Slot, Versions
<1>2. {} \in Slot(Contests) /\ {} \in Slot(Board) /\ {} \in Slot(Versions)
  BY DEF Slot
<1>3. 0 \in 0..(MaxReconnects + 1) /\ 0 \in 0..MaxFaults /\ 0 <= MaxReconnects
  BY LeaderboardAssumption
<1>4. /\ version \in [Contests -> Versions] /\ query \in [Contests -> Query]
      /\ rooms \in [Contests -> Slot(Versions)]
  BY <1>1, <1>2 DEF Init
<1>5. wire \in Seq(Board) /\ timers \in Nat /\ socket \in SocketStates
  BY DEF Init, SocketStates
<1>6. TypeOK
  BY <1>2, <1>3, <1>4, <1>5 DEF Init, TypeOK
<1> QED BY <1>3, <1>6 DEF Init, TidyInv, NothingIsLeftBehind, NoRooms

(* Steps of the page that leave the connection alone.                      *)
LEMMA PageKeepsTidyInv ==
  ASSUME TidyInv,
         UNCHANGED <<version, page, socket, attempts>>,
         wire' \in Seq(Board), page = {} => wire' = wire,
         \/ \E c \in page : Render(c)
         \/ NoRender,
         query' \in [Contests -> Query],
         shown' \in Slot(Board),
         flashed' \in BOOLEAN, timers' \in Nat, flashed' => timers' > 0,
         overtaken' \in BOOLEAN, switched' \in BOOLEAN, faults' \in 0..MaxFaults
  PROVE  TidyInv'
<1>0. TypeOK
  BY DEF TidyInv, NothingIsLeftBehind
<1>2. /\ seen' \in BOOLEAN /\ handler' \in Slot(Contests) /\ handler' \subseteq page
      /\ handler' # {} => socket \in {"up", "down", "dead"}
      /\ rooms' \in [Contests -> Slot(Versions)]
      /\ page = {} => rooms' = rooms
  <2>1. CASE NoRender
    BY <1>0, <2>1 DEF NoRender, TidyInv, NothingIsLeftBehind, TypeOK
  <2>2. ASSUME NEW c \in page, Render(c)
        PROVE  /\ seen' \in BOOLEAN /\ handler' \in Slot(Contests) /\ handler' \subseteq page
               /\ handler' # {} => socket = "up"
               /\ rooms' \in [Contests -> Slot(Versions)]
    <3>1. c \in Contests
      BY <1>0 DEF TypeOK, Slot
    <3> QED BY <1>0, <2>2, <3>1, RenderHasType
  <2> QED BY <2>1, <2>2
<1>3. TypeOK'
  BY <1>0, <1>2 DEF TypeOK
<1> QED BY <1>2, <1>3 DEF TidyInv, NothingIsLeftBehind

LEMMA QueryKeepsTidyInv ==
  ASSUME TidyInv, NEW c \in Contests,
         Arrive(c) \/ FetchFails(c) \/ Refetch(c) \/ Forget(c) \/ Type(c)
  PROVE  TidyInv'
<1>0. TypeOK /\ (flashed => timers > 0)
  BY DEF TidyInv, NothingIsLeftBehind
<1>1. CASE Arrive(c)
  <2>1. query' \in [Contests -> Query]
    BY <1>0, <1>1, AnswerHasType DEF Arrive
  <2>2. shown' \in Slot(Board) /\ overtaken' \in BOOLEAN
    <3>1. CASE UNCHANGED shown
      BY <1>0, <1>1, <3>1 DEF Arrive, TypeOK
    <3>2. CASE FromQuery(c, query')
      BY <1>0, <1>1, <2>1, <3>2, FromQueryHasType DEF Arrive, TypeOK
    <3> QED BY <1>1, <3>1, <3>2 DEF Arrive
  <2>3. (\E d \in page : Render(d)) \/ NoRender
    BY <1>1 DEF Arrive
  <2>4. UNCHANGED <<version, page, socket, attempts, wire, flashed, timers, switched, faults>>
    BY <1>1 DEF Arrive
  <2> QED BY <1>0, <2>1, <2>2, <2>3, <2>4, PageKeepsTidyInv DEF TypeOK
<1>2. CASE FetchFails(c)
  <2>1. query' \in [Contests -> Query]
    BY <1>0, <1>2, FailureHasType DEF FetchFails
  <2>2. faults' \in 0..MaxFaults
    <3>1. faults < MaxFaults /\ faults' = faults + 1
      BY <1>2 DEF FetchFails
    <3>2. faults \in 0..MaxFaults /\ MaxFaults \in Nat
      BY <1>0, LeaderboardAssumption DEF TypeOK
    <3> QED BY <3>1, <3>2
  <2>3. (\E d \in page : Render(d)) \/ NoRender
    BY <1>2 DEF FetchFails
  <2>4. UNCHANGED <<version, page, socket, attempts, wire, shown, flashed, timers, overtaken,
                    switched>>
    BY <1>2 DEF FetchFails
  <2> QED BY <1>0, <2>1, <2>2, <2>3, <2>4, PageKeepsTidyInv DEF TypeOK
<1>3. CASE Refetch(c) \/ Forget(c) \/ Type(c)
  <2>1. query' \in [Contests -> Query]
    BY <1>0, <1>3, FetchReads, ForgetHasType DEF Refetch, Forget, Type, TypeOK
  <2>2. (\E d \in page : Render(d)) \/ NoRender
    BY <1>3 DEF Refetch, Forget, Type
  <2>3. UNCHANGED <<version, page, socket, attempts, wire, shown, flashed, timers, overtaken,
                    switched, faults>>
    BY <1>3 DEF Refetch, Forget, Type
  <2> QED BY <1>0, <2>1, <2>2, <2>3, PageKeepsTidyInv DEF TypeOK
<1> QED BY <1>1, <1>2, <1>3

LEMMA UpdatesKeepTidyInv ==
  ASSUME TidyInv, Receive \/ EndFlash
  PROVE  TidyInv'
<1>0. TypeOK /\ (flashed => timers > 0) /\ (page = {} => handler = {} /\ wire = <<>>)
  BY DEF TidyInv, NothingIsLeftBehind
<1>1. CASE Receive
  <2>1. /\ wire # <<>> /\ wire' = Tail(wire)
        /\ UNCHANGED <<version, query, page, socket, attempts, overtaken, switched, faults>>
    BY <1>1 DEF Receive
  <2>2. Head(wire) \in Board /\ wire' \in Seq(Board)
    <3>1. wire \in Seq(Board) /\ wire # <<>>
      BY <1>0, <2>1 DEF TypeOK
    <3> QED BY <2>1, <3>1
  <2>3. /\ shown' \in Slot(Board) /\ flashed' \in BOOLEAN /\ timers' \in Nat
        /\ flashed' => timers' > 0
        /\ (\E c \in page : Render(c)) \/ NoRender
    <3>1. CASE handler = {}
      BY <1>0, <1>1, <3>1 DEF Receive, TypeOK
    <3>2. CASE handler # {}
      BY <1>0, <1>1, <2>2, <3>2, UpdateHasType DEF Receive
    <3> QED BY <3>1, <3>2
  <2> QED BY <1>0, <2>1, <2>2, <2>3, PageKeepsTidyInv DEF TypeOK
<1>2. CASE EndFlash
  <2>1. /\ timers > 0 /\ timers' = timers - 1 /\ flashed' = FALSE
        /\ \E c \in page : Render(c)
        /\ UNCHANGED <<version, query, page, shown, socket, attempts, wire, overtaken,
                       switched, faults>>
    BY <1>2 DEF EndFlash
  <2>2. timers' \in Nat
    BY <1>0, <2>1 DEF TypeOK
  <2> QED BY <1>0, <2>1, <2>2, PageKeepsTidyInv DEF TypeOK
<1> QED BY <1>1, <1>2

LEMMA UserKeepsTidyInv ==
  ASSUME TidyInv, Close \/ \E c \in Contests : Open(c) \/ Switch(c)
  PROVE  TidyInv'
<1>0. TypeOK /\ (flashed => timers > 0)
      /\ (page = {} => handler = {} /\ attempts = 0 /\ wire = <<>> /\ rooms = NoRooms)
  BY DEF TidyInv, NothingIsLeftBehind
<1>1. CASE Close
  <2>1. {} \in Slot(Contests) /\ {} \in Slot(Board) /\ {} \in Slot(Versions)
    BY DEF Slot
  <2>2. NoRooms \in [Contests -> Slot(Versions)]
    BY <2>1 DEF NoRooms
  <2>3. 0 \in 0..(MaxReconnects + 1) /\ 0 <= MaxReconnects
    BY LeaderboardAssumption
  <2>4. /\ page' = {} /\ shown' = {} /\ flashed' = FALSE /\ timers' = 0 /\ socket' = "none"
        /\ attempts' = 0 /\ seen' = FALSE /\ handler' = {} /\ rooms' = NoRooms
        /\ wire' = <<>> /\ overtaken' = FALSE /\ switched' = FALSE
        /\ UNCHANGED <<version, query, faults>>
    BY <1>1 DEF Close
  <2>5. wire' \in Seq(Board) /\ timers' \in Nat /\ socket' \in SocketStates
    BY <2>4 DEF SocketStates
  <2>6. TypeOK'
    BY <1>0, <2>1, <2>2, <2>3, <2>4, <2>5 DEF TypeOK
  <2> QED BY <2>3, <2>4, <2>6 DEF TidyInv, NothingIsLeftBehind, NoRooms
<1>2. ASSUME NEW c \in Contests, Open(c)
      PROVE  TidyInv'
  <2>1. query' \in [Contests -> Query] /\ shown' \in Slot(Board)
    BY <1>0, <1>2, LoadReads, FromQueryHasType DEF Open, TypeOK
  <2>2. page' = {c} /\ page = {} /\ socket' \in {"open", "none"}
        /\ UNCHANGED <<version, flashed, timers, attempts, seen, handler, rooms, wire,
                       overtaken, switched, faults>>
    BY <1>2 DEF Open
  <2>3. TypeOK'
    BY <1>0, <2>1, <2>2 DEF TypeOK, Slot, SocketStates
  <2> QED BY <1>0, <2>2, <2>3, LeaderboardAssumption DEF TidyInv, NothingIsLeftBehind
<1>3. ASSUME NEW c \in Contests, Switch(c)
      PROVE  TidyInv'
  <2>1. query' \in [Contests -> Query] /\ shown' \in Slot(Board)
    BY <1>0, <1>3, LoadReads, FromQueryHasType DEF Switch, TypeOK
  <2>2. /\ seen' \in BOOLEAN /\ handler' \in Slot(Contests) /\ handler' \subseteq {c}
        /\ handler' # {} => socket = "up"
        /\ rooms' \in [Contests -> Slot(Versions)]
    BY <1>0, <1>3, RenderHasType DEF Switch
  <2>3. page' = {c} /\ page # {} /\ switched' = TRUE
        /\ UNCHANGED <<version, flashed, timers, socket, attempts, wire, overtaken, faults>>
    BY <1>3 DEF Switch
  <2>4. TypeOK'
    BY <1>0, <2>1, <2>2, <2>3 DEF TypeOK, Slot
  <2> QED BY <1>0, <2>2, <2>3, <2>4 DEF TidyInv, NothingIsLeftBehind
<1> QED BY <1>1, <1>2, <1>3

LEMMA SocketKeepsTidyInv ==
  ASSUME TidyInv, Connect \/ Drop \/ ConnectError
  PROVE  TidyInv'
<1>0. TypeOK /\ (page = {} => socket = "none")
  BY DEF TidyInv, NothingIsLeftBehind
<1>1. page # {} /\ SocketOnly
  BY <1>0 DEF Connect, Drop, ConnectError
<1>2. CASE Connect
  <2>1. 0 \in 0..(MaxReconnects + 1) /\ 0 <= MaxReconnects
    BY LeaderboardAssumption
  <2>2. socket' = "up" /\ attempts' = 0 /\ UNCHANGED <<rooms, wire, faults>>
    BY <1>2 DEF Connect
  <2>3. TypeOK'
    BY <1>0, <1>1, <2>1, <2>2 DEF SocketOnly, TypeOK, SocketStates
  <2> QED BY <1>1, <2>1, <2>2, <2>3 DEF SocketOnly, TidyInv, NothingIsLeftBehind
<1>3. CASE Drop
  <2>1. faults' \in 0..MaxFaults
    <3>1. faults < MaxFaults /\ faults' = faults + 1
      BY <1>3 DEF Drop
    <3>2. faults \in 0..MaxFaults /\ MaxFaults \in Nat
      BY <1>0, LeaderboardAssumption DEF TypeOK
    <3> QED BY <3>1, <3>2
  <2>2. socket = "up" /\ socket' = "down" /\ rooms' = NoRooms /\ wire' = <<>> /\ attempts' = attempts
    BY <1>3 DEF Drop
  <2>3. NoRooms \in [Contests -> Slot(Versions)]
    BY DEF NoRooms, Slot
  <2>4. TypeOK'
    BY <1>0, <1>1, <2>1, <2>2, <2>3 DEF SocketOnly, TypeOK, SocketStates
  <2> QED BY <1>1, <2>2, <2>4 DEF SocketOnly, TidyInv, NothingIsLeftBehind
<1>4. CASE ConnectError
  <2>1. faults' \in 0..MaxFaults
    <3>1. faults < MaxFaults /\ faults' = faults + 1
      BY <1>4 DEF ConnectError
    <3>2. faults \in 0..MaxFaults /\ MaxFaults \in Nat
      BY <1>0, LeaderboardAssumption DEF TypeOK
    <3> QED BY <3>1, <3>2
  <2>2. /\ socket \in {"open", "down"} /\ attempts' = attempts + 1
        /\ socket' = IF attempts' > MaxReconnects \/ (socket = "down" /\ attempts' = MaxReconnects)
                     THEN "dead" ELSE socket
        /\ UNCHANGED <<rooms, wire>>
    BY <1>4 DEF ConnectError
  <2>3. attempts \in Nat /\ attempts <= MaxReconnects /\ MaxReconnects \in Nat
    BY <1>0, <2>2, LeaderboardAssumption DEF TidyInv, TypeOK
  <2>4. attempts' \in 0..(MaxReconnects + 1)
        /\ (socket' # "dead" => attempts' <= MaxReconnects)
    BY <2>2, <2>3
  <2>5. socket' \in {"dead", socket}
    BY <2>2
  <2>6. TypeOK'
    BY <1>0, <1>1, <2>1, <2>2, <2>4, <2>5 DEF SocketOnly, TypeOK, SocketStates
  <2> QED BY <1>1, <2>2, <2>4, <2>5, <2>6 DEF SocketOnly, TidyInv, NothingIsLeftBehind
<1> QED BY <1>2, <1>3, <1>4

LEMMA PublishKeepsTidyInv ==
  ASSUME TidyInv, NEW c \in Contests, Publish(c)
  PROVE  TidyInv'
<1>0. TypeOK
  BY DEF TidyInv, NothingIsLeftBehind
<1>1. version[c] + 1 \in Versions
  BY <1>0, LeaderboardAssumption DEF Publish, TypeOK, Versions
<1>2. version' \in [Contests -> Versions] /\ version'[c] = version[c] + 1
  BY <1>0, <1>1 DEF Publish, TypeOK
<1>3. wire' \in Seq(Board) /\ (rooms[c] = {} => wire' = wire)
  <2> DEFINE b == [of |-> c, v |-> version'[c]]
  <2>1. b \in Board
    BY <1>1, <1>2 DEF Board
  <2>2. wire' = IF rooms[c] = {} THEN wire ELSE Append(wire, b)
    BY DEF Publish
  <2> HIDE DEF b
  <2> QED BY <1>0, <2>1, <2>2 DEF TypeOK
<1>4. UNCHANGED <<query, page, shown, flashed, timers, socket, attempts, seen, handler, rooms,
                  overtaken, switched, faults>>
  BY DEF Publish, NoRender
<1>5. TypeOK'
  BY <1>0, <1>2, <1>3, <1>4 DEF TypeOK
<1> QED BY <1>3, <1>4, <1>5 DEF TidyInv, NothingIsLeftBehind, NoRooms

(* Handlers, rooms and updates under way are gone with the page, however   *)
(* the connection fails and comes back before; the attempts that a page    *)
(* has used up never count for the next one.                               *)
THEOREM SpecKeepsTidyInv == Spec => []TidyInv
<1>1. Init => TidyInv
  BY TidyInit
<1>2. ASSUME TidyInv, [Next]_vars
      PROVE  TidyInv'
  <2>1. CASE UNCHANGED vars
    BY <1>2, <2>1 DEF vars, TidyInv, NothingIsLeftBehind, TypeOK
  <2> QED BY <1>2, <2>1, QueryKeepsTidyInv, UpdatesKeepTidyInv, UserKeepsTidyInv,
             SocketKeepsTidyInv, PublishKeepsTidyInv DEF Next
<1> QED BY <1>1, <1>2, PTL DEF Spec

(* The subscription never outlives its page.                               *)
THEOREM PagesLeaveNothing == Spec => []NothingIsLeftBehind
<1>1. TidyInv => NothingIsLeftBehind
  BY DEF TidyInv
<1> QED BY <1>1, SpecKeepsTidyInv, PTL


-----------------------------------------------------------------------------
(* Rankings are of the contest                                             *)

Boards(c, S) == {[of |-> c, v |-> v] : v \in S}

LEMMA BoardsOf ==
  ASSUME NEW c, NEW S
  PROVE  /\ \A b \in Boards(c, S) : b.of = c /\ b.v \in S
         /\ S # {} => Boards(c, S) # {}
<1>1. ASSUME NEW w \in S
      PROVE  Boards(c, S) # {}
  <2>1. [of |-> c, v |-> w] \in Boards(c, S)
    BY DEF Boards
  <2> QED BY <2>1
<1>2. ASSUME NEW b \in Boards(c, S)
      PROVE  b.of = c /\ b.v \in S
  <2>1. PICK w \in S : b = [of |-> c, v |-> w]
    BY <1>2 DEF Boards
  <2> QED BY <2>1
<1> QED BY <1>1, <1>2

(* The parts of PageInv.                                                   *)
OwnBoards ==
    ~switched => /\ \A b \in shown : b.of \in page
                 /\ \A c \in Contests : rooms[c] # {} => c \in page
                 /\ \A i \in DOMAIN wire : wire[i].of \in page
Asked ==
    \A c \in page : /\ shown = {} => query[c].data = {}
                    /\ query[c].data = {} /\ query[c].flight = {} => query[c].error

LEMMA PageInvParts == PageInv <=> (page = {} => ~switched) /\ OwnBoards /\ Asked
BY DEF PageInv, OwnBoards, Asked

LEMMA QueryKeepsPageInv ==
  ASSUME TypeOK, PageInv, NEW c \in Contests,
         Arrive(c) \/ FetchFails(c) \/ Refetch(c) \/ Forget(c) \/ Type(c)
  PROVE  PageInv'
<1>0. OwnBoards /\ Asked /\ (page = {} => ~switched) /\ page \in Slot(Contests)
      /\ \A d \in page : page = {d} /\ d \in Contests
  BY PageInvParts DEF TypeOK, Slot
<1>1. page' = page /\ switched' = switched /\ wire' = wire
  BY DEF Arrive, FetchFails, Refetch, Forget, Type
<1>2. \A d \in Contests : rooms'[d] # {} => rooms[d] # {} \/ d \in page
  <2>1. CASE NoRender
    BY <2>1 DEF NoRender
  <2>2. CASE page = {c} /\ Render(c)
    BY <2>2, RenderHasType
  <2> QED BY <2>1, <2>2 DEF Arrive, FetchFails, Refetch, Forget, Type
<1>3. ASSUME \A b \in shown' : b.of \in page \/ b \in shown
      PROVE  OwnBoards'
  BY <1>0, <1>1, <1>2, <1>3 DEF OwnBoards
<1>4. CASE Arrive(c)
  <2>1. /\ \A d \in Contests : d # c => query'[d] = query[d]
        /\ query'[c].data = query[c].flight /\ query[c].flight # {}
    BY <1>4, AnswerHasType DEF Arrive
  <2>2. CASE page # {c} \/ query[c].flight = query[c].data
    <3>1. shown' = shown
      BY <1>4, <2>2 DEF Arrive
    <3>2. OwnBoards'
      BY <1>3, <3>1
    <3>3. Asked'
      BY <1>0, <1>1, <2>1, <2>2, <3>1 DEF Asked
    <3> QED BY <1>0, <1>1, <3>2, <3>3 DEF PageInv, OwnBoards, Asked
  <2>3. CASE page = {c} /\ query[c].flight # query[c].data
    <3>1. shown' = Boards(c, query[c].flight)
      BY <1>4, <2>1, <2>3 DEF Arrive, FromQuery, Boards
    <3>2. shown' # {} /\ \A b \in shown' : b.of \in page
      BY <2>1, <2>3, <3>1, BoardsOf
    <3>3. OwnBoards'
      BY <1>3, <3>2
    <3>4. Asked'
      BY <1>1, <2>1, <2>3, <3>2 DEF Asked
    <3> QED BY <1>0, <1>1, <3>3, <3>4 DEF PageInv, OwnBoards, Asked
  <2> QED BY <2>2, <2>3
<1>5. CASE FetchFails(c) \/ Refetch(c) \/ Forget(c) \/ Type(c)
  <2>1. shown' = shown
    BY <1>5 DEF FetchFails, Refetch, Forget, Type
  <2>2. OwnBoards'
    BY <1>3, <2>1
  <2>3. Asked'
    <3>1. CASE FetchFails(c)
      <4>1. /\ \A d \in Contests : d # c => query'[d] = query[d]
            /\ query'[c].data = query[c].data /\ query'[c].error
        BY <3>1, FailureHasType DEF FetchFails
      <4> QED BY <1>0, <1>1, <2>1, <4>1 DEF Asked
    <3>2. CASE Refetch(c)
      <4>1. /\ \A d \in Contests : d # c => query'[d] = query[d]
            /\ query'[c].data = query[c].data /\ query'[c].flight = {version[c]}
        BY <3>2, FetchReads DEF Refetch
      <4> QED BY <1>0, <1>1, <2>1, <4>1 DEF Asked
    <3>3. CASE Forget(c)
      <4>1. page # {c} /\ \A d \in Contests : d # c => query'[d] = query[d]
        BY <3>3, ForgetHasType DEF Forget
      <4> QED BY <1>0, <1>1, <2>1, <4>1 DEF Asked
    <3>4. CASE Type(c)
      BY <1>0, <1>1, <2>1, <3>4 DEF Type, Asked
    <3> QED BY <1>5, <3>1, <3>2, <3>3, <3>4
  <2> QED BY <1>0, <1>1, <2>2, <2>3 DEF PageInv, OwnBoards, Asked
<1> QED BY <1>4, <1>5

LEMMA UserKeepsPageInv ==
  ASSUME TypeOK, PageInv, NothingIsLeftBehind,
         Close \/ \E c \in Contests : Open(c) \/ Switch(c)
  PROVE  PageInv'
<1>1. CASE Close
  BY <1>1 DEF Close, PageInv, NoRooms
<1>2. ASSUME NEW c \in Contests, Open(c)
      PROVE  PageInv'
  <2>1. /\ page = {} /\ page' = {c} /\ Load(c) /\ FromQuery(c, query)
        /\ UNCHANGED <<rooms, wire, switched>>
    BY <1>2 DEF Open
  <2>2. shown = {} /\ rooms = NoRooms /\ wire = <<>> /\ ~switched
    BY <2>1 DEF PageInv, NothingIsLeftBehind
  <2>3. /\ query'[c].data = query[c].data
        /\ query'[c].data = {} => query'[c].flight # {}
    BY <2>1, LoadReads
  <2>4. /\ \A b \in shown' : b.of = c
        /\ shown' = {} => query[c].data = {}
    <3>1. CASE query[c].data = {}
      BY <2>1, <2>2, <3>1 DEF FromQuery
    <3>2. CASE query[c].data # {}
      <4>1. shown' = Boards(c, query[c].data)
        BY <2>1, <3>2 DEF FromQuery, Boards
      <4> QED BY <3>2, <4>1, BoardsOf
    <3> QED BY <3>1, <3>2
  <2> QED BY <2>1, <2>2, <2>3, <2>4 DEF PageInv, NoRooms
<1>3. ASSUME NEW c \in Contests, Switch(c)
      PROVE  PageInv'
  <2>1. page' = {c} /\ Load(c) /\ FromQuery(c, query) /\ switched' = TRUE
    BY <1>3 DEF Switch
  <2>2. /\ query'[c].data = query[c].data
        /\ query'[c].data = {} => query'[c].flight # {}
    BY <2>1, LoadReads
  <2>3. shown' = {} => query[c].data = {}
    BY <2>1 DEF FromQuery
  <2> QED BY <2>1, <2>2, <2>3 DEF PageInv
<1> QED BY <1>1, <1>2, <1>3

LEMMA OthersKeepPageInv ==
  ASSUME TypeOK, PageInv, NothingIsLeftBehind,
         \/ \E c \in Contests : Publish(c)
         \/ Connect \/ Drop \/ ConnectError \/ Receive \/ EndFlash \/ UNCHANGED vars
  PROVE  PageInv'
<1>0. /\ \A d \in page : page = {d} /\ d \in Contests
      /\ wire \in Seq(Board)
  BY DEF TypeOK, Slot
<1>1. page' = page /\ switched' = switched /\ query' = query
  BY DEF Publish, Connect, Drop, ConnectError, SocketOnly, Receive, EndFlash, vars
<1>2. CASE Connect \/ Drop \/ ConnectError \/ UNCHANGED vars
  <2>1. shown' = shown /\ rooms' \in {rooms, NoRooms} /\ wire' \in {wire, <<>>}
    BY <1>2 DEF Connect, Drop, ConnectError, SocketOnly, vars
  <2> QED BY <1>1, <2>1 DEF PageInv, NoRooms
<1>3. ASSUME NEW c \in Contests, Publish(c)
      PROVE  PageInv'
  <2> DEFINE b == [of |-> c, v |-> version'[c]]
  <2>1. /\ shown' = shown /\ rooms' = rooms
        /\ wire' = IF rooms[c] = {} THEN wire ELSE Append(wire, b)
    BY <1>3 DEF Publish, NoRender
  <2>2. b.of = c
    OBVIOUS
  <2> HIDE DEF b
  <2>3. \A i \in DOMAIN wire' :
           (wire'[i] = b /\ rooms[c] # {}) \/ (i \in DOMAIN wire /\ wire'[i] = wire[i])
    <3>1. CASE rooms[c] = {}
      BY <2>1, <3>1
    <3>2. CASE rooms[c] # {}
      <4>1. wire' = Append(wire, b)
        BY <2>1, <3>2
      <4>2. \A i \in 1..Len(wire) : wire'[i] = wire[i]
        BY <1>0, <4>1
      <4>3. Len(wire') = Len(wire) + 1 /\ wire'[Len(wire) + 1] = b
        BY <1>0, <4>1
      <4>4. Len(wire) \in Nat /\ DOMAIN wire = 1..Len(wire) /\ DOMAIN wire' = 1..(Len(wire) + 1)
        BY <1>0, <4>1
      <4>5. ASSUME NEW i \in DOMAIN wire'
            PROVE  wire'[i] = b \/ (i \in DOMAIN wire /\ wire'[i] = wire[i])
        <5>1. i \in 1..Len(wire) \/ i = Len(wire) + 1
          BY <4>4
        <5> QED BY <4>2, <4>3, <4>4, <5>1
      <4> QED BY <3>2, <4>5
    <3> QED BY <3>1, <3>2
  <2>4. ~switched => \A i \in DOMAIN wire' : wire'[i].of \in page
    BY <2>2, <2>3 DEF PageInv
  <2> QED BY <1>1, <2>1, <2>4 DEF PageInv
<1>4. CASE Receive
  <2>1. wire # <<>> /\ wire' = Tail(wire)
    BY <1>4 DEF Receive
  <2>2. /\ Head(wire) = wire[1] /\ 1 \in DOMAIN wire
        /\ \A i \in DOMAIN wire' : i + 1 \in DOMAIN wire /\ wire'[i] = wire[i + 1]
    BY <1>0, <2>1
  <2>3. ~switched => \A i \in DOMAIN wire' : wire'[i].of \in page
    BY <2>2 DEF PageInv
  <2>4. \A d \in Contests : rooms'[d] # {} => rooms[d] # {} \/ d \in page
    BY <1>0, <1>4, RenderHasType DEF Receive, NoRender
  <2>5. shown' = shown \/ shown' = {wire[1]}
    BY <1>4, <2>2 DEF Receive, Update
  <2>6. /\ ~switched => \A b \in shown' : b.of \in page
        /\ shown' = {} => shown = {}
    BY <2>2, <2>5 DEF PageInv
  <2> QED BY <1>1, <2>3, <2>4, <2>6 DEF PageInv
<1>5. CASE EndFlash
  <2>1. shown' = shown /\ wire' = wire
    BY <1>5 DEF EndFlash
  <2>2. \A d \in Contests : rooms'[d] # {} => rooms[d] # {} \/ d \in page
    BY <1>0, <1>5, RenderHasType DEF EndFlash
  <2> QED BY <1>1, <2>1, <2>2 DEF PageInv
<1> QED BY <1>2, <1>3, <1>4, <1>5

(* What is on screen, on the wire and in the rooms is of the contest whose *)
(* page it is, until the page goes from one contest to the next.           *)
THEOREM SpecKeepsPageInv == Spec => []PageInv
<1>1. Init => PageInv
  BY DEF Init, PageInv
<1>2. ASSUME TidyInv, PageInv, [Next]_vars
      PROVE  PageInv'
  <2>1. TypeOK /\ NothingIsLeftBehind
    BY <1>2 DEF TidyInv, NothingIsLeftBehind
  <2> QED BY <1>2, <2>1, QueryKeepsPageInv, UserKeepsPageInv, OthersKeepPageInv DEF Next
<1> QED BY <1>1, <1>2, SpecKeepsTidyInv, PTL DEF Spec

(* Rankings appear under the title of their contest, and an empty board is *)
(* announced only for a contest without one or after a failed fetch.       *)
THEOREM TitlesFitRankings == Spec => []RankingsAreOfTheContest
<1>1. TypeOK /\ PageInv => RankingsAreOfTheContest
  <2> SUFFICES ASSUME TypeOK, PageInv, NEW c \in page
               PROVE  /\ \A b \in Rankings(c) : b.of = c \/ switched
                      /\ SaysEmpty(c) => query[c].error
    BY DEF RankingsAreOfTheContest
  <2>1. page = {c}
    BY DEF TypeOK, Slot
  <2>2. \A b \in Rankings(c) : b.of = c \/ switched
    BY <2>1 DEF Rankings, PageInv
  <2>3. SaysEmpty(c) => query[c].error
    BY DEF SaysEmpty, Loading, PageInv
  <2> QED BY <2>2, <2>3
<1>2. TidyInv => TypeOK
  BY DEF TidyInv, NothingIsLeftBehind
<1> QED BY <1>1, <1>2, SpecKeepsTidyInv, SpecKeepsPageInv, PTL

-----------------------------------------------------------------------------
(* Updates are not missed                                                  *)

(* The parts of RoomInv.                                                   *)
Connected == socket # "up" => rooms = NoRooms /\ wire = <<>>
NothingFromAhead == \A c \in Contests : \A v \in query[c].flight : v <= version[c]

LEMMA RoomInvParts ==
  RoomInv <=> Connected /\ NothingFromAhead /\ (~switched => \A c \in page : Follows(c))
BY DEF RoomInv, Connected, NothingFromAhead

LEMMA AnswersComeFromBehind ==
  ASSUME TypeOK, NothingFromAhead, [Next]_vars
  PROVE  NothingFromAhead'
<1>0. /\ \A c \in Contests : version[c] \in Int /\ version[c] <= version[c]
      /\ \A c \in Contests : query[c].flight \subseteq Int
  BY DEF TypeOK, Versions, Query, Slot
<1>1. ASSUME NEW c \in Contests, Publish(c)
      PROVE  NothingFromAhead'
  <2>1. /\ query' = query
        /\ \A d \in Contests : version'[d] = version[d] \/ version'[d] = version[d] + 1
    BY <1>0, <1>1 DEF Publish, TypeOK
  <2> QED BY <1>0, <2>1 DEF NothingFromAhead
<1>2. ASSUME version' = version,
             \A c \in Contests : query'[c].flight \in {query[c].flight, {}, {version[c]}}
      PROVE  NothingFromAhead'
  BY <1>0, <1>2 DEF NothingFromAhead
<1>3. ASSUME NEW c \in Contests,
             Arrive(c) \/ FetchFails(c) \/ Refetch(c) \/ Forget(c) \/ Open(c) \/ Switch(c)
      PROVE  NothingFromAhead'
  <2>1. version' = version
    BY <1>3 DEF Arrive, FetchFails, Refetch, Forget, Open, Switch
  <2>2. \A d \in Contests : d # c => query'[d] = query[d]
    BY <1>3, FetchReads, LoadReads, AnswerHasType, FailureHasType, ForgetHasType
       DEF Arrive, FetchFails, Refetch, Forget, Open, Switch
  <2>3. query'[c].flight \in {query[c].flight, {}, {version[c]}}
    <3>1. CASE Arrive(c)
      BY <3>1, AnswerHasType DEF Arrive
    <3>2. CASE FetchFails(c)
      BY <3>2, FailureHasType DEF FetchFails
    <3>3. CASE Refetch(c)
      BY <3>3, FetchReads DEF Refetch
    <3>4. CASE Forget(c)
      BY <3>4, ForgetHasType DEF Forget
    <3>5. CASE Open(c) \/ Switch(c)
      BY <3>5, LoadReads DEF Open, Switch
    <3> QED BY <1>3, <3>1, <3>2, <3>3, <3>4, <3>5
  <2> QED BY <1>2, <2>1, <2>2, <2>3
<1>4. ASSUME query' = query, version' = version
      PROVE  NothingFromAhead'
  BY <1>2, <1>4
<1>5. CASE \/ Close \/ Connect \/ Drop \/ ConnectError \/ Receive \/ EndFlash
           \/ (\E c \in Contests : Type(c)) \/ UNCHANGED vars
  BY <1>4, <1>5 DEF Close, Connect, Drop, ConnectError, SocketOnly, Receive, EndFlash,
                    Type, vars
<1> QED BY <1>1, <1>3, <1>5 DEF Next

(* A page that is rendered joins the room of its contest when it subscribes *)
(* and it is not in it.                                                    *)
LEMMA RenderJoins ==
  ASSUME TypeOK, NEW c \in Contests, page = {c}, handler \subseteq page,
         Connected, Follows(c), Render(c)
  PROVE  /\ rooms'[c] = rooms[c] \/ (rooms[c] = {} /\ rooms'[c] = {version[c]})
         /\ rooms'[c] # {} => handler' = {c}
         /\ c \in handler' /\ rooms'[c] = {} => faults > 0
         /\ socket # "up" => rooms' = rooms
<1>1. rooms \in [Contests -> Slot(Versions)]
  BY DEF TypeOK
<1>2. CASE socket = "up"
  <2>1. handler' = {c}
    BY <1>2 DEF Render
  <2>2. CASE (~seen \/ handler # {c}) /\ rooms[c] = {}
    <3>1. rooms'[c] = {version[c]}
      BY <1>1, <1>2, <2>2 DEF Render
    <3> QED BY <1>2, <2>1, <2>2, <3>1
  <2>3. CASE ~((~seen \/ handler # {c}) /\ rooms[c] = {})
    <3>1. rooms' = rooms
      BY <1>2, <2>3 DEF Render
    <3> QED BY <1>2, <2>1, <2>3, <3>1 DEF Follows
  <2> QED BY <2>2, <2>3
<1>3. CASE socket # "up"
  BY <1>3 DEF Render, Connected, NoRooms
<1> QED BY <1>2, <1>3

LEMMA QueryKeepsFollowing ==
  ASSUME TypeOK, NothingIsLeftBehind, RoomInv, NEW c \in Contests,
         Arrive(c) \/ FetchFails(c) \/ Refetch(c) \/ Forget(c) \/ Type(c)
  PROVE  Connected' /\ (~switched' => \A d \in page' : Follows(d)')
<1>0. /\ Connected /\ NothingFromAhead
      /\ handler \subseteq page
      /\ \A d \in page : page = {d} /\ d \in Contests
  BY RoomInvParts DEF TypeOK, Slot, NothingIsLeftBehind
<1>1. /\ page' = page /\ switched' = switched /\ wire' = wire /\ version' = version
      /\ socket' = socket /\ faults' >= faults /\ (~overtaken' => ~overtaken)
      /\ (Render(c) /\ page = {c}) \/ NoRender
  BY DEF Arrive, FetchFails, Refetch, Forget, Type, TypeOK
<1>2. Connected'
  <2>1. CASE NoRender
    BY <1>0, <1>1, <2>1 DEF NoRender, Connected, NoRooms
  <2>2. CASE Render(c)
    BY <1>0, <1>1, <2>2, RenderHasType DEF Connected, NoRooms
  <2> QED BY <1>1, <2>1, <2>2
<1>3. ASSUME ~switched, NEW d \in page
      PROVE  Follows(d)'
  <2>0. page = {d} /\ d \in Contests /\ Follows(d)
    BY <1>0, <1>3 DEF RoomInv
  <2>1. /\ rooms'[d] = rooms[d] \/ (rooms[d] = {} /\ rooms'[d] = {version[d]})
        /\ rooms'[d] # {} => handler' = {d}
        /\ d \in handler' /\ rooms'[d] = {} => faults > 0
    <3>1. CASE NoRender
      BY <2>0, <3>1 DEF NoRender, Follows
    <3>2. CASE Render(c) /\ page = {c}
      BY <1>0, <2>0, <3>2, RenderJoins
    <3> QED BY <1>1, <3>1, <3>2
  <2>2. faults > 0 => faults' > 0
    BY <1>1 DEF Arrive, FetchFails, Refetch, Forget, Type, TypeOK
  <2>3. ASSUME rooms[d] # {}, ~overtaken', shown = {[of |-> d, v |-> version[d]]}
        PROVE  shown' = shown
    <3>1. CASE ~Arrive(c) \/ page # {c} \/ query[c].flight = query[c].data
      BY <3>1 DEF Arrive, FetchFails, Refetch, Forget, Type
    <3>2. CASE Arrive(c) /\ page = {c} /\ query[c].flight # query[c].data
      <4>1. c = d
        BY <2>0, <3>2
      <4>2. query'[c].data = query[c].flight /\ query[c].flight # {}
        BY <3>2, AnswerHasType DEF Arrive
      <4>3. PICK w \in Versions : query[c].flight = {w}
        BY <4>2 DEF TypeOK, Query, Slot
      <4>4. shown' = Boards(c, {w})
        BY <3>2, <4>2, <4>3 DEF Arrive, FromQuery, Boards
      <4>5. shown' = {[of |-> c, v |-> w]}
        BY <4>4 DEF Boards
      <4>6. w <= version[c] /\ w \in Int /\ version[c] \in Int
        BY <1>0, <4>3 DEF NothingFromAhead, TypeOK, Versions
      <4>7. ~(w < version[c])
        <5>1. \A b \in shown, e \in shown' : ~(b.of = e.of /\ e.v < b.v)
          BY <2>3, <3>2 DEF Arrive
        <5>2. /\ [of |-> d, v |-> version[d]] \in shown
              /\ [of |-> c, v |-> w] \in shown'
          BY <2>3, <4>5
        <5> QED BY <4>1, <5>1, <5>2
      <4> QED BY <2>3, <4>1, <4>5, <4>6, <4>7
    <3> QED BY <3>1, <3>2
  <2>4. ASSUME rooms'[d] # {}, ~overtaken'
        PROVE  UpToDate(d)'
    <3>1. CASE rooms[d] = {}
      BY <1>1, <2>1, <2>4, <3>1 DEF UpToDate
    <3>2. CASE rooms[d] # {}
      <4>1. UpToDate(d)
        BY <1>1, <2>0, <2>4, <3>2 DEF Follows
      <4> QED BY <1>1, <2>1, <2>3, <2>4, <3>2, <4>1 DEF UpToDate
    <3> QED BY <3>1, <3>2
  <2> QED BY <1>1, <2>0, <2>1, <2>2, <2>4 DEF Follows
<1> QED BY <1>1, <1>2, <1>3

LEMMA UserKeepsFollowing ==
  ASSUME TypeOK, NothingIsLeftBehind, RoomInv,
         Close \/ \E c \in Contests : Open(c) \/ Switch(c)
  PROVE  Connected' /\ (~switched' => \A d \in page' : Follows(d)')
<1>0. Connected
  BY RoomInvParts
<1>1. CASE Close
  BY <1>1 DEF Close, Connected, NoRooms
<1>2. ASSUME NEW c \in Contests, Open(c)
      PROVE  Connected' /\ \A d \in page' : Follows(d)'
  <2>1. /\ rooms = NoRooms /\ wire = <<>> /\ handler = {}
        /\ UNCHANGED <<rooms, wire, handler>> /\ page' = {c}
    BY <1>2 DEF Open, NothingIsLeftBehind
  <2> QED BY <2>1 DEF Connected, Follows, NoRooms
<1>3. ASSUME NEW c \in Contests, Switch(c)
      PROVE  Connected' /\ switched'
  <2>1. switched' /\ socket' = socket /\ wire' = wire /\ Render(c)
    BY <1>3 DEF Switch
  <2> QED BY <1>0, <2>1, RenderHasType DEF Connected, NoRooms
<1> QED BY <1>1, <1>2, <1>3

LEMMA SocketKeepsFollowing ==
  ASSUME TypeOK, NothingIsLeftBehind, RoomInv,
         Connect \/ Drop \/ ConnectError \/ UNCHANGED vars
  PROVE  Connected' /\ (~switched' => \A d \in page' : Follows(d)')
<1>0. Connected /\ \A d \in page : d \in Contests
  BY RoomInvParts DEF TypeOK, Slot
<1>1. /\ page' = page /\ switched' = switched /\ shown' = shown /\ version' = version
      /\ handler' = handler /\ overtaken' = overtaken
  BY DEF Connect, Drop, ConnectError, SocketOnly, vars
<1>2. CASE Drop
  <2>1. rooms' = NoRooms /\ wire' = <<>> /\ faults' > 0
    BY <1>2 DEF Drop, TypeOK
  <2> QED BY <1>0, <1>1, <2>1 DEF Connected, Follows, NoRooms
<1>3. CASE Connect \/ ConnectError \/ UNCHANGED vars
  <2>1. rooms' = rooms /\ wire' = wire /\ (faults > 0 => faults' > 0)
    BY <1>3 DEF Connect, ConnectError, vars, TypeOK
  <2>2. Connected'
    BY <1>0, <1>3, <2>1 DEF Connect, ConnectError, vars, Connected, NoRooms
  <2>3. ASSUME ~switched, NEW d \in page
        PROVE  Follows(d)'
    <3>1. Follows(d)
      BY <2>3 DEF RoomInv
    <3> QED BY <1>1, <2>1, <3>1 DEF Follows, UpToDate
  <2> QED BY <1>1, <2>2, <2>3
<1> QED BY <1>2, <1>3

LEMMA PublishKeepsFollowing ==
  ASSUME TypeOK, NothingIsLeftBehind, PageInv, RoomInv, NEW c \in Contests, Publish(c)
  PROVE  Connected' /\ (~switched' => \A d \in page' : Follows(d)')
<1> DEFINE b == [of |-> c, v |-> version'[c]]
<1>0. /\ Connected /\ wire \in Seq(Board) /\ rooms \in [Contests -> Slot(Versions)]
      /\ \A d \in page : page = {d} /\ d \in Contests
  BY RoomInvParts DEF TypeOK, Slot
<1>1. /\ page' = page /\ switched' = switched /\ shown' = shown /\ handler' = handler
      /\ rooms' = rooms /\ overtaken' = overtaken /\ socket' = socket /\ faults' = faults
      /\ wire' = IF rooms[c] = {} THEN wire ELSE Append(wire, b)
      /\ \A d \in Contests : d # c => version'[d] = version[d]
  BY DEF Publish, NoRender, TypeOK
<1>2. b.of = c /\ b = [of |-> c, v |-> version'[c]]
  OBVIOUS
<1> HIDE DEF b
<1>3. Connected'
  BY <1>0, <1>1 DEF Connected, NoRooms
<1>4. ASSUME ~switched, NEW d \in page
      PROVE  Follows(d)'
  <2>0. d \in Contests /\ Follows(d)
    BY <1>0, <1>4 DEF RoomInv
  <2>1. CASE rooms[c] = {}
    <3>1. wire' = wire
      BY <1>1, <2>1
    <3>2. CASE d = c
      BY <1>1, <2>0, <2>1, <3>1, <3>2 DEF Follows
    <3>3. CASE d # c
      <4>1. version'[d] = version[d]
        BY <1>1, <2>0, <3>3
      <4> QED BY <1>1, <2>0, <3>1, <4>1 DEF Follows, UpToDate
    <3> QED BY <3>2, <3>3
  <2>2. CASE rooms[c] # {}
    <3>1. c = d
      BY <1>0, <1>4, <2>2 DEF PageInv
    <3>2. /\ wire' = Append(wire, b)
      BY <1>1, <2>2
    <3>3. wire' # <<>> /\ wire'[Len(wire')] = b
      BY <1>0, <1>1, <3>2 DEF b, Publish, TypeOK, Board
    <3> QED BY <1>1, <1>2, <2>0, <2>2, <3>1, <3>3 DEF Follows, UpToDate
  <2> QED BY <2>1, <2>2
<1> QED BY <1>1, <1>3, <1>4

LEMMA UpdatesKeepFollowing ==
  ASSUME TypeOK, NothingIsLeftBehind, PageInv, RoomInv, Receive \/ EndFlash
  PROVE  Connected' /\ (~switched' => \A d \in page' : Follows(d)')
<1>0. /\ Connected /\ wire \in Seq(Board)
      /\ handler \subseteq page
      /\ \A d \in page : page = {d} /\ d \in Contests
  BY RoomInvParts DEF TypeOK, Slot, NothingIsLeftBehind
<1>1. /\ page' = page /\ switched' = switched /\ version' = version
      /\ overtaken' = overtaken /\ socket' = socket /\ faults' = faults
      /\ NoRender \/ \E c \in page : Render(c)
      /\ wire = <<>> => wire' = <<>>
  BY DEF Receive, EndFlash
<1>2. Connected'
  <2>1. CASE NoRender
    BY <1>0, <1>1, <2>1 DEF NoRender, Connected, NoRooms
  <2>2. CASE \E c \in page : Render(c)
    BY <1>0, <1>1, <2>2, RenderHasType DEF Connected, NoRooms
  <2> QED BY <1>1, <2>1, <2>2
<1>3. ASSUME ~switched, NEW d \in page
      PROVE  Follows(d)'
  <2>0. page = {d} /\ d \in Contests /\ Follows(d)
    BY <1>0, <1>3 DEF RoomInv
  <2>1. /\ rooms'[d] = rooms[d] \/ (rooms[d] = {} /\ rooms'[d] = {version[d]})
        /\ rooms'[d] # {} => handler' = {d}
        /\ d \in handler' /\ rooms'[d] = {} => faults > 0
    <3>1. CASE NoRender
      BY <2>0, <3>1 DEF NoRender, Follows
    <3>2. CASE Render(d)
      BY <1>0, <2>0, <3>2, RenderJoins
    <3> QED BY <1>1, <2>0, <3>1, <3>2
  <2>2. ASSUME rooms'[d] # {}, ~overtaken'
        PROVE  UpToDate(d)'
    <3>1. CASE rooms[d] = {}
      BY <1>1, <2>1, <2>2, <3>1 DEF UpToDate
    <3>2. CASE rooms[d] # {} /\ rooms[d] = {version[d]}
      BY <1>1, <2>1, <3>2 DEF UpToDate
    <3>3. CASE rooms[d] # {} /\ rooms[d] # {version[d]} /\ EndFlash
      <4>1. UpToDate(d) /\ shown' = shown /\ wire' = wire
        BY <1>1, <2>0, <2>2, <3>3 DEF Follows, EndFlash
      <4> QED BY <1>1, <2>1, <3>3, <4>1 DEF UpToDate
    <3>4. CASE rooms[d] # {} /\ rooms[d] # {version[d]} /\ Receive
      <4>1. /\ wire # <<>> /\ wire' = Tail(wire)
            /\ wire[Len(wire)] = [of |-> d, v |-> version[d]]
        BY <1>1, <2>0, <2>2, <3>4 DEF Follows, UpToDate, Receive
      <4>2. shown' = {Head(wire)}
        BY <2>0, <3>4 DEF Receive, Update, Follows
      <4>3. CASE Len(wire) = 1
        <5>1. Head(wire) = wire[Len(wire)] /\ wire' = <<>>
          BY <1>0, <4>1, <4>3
        <5> QED BY <1>1, <4>1, <4>2, <5>1 DEF UpToDate
      <4>4. CASE Len(wire) # 1
        <5>0. Len(wire) \in Nat /\ (Len(wire) = 0 => wire = <<>>)
          BY <1>0
        <5>1. Len(wire) > 1
          <6>1. Len(wire) # 0
            BY <4>1, <5>0
          <6>2. \A n \in Nat : n # 0 /\ n # 1 => n > 1
            OBVIOUS
          <6> QED BY <4>4, <5>0, <6>1, <6>2
        <5>2. Len(wire') = Len(wire) - 1 /\ wire' # <<>>
          <6>1. Len(wire') = Len(wire) - 1
            BY <1>0, <4>1
          <6> QED BY <5>0, <5>1, <6>1
        <5>3. wire'[Len(wire')] = wire[Len(wire)]
          BY <1>0, <4>1, <5>0, <5>1, <5>2
        <5> QED BY <1>1, <4>1, <5>2, <5>3 DEF UpToDate
      <4> QED BY <4>3, <4>4
    <3> QED BY <3>1, <3>2, <3>3, <3>4
  <2> QED BY <1>1, <2>0, <2>1, <2>2 DEF Follows
<1> QED BY <1>1, <1>2, <1>3

(* A connection is in the room of the contest on screen, and what was      *)
(* published since it joined is under way or on screen.                    *)
THEOREM SpecKeepsRoomInv == Spec => []RoomInv
<1>1. Init => RoomInv
  BY DEF Init, RoomInv, NoRooms, NoQuery
<1>2. ASSUME TidyInv, PageInv, RoomInv, [Next]_vars
      PROVE  RoomInv'
  <2>1. TypeOK /\ NothingIsLeftBehind
    BY <1>2 DEF TidyInv, NothingIsLeftBehind
  <2>2. NothingFromAhead'
    BY <1>2, <2>1, AnswersComeFromBehind DEF RoomInv, NothingFromAhead
  <2>3. Connected' /\ (~switched' => \A d \in page' : Follows(d)')
    BY <1>2, <2>1, QueryKeepsFollowing, UserKeepsFollowing, SocketKeepsFollowing,
       PublishKeepsFollowing, UpdatesKeepFollowing DEF Next
  <2> QED BY <2>2, <2>3 DEF RoomInv, Connected, NothingFromAhead
<1> QED BY <1>1, <1>2, SpecKeepsTidyInv, SpecKeepsPageInv, PTL DEF Spec

(* A page that is in the room of its contest, with nothing under way,      *)
(* shows the current board or is excused.                                  *)
THEOREM RoomsMissNothing == Spec => []UpdatesAreNotMissed
<1>1. NothingIsLeftBehind /\ RoomInv => UpdatesAreNotMissed
  BY DEF NothingIsLeftBehind, RoomInv, Follows, UpToDate, UpdatesAreNotMissed
<1>2. TidyInv => NothingIsLeftBehind
  BY DEF TidyInv
<1> QED BY <1>1, <1>2, SpecKeepsTidyInv, SpecKeepsRoomInv, PTL

-----------------------------------------------------------------------------
(* The cache.  Every fact from here on is about CacheSpec.                 *)

-----------------------------------------------------------------------------
(* Entries of the cache                                                    *)

LEMMA EmptyEntry ==
  ASSUME NEW k
  PROVE  EntryOf(NoEntry, k) /\ ~(NoEntry.ttl > 0)
BY DEF EntryOf, NoEntry

LEMMA ExcusedEntry ==
  ASSUME NEW e, NEW k, EntryOf(e, k), e.ttl > 0
  PROVE  LET x == [e EXCEPT !.excused = TRUE]
         IN  EntryOf(x, k) /\ x.excused = TRUE /\ x.board = e.board
BY DEF EntryOf

LEMMA AgedEntry ==
  ASSUME NEW e, NEW k, EntryOf(e, k), e.ttl > 1
  PROVE  LET x == [e EXCEPT !.ttl = @ - 1]
         IN  EntryOf(x, k) /\ x.excused = e.excused /\ x.board = e.board
<1> DEFINE x == [e EXCEPT !.ttl = @ - 1]
<1>1. e.ttl \in Nat /\ DOMAIN e = {"ttl", "board", "isFrozen", "excused"}
      /\ e.isFrozen = (k = "frozen")
  BY DEF EntryOf
<1>2. x.ttl = e.ttl - 1 /\ x.excused = e.excused /\ x.board = e.board
      /\ x.isFrozen = e.isFrozen /\ DOMAIN x = DOMAIN e
  BY <1>1
<1> HIDE DEF x
<1>3. EntryOf(x, k)
  BY <1>1, <1>2 DEF EntryOf
<1> QED BY <1>2, <1>3 DEF x

LEMMA StoredEntry ==
  ASSUME NEW c \in Clients, NEW board, AudienceInv, req[c].frozen \in BOOLEAN,
         Store(c, KeyOf(req[c].frozen), board)
  PROVE  /\ DOMAIN cache' = Keys
         /\ \A k \in Keys : EntryOf(cache'[k], k)
         /\ \A k \in Keys : \/ cache'[k] = cache[k]
                            \/ /\ cache'[k].board = board
                               /\ cache'[k].excused = (board.score # Current)
<1> DEFINE key == KeyOf(req[c].frozen)
           ttl == IF Start <= now /\ now < End THEN OngoingTtl ELSE EndedTtl
           new == [ttl |-> ttl, board |-> board, isFrozen |-> req[c].frozen,
                   excused |-> board.score # Current]
<1>1. key \in Keys /\ (req[c].frozen = (key = "frozen"))
  BY DEF KeyOf, Keys
<1>2. ttl \in Nat
  BY TtlAssumption DEF OngoingTtl
<1>3. cache' = [cache EXCEPT ![key] = new]
  BY DEF Store
<1> HIDE DEF ttl
<1>4. EntryOf(new, key) /\ new.board = board /\ new.excused = (board.score # Current)
  BY <1>1, <1>2 DEF EntryOf
<1> HIDE DEF new, key
<1>5. DOMAIN cache' = Keys /\ \A k \in Keys : cache'[k] = IF k = key THEN new ELSE cache[k]
  BY <1>1, <1>3 DEF AudienceInv
<1> QED BY <1>4, <1>5 DEF AudienceInv

-----------------------------------------------------------------------------
(* What a step does to the cache                                           *)

Entries == /\ DOMAIN cache = Keys
           /\ \A k \in Keys : EntryOf(cache[k], k)

LEMMA ExcuseKeepsEntries ==
  ASSUME AudienceInv, cache' = Excuse(cache)
  PROVE  /\ Entries'
         /\ \A k \in Keys : Cached(k)' => cache'[k].excused = TRUE
<1>1. DOMAIN cache' = Keys
  BY DEF Excuse
<1>2. ASSUME NEW k \in Keys
      PROVE  EntryOf(cache'[k], k) /\ (cache'[k].ttl > 0 => cache'[k].excused = TRUE)
  <2>1. cache'[k] = IF cache[k].ttl > 0 THEN [cache[k] EXCEPT !.excused = TRUE] ELSE cache[k]
    BY DEF Excuse
  <2> QED BY <2>1, ExcusedEntry DEF AudienceInv
<1> QED BY <1>1, <1>2 DEF Entries, EntryOf, Cached

LEMMA ClearKeepsEntries ==
  ASSUME cache' = [k \in Keys |-> NoEntry]
  PROVE  Entries' /\ \A k \in Keys : ~Cached(k)'
BY EmptyEntry DEF Entries, EntryOf, Cached

LEMMA TickKeepsEntries ==
  ASSUME AudienceInv, Tick
  PROVE  /\ Entries'
         /\ \A k \in Keys : Cached(k)' =>
               /\ Cached(k) /\ cache'[k].board = cache[k].board
               /\ cache'[k].excused = cache[k].excused
<1>1. cache' = [k \in Keys |-> IF cache[k].ttl > 1 THEN [cache[k] EXCEPT !.ttl = @ - 1]
                               ELSE NoEntry]
  BY DEF Tick
<1>2. ASSUME NEW k \in Keys
      PROVE  /\ EntryOf(cache'[k], k)
             /\ cache'[k].ttl > 0 =>
                  /\ cache[k].ttl > 0 /\ cache'[k].board = cache[k].board
                  /\ cache'[k].excused = cache[k].excused
  <2>1. CASE cache[k].ttl > 1
    <3>1. cache'[k] = [cache[k] EXCEPT !.ttl = @ - 1]
      BY <1>1, <2>1
    <3>2. cache[k].ttl \in Nat /\ EntryOf(cache[k], k)
      BY DEF AudienceInv, EntryOf
    <3> QED BY <2>1, <3>1, <3>2, AgedEntry
  <2>2. CASE ~(cache[k].ttl > 1)
    BY <1>1, <2>2, EmptyEntry
  <2> QED BY <2>1, <2>2
<1> QED BY <1>1, <1>2 DEF Entries, EntryOf, Cached


-----------------------------------------------------------------------------
(* Audiences                                                               *)

LEMMA AudienceInit ==
  ASSUME CacheInit
  PROVE  AudienceInv
BY EmptyEntry DEF CacheInit, AudienceInv, AudiencesAreKeptApart, KnowsAudience, NoRequest

(* Steps that leave the requests alone.                                    *)
LEMMA EntriesSuffice ==
  ASSUME AudienceInv, Entries', req' = req
  PROVE  AudienceInv'
BY DEF AudienceInv, Entries, EntryOf, KnowsAudience, AudiencesAreKeptApart

(* Steps of a request.                                                     *)
LEMMA RequestsSuffice ==
  ASSUME AudienceInv, Entries', NEW c \in Clients, NEW r, req' = [req EXCEPT ![c] = r],
         KnowsAudience(r),
         r.phase = "answered" => r.isFrozen = r.frozen
  PROVE  AudienceInv'
<1>1. DOMAIN req' = Clients /\ \A d \in Clients : req'[d] = IF d = c THEN r ELSE req[d]
  BY DEF AudienceInv
<1>2. AudiencesAreKeptApart'
  BY <1>1 DEF AudienceInv, AudiencesAreKeptApart
<1>3. \A d \in Clients : KnowsAudience(req'[d])
  BY <1>1 DEF AudienceInv
<1> QED BY <1>1, <1>2, <1>3 DEF AudienceInv, Entries, EntryOf, KnowsAudience

LEMMA RequestKeepsAudiences ==
  ASSUME AudienceInv, NEW c \in Clients,
         (\E admin \in BOOLEAN : Begin(c, admin)) \/ RequestStep(c)
  PROVE  AudienceInv'
<1>0. Entries
  BY DEF AudienceInv, Entries
<1>1. ASSUME NEW admin \in BOOLEAN, Begin(c, admin)
      PROVE  AudienceInv'
  <2> DEFINE r == [phase |-> "lookup", frozen |-> ShouldFreeze(admin)]
  <2>1. req' = [req EXCEPT ![c] = r] /\ cache' = cache
    BY <1>1 DEF Begin
  <2>2. KnowsAudience(r) /\ r.phase = "lookup"
    BY DEF ShouldFreeze, KnowsAudience
  <2> HIDE DEF r
  <2>3. Entries'
    BY <1>0, <2>1 DEF Entries, EntryOf
  <2> QED BY <2>1, <2>2, <2>3, RequestsSuffice
<1>2. CASE Lookup(c)
  <2> DEFINE k == KeyOf(req[c].frozen)
  <2>1. req[c].frozen \in BOOLEAN
    BY <1>2 DEF Lookup, AudienceInv, KnowsAudience
  <2>2. k \in Keys /\ (k = "frozen") = req[c].frozen
    BY <2>1 DEF KeyOf, Keys
  <2>3. Entries'
    BY <1>0, <1>2 DEF Lookup, Entries, EntryOf
  <2>4. CASE Cached(k) /\ Answer(c, cache[k].board, cache[k].isFrozen)
    <3> DEFINE r == [phase |-> "answered", frozen |-> req[c].frozen,
                     board |-> cache[k].board, isFrozen |-> cache[k].isFrozen]
    <3>1. req' = [req EXCEPT ![c] = r]
      BY <2>4 DEF Answer
    <3>2. r.phase = "answered" /\ r.frozen = req[c].frozen /\ r.isFrozen = cache[k].isFrozen
      OBVIOUS
    <3> HIDE DEF r, k
    <3>3. r.isFrozen = r.frozen
      BY <2>2, <2>4, <3>2 DEF AudienceInv, EntryOf, Cached
    <3> QED BY <2>3, <3>1, <3>2, <3>3, RequestsSuffice DEF KnowsAudience
  <2>5. CASE req' = [req EXCEPT ![c] = Computing(c, <<>>)]
    <3> DEFINE r == Computing(c, <<>>)
    <3>1. r.phase = "compute" /\ KnowsAudience(r) /\ req' = [req EXCEPT ![c] = r]
      BY <2>1, <2>5 DEF KnowsAudience, Computing
    <3> HIDE DEF r
    <3> QED BY <2>1, <2>3, <3>1, RequestsSuffice
  <2> QED BY <1>2, <2>4, <2>5 DEF Lookup
<1>3. CASE ReadSubmissions(c)
  <2>1. /\ req[c].phase = "compute" /\ req[c].frozen \in BOOLEAN
        /\ {"phase", "frozen"} \subseteq DOMAIN req[c] /\ Entries'
    BY <1>0, <1>3 DEF ReadSubmissions, AudienceInv, KnowsAudience, Entries, EntryOf
  <2>2. CASE Rule = "IOI"
    <3>1. req' = [req EXCEPT ![c] = [phase |-> "error"]]
      BY <1>3, <2>2 DEF ReadSubmissions
    <3> QED BY <2>1, <3>1, RequestsSuffice DEF KnowsAudience
  <2>3. CASE Rule # "IOI"
    <3>1. PICK results : req' = [req EXCEPT ![c] = Computing(c, results)]
      BY <1>3, <2>3 DEF ReadSubmissions
    <3> DEFINE r == Computing(c, results)
    <3>2. r.phase = "compute" /\ KnowsAudience(r)
      BY <2>1 DEF KnowsAudience, Computing
    <3> HIDE DEF r
    <3> QED BY <2>1, <3>1, <3>2, RequestsSuffice DEF r
  <2> QED BY <2>2, <2>3
<1>4. CASE Finish(c)
  <2>1. PICK board :
          /\ \/ Store(c, KeyOf(req[c].frozen), board)
             \/ cache' = cache
          /\ Answer(c, board, req[c].frozen)
    BY <1>4 DEF Finish
  <2>2. req[c].frozen \in BOOLEAN
    BY <1>4 DEF Finish, AudienceInv, KnowsAudience
  <2>3. Entries'
    BY <1>0, <2>1, <2>2, StoredEntry DEF Entries, EntryOf
  <2> DEFINE r == [phase |-> "answered", frozen |-> req[c].frozen,
                   board |-> board, isFrozen |-> req[c].frozen]
  <2>4. req' = [req EXCEPT ![c] = r]
    BY <2>1 DEF Answer
  <2>5. r.phase = "answered" /\ r.isFrozen = r.frozen
    OBVIOUS
  <2> HIDE DEF r
  <2> QED BY <2>3, <2>4, <2>5, RequestsSuffice DEF KnowsAudience
<1> QED BY <1>1, <1>2, <1>3, <1>4 DEF RequestStep


(* A key holds boards of one audience only, whatever requests, judges,     *)
(* expiry and errors did between the lookup of a request and the board it  *)
(* stores.                                                                 *)
THEOREM SpecKeepsAudienceInv == CacheSpec => []AudienceInv
<1>1. CacheInit => AudienceInv
  BY AudienceInit
<1>2. ASSUME AudienceInv, [CacheNext]_cacheVars
      PROVE  AudienceInv'
  <2>1. CASE \E c \in Clients : (\E admin \in BOOLEAN : Begin(c, admin)) \/ RequestStep(c)
    BY <1>2, <2>1, RequestKeepsAudiences
  <2>2. CASE \/ \E q \in Queries : Submit(q)
             \/ \E q \in Queries : \E i \in DOMAIN subs[q] : StartJudging(q, i) \/ Conclude(q, i)
             \/ Invalidate \/ UNCHANGED cacheVars
    <3>1. req' = req
      BY <2>2 DEF Submit, StartJudging, Conclude, Invalidate, cacheVars
    <3>2. cache' = cache \/ cache' = Excuse(cache) \/ cache' = [k \in Keys |-> NoEntry]
      BY <2>2 DEF Submit, StartJudging, Conclude, Invalidate, cacheVars
    <3>3. Entries'
      BY <1>2, <3>2, ExcuseKeepsEntries, ClearKeepsEntries DEF AudienceInv, Entries, EntryOf
    <3> QED BY <1>2, <3>1, <3>3, EntriesSuffice
  <2>3. CASE Tick
    <3>1. req' = req
      BY <2>3 DEF Tick
    <3> QED BY <1>2, <2>3, <3>1, TickKeepsEntries, EntriesSuffice
  <2> QED BY <1>2, <2>1, <2>2, <2>3 DEF CacheNext
<1> QED BY <1>1, <1>2, PTL DEF CacheSpec

(* Nobody is given the board of the other audience.                        *)
THEOREM AudiencesNeverMix == CacheSpec => []AudiencesAreKeptApart
<1>1. AudienceInv => AudiencesAreKeptApart
  BY DEF AudienceInv
<1> QED BY <1>1, SpecKeepsAudienceInv, PTL

-----------------------------------------------------------------------------
(* Freshness                                                               *)

(* A step after which every board in the cache is a new one, an excused    *)
(* one, or as current as one that was there before.                        *)
LEMMA FreshnessSuffices ==
  ASSUME FreshnessInv, Current' = Current, invalidating' = invalidating,
         \A k \in Keys : Cached(k)' =>
            \/ cache'[k].excused = TRUE
            \/ /\ Cached(k) /\ cache'[k].board = cache[k].board
               /\ cache'[k].excused = cache[k].excused
            \/ cache'[k].excused = (cache'[k].board.score # Current)
  PROVE  FreshnessInv'
BY DEF FreshnessInv, StaleBoardsAreExplained, Cached

LEMMA ScoresOfSubmissions ==
  ASSUME subs' = subs
  PROVE  Current' = Current
BY DEF Current

(* Judging: a verdict announces its invalidation, every other change of a  *)
(* submission excuses the boards that miss it.                             *)
LEMMA JudgesKeepFreshness ==
  ASSUME AudienceInv, FreshnessInv,
         \/ \E q \in Queries : Submit(q)
         \/ \E q \in Queries : \E i \in DOMAIN subs[q] : StartJudging(q, i) \/ Conclude(q, i)
  PROVE  FreshnessInv'
<1>1. CASE cache' = Excuse(cache) /\ invalidating' = invalidating
  <2>1. \A k \in Keys : Cached(k)' => cache'[k].excused = TRUE
    BY <1>1, ExcuseKeepsEntries
  <2> QED BY <1>1, <2>1 DEF FreshnessInv, StaleBoardsAreExplained, Cached
<1>2. CASE invalidating' = invalidating + 1
  BY <1>2 DEF FreshnessInv, StaleBoardsAreExplained
<1> QED BY <1>1, <1>2 DEF Submit, StartJudging, Conclude

LEMMA InvalidationKeepsFreshness ==
  ASSUME AudienceInv, FreshnessInv, Invalidate
  PROVE  FreshnessInv'
<1>1. invalidating' \in Nat
  BY DEF Invalidate, FreshnessInv
<1>2. \A k \in Keys : Cached(k)' => cache'[k].excused = TRUE
  BY ExcuseKeepsEntries, ClearKeepsEntries DEF Invalidate
<1> QED BY <1>1, <1>2 DEF FreshnessInv, StaleBoardsAreExplained, Cached

LEMMA OthersKeepFreshness ==
  ASSUME AudienceInv, FreshnessInv,
         \/ \E c \in Clients : (\E admin \in BOOLEAN : Begin(c, admin)) \/ RequestStep(c)
         \/ Tick \/ UNCHANGED cacheVars
  PROVE  FreshnessInv'
<1>1. Current' = Current /\ invalidating' = invalidating
  <2>1. subs' = subs /\ invalidating' = invalidating
    BY DEF Begin, RequestStep, Lookup, ReadSubmissions, Finish, Tick, cacheVars
  <2> QED BY <2>1, ScoresOfSubmissions
<1>2. CASE Tick
  BY <1>1, <1>2, TickKeepsEntries, FreshnessSuffices
<1>3. CASE cache' = cache
  BY <1>1, <1>3, FreshnessSuffices DEF Cached
<1>4. ASSUME NEW c \in Clients, Finish(c)
      PROVE  FreshnessInv'
  <2>1. PICK board : Store(c, KeyOf(req[c].frozen), board) \/ cache' = cache
    BY <1>4 DEF Finish
  <2>2. req[c].frozen \in BOOLEAN
    BY <1>4 DEF Finish, AudienceInv, KnowsAudience
  <2>3. CASE Store(c, KeyOf(req[c].frozen), board)
    <3>1. \A k \in Keys : \/ cache'[k] = cache[k]
                          \/ /\ cache'[k].board = board
                             /\ cache'[k].excused = (board.score # Current)
      BY <2>2, <2>3, StoredEntry
    <3> QED BY <1>1, <3>1, FreshnessSuffices DEF Cached
  <2> QED BY <1>3, <2>1, <2>3
<1> QED BY <1>2, <1>3, <1>4 DEF Begin, RequestStep, Lookup, ReadSubmissions, cacheVars

(* Invalidation is enough, however requests and judges interleave: once    *)
(* every judge has invalidated, a cached board is the current one or was   *)
(* overtaken while it was computed, or misses a change after which the     *)
(* code does not invalidate.                                               *)
THEOREM InvalidationIsEnough == CacheSpec => []StaleBoardsAreExplained
<1>1. CacheInit => FreshnessInv
  BY DEF CacheInit, FreshnessInv, StaleBoardsAreExplained, Cached, NoEntry
<1>2. ASSUME AudienceInv, FreshnessInv, [CacheNext]_cacheVars
      PROVE  FreshnessInv'
  BY <1>2, JudgesKeepFreshness, InvalidationKeepsFreshness, OthersKeepFreshness
     DEF CacheNext
<1>3. FreshnessInv => StaleBoardsAreExplained
  BY DEF FreshnessInv
<1> QED BY <1>1, <1>2, <1>3, SpecKeepsAudienceInv, PTL DEF CacheSpec

-----------------------------------------------------------------------------
(* Induction over the natural numbers, as a fact about sets: the theorems  *)
(* of the library take an operator as a parameter.                         *)

LEMMA LeastNumber ==
  ASSUME NEW T, T \subseteq Nat, T # {}
  PROVE  \E n \in T : \A m \in T : n <= m
<1> DEFINE R == OpToRel(<, Nat)
<1>1. IsWellFoundedOn(R, Nat)
  BY NatLessThanWellFounded
<1>2. \A a, b \in Nat : a < b => <<a, b>> \in R
  BY DEF OpToRel
<1> HIDE DEF R
<1>3. PICK n \in T : \A m \in T : ~(<<m, n>> \in R)
  BY <1>1, WFMin
<1>4. ASSUME NEW m \in T
      PROVE  n <= m
  <2>1. n \in Nat /\ m \in Nat /\ ~(m < n)
    BY <1>2, <1>3
  <2> QED BY <2>1
<1> QED BY <1>4

LEMMA EveryNumber ==
  ASSUME NEW S, 0 \in S, \A n \in Nat : n \in S => n + 1 \in S
  PROVE  \A n \in Nat : n \in S
<1> DEFINE T == {n \in Nat : n \notin S}
<1>1. ASSUME NEW n \in T, \A m \in T : n <= m
      PROVE  FALSE
  <2>1. n \in Nat /\ n # 0
    OBVIOUS
  <2>2. n - 1 \in Nat /\ (n - 1) + 1 = n /\ n - 1 \notin T
    BY <1>1, <2>1
  <2> QED BY <2>2
<1>2. T = {}
  <2> HIDE DEF T
  <2>1. T \subseteq Nat
    BY DEF T
  <2> QED BY <1>1, <2>1, LeastNumber
<1> QED BY <1>2

LEMMA MinOf ==
  ASSUME NEW T, T \subseteq Nat, T # {}
  PROVE  Min(T) \in T /\ \A m \in T : Min(T) <= m
BY LeastNumber DEF Min

-----------------------------------------------------------------------------
(* The score of a problem                                                  *)

(* What the loop has found after n turns. *)
Found(s, n) ==
  LET first == Min(Accepted(s)) IN
  IF \E k \in Accepted(s) : k <= n
    THEN [solved |-> TRUE, wrong |-> first - 1,
          penalty |-> s[first].minute + (first - 1) * PenaltyPerAttempt]
  ELSE [solved |-> FALSE, wrong |-> n, penalty |-> 0]

LEMMA TurnUnsolved ==
  ASSUME NEW wrong, NEW s
  PROVE  Turn([solved |-> FALSE, wrong |-> wrong, penalty |-> 0], s) =
           IF s.status = "ACCEPTED"
             THEN [solved |-> TRUE, wrong |-> wrong,
                   penalty |-> s.minute + wrong * PenaltyPerAttempt]
           ELSE [solved |-> FALSE, wrong |-> wrong + 1, penalty |-> 0]
BY DEF Turn, Solve

LEMMA FoundAfterTurn ==
  ASSUME NEW s \in Seq(SubmissionType), NEW n \in 1 .. Len(s)
  PROVE  Found(s, n) = Turn(Found(s, n - 1), s[n])
<1> DEFINE A == Accepted(s)
<1>0. /\ A \subseteq 1 .. Len(s) /\ n \in Nat /\ Len(s) \in Nat
      /\ \A k \in 1 .. Len(s) : k \in A <=> s[k].status = "ACCEPTED"
  BY DEF Accepted
<1>a. A \subseteq Nat
  BY <1>0
<1>1. A # {} => Min(A) \in A /\ \A k \in A : Min(A) <= k
  BY <1>0, MinOf
<1>2. CASE \E k \in A : k <= n - 1
  <2>1. \E k \in A : k <= n
    BY <1>0, <1>2
  <2> QED BY <1>2, <2>1 DEF Found, Turn
<1>3. CASE (\A k \in A : ~(k <= n - 1)) /\ s[n].status = "ACCEPTED"
  <2>1. n \in A /\ Min(A) = n
    <3>1. n \in A
      BY <1>0, <1>3
    <3> HIDE DEF A
    <3>2. Min(A) \in A /\ Min(A) <= n
      BY <1>1, <3>1
    <3>3. ~(Min(A) <= n - 1)
      BY <1>3, <3>2
    <3>4. Min(A) \in Nat
      BY <1>a, <3>2
    <3> QED BY <1>0, <3>1, <3>2, <3>3, <3>4
  <2>2. Found(s, n - 1) = [solved |-> FALSE, wrong |-> n - 1, penalty |-> 0]
    BY <1>3 DEF Found
  <2>3. \E k \in A : k <= n
    BY <1>0, <2>1
  <2> HIDE DEF A
  <2>4. Found(s, n) = [solved |-> TRUE, wrong |-> n - 1,
                       penalty |-> s[n].minute + (n - 1) * PenaltyPerAttempt]
    BY <2>1, <2>3 DEF Found, A
  <2>5. n - 1 \in Nat /\ s[n] \in SubmissionType
    BY <1>0
  <2> QED BY <1>3, <2>2, <2>4, <2>5, TurnUnsolved
<1>4. CASE (\A k \in A : ~(k <= n - 1)) /\ s[n].status # "ACCEPTED"
  <2>1. Found(s, n - 1) = [solved |-> FALSE, wrong |-> n - 1, penalty |-> 0]
    BY <1>4 DEF Found
  <2>2. ~(\E k \in A : k <= n)
    BY <1>0, <1>4
  <2>3. Found(s, n) = [solved |-> FALSE, wrong |-> n, penalty |-> 0]
    BY <2>2 DEF Found
  <2>4. n - 1 \in Nat /\ (n - 1) + 1 = n /\ s[n] \in SubmissionType
    BY <1>0
  <2> QED BY <1>4, <2>1, <2>3, <2>4, TurnUnsolved
<1> QED BY <1>2, <1>3, <1>4

(* The loop leaves what it has Found after its last turn: the function of   *)
(* the definition exists, and it is the only one.                           *)
LEMMA AcmProblemFinds ==
  ASSUME NEW s \in Seq(SubmissionType)
  PROVE  AcmProblem(s) = Found(s, Len(s))
<1> DEFINE Loop(g) == g = [i \in 0 .. Len(s) |-> IF i = 0 THEN NoAttempt ELSE Turn(g[i - 1], s[i])]
           found == [i \in 0 .. Len(s) |-> Found(s, i)]
           after == CHOOSE g : Loop(g)
<1>0. Len(s) \in Nat
  OBVIOUS
<1>1. Loop(found)
  <2>1. Found(s, 0) = NoAttempt
    BY DEF Found, NoAttempt, Accepted
  <2>2. \A i \in 1 .. Len(s) : found[i - 1] = Found(s, i - 1)
    OBVIOUS
  <2>3. \A i \in 0 .. Len(s) : found[i] = IF i = 0 THEN NoAttempt ELSE Turn(found[i - 1], s[i])
    <3> SUFFICES ASSUME NEW i \in 0 .. Len(s)
                 PROVE  found[i] = IF i = 0 THEN NoAttempt ELSE Turn(found[i - 1], s[i])
      OBVIOUS
    <3>1. CASE i = 0
      BY <2>1, <3>1
    <3>2. CASE i # 0
      <4>1. i \in 1 .. Len(s)
        BY <3>2
      <4> QED BY <2>2, <3>2, <4>1, FoundAfterTurn
    <3> QED BY <3>1, <3>2
  <2> QED BY <2>3
<1>2. Loop(after)
  <2> HIDE DEF Loop, found
  <2> QED BY <1>1
<1>3. \A i \in 0 .. Len(s) : after[i] = Found(s, i)
  <2> DEFINE S == {i \in Nat : i <= Len(s) => after[i] = Found(s, i)}
  <2> HIDE DEF after
  <2>1. after[0] = NoAttempt /\ Found(s, 0) = NoAttempt
    BY <1>0, <1>2 DEF Found, NoAttempt, Accepted
  <2>2. ASSUME NEW n \in Nat, n \in S
        PROVE  n + 1 \in S
    <3>1. CASE n + 1 <= Len(s)
      <4>1. n + 1 \in 1 .. Len(s) /\ (n + 1) - 1 = n
        BY <1>0, <3>1
      <4>2. after[n + 1] = Turn(after[n], s[n + 1])
        BY <1>2, <4>1
      <4>3. after[n] = Found(s, n)
        BY <1>0, <2>2, <3>1
      <4> QED BY <4>1, <4>2, <4>3, FoundAfterTurn
    <3> QED BY <3>1
  <2>3. 0 \in S
    BY <2>1
  <2> HIDE DEF S
  <2>4. \A n \in Nat : n \in S
    BY <2>2, <2>3, EveryNumber
  <2> QED BY <1>0, <2>4 DEF S
<1>4. AcmProblem(s) = after[Len(s)]
  BY DEF AcmProblem
<1> QED BY <1>0, <1>3, <1>4

(* The loop of calculate_acm_score is right for every list of submissions:  *)
(* a problem is solved if one is accepted, and the penalty is the minute of *)
(* the first accepted one and what the submissions before that one cost.    *)
THEOREM PenaltiesEndInTime ==
  ASSUME NEW s \in Seq(SubmissionType)
  PROVE  /\ AcmProblem(s).solved <=> Accepted(s) # {}
         /\ AcmProblem(s).penalty = AcmReference(s)
         /\ AcmResult(s) \in ResultType
<1> DEFINE A == Accepted(s)
           first == Min(A)
<1>1. A \subseteq 1 .. Len(s) /\ A \subseteq Nat /\ Len(s) \in Nat
  BY DEF Accepted
<1>2. CASE A = {}
  <2>1. AcmProblem(s) = [solved |-> FALSE, wrong |-> Len(s), penalty |-> 0]
    BY <1>2, AcmProblemFinds DEF Found
  <2> QED BY <1>1, <1>2, <2>1 DEF AcmReference, AcmResult, ResultType
<1>3. CASE A # {}
  <2>1. first \in A
    BY <1>1, <1>3, MinOf
  <2>2. first \in 1 .. Len(s) /\ first - 1 \in Nat /\ s[first] \in SubmissionType
    BY <1>1, <2>1
  <2>3. AcmProblem(s) = [solved |-> TRUE, wrong |-> first - 1,
                         penalty |-> s[first].minute + (first - 1) * PenaltyPerAttempt]
    <3>1. \E k \in A : k <= Len(s)
      BY <2>1, <1>1
    <3> QED BY <3>1, AcmProblemFinds DEF Found
  <2>4. s[first].minute \in Nat
    BY <2>2, TimeAssumption DEF SubmissionType
  <2> HIDE DEF A, first
  <2>5. s[first].minute + PenaltyPerAttempt * (first - 1) \in Nat
        /\ PenaltyPerAttempt * (first - 1) = (first - 1) * PenaltyPerAttempt
    BY <2>2, <2>4 DEF PenaltyPerAttempt
  <2>6. AcmReference(s) = s[first].minute + PenaltyPerAttempt * (first - 1)
    BY <1>3 DEF AcmReference, A, first
  <2> QED BY <1>1, <1>3, <2>3, <2>5, <2>6 DEF AcmResult, ResultType, A
<1> QED BY <1>2, <1>3

-----------------------------------------------------------------------------
(* Sums                                                                    *)

(* The sum of natural numbers over a finite set is one: the fold is defined *)
(* by recursion over the subsets, so by induction on their size.            *)
LEMMA SumIsNatural ==
  ASSUME NEW S, IsFiniteSet(S), NEW f \in [S -> Nat]
  PROVE  SumFunction(f) \in Nat
<1> DEFINE pick(t) == CHOOSE x \in t : TRUE
           Eq(g, t) == IF t = {} THEN 0 ELSE f[pick(t)] + g[t \ {pick(t)}]
           Small(n) == {t \in SUBSET S : Cardinality(t) <= n}
           iter == CHOOSE g : g = [t \in SUBSET S |-> Eq(g, t)]
<1>1. SumFunction(f) = iter[S]
  BY DEF SumFunction, SumFunctionOnSet, FoldFunctionOnSet, MapThenFoldSet
<1>2. ASSUME NEW t \in SUBSET S
      PROVE  IsFiniteSet(t) /\ Cardinality(t) \in Nat /\ (Cardinality(t) = 0 <=> t = {})
  BY FS_Subset, FS_CardinalityType, FS_EmptySet
<1>3. ASSUME NEW t \in SUBSET S, t # {}
      PROVE  /\ pick(t) \in S /\ t \ {pick(t)} \in SUBSET S
             /\ Cardinality(t \ {pick(t)}) = Cardinality(t) - 1
  <2>1. pick(t) \in t
    BY <1>3
  <2> HIDE DEF pick
  <2> QED BY <1>2, <2>1, FS_RemoveElement
<1> HIDE DEF pick
<1>4. \A n \in Nat : \E g \in [Small(n) -> Nat] : \A t \in Small(n) : g[t] = Eq(g, t)
  <2> DEFINE Found0(n) == \E g \in [Small(n) -> Nat] : \A t \in Small(n) : g[t] = Eq(g, t)
             N == {n \in Nat : Found0(n)}
  <2>1. Found0(0)
    <3> DEFINE g == [t \in Small(0) |-> 0]
    <3>1. \A t \in Small(0) : t = {}
      BY <1>2
    <3> HIDE DEF Small
    <3>2. \A t \in Small(0) : g[t] = Eq(g, t)
      BY <3>1
    <3>3. g \in [Small(0) -> Nat]
      OBVIOUS
    <3> QED BY <3>2, <3>3
  <2>2. ASSUME NEW n \in Nat, Found0(n)
        PROVE  Found0(n + 1)
    <3>1. PICK g \in [Small(n) -> Nat] : \A t \in Small(n) : g[t] = Eq(g, t)
      BY <2>2
    <3> DEFINE h == [t \in Small(n + 1) |-> Eq(g, t)]
    <3>2. ASSUME NEW t \in Small(n + 1), t # {}
          PROVE  t \ {pick(t)} \in Small(n) /\ t \ {pick(t)} \in Small(n + 1) /\ pick(t) \in S
      BY <1>2, <1>3, <3>2
    <3>3. ASSUME NEW t \in Small(n + 1)
          PROVE  Eq(g, t) \in Nat
      <4> HIDE DEF Small
      <4> QED BY <3>2
    <3>4. \A t \in Small(n) : t \in Small(n + 1)
      BY <1>2
    <3>5. \A t \in Small(n) : h[t] = g[t]
      BY <3>1, <3>4
    <3> HIDE DEF Small
    <3>6. ASSUME NEW t \in Small(n + 1)
          PROVE  h[t] = Eq(h, t)
      BY <3>2, <3>5
    <3>7. h \in [Small(n + 1) -> Nat]
      BY <3>3
    <3> HIDE DEF h
    <3> QED BY <3>6, <3>7
  <2>3. 0 \in N /\ \A n \in Nat : n \in N => n + 1 \in N
    <3> HIDE DEF Found0
    <3> QED BY <2>1, <2>2
  <2> HIDE DEF N
  <2>4. \A n \in Nat : n \in N
    BY <2>3, EveryNumber
  <2> QED BY <2>4 DEF N
<1>5. iter = [t \in SUBSET S |-> Eq(iter, t)]
  <2>1. Cardinality(S) \in Nat /\ Small(Cardinality(S)) = SUBSET S
    BY FS_CardinalityType, FS_Subset
  <2> HIDE DEF Small
  <2>2. PICK g \in [SUBSET S -> Nat] : \A t \in SUBSET S : g[t] = Eq(g, t)
    BY <1>4, <2>1
  <2>3. g = [t \in SUBSET S |-> Eq(g, t)]
    BY <2>2
  <2> HIDE DEF Eq
  <2> QED BY <2>3
<1> HIDE DEF iter
<1>6. \A t \in SUBSET S : iter[t] \in Nat
  <2> DEFINE N == {n \in Nat : \A t \in SUBSET S : Cardinality(t) = n => iter[t] \in Nat}
  <2>1. \A t \in SUBSET S : iter[t] = Eq(iter, t)
    BY <1>5
  <2>2. 0 \in N
    BY <1>2, <2>1
  <2>3. ASSUME NEW n \in Nat, n \in N
        PROVE  n + 1 \in N
    <3> SUFFICES ASSUME NEW t \in SUBSET S, Cardinality(t) = n + 1
                 PROVE  iter[t] \in Nat
      OBVIOUS
    <3>1. t # {}
      BY <1>2
    <3>2. f[pick(t)] \in Nat /\ iter[t \ {pick(t)}] \in Nat
      BY <1>3, <2>3, <3>1
    <3>3. iter[t] = f[pick(t)] + iter[t \ {pick(t)}]
      BY <2>1, <3>1
    <3> QED BY <3>2, <3>3
  <2> HIDE DEF N
  <2>4. \A n \in Nat : n \in N
    BY <2>2, <2>3, EveryNumber
  <2> QED BY <1>2, <2>4 DEF N
<1> QED BY <1>1, <1>6

LEMMA ScoreHasType ==
  ASSUME NEW result, \A p \in Problems : result[p] \in ResultType
  PROVE  AcmScore(result) \in ScoreType
<1>1. Cardinality({p \in Problems : result[p].solved}) \in Nat
  BY FinitenessAssumption, FS_Subset, FS_CardinalityType
<1>2. /\ [p \in Problems |-> result[p].penalty] \in [Problems -> Nat]
      /\ [p \in Problems |-> result[p].attempts] \in [Problems -> Nat]
  BY DEF ResultType
<1>3. /\ SumFunction([p \in Problems |-> result[p].penalty]) \in Nat
      /\ SumFunction([p \in Problems |-> result[p].attempts]) \in Nat
  BY <1>2, SumIsNatural, FinitenessAssumption
<1> QED BY <1>1, <1>3 DEF AcmScore, ScoreType

-----------------------------------------------------------------------------
(* The order of the participants                                           *)

(* Before is a strict order in which ties are alike. *)
LEMMA BeforeIsAnOrder ==
  ASSUME NEW a \in ScoreType, NEW b \in ScoreType, NEW c \in ScoreType
  PROVE  /\ ~Before(a, a)
         /\ Before(a, b) => ~Before(b, a)
         /\ ~Before(a, b) /\ ~Before(b, c) => ~Before(a, c)
         /\ Before(a, b) /\ ~Before(c, b) => Before(a, c)
         /\ ~Before(b, a) /\ Before(b, c) => Before(a, c)
         /\ Tie(a, b) => (Before(c, a) <=> Before(c, b))
         /\ ~Before(b, a) /\ ~Tie(a, b) => Before(a, b)
BY DEF ScoreType, Before, Tie

LEMMA FirstOne ==
  ASSUME NEW scores \in [Users -> ScoreType]
  PROVE  \A D \in SUBSET Users : D # {} => \E m \in D : \A v \in D : ~Before(scores[v], scores[m])
<1> DEFINE First(D) == \E m \in D : \A v \in D : ~Before(scores[v], scores[m])
           N == {n \in Nat : \A D \in SUBSET Users : Cardinality(D) = n + 1 => First(D)}
<1>1. ASSUME NEW D \in SUBSET Users
      PROVE  /\ IsFiniteSet(D) /\ Cardinality(D) \in Nat /\ (Cardinality(D) = 0 <=> D = {})
             /\ \A x \in D : Cardinality(D \ {x}) = Cardinality(D) - 1
  BY FinitenessAssumption, FS_Subset, FS_CardinalityType, FS_EmptySet, FS_RemoveElement
<1>2. 0 \in N
  <2>1. ASSUME NEW D \in SUBSET Users, Cardinality(D) = 1
        PROVE  First(D)
    <3>1. PICK x \in D : D \ {x} = {}
      <4>1. PICK x \in D : TRUE
        BY <1>1, <2>1
      <4>2. Cardinality(D \ {x}) = 0
        BY <1>1, <2>1
      <4> QED BY <1>1, <4>2
    <3>2. \A v \in D : ~Before(scores[v], scores[x])
      BY <3>1, BeforeIsAnOrder
    <3> QED BY <3>2
  <2> HIDE DEF First
  <2> QED BY <2>1
<1>3. ASSUME NEW n \in Nat, n \in N
      PROVE  n + 1 \in N
  <2>1. ASSUME NEW D \in SUBSET Users, Cardinality(D) = (n + 1) + 1
        PROVE  First(D)
    <3>1. PICK x \in D : TRUE
      BY <1>1, <2>1
    <3>2. Cardinality(D \ {x}) = n + 1 /\ D \ {x} \in SUBSET Users
      BY <1>1, <2>1
    <3>3. PICK m \in D \ {x} : \A v \in D \ {x} : ~Before(scores[v], scores[m])
      BY <1>3, <3>2
    <3>4. scores[x] \in ScoreType /\ scores[m] \in ScoreType
          /\ \A v \in D : scores[v] \in ScoreType
      BY <3>1, <3>3
    <3>5. CASE Before(scores[x], scores[m])
      <4>1. ASSUME NEW v \in D
            PROVE  ~Before(scores[v], scores[x])
        BY <3>3, <3>4, <3>5, BeforeIsAnOrder
      <4> QED BY <4>1
    <3>6. CASE ~Before(scores[x], scores[m])
      BY <3>3, <3>6
    <3> QED BY <3>5, <3>6
  <2> HIDE DEF First
  <2> QED BY <2>1
<1> HIDE DEF N
<1>4. \A n \in Nat : n \in N
  BY <1>2, <1>3, EveryNumber
<1> SUFFICES ASSUME NEW D \in SUBSET Users, D # {}
             PROVE  First(D)
  OBVIOUS
<1>5. Cardinality(D) - 1 \in Nat /\ (Cardinality(D) - 1) + 1 = Cardinality(D)
  BY <1>1
<1> HIDE DEF First
<1> QED BY <1>4, <1>5 DEF N

InOrder(s, scores) ==
  \A i, j \in DOMAIN s : i < j => s[i] # s[j] /\ ~Before(scores[s[j]], scores[s[i]])

(* Participants can be listed in order, by induction on their number: the   *)
(* first one, and then the others.                                          *)
LEMMA OrderExists ==
  ASSUME NEW scores \in [Users -> ScoreType]
  PROVE  \A D \in SUBSET Users :
           \E s \in [1 .. Cardinality(D) -> D] :
             InOrder(s, scores) /\ \A u \in D : \E i \in DOMAIN s : s[i] = u
<1> DEFINE Listed(D, n) == \E s \in [1 .. n -> D] :
                             InOrder(s, scores) /\ \A u \in D : \E i \in DOMAIN s : s[i] = u
           N == {n \in Nat : \A D \in SUBSET Users : Cardinality(D) = n => Listed(D, n)}
<1>1. ASSUME NEW D \in SUBSET Users
      PROVE  /\ IsFiniteSet(D) /\ Cardinality(D) \in Nat /\ (Cardinality(D) = 0 <=> D = {})
             /\ \A x \in D : Cardinality(D \ {x}) = Cardinality(D) - 1
  BY FinitenessAssumption, FS_Subset, FS_CardinalityType, FS_EmptySet, FS_RemoveElement
<1>2. 0 \in N
  <2>1. ASSUME NEW D \in SUBSET Users, Cardinality(D) = 0
        PROVE  Listed(D, 0)
    <3>1. D = {}
      BY <1>1, <2>1
    <3> DEFINE s == [i \in 1 .. 0 |-> i]
    <3>2. s \in [1 .. 0 -> D] /\ InOrder(s, scores)
      BY DEF InOrder
    <3> QED BY <3>1, <3>2
  <2> HIDE DEF Listed
  <2> QED BY <2>1
<1>3. ASSUME NEW n \in Nat, n \in N
      PROVE  n + 1 \in N
  <2>1. ASSUME NEW D \in SUBSET Users, Cardinality(D) = n + 1
        PROVE  Listed(D, n + 1)
    <3>1. PICK m \in D : \A v \in D : ~Before(scores[v], scores[m])
      BY <1>1, <2>1, FirstOne
    <3>2. Cardinality(D \ {m}) = n /\ D \ {m} \in SUBSET Users
      BY <1>1, <2>1
    <3>3. PICK s \in [1 .. n -> D \ {m}] :
            InOrder(s, scores) /\ \A u \in D \ {m} : \E i \in DOMAIN s : s[i] = u
      BY <1>3, <3>2
    <3> DEFINE t == [i \in 1 .. n + 1 |-> IF i = 1 THEN m ELSE s[i - 1]]
    <3>4. ASSUME NEW i \in 1 .. n + 1
          PROVE  /\ i = 1 => t[i] = m
                 /\ i # 1 => i - 1 \in 1 .. n /\ t[i] = s[i - 1] /\ t[i] \in D \ {m}
      OBVIOUS
    <3>5. t \in [1 .. n + 1 -> D]
      BY <3>4
    <3>6. InOrder(t, scores)
      <4> SUFFICES ASSUME NEW i \in 1 .. n + 1, NEW j \in 1 .. n + 1, i < j
                   PROVE  t[i] # t[j] /\ ~Before(scores[t[j]], scores[t[i]])
        BY DEF InOrder
      <4> HIDE DEF t
      <4>1. CASE i = 1
        BY <3>1, <3>4, <4>1
      <4>2. CASE i # 1
        <5>1. /\ i - 1 \in 1 .. n /\ j - 1 \in 1 .. n /\ i - 1 < j - 1
              /\ t[i] = s[i - 1] /\ t[j] = s[j - 1]
          BY <3>4, <4>2
        <5>2. DOMAIN s = 1 .. n
          BY <3>3
        <5> QED BY <3>3, <5>1, <5>2 DEF InOrder
      <4> QED BY <4>1, <4>2
    <3>7. ASSUME NEW u \in D
          PROVE  \E i \in DOMAIN t : t[i] = u
      <4>1. CASE u = m
        BY <4>1, <3>4
      <4>2. CASE u # m
        <5>1. PICK i \in 1 .. n : s[i] = u
          BY <3>3, <4>2
        <5>2. i + 1 \in 1 .. n + 1 /\ i + 1 # 1 /\ (i + 1) - 1 = i
          OBVIOUS
        <5> QED BY <3>4, <5>1, <5>2
      <4> QED BY <4>1, <4>2
    <3> HIDE DEF t
    <3> QED BY <3>5, <3>6, <3>7
  <2> HIDE DEF Listed
  <2> QED BY <2>1
<1> HIDE DEF N
<1>4. \A n \in Nat : n \in N
  BY <1>2, <1>3, EveryNumber
<1> HIDE DEF Listed
<1>5. \A D \in SUBSET Users : Listed(D, Cardinality(D))
  BY <1>1, <1>4 DEF N
<1> QED BY <1>5 DEF Listed

(* So that Sorted, which chooses such a list, has one to choose.            *)
LEMMA SortedIsInOrder ==
  ASSUME NEW scores \in [Users -> ScoreType]
  PROVE  LET s == Sorted(scores) IN
         /\ s \in [1 .. Cardinality(Users) -> Users]
         /\ InOrder(s, scores)
         /\ \A u \in Users : \E i \in 1 .. Cardinality(Users) : s[i] = u
<1> DEFINE n == Cardinality(Users)
           Good(s) == \A i, j \in DOMAIN s : i < j => ~Before(scores[s[j]], scores[s[i]])
<1>0. n \in Nat /\ IsFiniteSet(1 .. n) /\ Cardinality(1 .. n) = n
  BY FinitenessAssumption, FS_CardinalityType, FS_Interval
<1>1. PICK s \in [1 .. n -> Users] : InOrder(s, scores)
  BY OrderExists
<1> HIDE DEF n
<1>2. s \in SetToSeqs(Users) /\ Good(s)
  <2>1. \A i, j \in 1 .. n : i # j => s[i] # s[j]
    BY <1>0, <1>1 DEF InOrder
  <2> QED BY <1>1, <2>1 DEF SetToSeqs, InOrder, n
<1>3. Sorted(scores) \in SetToSeqs(Users) /\ Good(Sorted(scores))
  BY <1>2 DEF Sorted
<1> DEFINE t == Sorted(scores)
<1>4. t \in [1 .. n -> Users] /\ \A i, j \in 1 .. n : i # j => t[i] # t[j]
  BY <1>3 DEF SetToSeqs, n
<1>5. InOrder(t, scores)
  BY <1>0, <1>3, <1>4 DEF InOrder
<1>6. \A u \in Users : \E i \in 1 .. n : t[i] = u
  <2> HIDE DEF t
  <2>1. t \in Injection(1 .. n, Users)
    BY <1>4 DEF Injection, IsInjective
  <2>2. t \in Surjection(1 .. n, Users)
    BY <1>0, <2>1, FS_Injection, FinitenessAssumption DEF n
  <2> QED BY <2>2 DEF Surjection
<1> QED BY <1>4, <1>5, <1>6 DEF n

-----------------------------------------------------------------------------
(* The ranks                                                               *)

LEMMA MaxOf ==
  ASSUME NEW n \in Nat, NEW T, T \subseteq 1 .. n, T # {}
  PROVE  Max(T) \in T /\ \A m \in T : m <= Max(T)
<1> DEFINE D == {n - m : m \in T}
<1>1. D \subseteq Nat /\ D # {}
  <2>1. \A m \in T : n - m \in Nat
    OBVIOUS
  <2> QED BY <2>1
<1> HIDE DEF D
<1>2. PICK d \in D : \A e \in D : d <= e
  BY <1>1, LeastNumber
<1>3. PICK x \in T : d = n - x
  BY DEF D
<1>4. ASSUME NEW m \in T
      PROVE  x >= m
  <2>1. n - m \in D /\ m \in Int /\ x \in Int
    BY DEF D
  <2> QED BY <1>2, <1>3, <2>1
<1>5. Max(T) \in T /\ \A m \in T : Max(T) >= m
  BY <1>4 DEF Max
<1>6. \A m \in T : m \in Int
  OBVIOUS
<1> QED BY <1>5, <1>6

(* A group of participants with one rank: it opens at position j, and no   *)
(* position after j up to i opens another.                                 *)
LEMMA OneGroup ==
  ASSUME NEW scores \in [Users -> ScoreType], NEW n \in Nat,
         NEW s \in [1 .. n -> Users],
         NEW j \in 1 .. n, NEW i \in j .. n,
         \A k \in j + 1 .. i : Tie(scores[s[k - 1]], scores[s[k]])
  PROVE  Tie(scores[s[j]], scores[s[i]])
<1> DEFINE N == {d \in Nat : j + d <= i => Tie(scores[s[j]], scores[s[j + d]])}
<1>1. 0 \in N
  BY DEF Tie
<1>2. ASSUME NEW d \in Nat, d \in N
      PROVE  d + 1 \in N
  <2>1. CASE j + (d + 1) <= i
    <3>1. /\ j + d <= i /\ j + (d + 1) \in j + 1 .. i /\ (j + (d + 1)) - 1 = j + d
      BY <2>1
    <3>2. Tie(scores[s[j]], scores[s[j + d]]) /\ Tie(scores[s[j + d]], scores[s[j + (d + 1)]])
      BY <1>2, <3>1
    <3> QED BY <3>2 DEF Tie
  <2> QED BY <2>1
<1> HIDE DEF N
<1>3. \A d \in Nat : d \in N
  BY <1>1, <1>2, EveryNumber
<1>4. i - j \in Nat /\ j + (i - j) = i
  OBVIOUS
<1>5. i - j \in N
  BY <1>3, <1>4
<1> QED BY <1>4, <1>5 DEF N

(* Whoever is ahead of the group that opens at j stands before j.          *)
LEMMA AheadOfTheGroup ==
  ASSUME NEW scores \in [Users -> ScoreType], NEW n \in Nat,
         NEW s \in [1 .. n -> Users], InOrder(s, scores),
         \A u \in Users : \E k \in 1 .. n : s[k] = u,
         NEW j \in 1 .. n, j = 1 \/ ~Tie(scores[s[j - 1]], scores[s[j]])
  PROVE  Cardinality({v \in Users : Before(scores[v], scores[s[j]])}) = j - 1
<1> DEFINE Ahead == {v \in Users : Before(scores[v], scores[s[j]])}
           f == [k \in 1 .. j - 1 |-> s[k]]
<1>1. \A k \in 1 .. n : s[k] \in Users /\ scores[s[k]] \in ScoreType
  OBVIOUS
<1>2. \A k, l \in 1 .. n : k < l => s[k] # s[l] /\ ~Before(scores[s[l]], scores[s[k]])
  BY DEF InOrder
<1>3. ASSUME NEW k \in 1 .. j - 1
      PROVE  Before(scores[s[k]], scores[s[j]])
  <2>1. j - 1 \in 1 .. n /\ j - 1 < j /\ k \in 1 .. n /\ (k < j - 1 \/ k = j - 1) /\ j # 1
    OBVIOUS
  <2>2. Before(scores[s[j - 1]], scores[s[j]])
    BY <1>1, <1>2, <2>1, BeforeIsAnOrder
  <2>3. ~Before(scores[s[j - 1]], scores[s[k]])
    BY <1>1, <1>2, <2>1, BeforeIsAnOrder
  <2> QED BY <1>1, <2>1, <2>2, <2>3, BeforeIsAnOrder
<1>4. ASSUME NEW v \in Ahead
      PROVE  \E k \in 1 .. j - 1 : f[k] = v
  <2>0. v \in Users /\ Before(scores[v], scores[s[j]])
    BY <1>4
  <2>1. PICK k \in 1 .. n : s[k] = v
    BY <2>0
  <2>2. ~(k = j) /\ ~(j < k)
    BY <1>1, <1>2, <2>0, <2>1, BeforeIsAnOrder
  <2>3. k \in 1 .. j - 1
    BY <2>2
  <2> QED BY <2>1, <2>3
<1>5. f \in [1 .. j - 1 -> Ahead]
  BY <1>1, <1>3
<1>6. \A k, l \in 1 .. j - 1 : f[k] = f[l] => k = l
  <2> SUFFICES ASSUME NEW k \in 1 .. j - 1, NEW l \in 1 .. j - 1, s[k] = s[l]
               PROVE  k = l
    OBVIOUS
  <2>1. k \in 1 .. n /\ l \in 1 .. n /\ (k = l \/ k < l \/ l < k)
    OBVIOUS
  <2> QED BY <1>2, <2>1
<1> HIDE DEF f, Ahead
<1>7. f \in Injection(1 .. j - 1, Ahead) /\ f \in Surjection(1 .. j - 1, Ahead)
  BY <1>4, <1>5, <1>6 DEF Injection, Surjection, IsInjective
<1>8. ExistsBijection(1 .. j - 1, Ahead)
  BY <1>7 DEF ExistsBijection, Bijection
<1>9. IsFiniteSet(1 .. j - 1) /\ Cardinality(1 .. j - 1) = j - 1
  <2>1. 1 \in Int /\ j - 1 \in Int /\ j - 1 >= 0
    OBVIOUS
  <2>2. Cardinality(1 .. j - 1) = IF 1 > j - 1 THEN 0 ELSE (j - 1) - 1 + 1
    BY <2>1, FS_Interval
  <2>3. IsFiniteSet(1 .. j - 1)
    BY <2>1, FS_Interval
  <2> QED BY <2>1, <2>2, <2>3
<1> QED BY <1>8, <1>9, FS_Bijection DEF Ahead

(* calculate_contest_scores and _assign_ranks give fair ranks to every set  *)
(* of scores, although the latter compares neighbours only: a rank counts   *)
(* who is strictly ahead. The order in which the query returned those who   *)
(* tie, which Sorted leaves open, makes no difference.                      *)
THEOREM RanksDependOnScoresOnly ==
  ASSUME NEW scores \in [Users -> ScoreType]
  PROVE  IsBoard(Ranked(scores)) /\ IsFair(Ranked(scores)) /\ Ranked(scores).score = scores
<1> DEFINE s == Sorted(scores)
           n == Cardinality(Users)
           opens(i) == i = 1 \/ ~Tie(scores[s[i - 1]], scores[s[i]])
           at(u) == CHOOSE k \in DOMAIN s : s[k] = u
           Opens(i) == {j \in 1 .. i : opens(j)}
<1>0. n \in Nat
  BY FinitenessAssumption, FS_CardinalityType
<1>1. /\ s \in [1 .. n -> Users] /\ InOrder(s, scores)
      /\ \A u \in Users : \E k \in 1 .. n : s[k] = u
  BY SortedIsInOrder
<1>2. \A u \in Users : AssignRanks(scores)[u] = Max(Opens(at(u)))
  BY DEF AssignRanks
<1>3. DOMAIN AssignRanks(scores) = Users
  BY DEF AssignRanks
<1> HIDE DEF s, n
<1>4. ASSUME NEW u \in Users
      PROVE  /\ AssignRanks(scores)[u] \in 1 .. n
             /\ AssignRanks(scores)[u]
                  = 1 + Cardinality({v \in Users : Before(scores[v], scores[u])})
  <2> DEFINE i == at(u)
             j == Max(Opens(i))
  <2>1. i \in 1 .. n /\ s[i] = u
    BY <1>1
  <2> HIDE DEF i
  <2>2. Opens(i) \subseteq 1 .. i /\ 1 \in Opens(i) /\ i \in Nat
    BY <1>0, <2>1
  <2>3. j \in Opens(i) /\ \A m \in Opens(i) : m <= j
    <3> HIDE DEF Opens
    <3> QED BY <2>2, MaxOf
  <2> HIDE DEF j
  <2>4. j \in 1 .. n /\ i \in j .. n /\ opens(j)
    BY <1>0, <2>1, <2>3
  <2>5. ASSUME NEW k \in j + 1 .. i
        PROVE  Tie(scores[s[k - 1]], scores[s[k]])
    <3>1. k \in 1 .. i /\ ~(k <= j)
      BY <2>4, <2>1, <1>0
    <3>2. k \notin Opens(i)
      <4> HIDE DEF Opens
      <4> QED BY <2>3, <3>1
    <3> QED BY <3>1, <3>2
  <2> HIDE DEF opens
  <2>6. Tie(scores[s[j]], scores[u])
    BY <1>0, <1>1, <2>1, <2>4, <2>5, OneGroup
  <2>7. Cardinality({v \in Users : Before(scores[v], scores[s[j]])}) = j - 1
    BY <1>0, <1>1, <2>4, AheadOfTheGroup DEF opens
  <2>8. {v \in Users : Before(scores[v], scores[s[j]])}
          = {v \in Users : Before(scores[v], scores[u])}
    <3>1. scores[s[j]] \in ScoreType /\ \A v \in Users : scores[v] \in ScoreType
      BY <1>1, <2>4
    <3> QED BY <2>6, <3>1, BeforeIsAnOrder
  <2>9. AssignRanks(scores)[u] = j
    BY <1>2 DEF i, j
  <2> QED BY <2>4, <2>7, <2>8, <2>9
<1>5. Ranked(scores).score = scores /\ Ranked(scores).rank = AssignRanks(scores)
  BY DEF Ranked
<1>6. AssignRanks(scores) \in [Users -> 1 .. n]
  <2>1. AssignRanks(scores) = [u \in Users |-> AssignRanks(scores)[u]]
    BY DEF AssignRanks
  <2> QED BY <1>4, <2>1
<1> QED BY <1>4, <1>5, <1>6 DEF IsBoard, IsFair, n

KnownRequests ==
  \A c \in Clients :
    /\ req[c].phase \in {"idle", "lookup", "compute", "answered", "error"}
    /\ req[c].phase = "compute" =>
         /\ DOMAIN req[c].results \subseteq Queries
         /\ \A q \in DOMAIN req[c].results : req[c].results[q] \in ResultType
    /\ req[c].phase = "answered" => IsBoard(req[c].board) /\ IsFair(req[c].board)
StoredBoards ==
  \A k \in Keys : Cached(k) =>
    /\ IsBoard(cache[k].board) /\ IsFair(cache[k].board)
    /\ cache[k].ttl <= EndedTtl + OngoingTtl
Recorded ==
  /\ now \in 0 .. End /\ invalidating \in Nat
  /\ judgings \in 0 .. MaxJudgings /\ redisErrors \in 0 .. MaxRedisErrors
  /\ subs \in [Queries -> Seq(SubmissionType)]

LEMMA BoardsInvParts == BoardsInv <=> Recorded /\ KnownRequests /\ StoredBoards
BY DEF BoardsInv, CacheTypeOK, RanksAreFair, Recorded, KnownRequests, StoredBoards

LEMMA BoardsInit ==
  ASSUME CacheInit
  PROVE  BoardsInv
<1>1. Recorded
  <2>1. \A q \in Queries : <<>> \in Seq(SubmissionType)
    OBVIOUS
  <2> QED BY <2>1, TimeAssumption, BoundsAssumption DEF CacheInit, Recorded
<1>2. KnownRequests /\ StoredBoards
  BY DEF CacheInit, KnownRequests, StoredBoards, NoRequest, NoEntry, Cached
<1> QED BY <1>1, <1>2, BoardsInvParts

(* What a verdict or a task that starts does to a submission. *)
LEMMA StatusHasType ==
  ASSUME Recorded, NEW q \in Queries, NEW i \in DOMAIN subs[q],
         NEW st \in Final \cup {"PENDING"}, SetStatus(q, i, st)
  PROVE  subs' \in [Queries -> Seq(SubmissionType)]
<1> DEFINE s == subs[q]
           new == [s[i] EXCEPT !.status = st]
<1>1. s \in Seq(SubmissionType) /\ s[i] \in SubmissionType /\ i \in 1 .. Len(s)
  BY DEF Recorded
<1>2. subs' = [subs EXCEPT ![q] = [s EXCEPT ![i] = new]]
  BY DEF SetStatus
<1>3. new \in SubmissionType
  BY <1>1 DEF SubmissionType
<1> HIDE DEF new, s
<1>4. [s EXCEPT ![i] = new] \in Seq(SubmissionType)
  BY <1>1, <1>3
<1> QED BY <1>2, <1>4 DEF Recorded, s

LEMMA StepKeepsRecord ==
  ASSUME Recorded, [CacheNext]_cacheVars
  PROVE  Recorded'
<1>1. ASSUME NEW q \in Queries, Submit(q)
      PROVE  Recorded'
  <2> DEFINE new == [minute |-> now - Start, status |-> "PENDING"]
  <2>1. new \in SubmissionType
    BY <1>1, TimeAssumption DEF Submit, Recorded, SubmissionType
  <2>2. Append(subs[q], new) \in Seq(SubmissionType)
    BY <2>1 DEF Recorded
  <2>3. subs' \in [Queries -> Seq(SubmissionType)]
    BY <1>1, <2>2 DEF Submit, Recorded
  <2> QED BY <1>1, <2>3 DEF Submit, Recorded
<1>2. ASSUME NEW q \in Queries, NEW i \in DOMAIN subs[q], StartJudging(q, i) \/ Conclude(q, i)
      PROVE  Recorded'
  <2>1. \E st \in Final \cup {"PENDING"} : SetStatus(q, i, st)
    BY <1>2 DEF StartJudging, Conclude, Final
  <2>2. subs' \in [Queries -> Seq(SubmissionType)]
    BY <2>1, StatusHasType
  <2>3. judgings' \in 0 .. MaxJudgings /\ invalidating' \in Nat
    BY <1>2, BoundsAssumption DEF StartJudging, Conclude, Recorded
  <2>4. now' = now /\ redisErrors' = redisErrors
    BY <1>2 DEF StartJudging, Conclude
  <2> QED BY <2>2, <2>3, <2>4 DEF Recorded
<1>3. CASE Invalidate
  BY <1>3, BoundsAssumption DEF Invalidate, RedisFails, Recorded
<1>4. CASE Tick
  BY <1>4, TimeAssumption DEF Tick, Recorded
<1>5. ASSUME NEW c \in Clients, (\E admin \in BOOLEAN : Begin(c, admin)) \/ RequestStep(c)
      PROVE  Recorded'
  <2>1. subs' = subs /\ now' = now /\ judgings' = judgings /\ invalidating' = invalidating
    BY <1>5 DEF Begin, RequestStep, Lookup, ReadSubmissions, Finish
  <2>2. redisErrors' = redisErrors \/ RedisFails
    BY <1>5 DEF Begin, RequestStep, Lookup, ReadSubmissions, Finish
  <2>3. redisErrors' \in 0 .. MaxRedisErrors
    BY <2>2, BoundsAssumption DEF RedisFails, Recorded
  <2> QED BY <2>1, <2>3 DEF Recorded
<1>6. CASE UNCHANGED cacheVars
  BY <1>6 DEF cacheVars, Recorded
<1> QED BY <1>1, <1>2, <1>3, <1>4, <1>5, <1>6 DEF CacheNext

(* The query made next is one that is left. *)
LEMMA NextReadIsUnread ==
  ASSUME NEW c \in Clients, Unread(c) # {}
  PROVE  NextRead(c) \in Unread(c)
<1> DEFINE left(u) == Cardinality({p \in Problems : <<u, p>> \in Unread(c)})
           L == {left(q[1]) : q \in Unread(c)}
<1>1. \A u : left(u) \in Nat
  BY FinitenessAssumption, FS_Subset, FS_CardinalityType
<1> HIDE DEF left
<1>2. PICK n \in L : \A m \in L : n <= m
  <2>1. L \subseteq Nat /\ L # {}
    BY <1>1
  <2> HIDE DEF L
  <2> QED BY <2>1, LeastNumber
<1>3. \E r \in Unread(c) : \A q \in Unread(c) : left(r[1]) <= left(q[1])
  BY <1>2
<1> QED BY <1>3 DEF NextRead, left

(* The board of a request that has read everything. *)
LEMMA FinishedBoardIsFair ==
  ASSUME KnownRequests, NEW c \in Clients, req[c].phase = "compute", Unread(c) = {}
  PROVE  LET result(u) == [p \in Problems |-> req[c].results[<<u, p>>]]
             board     == Ranked([u \in Users |-> AcmScore(result(u))])
         IN  IsBoard(board) /\ IsFair(board)
<1> DEFINE result(u) == [p \in Problems |-> req[c].results[<<u, p>>]]
           scores == [u \in Users |-> AcmScore(result(u))]
<1>1. ASSUME NEW u \in Users
      PROVE  AcmScore(result(u)) \in ScoreType
  <2>1. \A p \in Problems : <<u, p>> \in DOMAIN req[c].results
    BY DEF Unread, Queries
  <2>2. \A p \in Problems : result(u)[p] \in ResultType
    BY <2>1 DEF KnownRequests
  <2> HIDE DEF result
  <2> QED BY <2>2, ScoreHasType
<1>2. scores \in [Users -> ScoreType]
  BY <1>1
<1> HIDE DEF scores
<1> QED BY <1>2, RanksDependOnScoresOnly DEF scores

LEMMA RequestsSufficeForBoards ==
  ASSUME KnownRequests, NEW c \in Clients, NEW r, DOMAIN req = Clients,
         req' = [req EXCEPT ![c] = r],
         r.phase \in {"lookup", "compute", "answered", "error"},
         r.phase = "compute" =>
           /\ DOMAIN r.results \subseteq Queries
           /\ \A q \in DOMAIN r.results : r.results[q] \in ResultType,
         r.phase = "answered" => IsBoard(r.board) /\ IsFair(r.board)
  PROVE  KnownRequests'
<1>1. \A d \in Clients : req'[d] = IF d = c THEN r ELSE req[d]
  OBVIOUS
<1> QED BY <1>1 DEF KnownRequests, IsBoard, IsFair, Queries

LEMMA RequestKeepsRequests ==
  ASSUME AudienceInv, Recorded, KnownRequests, StoredBoards, NEW c \in Clients,
         (\E admin \in BOOLEAN : Begin(c, admin)) \/ RequestStep(c)
  PROVE  KnownRequests'
<1>0. DOMAIN req = Clients
  BY DEF AudienceInv
<1>1. ASSUME NEW admin \in BOOLEAN, Begin(c, admin)
      PROVE  KnownRequests'
  <2> DEFINE r == [phase |-> "lookup", frozen |-> ShouldFreeze(admin)]
  <2>1. req' = [req EXCEPT ![c] = r]
    BY <1>1 DEF Begin
  <2>2. r.phase = "lookup"
    OBVIOUS
  <2> HIDE DEF r
  <2> QED BY <1>0, <2>1, <2>2, RequestsSufficeForBoards
<1>2. CASE Lookup(c)
  <2> DEFINE k == KeyOf(req[c].frozen)
  <2>1. CASE Cached(k) /\ Answer(c, cache[k].board, cache[k].isFrozen)
    <3> DEFINE r == [phase |-> "answered", frozen |-> req[c].frozen,
                     board |-> cache[k].board, isFrozen |-> cache[k].isFrozen]
    <3>1. req' = [req EXCEPT ![c] = r]
      BY <2>1 DEF Answer
    <3>2. k \in Keys
      BY DEF KeyOf, Keys
    <3>3. r.phase = "answered" /\ r.board = cache[k].board
      OBVIOUS
    <3> HIDE DEF r, k
    <3>4. IsBoard(r.board) /\ IsFair(r.board)
      BY <2>1, <3>2, <3>3 DEF StoredBoards
    <3> QED BY <1>0, <3>1, <3>3, <3>4, RequestsSufficeForBoards
  <2>2. CASE req' = [req EXCEPT ![c] = Computing(c, <<>>)]
    <3> DEFINE r == Computing(c, <<>>)
    <3>1. r.phase = "compute" /\ r.results = <<>>
      BY DEF Computing
    <3>2. req' = [req EXCEPT ![c] = r]
      BY <2>2
    <3>3. /\ DOMAIN r.results \subseteq Queries
          /\ \A q \in DOMAIN r.results : r.results[q] \in ResultType
      <4>1. DOMAIN <<>> = {}
        OBVIOUS
      <4> QED BY <3>1, <4>1
    <3> HIDE DEF r
    <3> QED BY <1>0, <3>1, <3>2, <3>3, RequestsSufficeForBoards
  <2> QED BY <1>2, <2>1, <2>2 DEF Lookup
<1>3. CASE ReadSubmissions(c)
  <2>1. CASE Rule = "IOI"
    <3> DEFINE r == [phase |-> "error"]
    <3>1. req' = [req EXCEPT ![c] = r] /\ r.phase = "error"
      BY <1>3, <2>1 DEF ReadSubmissions
    <3> HIDE DEF r
    <3> QED BY <1>0, <3>1, RequestsSufficeForBoards
  <2>2. CASE Rule # "IOI"
    <3> DEFINE n == NextRead(c)
               read == req[c].results
               results == [q \in DOMAIN read \cup {n} |->
                             IF q = n THEN AcmResult(subs[n]) ELSE read[q]]
               r == Computing(c, results)
    <3>1. req' = [req EXCEPT ![c] = r]
      BY <1>3, <2>2 DEF ReadSubmissions
    <3>2. n \in Queries
      BY <1>3, NextReadIsUnread DEF ReadSubmissions, Unread
    <3>3. AcmResult(subs[n]) \in ResultType
      <4> HIDE DEF n
      <4> QED BY <3>2, PenaltiesEndInTime DEF Recorded
    <3> HIDE DEF n
    <3>4. /\ DOMAIN read \subseteq Queries
          /\ \A q \in DOMAIN read : read[q] \in ResultType
      BY <1>3 DEF ReadSubmissions, KnownRequests
    <3>5. /\ DOMAIN results \subseteq Queries
          /\ \A q \in DOMAIN results : results[q] \in ResultType
      BY <3>2, <3>3, <3>4
    <3> HIDE DEF results
    <3>6. r.phase = "compute" /\ r.results = results
      BY DEF Computing
    <3> HIDE DEF r
    <3> QED BY <1>0, <3>1, <3>5, <3>6, RequestsSufficeForBoards
  <2> QED BY <2>1, <2>2
<1>4. CASE Finish(c)
  <2>1. PICK board :
          IsBoard(board) /\ IsFair(board) /\ Answer(c, board, req[c].frozen)
    BY <1>4, FinishedBoardIsFair DEF Finish
  <2> DEFINE r == [phase |-> "answered", frozen |-> req[c].frozen,
                   board |-> board, isFrozen |-> req[c].frozen]
  <2>2. req' = [req EXCEPT ![c] = r]
    BY <2>1 DEF Answer
  <2>3. r.phase = "answered" /\ r.board = board
    OBVIOUS
  <2> HIDE DEF r
  <2> QED BY <1>0, <2>1, <2>2, <2>3, RequestsSufficeForBoards
<1> QED BY <1>1, <1>2, <1>3, <1>4 DEF RequestStep

LEMMA StoredBoard ==
  ASSUME AudienceInv, NEW c \in Clients, NEW board, NEW key \in Keys, Store(c, key, board)
  PROVE  \A k \in Keys :
           \/ cache'[k] = cache[k]
           \/ cache'[k].board = board /\ cache'[k].ttl \in {OngoingTtl, EndedTtl}
<1> DEFINE ttl == IF Start <= now /\ now < End THEN OngoingTtl ELSE EndedTtl
           new == [ttl |-> ttl, board |-> board, isFrozen |-> req[c].frozen,
                   excused |-> board.score # Current]
<1>1. cache' = [cache EXCEPT ![key] = new]
  BY DEF Store
<1>2. new.board = board /\ new.ttl \in {OngoingTtl, EndedTtl}
  OBVIOUS
<1> HIDE DEF new
<1> QED BY <1>1, <1>2 DEF AudienceInv

LEMMA StepKeepsBoards ==
  ASSUME AudienceInv, KnownRequests, StoredBoards, [CacheNext]_cacheVars
  PROVE  StoredBoards'
<1>0. ASSUME NEW k \in Keys
      PROVE  cache[k].ttl \in Nat /\ EntryOf(cache[k], k)
  BY DEF AudienceInv, EntryOf
<1>1. CASE cache' = cache
  BY <1>1 DEF StoredBoards, Cached, IsBoard, IsFair
<1>2. CASE cache' = Excuse(cache)
  <2>1. ASSUME NEW k \in Keys, Cached(k)'
        PROVE  Cached(k) /\ cache'[k].board = cache[k].board /\ cache'[k].ttl = cache[k].ttl
    <3>1. cache'[k] = IF cache[k].ttl > 0 THEN [cache[k] EXCEPT !.excused = TRUE] ELSE cache[k]
      BY <1>2 DEF Excuse
    <3>2. cache[k].ttl > 0 => /\ [cache[k] EXCEPT !.excused = TRUE].ttl = cache[k].ttl
                              /\ [cache[k] EXCEPT !.excused = TRUE].board = cache[k].board
      BY <1>0 DEF EntryOf
    <3> QED BY <2>1, <3>1, <3>2 DEF Cached
  <2> QED BY <2>1 DEF StoredBoards, IsBoard, IsFair
<1>3. CASE cache' = [k \in Keys |-> NoEntry]
  BY <1>3, ClearKeepsEntries DEF StoredBoards
<1>4. CASE Tick
  <2>1. ASSUME NEW k \in Keys, Cached(k)'
        PROVE  /\ Cached(k) /\ cache'[k].board = cache[k].board
               /\ cache'[k].ttl = cache[k].ttl - 1 /\ cache[k].ttl \in Nat
    <3>1. cache'[k] = IF cache[k].ttl > 1 THEN [cache[k] EXCEPT !.ttl = @ - 1] ELSE NoEntry
      BY <1>4 DEF Tick
    <3>2. cache[k].ttl > 1
      BY <2>1, <3>1, EmptyEntry DEF Cached
    <3>3. /\ [cache[k] EXCEPT !.ttl = @ - 1].ttl = cache[k].ttl - 1
          /\ [cache[k] EXCEPT !.ttl = @ - 1].board = cache[k].board
      BY <1>0, <3>2 DEF EntryOf
    <3> QED BY <1>0, <3>1, <3>2, <3>3 DEF Cached
  <2>2. EndedTtl + OngoingTtl \in Nat
    BY TtlAssumption DEF OngoingTtl
  <2> QED BY <2>1, <2>2 DEF StoredBoards, IsBoard, IsFair
<1>5. ASSUME NEW c \in Clients, Finish(c)
      PROVE  StoredBoards'
  <2>1. PICK board :
          /\ IsBoard(board) /\ IsFair(board)
          /\ Store(c, KeyOf(req[c].frozen), board) \/ cache' = cache
    BY <1>5, FinishedBoardIsFair DEF Finish
  <2>2. CASE Store(c, KeyOf(req[c].frozen), board)
    <3>1. KeyOf(req[c].frozen) \in Keys
      BY DEF KeyOf, Keys
    <3>2. \A k \in Keys :
            \/ cache'[k] = cache[k]
            \/ cache'[k].board = board /\ cache'[k].ttl \in {OngoingTtl, EndedTtl}
      BY <2>2, <3>1, StoredBoard
    <3>3. ASSUME NEW k \in Keys, Cached(k)'
          PROVE  /\ IsBoard(cache'[k].board) /\ IsFair(cache'[k].board)
                 /\ cache'[k].ttl <= EndedTtl + OngoingTtl
      <4>1. CASE cache'[k] = cache[k]
        BY <3>3, <4>1 DEF StoredBoards, Cached
      <4>2. CASE cache'[k].board = board /\ cache'[k].ttl \in {OngoingTtl, EndedTtl}
        BY <2>1, <4>2, TtlAssumption DEF OngoingTtl
      <4> QED BY <3>2, <4>1, <4>2
    <3> QED BY <3>3 DEF StoredBoards, IsBoard, IsFair
  <2> QED BY <1>1, <2>1, <2>2
<1> QED BY <1>1, <1>2, <1>3, <1>4, <1>5
     DEF CacheNext, cacheVars, Submit, StartJudging, Conclude, Invalidate, Begin, RequestStep,
         Lookup, ReadSubmissions

(* Every board in the cache or in an answer is fair, whatever was judged,  *)
(* in which order, between the queries it was computed from.               *)
THEOREM SpecKeepsBoardsInv == CacheSpec => []BoardsInv
<1>1. CacheInit => BoardsInv
  BY BoardsInit
<1>2. ASSUME AudienceInv, BoardsInv, [CacheNext]_cacheVars
      PROVE  BoardsInv'
  <2>1. Recorded /\ KnownRequests /\ StoredBoards
    BY <1>2, BoardsInvParts
  <2>2. KnownRequests'
    <3>1. CASE req' = req
      BY <2>1, <3>1 DEF KnownRequests, IsBoard, IsFair, Queries
    <3>2. CASE \E c \in Clients : (\E admin \in BOOLEAN : Begin(c, admin)) \/ RequestStep(c)
      BY <1>2, <2>1, <3>2, RequestKeepsRequests
    <3> QED BY <1>2, <3>1, <3>2
         DEF CacheNext, cacheVars, Submit, StartJudging, Conclude, Invalidate, Tick
  <2>3. Recorded' /\ StoredBoards'
    BY <1>2, <2>1, StepKeepsRecord, StepKeepsBoards
  <2> QED BY <2>2, <2>3 DEF BoardsInv, CacheTypeOK, RanksAreFair, Recorded, KnownRequests, StoredBoards
<1> QED BY <1>1, <1>2, SpecKeepsAudienceInv, PTL DEF CacheSpec

(* Boards are computed right: their parts have their types, ties share a   *)
(* rank, and a penalty ends at the first accepted submission.              *)
THEOREM EveryBoardIsFair == CacheSpec => []BoardsAreFair
<1>1. BoardsInv => BoardsAreFair
  <2>1. BoardsInv => \A q \in Queries : subs[q] \in Seq(SubmissionType)
    BY DEF BoardsInv, CacheTypeOK
  <2>2. BoardsInv => PenaltyStopsAtFirstAccepted
    BY <2>1, PenaltiesEndInTime DEF PenaltyStopsAtFirstAccepted
  <2> QED BY <2>2 DEF BoardsInv, BoardsAreFair
<1> QED BY <1>1, SpecKeepsBoardsInv, PTL
=============================================================================
