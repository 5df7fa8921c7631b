---------------------------- MODULE Leaderboard ----------------------------
(***************************************************************************)
(* The scoreboard page of a contest (ScoreboardPage), its query            *)
(* (useScoreboard), the hook that subscribes to updates                    *)
(* (useScoreboardWebSocket) and the socket they share (api/websocket.ts).  *)
(*                                                                         *)
(* A board is known by its contest and its version.  The server keeps the  *)
(* contract that the client is written against: a subscription joins the   *)
(* contest's room for as long as the connection lasts, and a new version   *)
(* is sent to the room, wrapped as handleScoreboardUpdate expects it.  The *)
(* backend has neither a handler for 'subscribe:scoreboard' nor a caller   *)
(* of emit_scoreboard_update: with it, Publish reaches nobody.  It handles *)
(* no unsubscription under any name, so that a room is left only by        *)
(* disconnecting.                                                          *)
(*                                                                         *)
(* React renders the page after each change of its state or its query; a   *)
(* change of the socket alone renders nothing.                             *)
(***************************************************************************)
EXTENDS Integers, Sequences, FiniteSets

CONSTANTS
    Contests,
    MaxReconnects,   \* maxReconnectAttempts (5 in the code)
    MaxVersion,      \* bound on the versions of a board
    MaxFaults        \* bound on lost connections and failed fetches

ASSUME LeaderboardAssumption ==
    /\ MaxReconnects \in Nat
    /\ MaxVersion \in Nat
    /\ MaxFaults \in Nat

VARIABLES
    version,    \* version[c]: the board of the contest, on the server
    query,      \* query[c]: the query ['scoreboard', c]
    page,       \* {} or {the contest whose scoreboard is on screen}
    shown,      \* the page's scoreboard state (and prevRanksRef): {} or {a board}
    flashed,    \* whether rows flash (flashedRows)
    timers,     \* timeouts that will end the flash, started and not yet fired
    socket,     \* wsClient.socket
    attempts,   \* wsClient.reconnectAttempts
    seen,       \* isConnected as of the page's last render
    handler,    \* {} or {the contest subscribed to}: scoreboard:update on the socket
    rooms,      \* rooms[c]: {} or {the version when this connection joined}
    wire,       \* updates under way to the client
    overtaken,  \* the answer to a fetch replaced a newer board
    switched,   \* the page went from one contest to another and was not unmounted
    faults

vars == <<version, query, page, shown, flashed, timers, socket, attempts, seen,
          handler, rooms, wire, overtaken, switched, faults>>

Versions == 0..MaxVersion
Board == [of : Contests, v : Versions]
Slot(S) == {{}} \union {{x} : x \in S}

Query == [data : Slot(Versions), error : BOOLEAN, flight : Slot(Versions)]
NoQuery == [data |-> {}, error |-> FALSE, flight |-> {}]

(* none: socket = null; open: connecting; up: connected; down: waiting to  *)
(* reconnect; dead: the attempts are used up.                              *)
SocketStates == {"none", "open", "up", "down", "dead"}

Init ==
    /\ version = [c \in Contests |-> 0]
    /\ query = [c \in Contests |-> NoQuery]
    /\ page = {}
    /\ shown = {}
    /\ flashed = FALSE
    /\ timers = 0
    /\ socket = "none"
    /\ attempts = 0
    /\ seen = FALSE
    /\ handler = {}
    /\ rooms = [c \in Contests |-> {}]
    /\ wire = <<>>
    /\ overtaken = FALSE
    /\ switched = FALSE
    /\ faults = 0

NoRooms == [c \in Contests |-> {}]

(***************************************************************************)
(* A render of the page on contest c: the hook reads isConnected, and its  *)
(* effect unsubscribes and subscribes when that or the contest changed.    *)
(***************************************************************************)
Render(c) ==
    /\ seen' = (socket = "up")
    /\ handler' = IF socket = "up" THEN {c} ELSE {}
    /\ rooms' = IF socket = "up" /\ (~seen \/ handler # {c}) /\ rooms[c] = {}
                THEN [rooms EXCEPT ![c] = {version[c]}] ELSE rooms

NoRender == UNCHANGED <<seen, handler, rooms>>

(***************************************************************************)
(* The query.                                                              *)
(***************************************************************************)
Fetch(c) ==
    IF query[c].flight # {} THEN query
    ELSE [query EXCEPT ![c].flight = {version[c]},
                       ![c].error = @ /\ query[c].data # {}]

(* The effect on initialScoreboard: the board that the query brings        *)
(* replaces the one on screen, whatever that is.  Data that did not change *)
(* is the same object and has no effect.                                   *)
FromQuery(c, q) ==
    shown' = IF q[c].data = {} THEN shown ELSE {[of |-> c, v |-> v] : v \in q[c].data}

(* Mutation: an answer is shown on whatever scoreboard is open by now.     *)
ArriveAnywhere(c) ==
    /\ query[c].flight # {}
    /\ query' = [query EXCEPT ![c] = [NoQuery EXCEPT !.data = query[c].flight]]
    /\ IF page = {} THEN NoRender /\ UNCHANGED <<shown, overtaken>>
       ELSE (\E p \in page : Render(p)) /\ FromQuery(c, query') /\ UNCHANGED overtaken
    /\ UNCHANGED <<version, page, flashed, timers, socket, attempts, wire,
                   switched, faults>>

Arrive(c) ==
    /\ query[c].flight # {}
    /\ query' = [query EXCEPT ![c] = [NoQuery EXCEPT !.data = query[c].flight]]
    /\ IF page # {c} THEN NoRender /\ UNCHANGED <<shown, overtaken>>
       ELSE /\ Render(c)
            /\ IF query[c].flight = query[c].data THEN UNCHANGED shown
               ELSE FromQuery(c, query')
            /\ overtaken' = (overtaken \/ \E b \in shown, d \in shown' :
                                             b.of = d.of /\ d.v < b.v)
    /\ UNCHANGED <<version, page, flashed, timers, socket, attempts, wire,
                   switched, faults>>

FetchFails(c) ==
    /\ query[c].flight # {}
    /\ faults < MaxFaults
    /\ faults' = faults + 1
    /\ query' = [query EXCEPT ![c].flight = {}, ![c].error = TRUE]
    /\ IF page = {c} THEN Render(c) ELSE NoRender
    /\ UNCHANGED <<version, page, shown, flashed, timers, socket, attempts, wire,
                   overtaken, switched>>

(* The browser is back online: what is older than 30 seconds is fetched.   *)
Refetch(c) ==
    /\ page = {c}
    /\ query[c].flight = {}
    /\ query' = Fetch(c)
    /\ Render(c)
    /\ UNCHANGED <<version, page, shown, flashed, timers, socket, attempts, wire,
                   overtaken, switched, faults>>

(* gcTime: ten minutes after the page.                                     *)
Forget(c) ==
    /\ page # {c}
    /\ query[c].flight = {} /\ query[c] # NoQuery
    /\ query' = [query EXCEPT ![c] = NoQuery]
    /\ NoRender
    /\ UNCHANGED <<version, page, shown, flashed, timers, socket, attempts, wire,
                   overtaken, switched, faults>>

(***************************************************************************)
(* The user.                                                               *)
(***************************************************************************)

(* A query is fetched by the page that mounts it unless it is fresh.       *)
Load(c) ==
    \E old \in BOOLEAN : query' = IF old \/ query[c].data = {} THEN Fetch(c) ELSE query

(* The first render finds no socket; then the effects run, connect first.  *)
(* Without an access token there is nothing to connect with.               *)
Open(c) ==
    /\ page = {}
    /\ page' = {c}
    /\ Load(c)
    /\ FromQuery(c, query)
    /\ \E token \in BOOLEAN : socket' = IF token THEN "open" ELSE "none"
    /\ UNCHANGED <<version, flashed, timers, attempts, seen, handler, rooms, wire,
                   overtaken, switched, faults>>

(* The route stays, its parameter changes: the page keeps its state.       *)
Switch(c) ==
    /\ page # {} /\ page # {c}
    /\ page' = {c}
    /\ switched' = TRUE
    /\ Load(c)
    /\ FromQuery(c, query)
    /\ Render(c)
    /\ UNCHANGED <<version, flashed, timers, socket, attempts, wire, overtaken, faults>>

(* Mutation: the page unsubscribes but leaves the socket to others.        *)
CloseKeepingSocket ==
    /\ page # {}
    /\ page' = {}
    /\ shown' = {} /\ flashed' = FALSE /\ timers' = 0
    /\ seen' = FALSE /\ handler' = {}
    /\ overtaken' = FALSE /\ switched' = FALSE
    /\ UNCHANGED <<version, query, socket, attempts, rooms, wire, faults>>

(* Unmounting disconnects first: there is no socket left to unsubscribe.   *)
Close ==
    /\ page # {}
    /\ page' = {}
    /\ shown' = {} /\ flashed' = FALSE /\ timers' = 0
    /\ socket' = "none" /\ attempts' = 0
    /\ seen' = FALSE /\ handler' = {} /\ rooms' = NoRooms /\ wire' = <<>>
    /\ overtaken' = FALSE /\ switched' = FALSE
    /\ UNCHANGED <<version, query, faults>>

(* Typing in the search field renders the page and changes what is listed. *)
Type(c) ==
    /\ page = {c}
    /\ Render(c)
    /\ UNCHANGED <<version, query, page, shown, flashed, timers, socket, attempts,
                   wire, overtaken, switched, faults>>

(***************************************************************************)
(* The socket.                                                             *)
(***************************************************************************)
SocketOnly ==
    UNCHANGED <<version, query, page, shown, flashed, timers, seen, handler,
                overtaken, switched>>

Connect ==
    /\ socket \in {"open", "down"}
    /\ socket' = "up"
    /\ attempts' = 0
    /\ UNCHANGED <<rooms, wire, faults>>
    /\ SocketOnly

(* The connection is lost, and with it the rooms and what was under way;   *)
(* the handlers stay on the socket.                                        *)
Drop ==
    /\ socket = "up"
    /\ faults < MaxFaults
    /\ faults' = faults + 1
    /\ socket' = "down"
    /\ rooms' = NoRooms
    /\ wire' = <<>>
    /\ UNCHANGED attempts
    /\ SocketOnly

(* The first attempt is not a reconnection.                                *)
ConnectError ==
    /\ socket \in {"open", "down"}
    /\ faults < MaxFaults
    /\ faults' = faults + 1
    /\ attempts' = attempts + 1
    /\ socket' = IF attempts' > MaxReconnects \/ (socket = "down" /\ attempts' = MaxReconnects)
                 THEN "dead" ELSE socket
    /\ UNCHANGED <<rooms, wire>>
    /\ SocketOnly

(***************************************************************************)
(* Updates.                                                                *)
(***************************************************************************)
Publish(c) ==
    /\ version[c] < MaxVersion
    /\ version' = [version EXCEPT ![c] = @ + 1]
    /\ wire' = IF rooms[c] = {} THEN wire
               ELSE Append(wire, [of |-> c, v |-> version'[c]])
    /\ NoRender
    /\ UNCHANGED <<query, page, shown, flashed, timers, socket, attempts,
                   overtaken, switched, faults>>

(* handleScoreboardUpdate: the board replaces the one on screen; the rows  *)
(* whose rank changed flash, for as long as the first timeout that fires.  *)
Update(b) ==
    /\ shown' = {b}
    /\ \E moved \in IF \E a \in shown : a # b THEN BOOLEAN ELSE {FALSE} :
          /\ flashed' = moved
          /\ timers' = IF moved THEN timers + 1 ELSE timers

(* Mutation: updates that arrive while rows flash are ignored.             *)
ReceiveUnlessFlashing ==
    /\ wire # <<>>
    /\ wire' = Tail(wire)
    /\ IF handler = {} \/ flashed THEN NoRender /\ UNCHANGED <<shown, flashed, timers>>
       ELSE Update(Head(wire)) /\ \E c \in page : Render(c)
    /\ UNCHANGED <<version, query, page, socket, attempts, overtaken, switched, faults>>

Receive ==
    /\ wire # <<>>
    /\ wire' = Tail(wire)
    /\ IF handler = {} THEN NoRender /\ UNCHANGED <<shown, flashed, timers>>
       ELSE Update(Head(wire)) /\ \E c \in page : Render(c)
    /\ UNCHANGED <<version, query, page, socket, attempts, overtaken, switched, faults>>

(* setTimeout of 1.5 seconds.                                              *)
EndFlash ==
    /\ timers > 0
    /\ timers' = timers - 1
    /\ flashed' = FALSE
    /\ \E c \in page : Render(c)
    /\ UNCHANGED <<version, query, page, shown, socket, attempts, wire,
                   overtaken, switched, faults>>

Loading(c) == query[c].data = {} /\ query[c].flight # {}
Rankings(c) == IF Loading(c) THEN {} ELSE shown
SaysEmpty(c) == ~Loading(c) /\ shown = {}

Next ==
    \/ \E c \in Contests :
          \/ Arrive(c) \/ FetchFails(c) \/ Refetch(c) \/ Forget(c)
          \/ Open(c) \/ Switch(c) \/ Type(c)
          \/ Publish(c)
    \/ Close
    \/ Connect \/ Drop \/ ConnectError
    \/ Receive \/ EndFlash

Spec == Init /\ [][Next]_vars
=============================================================================
