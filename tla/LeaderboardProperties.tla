----------------------- MODULE LeaderboardProperties -----------------------
(***************************************************************************)
(* What must hold of the scoreboard page and of its subscription.          *)
(***************************************************************************)
EXTENDS Leaderboard

(* Every variable of the page and of the socket has its type.              *)
TypeOK ==
    /\ version \in [Contests -> Versions]
    /\ query \in [Contests -> Query]
    /\ page \in Slot(Contests)
    /\ shown \in Slot(Board)
    /\ flashed \in BOOLEAN
    /\ timers \in Nat
    /\ socket \in SocketStates
    /\ attempts \in 0..(MaxReconnects + 1)
    /\ seen \in BOOLEAN
    /\ handler \in Slot(Contests)
    /\ rooms \in [Contests -> Slot(Versions)]
    /\ wire \in Seq(Board)
    /\ overtaken \in BOOLEAN
    /\ switched \in BOOLEAN
    /\ faults \in 0..MaxFaults

(* The subscription belongs to the page: its handler is that of the        *)
(* contest on screen, and nothing of it is left when the page is gone      *)
(* (useWebSocket.ts:18); rows that flash have a timeout that ends it       *)
(* (ScoreboardPage.tsx:63).                                                *)
NothingIsLeftBehind ==
    /\ TypeOK
    /\ handler \subseteq page
    /\ handler # {} => socket \in {"up", "down", "dead"}
    /\ page = {} => socket = "none" /\ rooms = NoRooms /\ wire = <<>>
    /\ flashed => timers > 0

(* A subscribed page is in the room of its contest unless the connection   *)
(* was lost: the hook subscribes again only if the page was rendered       *)
(* meanwhile (useWebSocket.ts:112).  In the room it misses no update: with *)
(* nothing under way, the board on screen is the current one unless none   *)
(* was published since it joined, or an older answer of the query came     *)
(* after the update (ScoreboardPage.tsx:28), or the page showed another    *)
(* contest before.                                                         *)
UpdatesAreNotMissed ==
    \A c \in handler : socket = "up" /\ wire = <<>>
       => \/ rooms[c] = {} /\ faults > 0
          \/ rooms[c] = {version[c]}
          \/ shown = {[of |-> c, v |-> version[c]]}
          \/ overtaken \/ switched

(* The rankings under a contest's title are those of the contest, unless   *)
(* the page was left on screen from one contest to the next                *)
(* (ScoreboardPage.tsx:27, 40); and "no participants yet" is said of a     *)
(* contest with a board only when the fetch failed (:185).                 *)
RankingsAreOfTheContest ==
    \A c \in page :
       /\ \A b \in Rankings(c) : b.of = c \/ switched
       /\ SaysEmpty(c) => query[c].error
-----------------------------------------------------------------------------
(* What makes the safety properties inductive.                             *)

(* The socket that still tries has attempts left, and starts from none.    *)
TidyInv ==
    /\ NothingIsLeftBehind
    /\ socket \in {"open", "up", "down"} => attempts <= MaxReconnects
    /\ page = {} => attempts = 0

(* What the page has, or may still get, is of its contest.                 *)
PageInv ==
    /\ page = {} => ~switched
    /\ ~switched => /\ \A b \in shown : b.of \in page
                    /\ \A c \in Contests : rooms[c] # {} => c \in page
                    /\ \A i \in DOMAIN wire : wire[i].of \in page
    /\ \A c \in page :
          /\ shown = {} => query[c].data = {}
          /\ query[c].data = {} /\ query[c].flight = {} => query[c].error

(* In the room of c since version v: what was published since then is on   *)
(* the wire, last, or it is on screen.                                     *)
UpToDate(c) ==
    \/ rooms[c] = {version[c]}
    \/ wire # <<>> /\ wire[Len(wire)] = [of |-> c, v |-> version[c]]
    \/ wire = <<>> /\ shown = {[of |-> c, v |-> version[c]]}

Follows(c) ==
    /\ rooms[c] # {} => handler = {c}
    /\ rooms[c] = {} => wire = <<>>
    /\ c \in handler /\ rooms[c] = {} => faults > 0
    /\ rooms[c] # {} /\ ~overtaken => UpToDate(c)

(* A room is joined while the connection lasts, by a page that listens.    *)
RoomInv ==
    /\ socket # "up" => rooms = NoRooms /\ wire = <<>>
    /\ \A c \in Contests : \A v \in query[c].flight : v <= version[c]
    /\ ~switched => \A c \in page : Follows(c)
=============================================================================
