----------------------------- MODULE Registration -----------------------------
(***************************************************************************)
(* What registration for contests promises: it is one indivisible step.    *)
(* An accepted request enters its user into a contest that exists and that *)
(* the user had not entered; entries only go away with their contest.      *)
(***************************************************************************)
CONSTANTS Contests, Users, Requests

VARIABLES
  open,     \* contests that exist
  entries,  \* pairs of a contest and a user
  accepted  \* registration requests answered with success

vars == <<open, entries, accepted>>

Init ==
  /\ open \subseteq Contests
  /\ entries \subseteq open \X Users
  /\ accepted = {}

Enter(r, c, u) ==
  /\ r \notin accepted
  /\ c \in open /\ <<c, u>> \notin entries
  /\ entries' = entries \cup {<<c, u>>}
  /\ accepted' = accepted \cup {r}
  /\ UNCHANGED open

Create(c) ==
  /\ c \notin open
  /\ open' = open \cup {c}
  /\ UNCHANGED <<entries, accepted>>

Delete(c) ==
  /\ c \in open
  /\ open' = open \ {c}
  /\ entries' = entries \ ({c} \X Users)
  /\ UNCHANGED accepted

Next ==
  \/ \E r \in Requests, c \in Contests, u \in Users : Enter(r, c, u)
  \/ \E c \in Contests : Create(c) \/ Delete(c)

Spec == Init /\ [][Next]_vars
=============================================================================
