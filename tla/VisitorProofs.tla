------------------------------ MODULE VisitorProofs ------------------------------
(***************************************************************************)
(* Proofs about the pages of a visitor: what the forms report, the         *)
(* countdown of a contest, registrations and the list of problems, for any *)
(* number of calls, moves and faults, any contest and any filters.         *)
(***************************************************************************)
EXTENDS VisitorProperties, FiniteSetTheorems, TLAPS

(* The calls, once their page is left.                                     *)
LEMMA UnmountedCalls ==
  ASSUME NEW cs, cs \subseteq Call, IsFiniteSet(cs)
  PROVE  /\ Unmounted(cs) \subseteq Call /\ IsFiniteSet(Unmounted(cs))
         /\ Cardinality(Unmounted(cs)) <= Cardinality(cs)
         /\ \A u \in Unmounted(cs) :
              ~u.live /\ \E c \in cs : u = [c EXCEPT !.live = FALSE]
         /\ \A c \in cs : \E u \in Unmounted(cs) :
              u = [c EXCEPT !.live = FALSE]
         /\ \A c \in cs : [c EXCEPT !.live = FALSE].kind = c.kind
                          /\ [c EXCEPT !.live = FALSE].stored = c.stored
<1> DEFINE off(c) == [c EXCEPT !.live = FALSE]
<1>1. Unmounted(cs) = {off(c) : c \in cs}
  BY DEF Unmounted
<1>2. \A c \in cs : off(c) \in Call /\ ~off(c).live /\ off(c).kind = c.kind
                    /\ off(c).stored = c.stored
  BY DEF Call
<1>3. IsFiniteSet({off(c) : c \in cs}) /\ Cardinality({off(c) : c \in cs}) <= Cardinality(cs)
  <2> HIDE DEF off
  <2> DEFINE f == [c \in cs |-> off(c)]
  <2>1. f \in Surjection(cs, {off(c) : c \in cs})
    BY DEF Surjection
  <2> QED BY <2>1, FS_Surjection
<1> QED BY <1>1, <1>2, <1>3

(* Calls are counted by their kind.                                        *)
LEMMA CountOfSent ==
  ASSUME sent \in [Kinds -> Nat], NEW k \in Kinds, NEW n \in Nat,
         sent' = [sent EXCEPT ![k] = @ + n]
  PROVE  /\ sent' \in [Kinds -> Nat] /\ sent'[k] = sent[k] + n
         /\ \A j \in Kinds : j # k => sent'[j] = sent[j]
         /\ Made \in Nat /\ Made' = Made + n
<1>1. /\ sent' \in [Kinds -> Nat] /\ sent'[k] = sent[k] + n
      /\ \A j \in Kinds : j # k => sent'[j] = sent[j]
  OBVIOUS
<1>2. \A j \in Kinds : sent[j] \in Nat
  OBVIOUS
<1> QED BY <1>1, <1>2 DEF Made, Kinds

LEMMA SentAtMost ==
  ASSUME NEW s \in [Kinds -> Nat],
         s["signup"] + s["verify"] + s["forgot"] + s["reset"]
           + s["register"] + s["profile"] <= MaxCalls
  PROVE  s \in [Kinds -> 0..MaxCalls]
<1>1. MaxCalls \in Nat /\ \A k \in Kinds : s[k] \in Nat
  BY VisitorAssumption
<1>2. \A k \in Kinds : s[k] \in 0..MaxCalls
  BY <1>1 DEF Kinds
<1> QED BY <1>2

LEMMA OneMoreCall ==
  ASSUME IsFiniteSet(calls), NEW cs, IsFiniteSet(cs), Cardinality(cs) <= Cardinality(calls),
         NEW x
  PROVE  IsFiniteSet(cs \union {x}) /\ Cardinality(cs \union {x}) <= Cardinality(calls) + 1
         /\ Cardinality(cs \union {x}) <= Cardinality(cs) + 1
         /\ Cardinality(cs) \in Nat /\ Cardinality(calls) \in Nat
<1>1. Cardinality(cs) \in Nat /\ Cardinality(calls) \in Nat
  BY FS_CardinalityType
<1>2. /\ IsFiniteSet(cs \cup {x})
      /\ Cardinality(cs \cup {x}) = IF x \in cs THEN Cardinality(cs) ELSE Cardinality(cs) + 1
  BY FS_AddElement, Zenon
<1> QED BY <1>1, <1>2

(* A call replaced by another.                                             *)
LEMMA CallReplaced ==
  ASSUME IsFiniteSet(calls), NEW c \in calls, NEW d
  PROVE  /\ IsFiniteSet((calls \ {c}) \union {d})
         /\ Cardinality((calls \ {c}) \union {d}) <= Cardinality(calls)
         /\ IsFiniteSet(calls \ {c}) /\ Cardinality(calls \ {c}) = Cardinality(calls) - 1
         /\ Cardinality(calls) \in Nat
<1>1. /\ IsFiniteSet(calls \ {c}) /\ Cardinality(calls \ {c}) = Cardinality(calls) - 1
      /\ Cardinality(calls) \in Nat
  BY FS_RemoveElement, FS_CardinalityType
<1>2. Cardinality(calls \ {c}) <= Cardinality(calls)
  BY <1>1
<1>3. /\ IsFiniteSet((calls \ {c}) \union {d})
      /\ Cardinality((calls \ {c}) \union {d}) <= Cardinality(calls \ {c}) + 1
  BY <1>1, <1>2, OneMoreCall
<1>4. Cardinality((calls \ {c}) \union {d}) \in Nat
  BY <1>3, FS_CardinalityType
<1> QED BY <1>1, <1>3, <1>4

(* A call that is sent, and the one that a page makes when it opens.       *)
LEMMA NewCall ==
  ASSUME NEW k \in Kinds, NEW own \in BOOLEAN, NEW n \in 1..MaxCalls
  PROVE  /\ New(k, own, n) \in Call /\ New(k, own, n).kind = k
         /\ ~New(k, own, n).stored /\ New(k, own, n).live
BY VisitorAssumption DEF New, Call

LEMMA OpenedKeeps ==
  ASSUME TypeOK, CountInv, NEW p \in Pages, Opened(p),
         redirects' \in Nat, redirects' <= redirects
  PROVE  calls' \subseteq Call /\ sent' \in [Kinds -> 0..MaxCalls] /\ CountInv'
<1> DEFINE off == Unmounted(calls)
<1>1. /\ calls \subseteq Call /\ IsFiniteSet(calls) /\ sent \in [Kinds -> Nat]
      /\ redirects \in Nat /\ MaxCalls \in Nat
  BY VisitorAssumption DEF TypeOK, CountInv
<1>2. /\ off \subseteq Call /\ IsFiniteSet(off) /\ Cardinality(off) <= Cardinality(calls)
      /\ \A u \in off : ~u.live /\ \E c \in calls : u = [c EXCEPT !.live = FALSE]
      /\ \A c \in calls : [c EXCEPT !.live = FALSE].kind = c.kind
  BY <1>1, UnmountedCalls
<1>3. /\ \A u \in off : sent[u.kind] >= 1 /\ u.kind \in Kinds
      /\ \A u, v \in off : u # v /\ u.kind = v.kind => sent[u.kind] >= 2
  <2>1. \A u \in off : u.kind \in Kinds
    BY <1>2 DEF Call
  <2>2. \A u \in off : \E c \in calls : u = [c EXCEPT !.live = FALSE] /\ u.kind = c.kind
    BY <1>2
  <2> HIDE DEF off
  <2>3. /\ \A c \in calls : sent[c.kind] >= 1
        /\ \A c, d \in calls : c # d /\ c.kind = d.kind => sent[c.kind] >= 2
    BY DEF CountInv
  <2>4. \A u \in off : sent[u.kind] >= 1
    BY <2>2, <2>3
  <2>5. ASSUME NEW u \in off, NEW v \in off, u # v, u.kind = v.kind
        PROVE  sent[u.kind] >= 2
    <3>1. PICK c \in calls : u = [c EXCEPT !.live = FALSE] /\ u.kind = c.kind
      BY <2>2
    <3>2. PICK d \in calls : v = [d EXCEPT !.live = FALSE] /\ v.kind = d.kind
      BY <2>2
    <3>3. c # d /\ c.kind = d.kind
      BY <3>1, <3>2, <2>5
    <3> QED BY <3>1, <3>3, <2>3
  <2> QED BY <2>1, <2>4, <2>5
<1> HIDE DEF off
<1>4. Cardinality(off) \in Nat /\ Cardinality(calls) \in Nat
  BY <1>1, <1>2, FS_CardinalityType
<1>5. CASE p # "verify"
  <2>1. calls' = off /\ sent' = sent
    BY <1>5 DEF Opened, off
  <2>2. Made' = Made /\ Made \in Nat
    BY <2>1, <1>1 DEF Made, Kinds
  <2>3. calls' \subseteq Call /\ sent' \in [Kinds -> 0..MaxCalls]
    BY <2>1, <1>2 DEF TypeOK
  <2>4. redirects' + Cardinality(calls') <= Made'
    BY <2>1, <2>2, <1>1, <1>2, <1>4 DEF CountInv
  <2> QED BY <2>1, <2>2, <2>3, <2>4, <1>2, <1>3 DEF CountInv
<1>6. CASE p = "verify"
  <2> DEFINE news(n) == {New("verify", TRUE, Made + i) : i \in 1..n}
  <2>1. PICK n \in {1, 2} :
           /\ Made + n <= MaxCalls
           /\ calls' = off \union news(n)
           /\ sent' = [sent EXCEPT !["verify"] = @ + n]
    BY <1>6 DEF Opened, off
  <2>2. /\ sent' \in [Kinds -> Nat] /\ sent'["verify"] = sent["verify"] + n
        /\ \A j \in Kinds : j # "verify" => sent'[j] = sent[j]
        /\ Made \in Nat /\ Made' = Made + n
    BY <2>1, <1>1, CountOfSent DEF Kinds
  <2>3. Made' <= MaxCalls
    BY <2>1, <2>2
  <2>4. sent' \in [Kinds -> 0..MaxCalls]
    BY <2>2, <2>3, SentAtMost DEF Made
  <2> DEFINE a == New("verify", TRUE, Made + 1)
             b == New("verify", TRUE, Made + 2)
  <2>5. news(n) = IF n = 1 THEN {a} ELSE {a, b}
    BY 1..1 = {1}, 1..2 = {1, 2}
  <2> HIDE DEF news
  <2>6. a \in Call /\ a.kind = "verify" /\ (n = 2 => b \in Call) /\ b.kind = "verify"
    <3>1. Made + 1 \in 1..MaxCalls /\ (n = 2 => Made + 2 \in 1..MaxCalls)
      BY <2>1, <2>2, <1>1
    <3> "verify" \in Kinds /\ TRUE \in BOOLEAN
      BY DEF Kinds
    <3>2. a \in Call /\ a.kind = "verify"
      BY <3>1, NewCall
    <3>3. n = 2 => b \in Call
      BY <3>1, NewCall
    <3>4. b.kind = "verify"
      BY DEF New
    <3> QED BY <3>2, <3>3, <3>4
  <2> HIDE DEF a, b
  <2>7. CASE n = 1
    <3>1. calls' = off \union {a}
      BY <2>1, <2>5, <2>7
    <3>2. IsFiniteSet(calls') /\ Cardinality(calls') <= Cardinality(calls) + 1
            /\ Cardinality(calls') \in Nat
      BY <3>1, <1>1, <1>2, OneMoreCall, FS_CardinalityType
    <3>3. redirects' + Cardinality(calls') <= Made'
      BY <3>2, <2>2, <2>7, <1>1, <1>4 DEF CountInv
    <3>4. \A u \in calls' : u.kind \in Kinds /\ (u \in off \/ u = a)
      BY <3>1, <1>3, <2>6 DEF Kinds
    <3>5. /\ \A u \in calls' : sent'[u.kind] >= 1
          /\ \A u, v \in calls' : u # v /\ u.kind = v.kind => sent'[u.kind] >= 2
      BY <3>4, <1>3, <2>2, <2>6, <2>7, <1>1
    <3> QED BY <3>1, <3>2, <3>3, <3>5, <2>3, <2>4, <2>6, <1>2 DEF CountInv
  <2>8. CASE n = 2
    <3>1. calls' = (off \union {a}) \union {b}
      <4>1. calls' = off \union {a, b}
        BY <2>1, <2>5, <2>8
      <4> QED BY <4>1
    <3>2. IsFiniteSet(off \union {a}) /\ Cardinality(off \union {a}) <= Cardinality(calls) + 1
          /\ Cardinality(off \union {a}) \in Nat
      BY <1>1, <1>2, OneMoreCall, FS_CardinalityType
    <3>3. IsFiniteSet(calls') /\ Cardinality(calls') <= Cardinality(off \union {a}) + 1
          /\ Cardinality(calls') \in Nat
      <4>1. IsFiniteSet(calls') /\ Cardinality(calls') \in Nat
        BY <3>1, <3>2, FS_AddElement, FS_CardinalityType
      <4>2. Cardinality(calls') = IF b \in off \union {a} THEN Cardinality(off \union {a})
                                  ELSE Cardinality(off \union {a}) + 1
        BY <3>1, <3>2, FS_AddElement, Zenon
      <4> QED BY <4>1, <4>2, <3>2
    <3>4. redirects' + Cardinality(calls') <= Made'
      BY <3>2, <3>3, <2>2, <2>8, <1>1, <1>4 DEF CountInv
    <3>5. \A u \in calls' : u.kind \in Kinds /\ (u \in off \/ u.kind = "verify")
      BY <3>1, <1>3, <2>6 DEF Kinds
    <3>6. /\ \A u \in calls' : sent'[u.kind] >= 1
          /\ \A u, v \in calls' : u # v /\ u.kind = v.kind => sent'[u.kind] >= 2
      BY <3>5, <1>3, <2>2, <2>8, <1>1
    <3> QED BY <3>1, <3>3, <3>4, <3>6, <2>3, <2>4, <2>6, <2>8, <1>2 DEF CountInv
  <2> QED BY <2>7, <2>8
<1> QED BY <1>5, <1>6

(* What the queries of the contest pages hold.                             *)
LEMMA RegisteredSlot == Registered \in BOOLEAN /\ {Registered} \in Slot(BOOLEAN)
<1>1. Registered \in BOOLEAN
  BY DEF Registered
<1> QED BY <1>1 DEF Slot

LEMMA NoQueryType == NoQuery \in Query
<1>1. {} \in Slot(BOOLEAN)
  BY DEF Slot
<1> QED BY <1>1 DEF NoQuery, Query

LEMMA FetchOfQuery ==
  ASSUME NEW q \in Query
  PROVE  LET f == [q EXCEPT !.flight = {Registered}]
         IN  f \in Query /\ f.flight = {Registered} /\ f.data = q.data /\ f.failed = q.failed
<1> DEFINE r == {Registered}
<1>1. r \in Slot(BOOLEAN)
  BY RegisteredSlot
<1> HIDE DEF r
<1>2. LET f == [q EXCEPT !.flight = r]
      IN  f \in Query /\ f.flight = r /\ f.data = q.data /\ f.failed = q.failed
  BY <1>1 DEF Query
<1> QED BY <1>2 DEF r

(* A page that is opened fetches what it does not have.                    *)
LEMMA MountedKeeps ==
  ASSUME query \in [Keys -> Query], NEW p, Mounted(p)
  PROVE  /\ query' \in [Keys -> Query] /\ (overtaken \in BOOLEAN => overtaken' \in BOOLEAN)
         /\ overtaken => overtaken'
         /\ \A k \in Keys : /\ query'[k].data = query[k].data /\ query'[k].failed = query[k].failed
                            /\ query'[k].flight \in {query[k].flight, {Registered}}
<1> DEFINE fetched(k) == [query[k] EXCEPT !.flight = {Registered}]
<1>1. \A k \in Keys :
        /\ fetched(k) \in Query /\ fetched(k).flight = {Registered}
        /\ fetched(k).data = query[k].data /\ fetched(k).failed = query[k].failed
  BY FetchOfQuery
<1>2. PICK old \in BOOLEAN :
        query' = [k \in Keys |-> IF k = p /\ query[k].flight = {} /\ (old \/ query[k].data = {})
                                 THEN fetched(k) ELSE query[k]]
  BY DEF Mounted
<1>3. overtaken' = (overtaken \/ (p \in Keys /\ query'[p].flight \notin {{}, {Registered}}))
  BY DEF Mounted
<1> HIDE DEF fetched
<1>4. \A k \in Keys : query'[k] \in {query[k], fetched(k)}
  BY <1>2
<1> QED BY <1>1, <1>2, <1>3, <1>4

LEMMA CountdownType ==
  ASSUME TypeOK
  PROVE  /\ Countdown \in Clock /\ Countdown.seen = now
         /\ Countdown.left = "time" => Countdown.target # "none"
         /\ \/ Countdown.left = "time"
            \/ Countdown.target = "none" /\ now > End
            \/ Countdown.target = "end" /\ now >= End
BY VisitorAssumption DEF TypeOK, Countdown, Status, Remaining, Clock

LEMMA NoBrowseType == NoBrowse \in Browse /\ NoBrowse.page = 1
<1>1. \E f \in Filters : \A g \in Filters : Matches[f] >= Matches[g]
  BY VisitorAssumption
<1>2. AllProblems \in Filters
  BY <1>1 DEF AllProblems
<1> QED BY <1>2 DEF NoBrowse, Browse

(* A page that is shown starts with its own form, clock and filter.        *)
LEMMA ShowKeeps ==
  ASSUME TypeOK, CountInv, NEW p \in Pages, Show(p),
         redirects' \in Nat, redirects' <= redirects,
         now' = now, done' = done, moves' \in 0..MaxMoves, faults' = faults
  PROVE  TypeOK' /\ CountInv'
<1>1. calls' \subseteq Call /\ sent' \in [Kinds -> 0..MaxCalls] /\ CountInv'
  BY OpenedKeeps DEF Show
<1>2. query' \in [Keys -> Query] /\ overtaken' \in BOOLEAN
  BY MountedKeeps DEF Show, TypeOK
<1>3. page' \in Pages /\ form' \in Form
  BY DEF Show, Form, NoForm
<1>4. clock' \in Clock
  <2>1. NoClock \in Clock /\ [NoClock EXCEPT !.seen = now] \in Clock
    BY VisitorAssumption DEF NoClock, Clock, TypeOK
  <2> QED BY <2>1, CountdownType DEF Show
<1>5. browse' \in Browse
  BY NoBrowseType DEF Show
<1>6. redirects' \in 0..MaxCalls
  BY VisitorAssumption DEF TypeOK
<1> QED BY <1>1, <1>2, <1>3, <1>4, <1>5, <1>6 DEF TypeOK

(* Steps that make, move and end no call.                                  *)
LEMMA CountStays ==
  ASSUME CountInv, UNCHANGED <<calls, sent, redirects>>
  PROVE  CountInv'
BY DEF CountInv, Made

(* What a call becomes when it is carried out or tried again.              *)
LEMMA CallChanges ==
  ASSUME NEW c \in Call
  PROVE  /\ LET d == [c EXCEPT !.stored = TRUE]
            IN  d \in Call /\ d.stored /\ d.kind = c.kind /\ d.live = c.live
         /\ LET d == [c EXCEPT !.attempt = @ + 1, !.stored = FALSE]
            IN  /\ d.kind = c.kind /\ ~d.stored /\ d.live = c.live
                /\ c.attempt < MaxAttempts => d \in Call
<1>1. LET d == [c EXCEPT !.stored = TRUE]
      IN  d \in Call /\ d.stored /\ d.kind = c.kind /\ d.live = c.live
  BY DEF Call
<1> DEFINE e == [c EXCEPT !.attempt = @ + 1]
<1>2. c.attempt \in 1..MaxAttempts
  BY DEF Call
<1>3. e.kind = c.kind /\ e.live = c.live /\ (c.attempt < MaxAttempts => e \in Call)
  <2>1. c.attempt < MaxAttempts => c.attempt + 1 \in 1..MaxAttempts
    BY <1>2, VisitorAssumption
  <2> QED BY <2>1 DEF Call
<1>4. [c EXCEPT !.attempt = @ + 1, !.stored = FALSE] = [e EXCEPT !.stored = FALSE]
  BY DEF Call
<1>5. /\ [e EXCEPT !.stored = FALSE].kind = e.kind
      /\ ~[e EXCEPT !.stored = FALSE].stored
      /\ [e EXCEPT !.stored = FALSE].live = e.live
      /\ e \in Call => [e EXCEPT !.stored = FALSE] \in Call
  <2>1. DOMAIN e = {"n", "kind", "own", "attempt", "stored", "live"}
    BY DEF Call
  <2> HIDE DEF e
  <2> QED BY <2>1 DEF Call
<1> QED BY <1>1, <1>3, <1>4, <1>5

(* A call is carried out or tried again.                                   *)
LEMMA ReplacingKeeps ==
  ASSUME TypeOK, CountInv, NEW c \in calls, NEW d \in Call, d.kind = c.kind,
         calls' = (calls \ {c}) \union {d}, sent' = sent, redirects' = redirects
  PROVE  calls' \subseteq Call /\ CountInv'
<1>1. /\ IsFiniteSet(calls') /\ Cardinality(calls') <= Cardinality(calls)
      /\ Cardinality(calls') \in Nat /\ Cardinality(calls) \in Nat
  BY CallReplaced, FS_CardinalityType DEF CountInv
<1>2. Made' = Made /\ Made \in Nat /\ redirects \in Nat
  BY VisitorAssumption DEF TypeOK, Made, Kinds
<1>3. redirects' + Cardinality(calls') <= Made' /\ Made' <= MaxCalls
  BY <1>1, <1>2 DEF CountInv
<1>4. \A u \in calls' : sent'[u.kind] >= 1
  BY DEF CountInv
<1>5. ASSUME NEW u \in calls', NEW v \in calls', u # v, u.kind = v.kind
      PROVE  sent'[u.kind] >= 2
  <2> DEFINE o(x) == IF x = d THEN c ELSE x
  <2>1. o(u) \in calls /\ o(v) \in calls /\ o(u).kind = u.kind /\ o(v).kind = v.kind
    OBVIOUS
  <2>2. CASE o(u) # o(v)
    BY <2>1, <2>2, <1>5 DEF CountInv
  <2>3. CASE o(u) = o(v)
    BY <2>3, <1>5
  <2> QED BY <2>2, <2>3
<1> QED BY <1>1, <1>3, <1>4, <1>5 DEF CountInv, TypeOK

(* A call ends.                                                            *)
LEMMA EndingKeeps ==
  ASSUME TypeOK, CountInv, NEW c \in calls, calls' = calls \ {c}, sent' = sent,
         redirects' \in {redirects, redirects + 1}
  PROVE  calls' \subseteq Call /\ redirects' \in 0..MaxCalls /\ CountInv'
<1>1. IsFiniteSet(calls') /\ Cardinality(calls') = Cardinality(calls) - 1
      /\ Cardinality(calls) \in Nat /\ Cardinality(calls') \in Nat
  BY CallReplaced, FS_CardinalityType DEF CountInv
<1>2. Made' = Made /\ Made \in Nat /\ redirects \in Nat /\ MaxCalls \in Nat
  BY VisitorAssumption DEF TypeOK, Made, Kinds
<1>3. redirects' + Cardinality(calls') <= Made' /\ Made' <= MaxCalls
  BY <1>1, <1>2 DEF CountInv
<1>4. redirects' \in 0..MaxCalls
  BY <1>1, <1>2, <1>3
<1> QED BY <1>1, <1>3, <1>4 DEF CountInv, TypeOK

LEMMA RenderedType ==
  ASSUME TypeOK
  PROVE  Rendered \in Clock /\ Rendered.target = clock.target /\ Rendered.left = clock.left
         /\ Rendered.seen \in {clock.seen, now}
BY DEF TypeOK, Rendered, Clock

LEMMA ShownType ==
  ASSUME TypeOK, NEW c, NEW s \in {"success", "error"}, Shown(c, s)
  PROVE  /\ form' \in Form /\ clock' \in {clock, Rendered}
         /\ form' = form \/ (c.live /\ form'.status = s)
BY DEF TypeOK, Form, Shown

(* The queries after a registration.                                       *)
LEMMA InvalidatedType ==
  ASSUME TypeOK, Invalidated
  PROVE  query' \in [Keys -> Query]
<1> DEFINE fetched(k) == [query[k] EXCEPT !.flight = {Registered}]
<1>1. \A k \in Keys : fetched(k) \in Query /\ NoQuery \in Query /\ query[k] \in Query
  BY FetchOfQuery, NoQueryType DEF TypeOK
<1>2. query' = [k \in Keys |->
        CASE page = k /\ (query[k].flight = {} \/ query[k].data # {}) -> fetched(k)
          [] page # k /\ query[k].flight = {} -> NoQuery
          [] OTHER -> query[k]]
  BY DEF Invalidated
<1> HIDE DEF fetched
<1>3. \A k \in Keys :
        (CASE page = k /\ (query[k].flight = {} \/ query[k].data # {}) -> fetched(k)
          [] page # k /\ query[k].flight = {} -> NoQuery
          [] OTHER -> query[k]) \in {fetched(k), NoQuery, query[k]}
  OBVIOUS
<1> QED BY <1>1, <1>2, <1>3

LEMMA KindOfPage ==
  ASSUME NEW p \in {"signup", "forgot", "reset", "contest"} \union Profiles
  PROVE  KindOf(p) \in Kinds
BY DEF KindOf, Kinds, Profiles

(* A form is sent.                                                         *)
LEMMA SendKeepsTypes ==
  ASSUME TypeOK, CountInv, Send
  PROVE  TypeOK' /\ CountInv'
<1> DEFINE k == KindOf(page)
           x == New(k, page = "own", Made + 1)
<1>1. k \in Kinds
  BY KindOfPage DEF Send
<1>2. sent \in [Kinds -> Nat] /\ 1 \in Nat /\ sent' = [sent EXCEPT ![k] = @ + 1]
  BY VisitorAssumption DEF TypeOK, Send
<1> HIDE DEF k
<1>3. /\ sent' \in [Kinds -> Nat] /\ sent'[k] = sent[k] + 1
      /\ \A j \in Kinds : j # k => sent'[j] = sent[j]
      /\ Made \in Nat /\ Made' = Made + 1
  BY <1>1, <1>2, CountOfSent
<1>4. Made' <= MaxCalls /\ Made + 1 \in 1..MaxCalls
  BY <1>3, VisitorAssumption DEF Send
<1>5. sent' \in [Kinds -> 0..MaxCalls]
  BY <1>3, <1>4, SentAtMost DEF Made
<1>6. x \in Call /\ x.kind = k
  BY <1>1, <1>4, NewCall, (page = "own") \in BOOLEAN
<1>7. calls' = calls \union {x}
  BY DEF Send, k
<1> HIDE DEF x
<1>8. IsFiniteSet(calls') /\ Cardinality(calls') <= Cardinality(calls) + 1
      /\ Cardinality(calls) \in Nat /\ Cardinality(calls') \in Nat
  <2>1. Cardinality(calls) \in Nat /\ IsFiniteSet(calls)
    BY FS_CardinalityType DEF CountInv
  <2>2. Cardinality(calls) <= Cardinality(calls)
    BY <2>1
  <2>3. IsFiniteSet(calls') /\ Cardinality(calls') <= Cardinality(calls) + 1
    BY <2>1, <2>2, <1>7, OneMoreCall
  <2> QED BY <2>1, <2>3, FS_CardinalityType
<1>9. redirects' + Cardinality(calls') <= Made'
  BY <1>3, <1>8 DEF CountInv, TypeOK, Send
<1>10. /\ \A u \in calls' : sent'[u.kind] >= 1
       /\ \A u, v \in calls' : u # v /\ u.kind = v.kind => sent'[u.kind] >= 2
  <2>1. \A u \in calls : u.kind \in Kinds /\ sent[u.kind] >= 1
    BY DEF TypeOK, Call, CountInv
  <2>2. \A u, v \in calls : u # v /\ u.kind = v.kind => sent[u.kind] >= 2
    BY DEF CountInv
  <2>3. \A j \in Kinds : sent'[j] >= sent[j] /\ sent[j] \in Nat /\ sent'[j] \in Nat
    BY <1>2, <1>3
  <2>4. \A u \in calls' : (u \in calls \/ u = x) /\ u.kind \in Kinds
    BY <2>1, <1>1, <1>6, <1>7
  <2>5. \A u \in calls' : sent'[u.kind] >= 1
    BY <2>1, <2>3, <2>4, <1>1, <1>3, <1>6
  <2>6. ASSUME NEW u \in calls', NEW v \in calls', u # v, u.kind = v.kind
        PROVE  sent'[u.kind] >= 2
    <3>1. CASE u \in calls /\ v \in calls
      <4>1. sent[u.kind] >= 2 /\ u.kind \in Kinds
        BY <3>1, <2>1, <2>2, <2>6
      <4> QED BY <4>1, <2>3
    <3>2. CASE u = x \/ v = x
      <4>1. u.kind = k /\ sent[k] >= 1
        BY <3>2, <2>1, <2>4, <2>6, <1>6
      <4> QED BY <4>1, <1>1, <1>2, <1>3
    <3> QED BY <3>1, <3>2, <2>4
  <2> QED BY <2>5, <2>6
<1>11. CountInv'
  BY <1>4, <1>8, <1>9, <1>10 DEF CountInv
<1>12. form' \in Form /\ clock' \in Clock
  BY RenderedType DEF Send, TypeOK, Form
<1>13. calls' \subseteq Call
  BY <1>6, <1>7 DEF TypeOK
<1> QED BY <1>5, <1>11, <1>12, <1>13 DEF TypeOK, Send

(* Types, and the count of what was sent.                                  *)
LEMMA InitTypes == Init => TypeOK /\ CountInv
<1> SUFFICES ASSUME Init PROVE TypeOK /\ CountInv
  OBVIOUS
<1>1. NoQuery \in Query /\ NoBrowse \in Browse
  BY NoQueryType, NoBrowseType
<1>2. form \in Form /\ clock \in Clock
  BY VisitorAssumption DEF Init, NoForm, Form, NoClock, Clock
<1>3. sent \in [Kinds -> 0..MaxCalls] /\ Made = 0
  BY VisitorAssumption DEF Init, Made, Kinds
<1>4. TypeOK
  <2>1. now \in 0..MaxTime /\ moves \in 0..MaxMoves /\ redirects \in 0..MaxCalls
        /\ faults \in 0..MaxFaults /\ overtaken \in BOOLEAN
    <3>1. MaxTime \in Nat /\ MaxCalls \in Nat /\ MaxMoves \in Nat /\ MaxFaults \in Nat
      BY VisitorAssumption
    <3>2. now = 0 /\ moves = 0 /\ redirects = 0 /\ faults = 0 /\ overtaken = FALSE
      BY DEF Init
    <3>3. \A m \in Nat : 0 \in 0..m
      OBVIOUS
    <3> QED BY <3>1, <3>2, <3>3
  <2>2. query \in [Keys -> Query] /\ browse \in Browse /\ page \in Pages
    BY <1>1 DEF Init, Pages
  <2> QED BY <2>1, <2>2, <1>2, <1>3 DEF Init, TypeOK
<1>5. IsFiniteSet(calls) /\ Cardinality(calls) = 0
  BY FS_EmptySet DEF Init
<1> QED BY <1>3, <1>4, <1>5, VisitorAssumption DEF CountInv, Init

LEMMA FailedFetch ==
  ASSUME query \in [Keys -> Query], NEW k \in Keys, FetchFails(k)
  PROVE  /\ query' \in [Keys -> Query]
         /\ \A j \in Keys : query'[j].data = query[j].data
<1> DEFINE a == [query[k] EXCEPT !.flight = {}, !.failed = TRUE]
<1>1. a \in Query /\ a.data = query[k].data
  BY DEF Query, Slot
<1>2. query' = [query EXCEPT ![k] = a]
  BY DEF FetchFails, Query
<1> HIDE DEF a
<1> QED BY <1>1, <1>2

LEMMA StepTypes == TypeOK /\ CountInv /\ [Next]_vars => TypeOK' /\ CountInv'
<1> SUFFICES ASSUME TypeOK, CountInv, [Next]_vars
             PROVE  TypeOK' /\ CountInv'
  OBVIOUS
<1> USE VisitorAssumption
<1>1. CASE Tick
  BY <1>1, CountStays DEF Tick, TypeOK
<1>2. ASSUME NEW p \in Pages, Go(p) PROVE TypeOK' /\ CountInv'
  <2>1. moves' \in 0..MaxMoves /\ redirects' \in Nat /\ redirects' <= redirects
    BY <1>2 DEF Go, TypeOK
  <2> QED BY <1>2, <2>1, ShowKeeps DEF Go
<1>3. CASE Jump
  <2>1. \E p \in Profiles : p # page
    BY DEF Profiles
  <2>2. page' \in Profiles
    BY <1>3, <2>1 DEF Jump
  <2>3. page' \in Pages /\ moves' \in 0..MaxMoves
    BY <1>3, <2>2 DEF Jump, Profiles, Pages, TypeOK
  <2> QED BY <1>3, <2>3, CountStays DEF Jump, TypeOK
<1>4. CASE Redirect
  <2>1. redirects' \in 0..MaxCalls /\ redirects' <= redirects
    BY <1>4 DEF Redirect, TypeOK
  <2>2. CASE page = "login"
    <3>1. CountInv'
      <4>1. UNCHANGED <<calls, sent>> /\ Made' = Made /\ Made \in Nat
        BY <1>4, <2>2 DEF Redirect, Made, TypeOK, Kinds
      <4>2. Cardinality(calls) \in Nat
        BY FS_CardinalityType DEF CountInv
      <4> QED BY <2>1, <4>1, <4>2 DEF CountInv, TypeOK
    <3> QED BY <1>4, <2>1, <2>2, <3>1 DEF Redirect, TypeOK
  <2>3. CASE page # "login"
    <3>1. Show("login") /\ "login" \in Pages /\ moves' \in 0..MaxMoves
      BY <1>4, <2>3 DEF Redirect, Pages, TypeOK
    <3> QED BY <1>4, <2>1, <3>1, ShowKeeps DEF Redirect
  <2> QED BY <2>2, <2>3
<1>5. ASSUME NEW k \in Keys, Arrive(k) PROVE TypeOK' /\ CountInv'
  <2> DEFINE a == [data |-> query[k].flight, flight |-> {}, failed |-> FALSE]
  <2>1. a \in Query
    BY DEF TypeOK, Query, Slot
  <2>2. query' \in [Keys -> Query]
    BY <1>5, <2>1 DEF Arrive, TypeOK
  <2>3. clock' \in Clock
    BY <1>5, CountdownType, RenderedType DEF Arrive, TypeOK
  <2> QED BY <1>5, <2>2, <2>3, CountStays DEF Arrive, TypeOK
<1>6. ASSUME NEW k \in Keys, FetchFails(k) PROVE TypeOK' /\ CountInv'
  <2>1. query' \in [Keys -> Query]
    BY <1>6, FailedFetch DEF FetchFails, TypeOK
  <2> QED BY <1>6, <2>1, CountStays DEF FetchFails, TypeOK
<1>7. CASE TickOfPage
  <2>1. clock' \in Clock
    BY <1>7 DEF TickOfPage, TypeOK, Clock, Remaining
  <2> QED BY <1>7, <2>1, CountStays DEF TickOfPage, TypeOK
<1>8. CASE ChooseTab
  <2>1. clock' \in Clock
    BY <1>8 DEF ChooseTab, TypeOK, Clock
  <2> QED BY <1>8, <2>1, CountStays DEF ChooseTab, TypeOK
<1>9. ASSUME NEW b \in Browse, Browsed(b) PROVE TypeOK' /\ CountInv'
  BY <1>9, CountStays DEF Browsed, TypeOK
<1>10. ASSUME NEW f \in Filters, TypeSearch(f) \/ ChooseDifficulty(f) PROVE TypeOK' /\ CountInv'
  <2>1. /\ [browse EXCEPT !.filter = f, !.typed = TRUE] \in Browse
        /\ [filter |-> f, page |-> 1, typed |-> FALSE] \in Browse
    BY DEF TypeOK, Browse
  <2> QED BY <1>9, <1>10, <2>1 DEF TypeSearch, ChooseDifficulty
<1>11. CASE Search
  <2>1. [browse EXCEPT !.page = 1, !.typed = FALSE] \in Browse
    BY DEF TypeOK, Browse
  <2> QED BY <1>9, <1>11, <2>1 DEF Search
<1>12. ASSUME NEW p \in 1 .. (Matches[AllProblems] + 1), TurnTo(p) PROVE TypeOK' /\ CountInv'
  <2> DEFINE t == browse.typed /\ p > Matches[browse.filter]
  <2>1. t \in BOOLEAN /\ p \in Nat
    OBVIOUS
  <2> HIDE DEF t
  <2>2. [browse EXCEPT !.page = p, !.typed = t] \in Browse
    BY <2>1 DEF TypeOK, Browse
  <2> QED BY <1>9, <1>12, <2>2 DEF TurnTo, t
<1>13. CASE StartEdit \/ CloseEdit
  <2>1. form' \in Form
    BY <1>13 DEF StartEdit, CloseEdit, TypeOK, Form
  <2> QED BY <1>13, <2>1, CountStays DEF StartEdit, CloseEdit, TypeOK
<1>14. CASE Send
  BY <1>14, SendKeepsTypes
<1>15. ASSUME NEW c \in calls, CarryOut(c) PROVE TypeOK' /\ CountInv'
  <2> DEFINE d == [c EXCEPT !.stored = TRUE]
  <2>1. c \in Call /\ d \in Call /\ d.kind = c.kind
    BY CallChanges DEF TypeOK
  <2>2. calls' \subseteq Call /\ CountInv'
    BY <1>15, <2>1, ReplacingKeeps DEF CarryOut
  <2>3. done' \subseteq Kinds
    BY <1>15, <2>1 DEF CarryOut, TypeOK, Kinds
  <2> QED BY <1>15, <2>2, <2>3 DEF CarryOut, TypeOK
<1>16. ASSUME NEW c \in calls, Succeed(c) PROVE TypeOK' /\ CountInv'
  <2>1. redirects' \in {redirects, redirects + 1}
    BY <1>16 DEF Succeed
  <2>2. calls' \subseteq Call /\ redirects' \in 0..MaxCalls /\ CountInv'
    BY <1>16, <2>1, EndingKeeps DEF Succeed
  <2>3. form' \in Form /\ clock' \in Clock
    BY <1>16, ShownType, RenderedType DEF Succeed, TypeOK
  <2>4. query' \in [Keys -> Query] /\ overtaken' \in BOOLEAN
    BY <1>16, InvalidatedType DEF Succeed, TypeOK
  <2> QED BY <1>16, <2>2, <2>3, <2>4 DEF Succeed, TypeOK
<1>17. ASSUME NEW c \in calls, Refuse(c) PROVE TypeOK' /\ CountInv'
  <2>1. calls' \subseteq Call /\ CountInv'
    BY <1>17, EndingKeeps DEF Refuse
  <2>2. form' \in Form /\ clock' \in Clock
    BY <1>17, ShownType, RenderedType DEF Refuse, TypeOK
  <2> QED BY <1>17, <2>1, <2>2 DEF Refuse, TypeOK
<1>18. ASSUME NEW c \in calls, Lose(c) PROVE TypeOK' /\ CountInv'
  <2>1. faults' \in 0..MaxFaults
    BY <1>18 DEF Lose, TypeOK
  <2>2. CASE c.attempt < MaxAttempts
    <3> DEFINE d == [c EXCEPT !.attempt = @ + 1, !.stored = FALSE]
    <3>1. c \in Call /\ d \in Call /\ d.kind = c.kind
      BY <2>2, CallChanges DEF TypeOK
    <3>2. calls' = (calls \ {c}) \union {d} /\ UNCHANGED <<form, clock, sent, redirects>>
      BY <1>18, <2>2 DEF Lose
    <3> HIDE DEF d
    <3>3. calls' \subseteq Call /\ CountInv'
      BY <3>1, <3>2, ReplacingKeeps
    <3> QED BY <1>18, <2>1, <3>2, <3>3 DEF Lose, TypeOK
  <2>3. CASE ~(c.attempt < MaxAttempts)
    <3>1. calls' = calls \ {c} /\ Shown(c, "error") /\ UNCHANGED <<sent, redirects>>
      BY <1>18, <2>3 DEF Lose
    <3>2. calls' \subseteq Call /\ CountInv'
      BY <3>1, EndingKeeps
    <3>3. form' \in Form /\ clock' \in Clock
      BY <3>1, ShownType, RenderedType DEF TypeOK
    <3> QED BY <1>18, <2>1, <3>1, <3>2, <3>3 DEF Lose, TypeOK
  <2> QED BY <2>2, <2>3
<1>19. CASE UNCHANGED vars
  BY <1>19 DEF vars, TypeOK, CountInv, Made
<1> QED BY <1>1, <1>2, <1>3, <1>4, <1>5, <1>6, <1>7, <1>8, <1>10, <1>11, <1>12, <1>13,
    <1>14,
           <1>15, <1>16, <1>17, <1>18, <1>19 DEF Next

(* Two calls of a kind under way: one of them was sent again.              *)
LEMMA TwoAreAgain ==
  ASSUME TypeOK, CountInv, NEW c \in calls, NEW u \in calls, u # c, u.kind = c.kind
  PROVE  Again(c.kind)
<1>1. c.kind \in Kinds
  BY DEF TypeOK, Call
<1>2. sent[c.kind] \in Nat /\ sent[c.kind] >= 2
  BY <1>1 DEF TypeOK, CountInv
<1> QED BY <1>2 DEF Again

(* Steps that leave the calls and the outcome on the page alone.           *)
LEMMA CallsStay ==
  ASSUME TypeOK, TypeOK', CallsInv, OutcomesAreTrue, UNCHANGED <<calls, sent, done>>,
         form'.status = form.status, KindOf(page') = KindOf(page), faults' >= faults
  PROVE  CallsInv' /\ OutcomesAreTrue'
<1>1. \A k : Again(k) => Again(k)'
  BY DEF Again, TypeOK
<1>2. CallsInv'
  BY <1>1 DEF CallsInv
<1>3. OutcomesAreTrue'
  BY <1>1 DEF OutcomesAreTrue, Again
<1> QED BY <1>2, <1>3

(* Steps that lead to another page.                                        *)
LEMMA CallsOfShown ==
  ASSUME TypeOK, TypeOK', CountInv, CallsInv, NEW p \in Pages, Show(p),
         done' = done, faults' = faults
  PROVE  CallsInv' /\ OutcomesAreTrue'
<1> DEFINE off == Unmounted(calls)
<1>1. /\ calls \subseteq Call /\ IsFiniteSet(calls) /\ sent \in [Kinds -> Nat] /\ done \subseteq Kinds
  BY DEF TypeOK, CountInv
<1>2. /\ off \subseteq Call
      /\ \A u \in off : ~u.live /\ \E c \in calls : u = [c EXCEPT !.live = FALSE]
      /\ \A c \in calls : [c EXCEPT !.live = FALSE].kind = c.kind
                          /\ [c EXCEPT !.live = FALSE].stored = c.stored
  BY <1>1, UnmountedCalls
<1>3. /\ \A u \in off : ~u.live /\ \E c \in calls : u.kind = c.kind /\ u.stored = c.stored
  BY <1>2
<1> HIDE DEF off
<1>4. /\ \A k \in Kinds : sent'[k] \in Nat /\ sent[k] \in Nat /\ sent'[k] >= sent[k]
      /\ \A u \in calls' : \/ u \in off
                           \/ /\ p = "verify" /\ u.kind = "verify" /\ ~u.stored
                              /\ sent'["verify"] >= sent["verify"] + 1
  <2>1. CASE p # "verify"
    BY <2>1, <1>1 DEF Show, Opened, off
  <2>2. CASE p = "verify"
    <3>1. PICK n \in {1, 2} :
             /\ calls' = off \union {New("verify", TRUE, Made + i) : i \in 1..n}
             /\ sent' = [sent EXCEPT !["verify"] = @ + n]
      BY <2>2 DEF Show, Opened, off
    <3>2. "verify" \in Kinds /\ n \in Nat
      BY DEF Kinds
    <3>3. /\ sent' \in [Kinds -> Nat] /\ sent'["verify"] = sent["verify"] + n
          /\ \A j \in Kinds : j # "verify" => sent'[j] = sent[j]
      BY <3>1, <3>2, <1>1, CountOfSent
    <3>4. \A u \in calls' : u \in off \/ \E i \in 1..n : u = New("verify", TRUE, Made + i)
      BY <3>1
    <3>5. \A u \in calls' : u \in off \/ (u.kind = "verify" /\ ~u.stored)
      BY <3>4 DEF New
    <3>6. \A k \in Kinds : sent'[k] \in Nat /\ sent[k] \in Nat /\ sent'[k] >= sent[k]
      BY <3>2, <3>3, <1>1
    <3>7. sent'["verify"] >= sent["verify"] + 1
      BY <3>1, <3>2, <3>3, <1>1
    <3> QED BY <2>2, <3>5, <3>6, <3>7
  <2> QED BY <2>1, <2>2
<1>5. \A k \in Kinds : Again(k) => Again(k)'
  BY <1>4 DEF Again
<1>6. form'.status \in {"idle", "pending"} /\ page' = p
  BY DEF Show, NoForm
<1>7. \A k \in done' : k \in Kinds /\ sent[k] >= 1 /\ sent'[k] >= 1
  BY <1>1, <1>4 DEF CallsInv
<1>8. ASSUME NEW u \in calls'
      PROVE  /\ u.live => u.kind = KindOf(page)'
             /\ u.stored /\ u.kind \in {"signup", "verify", "register"} => u.kind \in done'
             /\ ~u.stored /\ u.kind \in done' => Again(u.kind)'
             /\ form'.status = "error" /\ u.kind = KindOf(page)' => Again(u.kind)'
  <2>1. CASE u \in off
    <3>1. PICK c \in calls : u.kind = c.kind /\ u.stored = c.stored
      BY <2>1, <1>3
    <3>2. c.kind \in Kinds
      BY <1>1 DEF Call
    <3> QED BY <2>1, <3>1, <3>2, <1>3, <1>5, <1>6 DEF CallsInv
  <2>2. CASE u \notin off
    <3>1. /\ p = "verify" /\ u.kind = "verify" /\ ~u.stored
          /\ sent'["verify"] >= sent["verify"] + 1
      BY <2>2, <1>4
    <3>2. KindOf(page') = "verify"
      BY <3>1, <1>6 DEF KindOf, Kinds, Profiles
    <3>3. "verify" \in done' => Again("verify")'
      BY <3>1, <1>4, <1>7 DEF Again
    <3> QED BY <3>1, <3>2, <3>3, <1>6 DEF KindOf
  <2> QED BY <2>1, <2>2
<1>9. CallsInv'
  BY <1>7, <1>8 DEF CallsInv
<1>10. OutcomesAreTrue'
  BY <1>6 DEF OutcomesAreTrue
<1> QED BY <1>9, <1>10

(* A form is sent, and what it says is forgotten.                          *)
LEMMA CallsOfSend ==
  ASSUME TypeOK, TypeOK', CountInv, CallsInv, Send
  PROVE  CallsInv' /\ OutcomesAreTrue'
<1>0. PICK k : k = KindOf(page)
  OBVIOUS
<1> DEFINE x == New(k, page = "own", Made + 1)
<1>1. k \in Kinds /\ calls \subseteq Call /\ done \subseteq Kinds
  BY <1>0, KindOfPage DEF Send, TypeOK
<1>2. sent \in [Kinds -> Nat] /\ 1 \in Nat /\ sent' = [sent EXCEPT ![k] = @ + 1]
  BY <1>0, VisitorAssumption DEF TypeOK, Send
<1>3. x.kind = k /\ ~x.stored
  BY DEF New
<1>4. calls' = calls \union {x} /\ form'.status = "pending"
  BY <1>0 DEF Send, TypeOK, Form
<1>5. KindOf(page)' = k /\ done' = done /\ faults' = faults
  BY <1>0 DEF Send
<1> HIDE DEF x
<1>6. /\ sent'[k] = sent[k] + 1
      /\ \A j \in Kinds : sent'[j] \in Nat /\ sent[j] \in Nat /\ sent'[j] >= sent[j]
  BY <1>1, <1>2
<1>7. \A j \in Kinds : Again(j) => Again(j)'
  BY <1>5, <1>6 DEF Again
<1>8. \A j \in done : j \in Kinds /\ sent[j] >= 1 /\ sent'[j] >= 1
  BY <1>1, <1>6 DEF CallsInv
<1>9. k \in done => Again(k)'
  BY <1>1, <1>6, <1>8 DEF Again
<1>10. \A u \in calls : u.kind \in Kinds
  BY <1>1 DEF Call
<1>11. \A u \in calls' :
          /\ u.live => u.kind = KindOf(page)'
          /\ u.stored /\ u.kind \in {"signup", "verify", "register"} => u.kind \in done'
          /\ ~u.stored /\ u.kind \in done' => Again(u.kind)'
  BY <1>3, <1>4, <1>5, <1>7, <1>9, <1>10, <1>0 DEF CallsInv
<1>12. CallsInv'
  BY <1>4, <1>5, <1>8, <1>11 DEF CallsInv
<1>13. OutcomesAreTrue'
  BY <1>4 DEF OutcomesAreTrue
<1> QED BY <1>12, <1>13

(* The server carries a call out.                                          *)
LEMMA CallsOfCarryOut ==
  ASSUME TypeOK, TypeOK', CountInv, CallsInv, OutcomesAreTrue, NEW c \in calls, CarryOut(c)
  PROVE  CallsInv' /\ OutcomesAreTrue'
<1> DEFINE d == [c EXCEPT !.stored = TRUE]
<1>1. c \in Call /\ d.stored /\ d.kind = c.kind /\ d.live = c.live /\ c.kind \in Kinds
  BY CallChanges DEF TypeOK, Call
<1>2. calls' = (calls \ {c}) \union {d} /\ ~c.stored
  BY DEF CarryOut
<1> HIDE DEF d
<1>3. /\ done \subseteq done' /\ \A k \in done' : k \in done \/ k = c.kind
      /\ c.kind \in {"signup", "verify", "register"} => c.kind \in done'
      /\ sent' = sent /\ form' = form /\ page' = page /\ faults' = faults
  BY DEF CarryOut
<1>4. \A k : Again(k)' <=> Again(k)
  BY <1>3 DEF Again
<1>5. \A u \in calls : u # c /\ u.kind = c.kind => Again(c.kind)
  BY <1>1, TwoAreAgain
<1>6. \A u \in calls' :
          /\ u.live => u.kind = KindOf(page)'
          /\ u.stored /\ u.kind \in {"signup", "verify", "register"} => u.kind \in done'
          /\ ~u.stored /\ u.kind \in done' => Again(u.kind)'
          /\ form'.status = "error" /\ u.kind = KindOf(page)' => Again(u.kind)'
  BY <1>1, <1>2, <1>3, <1>4, <1>5 DEF CallsInv
<1>7. \A k \in done' : sent'[k] >= 1
  BY <1>3 DEF CallsInv, CountInv
<1>8. CallsInv'
  BY <1>6, <1>7 DEF CallsInv
<1>9. ASSUME NEW k, k = KindOf(page), k \in {"signup", "verify", "register"}
      PROVE  /\ form'.status = "success" => k \in done'
             /\ form'.status = "error" /\ k \in done' => faults' > 0 \/ sent'[k] > 1
  BY <1>3, <1>9 DEF OutcomesAreTrue, CallsInv, Again
<1>10. OutcomesAreTrue'
  BY <1>3, <1>9 DEF OutcomesAreTrue
<1> QED BY <1>8, <1>10

(* A call ends, and the page that made it, if it is still there, says how. *)
LEMMA CallsOfEnding ==
  ASSUME TypeOK, TypeOK', CountInv, CallsInv, OutcomesAreTrue, NEW c \in calls,
         NEW s \in {"success", "error"}, Shown(c, s), calls' = calls \ {c},
         UNCHANGED <<sent, done, page>>, faults' >= faults,
         s = "success" => c.stored,
         s = "error" => faults' > 0 \/ (~c.stored /\ faults' = faults)
  PROVE  CallsInv' /\ OutcomesAreTrue'
<1>1. form' = form \/ (c.live /\ form'.status = s)
  BY ShownType
<1>2. \A k : Again(k) => Again(k)'
  BY DEF Again, TypeOK
<1>3. \A u \in calls' : u.kind = c.kind => Again(c.kind)'
  BY <1>2, TwoAreAgain
<1>4. c.live => c.kind = KindOf(page)
  BY DEF CallsInv
<1>5. CallsInv'
  BY <1>1, <1>2, <1>3, <1>4 DEF CallsInv
<1>6. ASSUME NEW k, k = KindOf(page), k \in {"signup", "verify", "register"}
      PROVE  /\ form'.status = "success" => k \in done
             /\ form'.status = "error" /\ k \in done => Again(k)'
  <2>1. CASE form' = form
    BY <2>1, <1>2, <1>6 DEF OutcomesAreTrue, Again
  <2>2. CASE c.live /\ form'.status = s
    BY <2>2, <1>2, <1>4, <1>6 DEF CallsInv, Again
  <2> QED BY <1>1, <2>1, <2>2
<1>7. OutcomesAreTrue'
  BY <1>6 DEF OutcomesAreTrue, Again
<1> QED BY <1>5, <1>7

(* A form reports what the server did.  A call that is refused was carried *)
(* out before, by an attempt whose answer was lost or by another call of   *)
(* its kind: that is Again.                                                *)
LEMMA StepCalls ==
  TypeOK /\ TypeOK' /\ CountInv /\ CallsInv /\ OutcomesAreTrue /\ [Next]_vars
    => CallsInv' /\ OutcomesAreTrue'
<1> SUFFICES ASSUME TypeOK, TypeOK', CountInv, CallsInv, OutcomesAreTrue, [Next]_vars
             PROVE  CallsInv' /\ OutcomesAreTrue'
  OBVIOUS
<1>0. faults \in Nat
  BY DEF TypeOK
<1>1. CASE UNCHANGED <<calls, sent, done, form, page>> /\ faults' >= faults
  BY <1>1, CallsStay
<1>2. CASE \/ Tick \/ \E k \in Keys : Arrive(k) \/ FetchFails(k)
           \/ TickOfPage \/ ChooseTab
           \/ \E f \in Filters : TypeSearch(f) \/ ChooseDifficulty(f)
           \/ Search \/ \E p \in 1 .. (Matches[AllProblems] + 1) : TurnTo(p)
           \/ UNCHANGED vars
  <2>1. CASE \E k \in Keys : Arrive(k) \/ FetchFails(k)
    BY <1>0, <1>1, <2>1 DEF Arrive, FetchFails
  <2>2. CASE \E p \in 1 .. (Matches[AllProblems] + 1) : TurnTo(p)
    BY <1>0, <1>1, <2>2 DEF TurnTo, Browsed
  <2>3. CASE Tick \/ TickOfPage \/ ChooseTab \/ Search \/ UNCHANGED vars
    BY <1>0, <1>1, <2>3 DEF Tick, TickOfPage, ChooseTab, Search, Browsed, vars
  <2>4. CASE \E f \in Filters : TypeSearch(f) \/ ChooseDifficulty(f)
    BY <1>0, <1>1, <2>4 DEF TypeSearch, ChooseDifficulty, Browsed
  <2> QED BY <1>2, <2>1, <2>2, <2>3, <2>4
<1>3. ASSUME NEW p \in Pages, Go(p) PROVE CallsInv' /\ OutcomesAreTrue'
  BY <1>3, CallsOfShown DEF Go
<1>4. CASE Jump
  <2>1. \E p \in Profiles : p # page
    BY DEF Profiles
  <2>2. page \in Profiles /\ page' \in Profiles
    BY <1>4, <2>1 DEF Jump
  <2>3. KindOf(page') = KindOf(page)
    BY <2>2 DEF KindOf, Profiles, Kinds
  <2> QED BY <1>0, <1>4, <2>3, CallsStay DEF Jump
<1>5. CASE Redirect
  <2>1. CASE page = "login"
    BY <1>0, <1>1, <1>5, <2>1 DEF Redirect
  <2>2. CASE page # "login"
    BY <1>5, <2>2, CallsOfShown DEF Redirect, Pages
  <2> QED BY <2>1, <2>2
<1>6. CASE StartEdit \/ CloseEdit
  <2>1. form'.status = form.status
    BY <1>6 DEF StartEdit, CloseEdit, TypeOK, Form
  <2> QED BY <1>0, <1>6, <2>1, CallsStay DEF StartEdit, CloseEdit
<1>7. CASE Send
  BY <1>7, CallsOfSend
<1>8. ASSUME NEW c \in calls, CarryOut(c) PROVE CallsInv' /\ OutcomesAreTrue'
  BY <1>8, CallsOfCarryOut
<1>9. ASSUME NEW c \in calls, Succeed(c) PROVE CallsInv' /\ OutcomesAreTrue'
  BY <1>0, <1>9, CallsOfEnding DEF Succeed
<1>10. ASSUME NEW c \in calls, Refuse(c) PROVE CallsInv' /\ OutcomesAreTrue'
  BY <1>0, <1>10, CallsOfEnding DEF Refuse
<1>11. ASSUME NEW c \in calls, Lose(c) PROVE CallsInv' /\ OutcomesAreTrue'
  <2>1. faults' = faults + 1 /\ faults' > 0 /\ faults' >= faults
    BY <1>0, <1>11 DEF Lose
  <2>2. CASE c.attempt < MaxAttempts
    <3> DEFINE d == [c EXCEPT !.attempt = @ + 1, !.stored = FALSE]
    <3>1. c \in Call /\ d.kind = c.kind /\ ~d.stored /\ d.live = c.live
      BY CallChanges DEF TypeOK
    <3>2. calls' = (calls \ {c}) \union {d} /\ UNCHANGED <<form, sent, done, page>>
      BY <1>11, <2>2 DEF Lose
    <3> HIDE DEF d
    <3>3. \A k : Again(k)'
      BY <2>1 DEF Again
    <3>4. CallsInv'
      BY <3>1, <3>2, <3>3 DEF CallsInv
    <3>5. OutcomesAreTrue'
      BY <2>1, <3>2 DEF OutcomesAreTrue
    <3> QED BY <3>4, <3>5
  <2>3. CASE ~(c.attempt < MaxAttempts)
    BY <1>11, <2>1, <2>3, CallsOfEnding DEF Lose
  <2> QED BY <2>2, <2>3
<1> QED BY <1>2, <1>3, <1>4, <1>5, <1>6, <1>7, <1>8, <1>9, <1>10, <1>11 DEF Next

LEMMA InitCalls == Init /\ TypeOK => CallsInv /\ OutcomesAreTrue
BY DEF Init, CallsInv, OutcomesAreTrue, NoForm

-----------------------------------------------------------------------------

(* What is left of a countdown, and how the clock was read.                *)
LEMMA ClockReads ==
  ASSUME TypeOK, ClockInv, clock' = [clock EXCEPT !.seen = now], UNCHANGED <<now, page, query>>
  PROVE  ClockInv'
BY VisitorAssumption DEF TypeOK, ClockInv, Clock

LEMMA ClockRendered ==
  ASSUME TypeOK, ClockInv, clock' \in {clock, Rendered}, UNCHANGED <<now, page>>,
         page = "contest" => (query'["contest"].data # {} => query["contest"].data # {})
  PROVE  ClockInv'
BY VisitorAssumption, RenderedType DEF TypeOK, ClockInv, Clock

(* An invalidation fetches again what is on screen, and drops the rest.    *)
LEMMA InvalidatedKeepsData ==
  ASSUME TypeOK, Invalidated
  PROVE  \A k \in Keys :
           /\ page = k /\ (query[k].flight = {} \/ query[k].data # {}) =>
                query'[k].flight = {Registered} /\ query'[k].data = query[k].data
                /\ query'[k].failed = query[k].failed
           /\ page = k /\ ~(query[k].flight = {} \/ query[k].data # {}) => query'[k] = query[k]
           /\ page # k /\ query[k].flight = {} => query'[k] = NoQuery
           /\ page # k /\ query[k].flight # {} => query'[k] = query[k]
<1> DEFINE fetched(k) == [query[k] EXCEPT !.flight = {Registered}]
<1>1. \A k \in Keys : /\ fetched(k).flight = {Registered} /\ fetched(k).data = query[k].data
                      /\ fetched(k).failed = query[k].failed
  BY FetchOfQuery DEF TypeOK
<1>2. query' = [k \in Keys |->
        CASE page = k /\ (query[k].flight = {} \/ query[k].data # {}) -> fetched(k)
          [] page # k /\ query[k].flight = {} -> NoQuery
          [] OTHER -> query[k]]
  BY DEF Invalidated
<1> HIDE DEF fetched
<1> QED BY <1>1, <1>2

(* Opening the contest page starts the interval of the countdown.          *)
LEMMA ClockOfShown ==
  ASSUME TypeOK, NEW p \in Pages, Show(p), now' = now
  PROVE  ClockInv'
<1>1. query' \in [Keys -> Query] /\ \A k \in Keys : query'[k].data = query[k].data
  BY MountedKeeps DEF Show, TypeOK
<1>2. page' = p /\ now \in Nat
  BY DEF Show, TypeOK
<1>3. CASE p = "contest" /\ query["contest"].data # {}
  <2>1. clock' = Countdown /\ now <= now /\ now' = now
    BY <1>2, <1>3 DEF Show
  <2> QED BY <2>1, CountdownType DEF ClockInv
<1>4. CASE ~(p = "contest" /\ query["contest"].data # {})
  <2>1. clock'.seen <= now /\ clock'.left = "ended" /\ now' = now
    BY <1>2, <1>4 DEF Show, NoClock
  <2>2. "contest" \in Keys
    BY DEF Keys
  <2> QED BY <1>1, <1>2, <1>4, <2>1, <2>2 DEF ClockInv
<1> QED BY <1>3, <1>4

(* The clock of a contest page was read at most one tick ago, or stopped   *)
(* at what it counts down to.                                              *)
LEMMA StepClock == TypeOK /\ ClockInv /\ [Next]_vars => ClockInv'
<1> SUFFICES ASSUME TypeOK, ClockInv, [Next]_vars
             PROVE  ClockInv'
  OBVIOUS
<1>0. now \in Nat /\ clock.seen \in Nat
  BY DEF TypeOK, Clock
<1>1. CASE UNCHANGED <<clock, page, query>> /\ now' >= now /\ now' \in Nat
  BY <1>0, <1>1 DEF ClockInv
<1>2. CASE \/ Tick
           \/ \E f \in Filters : TypeSearch(f) \/ ChooseDifficulty(f)
           \/ Search \/ \E p \in 1 .. (Matches[AllProblems] + 1) : TurnTo(p)
           \/ StartEdit \/ CloseEdit \/ \E c \in calls : CarryOut(c)
           \/ UNCHANGED vars
  <2>1. CASE \E c \in calls : CarryOut(c)
    BY <1>0, <1>1, <2>1 DEF CarryOut
  <2>2. CASE \E p \in 1 .. (Matches[AllProblems] + 1) : TurnTo(p)
    BY <1>0, <1>1, <2>2 DEF TurnTo, Browsed
  <2>3. CASE Tick \/ Search \/ StartEdit \/ CloseEdit \/ UNCHANGED vars
    BY <1>0, <1>1, <2>3 DEF Tick, Search, StartEdit, CloseEdit, Browsed, vars
  <2>4. CASE \E f \in Filters : TypeSearch(f) \/ ChooseDifficulty(f)
    BY <1>0, <1>1, <2>4 DEF TypeSearch, ChooseDifficulty, Browsed
  <2> QED BY <1>2, <2>1, <2>2, <2>3, <2>4
<1>3. ASSUME NEW p \in Pages, Go(p) PROVE ClockInv'
  BY <1>3, ClockOfShown DEF Go
<1>4. CASE Jump
  <2>1. \E p \in Profiles : p # page
    BY DEF Profiles
  <2>2. page' # "contest" /\ now' = now /\ clock' = clock
    BY <1>4, <2>1 DEF Jump, Profiles
  <2> QED BY <2>2 DEF ClockInv
<1>5. CASE Redirect
  <2>1. CASE page = "login"
    BY <1>0, <1>1, <1>5, <2>1 DEF Redirect
  <2>2. CASE page # "login"
    BY <1>5, <2>2, ClockOfShown DEF Redirect, Pages
  <2> QED BY <2>1, <2>2
<1>6. ASSUME NEW k \in Keys, Arrive(k) PROVE ClockInv'
  <2>1. /\ query' \in [Keys -> Query] \/ TRUE
        /\ \A j \in Keys : j # k => query'[j] = query[j]
        /\ UNCHANGED <<now, page>>
    BY <1>6 DEF Arrive, TypeOK
  <2>2. CASE page = "contest" /\ k = "contest" /\ query[k].flight # query[k].data
    <3>1. clock' = Countdown /\ now <= now /\ now' = now
      BY <1>0, <1>6, <2>1, <2>2 DEF Arrive
    <3> QED BY <3>1, CountdownType DEF ClockInv
  <2>3. CASE page = "contest" /\ k = "contest" /\ query[k].flight = query[k].data
    BY <1>6, <2>1, <2>3, ClockRendered DEF Arrive
  <2>4. CASE ~(page = "contest" /\ k = "contest")
    <3>1. clock' \in {clock, Rendered}
      BY <1>6, <2>4 DEF Arrive
    <3>2. page = "contest" => query'["contest"] = query["contest"]
      BY <2>1, <2>4 DEF Keys
    <3> QED BY <2>1, <3>1, <3>2, ClockRendered
  <2> QED BY <2>2, <2>3, <2>4
<1>7. ASSUME NEW k \in Keys, FetchFails(k) PROVE ClockInv'
  <2>1. \A j \in Keys : query'[j].data = query[j].data
    BY <1>7, FailedFetch DEF TypeOK
  <2>2. UNCHANGED <<now, page, clock>>
    BY <1>7 DEF FetchFails
  <2> QED BY <2>1, <2>2, ClockRendered DEF Keys
<1>8. CASE TickOfPage
  <2>1. UNCHANGED <<now, page, query>>
        /\ clock' = [clock EXCEPT !.left = Remaining(clock.target, now), !.seen = now]
    BY <1>8 DEF TickOfPage
  <2>2. clock'.seen = now /\ clock'.target = clock.target
        /\ clock'.left = Remaining(clock.target, now)
    BY <2>1 DEF TypeOK, Clock
  <2>3. clock.target # "none"
    BY <1>8 DEF TickOfPage, ClockInv
  <2> QED BY <1>0, <2>1, <2>2, <2>3, VisitorAssumption DEF ClockInv, Remaining, TypeOK,
      Clock
<1>9. CASE ChooseTab
  BY <1>9, ClockReads DEF ChooseTab
<1>10. CASE Send
  BY <1>10, ClockRendered DEF Send
<1>11. ASSUME NEW c \in calls, Succeed(c) PROVE ClockInv'
  <2>1. clock' \in {clock, Rendered} /\ UNCHANGED <<now, page>>
    BY <1>11, ShownType DEF Succeed
  <2>2. page = "contest" => (query'["contest"].data # {} => query["contest"].data # {})
    BY <1>11, InvalidatedKeepsData DEF Succeed, Keys
  <2> QED BY <2>1, <2>2, ClockRendered
<1>12. ASSUME NEW c \in calls, Refuse(c) PROVE ClockInv'
  BY <1>12, ShownType, ClockRendered DEF Refuse
<1>13. ASSUME NEW c \in calls, Lose(c) PROVE ClockInv'
  <2>1. clock' \in {clock, Rendered} /\ UNCHANGED <<now, page, query>>
    BY <1>13, ShownType DEF Lose
  <2> QED BY <2>1, ClockRendered
<1> QED BY <1>2, <1>3, <1>4, <1>5, <1>6, <1>7, <1>8, <1>9, <1>10, <1>11, <1>12, <1>13
    DEF Next

Answering == \E c \in calls : c.kind = "register" /\ c.stored

(* Steps that fetch nothing and change no registration.                    *)
LEMMA QueryStays ==
  ASSUME TypeOK, QueryInv, UNCHANGED <<query, done, overtaken, faults>>,
         Answering => Answering'
  PROVE  QueryInv'
<1>1. Registered' = Registered
  BY DEF Registered
<1> QED BY <1>1 DEF QueryInv, Answering

LEMMA QueryOfShown ==
  ASSUME TypeOK, CountInv, QueryInv, NEW p \in Pages, Show(p), UNCHANGED <<done, faults>>
  PROVE  QueryInv'
<1>1. /\ query' \in [Keys -> Query] /\ (overtaken => overtaken')
      /\ \A k \in Keys : /\ query'[k].data = query[k].data
                         /\ query'[k].flight \in {query[k].flight, {Registered}}
  BY MountedKeeps DEF Show, TypeOK
<1>2. Registered' = Registered
  BY DEF Registered
<1>3. Answering => Answering'
  <2> SUFFICES ASSUME NEW c \in calls, c.kind = "register", c.stored
               PROVE  Answering'
    BY DEF Answering
  <2>1. PICK u \in Unmounted(calls) : u = [c EXCEPT !.live = FALSE]
    BY UnmountedCalls DEF TypeOK, CountInv
  <2>2. u.kind = "register" /\ u.stored
    BY <2>1, UnmountedCalls DEF TypeOK, CountInv
  <2>3. u \in calls'
    BY DEF Show, Opened
  <2> QED BY <2>2, <2>3 DEF Answering
<1>4. CASE overtaken \/ faults > 0 \/ Answering
  BY <1>1, <1>3, <1>4 DEF QueryInv, Answering
<1>5. CASE ~(overtaken \/ faults > 0 \/ Answering)
  <2>1. \A k \in Keys : /\ query[k].flight \subseteq {Registered}
                        /\ query[k].flight = {} => query[k].data \subseteq {Registered}
    BY <1>5 DEF QueryInv, Answering
  <2>2. \A k \in Keys : /\ query'[k].flight \subseteq {Registered}
                        /\ query'[k].flight = {} => query'[k].data \subseteq {Registered}
    BY <1>1, <2>1
  <2> QED BY <1>2, <2>2 DEF QueryInv
<1> QED BY <1>4, <1>5

LEMMA StepQuery == TypeOK /\ CountInv /\ QueryInv /\ [Next]_vars => QueryInv'
<1> SUFFICES ASSUME TypeOK, CountInv, QueryInv, [Next]_vars
             PROVE  QueryInv'
  OBVIOUS
<1>0. faults \in Nat /\ faults >= faults
  BY DEF TypeOK
<1>1. CASE UNCHANGED <<query, done, overtaken, faults, calls>>
  BY <1>0, <1>1, QueryStays DEF Answering
<1>2. CASE Tick \/ Jump \/ TickOfPage \/ ChooseTab \/ Search \/ StartEdit \/ CloseEdit
           \/ UNCHANGED vars
  BY <1>1, <1>2 DEF Tick, Jump, TickOfPage, ChooseTab, Search, Browsed, StartEdit,
     CloseEdit, vars
<1>3. CASE \E f \in Filters : TypeSearch(f) \/ ChooseDifficulty(f)
  BY <1>1, <1>3 DEF TypeSearch, ChooseDifficulty, Browsed
<1>4. CASE \E p \in 1 .. (Matches[AllProblems] + 1) : TurnTo(p)
  BY <1>1, <1>4 DEF TurnTo, Browsed
<1>5. ASSUME NEW p \in Pages, Go(p) PROVE QueryInv'
  BY <1>5, QueryOfShown DEF Go
<1>6. CASE Redirect
  <2>1. CASE page = "login"
    BY <1>1, <1>6, <2>1 DEF Redirect
  <2>2. CASE page # "login"
    BY <1>6, <2>2, QueryOfShown DEF Redirect, Pages
  <2> QED BY <2>1, <2>2
<1>7. ASSUME NEW k \in Keys, Arrive(k) PROVE QueryInv'
  <2>1. /\ \A j \in Keys : j # k => query'[j] = query[j]
        /\ query'[k].flight = {} /\ query'[k].data = query[k].flight
        /\ query[k].flight # {}
        /\ UNCHANGED <<overtaken, faults, calls>> /\ Registered' = Registered
    BY <1>7 DEF Arrive, TypeOK, Registered
  <2>2. CASE overtaken \/ faults > 0 \/ Answering
    BY <2>1, <2>2 DEF QueryInv, Answering
  <2>3. CASE ~(overtaken \/ faults > 0 \/ Answering)
    <3>1. \A j \in Keys : /\ query[j].flight \subseteq {Registered}
                          /\ query[j].flight = {} => query[j].data \subseteq {Registered}
      BY <2>3 DEF QueryInv, Answering
    <3>2. \A j \in Keys : /\ query'[j].flight \subseteq {Registered}
                          /\ query'[j].flight = {} => query'[j].data \subseteq {Registered}
      BY <2>1, <3>1
    <3> QED BY <2>1, <3>2 DEF QueryInv
  <2> QED BY <2>2, <2>3
<1>8. ASSUME faults' > 0 PROVE QueryInv'
  BY <1>8 DEF QueryInv
<1>9. ASSUME NEW k \in Keys, FetchFails(k) PROVE QueryInv'
  BY <1>0, <1>8, <1>9 DEF FetchFails
<1>10. CASE Send
  <2>1. calls \subseteq calls' /\ UNCHANGED <<query, done, overtaken, faults>>
    BY <1>10 DEF Send
  <2> QED BY <1>0, <2>1, QueryStays DEF Answering
<1>11. ASSUME NEW c \in calls, CarryOut(c) PROVE QueryInv'
  <2> DEFINE d == [c EXCEPT !.stored = TRUE]
  <2>1. d.stored /\ d.kind = c.kind
    BY CallChanges DEF TypeOK
  <2>2. calls' = (calls \ {c}) \union {d} /\ ~c.stored
        /\ UNCHANGED <<query, overtaken, faults>>
    BY <1>11 DEF CarryOut
  <2> HIDE DEF d
  <2>3. CASE c.kind = "register"
    BY <2>1, <2>2, <2>3 DEF QueryInv
  <2>4. CASE c.kind # "register"
    <3>1. Registered' = Registered
      BY <1>11, <2>4 DEF CarryOut, Registered
    <3>2. Answering => Answering'
      BY <2>2 DEF Answering
    <3> QED BY <2>2, <3>1, <3>2 DEF QueryInv, Answering
  <2> QED BY <2>3, <2>4
<1>12. ASSUME NEW c \in calls, Succeed(c) PROVE QueryInv'
  <2>1. CASE c.kind # "register"
    <3>1. UNCHANGED <<query, done, overtaken, faults>> /\ calls' = calls \ {c}
      BY <1>12, <2>1 DEF Succeed
    <3>2. Answering => Answering'
      BY <2>1, <3>1 DEF Answering
    <3> QED BY <1>0, <3>1, <3>2, QueryStays
  <2>2. CASE c.kind = "register" /\ overtaken'
    BY <2>2 DEF QueryInv
  <2>3. CASE c.kind = "register" /\ ~overtaken'
    <3>1. Invalidated /\ \A k \in Keys : query'[k].flight \in {{}, {Registered}}
      BY <1>12, <2>3 DEF Succeed
    <3>2. Registered' = Registered
      BY <1>12 DEF Succeed, Registered
    <3>3. \A k \in Keys : query'[k].flight = {} => query'[k].data = {}
      BY <3>1, InvalidatedKeepsData DEF NoQuery
    <3>4. \A k \in Keys : /\ query'[k].flight \subseteq {Registered}
                          /\ query'[k].flight = {} => query'[k].data \subseteq {Registered}
      BY <3>1, <3>3
    <3> QED BY <3>2, <3>4 DEF QueryInv
  <2> QED BY <2>1, <2>2, <2>3
<1>13. ASSUME NEW c \in calls, Refuse(c) PROVE QueryInv'
  <2>1. UNCHANGED <<query, done, overtaken, faults>> /\ calls' = calls \ {c} /\ ~c.stored
    BY <1>13 DEF Refuse
  <2>2. Answering => Answering'
    BY <2>1 DEF Answering
  <2> QED BY <1>0, <2>1, <2>2, QueryStays
<1>14. ASSUME NEW c \in calls, Lose(c) PROVE QueryInv'
  BY <1>0, <1>8, <1>14 DEF Lose
<1> QED BY <1>2, <1>3, <1>4, <1>5, <1>6, <1>7, <1>9, <1>10, <1>11, <1>12, <1>13, <1>14
    DEF Next

-----------------------------------------------------------------------------
(* The buttons under the list of problems, for any number of pages.        *)
LEMMA ButtonsAreSound ==
  ASSUME NEW p \in Nat, p >= 1, NEW total \in Nat
  PROVE  /\ Buttons(p, total) \subseteq 1..total
         /\ total > 1 /\ p <= total => p \in Buttons(p, total)
<1>1. CASE total <= 7
  BY <1>1 DEF Buttons
<1>2. CASE total > 7 /\ p <= 4
  BY <1>2 DEF Buttons
<1>3. CASE total > 7 /\ p > 4 /\ p >= total - 3
  BY <1>3 DEF Buttons
<1>4. CASE total > 7 /\ p > 4 /\ p < total - 3
  BY <1>4 DEF Buttons
<1> QED BY <1>1, <1>2, <1>3, <1>4

(* The page number of the list of problems.                                *)
LEMMA Browsing ==
  ASSUME NEW b \in Browse
  PROVE  b.filter \in Filters /\ b.page \in Nat /\ Matches[b.filter] \in Nat
BY VisitorAssumption DEF Browse

LEMMA StepBrowse == TypeOK /\ BrowseInv /\ [Next]_vars => BrowseInv'
<1> SUFFICES ASSUME TypeOK, BrowseInv, [Next]_vars
             PROVE  BrowseInv'
  OBVIOUS
<1> DEFINE total == Matches[browse.filter]
<1>0. /\ browse.filter \in Filters /\ browse.page \in Nat /\ total \in Nat
      /\ browse.page >= 1 /\ (browse.page > total /\ total > 0 => browse.typed)
      /\ \A f \in Filters : Matches[f] \in Nat
  BY Browsing, VisitorAssumption DEF TypeOK, BrowseInv
<1>1. ASSUME UNCHANGED browse PROVE BrowseInv'
  BY <1>1 DEF BrowseInv
<1>2. ASSUME browse'.page = 1, browse'.filter \in Filters PROVE BrowseInv'
  BY <1>0, <1>2 DEF BrowseInv
<1>3. CASE Tick \/ Jump \/ TickOfPage \/ ChooseTab \/ StartEdit \/ CloseEdit \/ Send
           \/ UNCHANGED vars
  BY <1>1, <1>3 DEF Tick, Jump, TickOfPage, ChooseTab, StartEdit, CloseEdit, Send, vars
<1>4. CASE \E k \in Keys : Arrive(k) \/ FetchFails(k)
  BY <1>1, <1>4 DEF Arrive, FetchFails
<1>5. CASE \E c \in calls : CarryOut(c) \/ Succeed(c) \/ Refuse(c) \/ Lose(c)
  BY <1>1, <1>5 DEF CarryOut, Succeed, Refuse, Lose
<1>6. ASSUME NEW p \in Pages, Show(p) PROVE BrowseInv'
  <2>1. browse' \in Browse /\ browse'.page = 1
    BY <1>6, NoBrowseType DEF Show
  <2> QED BY <1>2, <2>1 DEF Browse
<1>7. CASE \E p \in Pages : Go(p)
  BY <1>6, <1>7 DEF Go
<1>8. CASE Redirect
  BY <1>1, <1>6, <1>8 DEF Redirect, Pages
<1>9. ASSUME NEW f \in Filters, TypeSearch(f) PROVE BrowseInv'
  <2>1. browse'.page = browse.page /\ browse'.typed
    BY <1>9 DEF TypeSearch, Browsed, TypeOK, Browse
  <2> QED BY <1>0, <2>1 DEF BrowseInv
<1>10. ASSUME NEW f \in Filters, ChooseDifficulty(f) PROVE BrowseInv'
  BY <1>2, <1>10 DEF ChooseDifficulty, Browsed
<1>11. CASE Search
  <2>1. browse'.page = 1 /\ browse'.filter = browse.filter
    BY <1>11 DEF Search, Browsed, TypeOK, Browse
  <2> QED BY <1>0, <1>2, <2>1
<1>12. ASSUME NEW p \in 1 .. (Matches[AllProblems] + 1), TurnTo(p) PROVE BrowseInv'
  <2> DEFINE t == browse.typed /\ p > Matches[browse.filter]
  <2>1. browse' = [browse EXCEPT !.page = p, !.typed = t]
    BY <1>12 DEF TurnTo, Browsed
  <2> HIDE DEF t
  <2>2. browse'.page = p /\ browse'.typed = t /\ browse'.filter = browse.filter
    BY <2>1 DEF TypeOK, Browse
  <2>3. p \in Nat /\ p >= 1
    OBVIOUS
  <2>4. p > total /\ total > 0 => browse.typed
    <3>1. \/ p \in Buttons(browse.page, total)
          \/ browse.page > 1 /\ p = browse.page - 1
          \/ browse.page < total /\ p = browse.page + 1
      BY <1>12 DEF TurnTo
    <3>2. CASE p \in Buttons(browse.page, total)
      <4>1. p \in 1..total
        BY <1>0, <3>2, ButtonsAreSound
      <4> QED BY <1>0, <4>1
    <3>3. CASE ~(p \in Buttons(browse.page, total))
      BY <1>0, <3>1, <3>3
    <3> QED BY <3>2, <3>3
  <2> QED BY <1>0, <2>2, <2>3, <2>4 DEF BrowseInv, t
<1> QED BY <1>3, <1>4, <1>5, <1>7, <1>8, <1>9, <1>10, <1>11, <1>12 DEF Next

-----------------------------------------------------------------------------
(* Everything that holds of the pages of a visitor, together.              *)
VisitorInv ==
    /\ TypeOK /\ CountInv
    /\ CallsInv /\ OutcomesAreTrue
    /\ ClockInv /\ QueryInv /\ BrowseInv

(* The inductive invariant of the pages of a visitor.                      *)
THEOREM VisitorInvariant == Spec => []VisitorInv
<1>1. Init => VisitorInv
  <2> SUFFICES ASSUME Init PROVE VisitorInv
    OBVIOUS
  <2>1. TypeOK /\ CountInv
    BY InitTypes
  <2>2. CallsInv /\ OutcomesAreTrue
    BY <2>1, InitCalls
  <2>3. ClockInv
    BY DEF Init, ClockInv, NoClock
  <2>4. QueryInv
    BY DEF Init, QueryInv, NoQuery
  <2>5. BrowseInv
    <3>1. Matches[AllProblems] \in Nat
      BY NoBrowseType, Browsing DEF NoBrowse
    <3> QED BY <3>1 DEF Init, BrowseInv, NoBrowse
  <2> QED BY <2>1, <2>2, <2>3, <2>4, <2>5 DEF VisitorInv
<1>2. VisitorInv /\ [Next]_vars => VisitorInv'
  BY StepTypes, StepCalls, StepClock, StepQuery, StepBrowse DEF VisitorInv
<1> QED BY <1>1, <1>2, PTL DEF Spec

(* A form that reports success was carried out, and one that reports an    *)
(* error while the server had carried it out was sent again.               *)
THEOREM FormsTellTheTruth == Spec => []OutcomesAreTrue
<1>1. VisitorInv => OutcomesAreTrue
  BY DEF VisitorInv
<1> QED BY <1>1, VisitorInvariant, PTL

(* The badge of a contest is the status it has, or had when the clock was  *)
(* last read, until the interval notices.                                  *)
THEOREM BadgesLagByATick == Spec => []BadgeFollowsContest
<1>1. VisitorInv => BadgeFollowsContest
  <2> SUFFICES ASSUME VisitorInv, Shows("contest") PROVE
         \/ Status(clock.seen) = Status(now)
         \/ clock.left = "time"
         \/ clock.target = "start" /\ Status(clock.seen) = "running"
         \/ clock.seen = End
    BY DEF BadgeFollowsContest
  <2>1. now \in Nat /\ clock.seen \in Nat /\ clock.seen <= now
    BY DEF VisitorInv, TypeOK, ClockInv, Clock
  <2>2. \/ clock.left = "time"
        \/ clock.target = "start" /\ clock.seen >= Start
        \/ clock.target = "end" /\ clock.seen >= End
        \/ clock.target = "none" /\ clock.seen > End
    BY DEF VisitorInv, ClockInv, Shows
  <2> QED BY <2>1, <2>2, VisitorAssumption DEF Status
<1> QED BY <1>1, VisitorInvariant, PTL

(* With nothing under way, the pages of a contest show the registration,   *)
(* unless a fetch was overtaken or failed.                                 *)
THEOREM RegistrationsAreCounted == Spec => []ParticipantsAreCounted
<1>1. VisitorInv => ParticipantsAreCounted
  <2> SUFFICES ASSUME VisitorInv, calls = {}, ~overtaken, ~(faults > 0), NEW k \in Keys,
                      Shows(k), query[k].flight = {}
               PROVE  query[k].data = {Registered}
    BY DEF ParticipantsAreCounted
  <2>1. query[k].data \subseteq {Registered}
    BY DEF VisitorInv, QueryInv
  <2>2. query[k].data # {}
    BY DEF Shows
  <2> QED BY <2>1, <2>2
<1> QED BY <1>1, VisitorInvariant, PTL

(* Every button under the list of problems leads to a page that exists,    *)
(* and the page on screen has its button, unless its number was typed in   *)
(* under another filter.                                                   *)
THEOREM PagesCanBeReached == Spec => []PagingIsSound
<1>1. VisitorInv => PagingIsSound
  <2> SUFFICES ASSUME VisitorInv PROVE PagingIsSound
    OBVIOUS
  <2>1. browse.page \in Nat /\ browse.page >= 1 /\ Matches[browse.filter] \in Nat
    BY Browsing DEF VisitorInv, TypeOK, BrowseInv
  <2>2. LET total == Matches[browse.filter]
        IN  /\ Buttons(browse.page, total) \subseteq 1..total
            /\ total > 1 /\ browse.page <= total => browse.page \in Buttons(browse.page, total)
    BY <2>1, ButtonsAreSound
  <2> QED BY <2>1, <2>2 DEF PagingIsSound, VisitorInv, BrowseInv
<1> QED BY <1>1, VisitorInvariant, PTL
=============================================================================
