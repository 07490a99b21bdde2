-------------------------- MODULE LiveUpdateProofs --------------------------
(***************************************************************************)
(* What keeps the pages of an instance current.                            *)
(*                                                                         *)
(* ActivityController, for any number of requests: the workers are not     *)
(* stopped under the lease of one.                                         *)
(*                                                                         *)
(* CommitFeed, for any targets, browsers and depths of the queues: what    *)
(* the listener knows has been sent to every client that synchronized      *)
(* after it and lost nothing, or is on its way.                            *)
(***************************************************************************)
EXTENDS CommitFeed, ActivityController, FiniteSetTheorems, SequenceTheorems, TLAPS

----------------------------------------------------------------------------
\* ActivityController

\* The requests that hold a lease.
Leases == {r \in Request : request[r] \in {"admitted", "started"}}

RequestState == {"out", "admitted", "started", "released", "recorded"}

LeaseInv ==
    /\ request \in [Request -> RequestState]
    /\ inFlight = Cardinality(Leases)
    /\ pc \in {"stopWorkers", "idle"} => locked /\ inFlight = 0

LEMMA LeasesFinite ==
    /\ IsFiniteSet(Leases) /\ Cardinality(Leases) \in Nat
    /\ IsFiniteSet(Leases') /\ Cardinality(Leases') \in Nat
<1>1. Leases \subseteq Request /\ Leases' \subseteq Request /\ IsFiniteSet(Request)
  BY ActivityAssumption DEF Leases
<1> QED
  BY <1>1, FS_Subset, FS_CardinalityType

LEMMA LeaseStart == ActivityInit => LeaseInv
<1> SUFFICES ASSUME ActivityInit PROVE LeaseInv
  OBVIOUS
<1>1. request \in [Request -> RequestState] /\ Leases = {}
  BY DEF ActivityInit, RequestState, Leases
<1>2. inFlight = 0 /\ pc = "select"
  BY DEF ActivityInit
<1> QED
  BY <1>1, <1>2, FS_EmptySet DEF LeaseInv

LEMMA BeginKeeps ==
    ASSUME LeaseInv, NEW r \in Request, BeginActivity(r)
    PROVE  LeaseInv'
<1>1. /\ request[r] = "out" /\ request' = [request EXCEPT ![r] = "admitted"]
      /\ inFlight' = inFlight + 1 /\ pc' = pc /\ ~locked
  BY DEF BeginActivity, runVars
<1>2. request' \in [Request -> RequestState]
  BY <1>1 DEF LeaseInv, RequestState
<1>3. r \notin Leases /\ Leases' = Leases \cup {r}
  BY <1>1 DEF LeaseInv, Leases
<1>4. inFlight' = Cardinality(Leases')
  BY <1>1, <1>3, LeasesFinite, FS_AddElement DEF LeaseInv
<1> QED
  BY <1>1, <1>2, <1>4 DEF LeaseInv

LEMMA FinishKeeps ==
    ASSUME LeaseInv, NEW r \in Request, NEW success \in BOOLEAN, Finish(r, success)
    PROVE  LeaseInv'
<1>1. /\ request[r] \in {"admitted", "started"} /\ inFlight' = inFlight - 1
      /\ pc' = pc /\ locked' = locked
  BY DEF Finish, runVars
<1>2. PICK after \in {"released", "out"} : request' = [request EXCEPT ![r] = after]
  BY DEF Finish
<1>3. request' \in [Request -> RequestState]
  BY <1>2 DEF LeaseInv, RequestState
<1>4. r \in Leases /\ Leases' = Leases \ {r}
  BY <1>1, <1>2 DEF LeaseInv, Leases
<1>5. Cardinality(Leases') = Cardinality(Leases) - 1
  BY <1>4, LeasesFinite, FS_RemoveElement
<1>6. inFlight' = Cardinality(Leases') /\ inFlight # 0
  BY <1>1, <1>5, LeasesFinite DEF LeaseInv
<1> QED
  BY <1>1, <1>3, <1>6 DEF LeaseInv

\* A request moves on and keeps its lease, or goes on having none.
LEMMA MoveKeeps ==
    ASSUME LeaseInv, NEW r \in Request, NEW after \in RequestState,
           request' = [request EXCEPT ![r] = after],
           request[r] \in {"admitted", "started"} <=> after \in {"admitted", "started"},
           UNCHANGED <<pc, locked, inFlight>>
    PROVE  LeaseInv'
<1>1. request' \in [Request -> RequestState]
  BY DEF LeaseInv
<1>2. Leases' = Leases
  BY DEF LeaseInv, Leases
<1> QED
  BY <1>1, <1>2 DEF LeaseInv

LEMMA LoopKeeps ==
    ASSUME LeaseInv, RunStep
    PROVE  LeaseInv'
<1>1. request' = request /\ inFlight' = inFlight
  BY DEF RunStep, ReceiveActivity, HandleActivity, Expire, CheckExpiry, StopWorkers,
         RunIdleHandlers, ReceiveDone, RunShutdownHandlers
<1>2. Leases' = Leases
  BY <1>1 DEF Leases
<1>3. pc' \in {"stopWorkers", "idle"} => locked' /\ inFlight = 0
  <2>1. CASE CheckExpiry
    <3>1. Cardinality(Leases) \in Nat /\ inFlight = Cardinality(Leases)
      BY LeasesFinite DEF LeaseInv
    <3>2. pc' # "select" => ~(inFlight > 0) /\ locked' = TRUE
      BY <2>1 DEF CheckExpiry
    <3>3. pc' \in {"stopWorkers", "idle"} => inFlight = 0
      BY <3>1, <3>2
    <3> QED
      BY <3>2, <3>3
  <2>2. CASE StopWorkers
    BY <2>2 DEF StopWorkers, LeaseInv
  <2>3. CASE pc' \notin {"stopWorkers", "idle"}
    BY <2>3
  <2> QED
    BY <2>1, <2>2, <2>3 DEF RunStep, ReceiveActivity, HandleActivity, Expire, RunIdleHandlers,
                            ReceiveDone, RunShutdownHandlers
<1> QED
  BY <1>1, <1>2, <1>3 DEF LeaseInv

LEMMA LeaseStep == LeaseInv /\ [ActivityNext]_activityVars => LeaseInv'
<1> SUFFICES ASSUME LeaseInv, [ActivityNext]_activityVars PROVE LeaseInv'
  OBVIOUS
<1>1. CASE RunStep
  BY <1>1, LoopKeeps
<1>2. ASSUME NEW r \in Request, BeginActivity(r) PROVE LeaseInv'
  BY <1>2, BeginKeeps
<1>3. ASSUME NEW r \in Request,
             AcceptSocket(r) \/ StartsRoom(r) \/ CountActivity(r) \/ Notify(r)
      PROVE  LeaseInv'
  <2>1. UNCHANGED <<pc, locked, inFlight>>
    BY <1>3 DEF AcceptSocket, StartsRoom, CountActivity, Notify, runVars
  <2>2. CASE AcceptSocket(r)
    BY <2>1, <2>2, MoveKeeps DEF AcceptSocket, RequestState
  <2>3. CASE StartsRoom(r)
    BY <2>1, <2>3, MoveKeeps DEF StartsRoom, RequestState
  <2>4. CASE CountActivity(r)
    BY <2>1, <2>4, MoveKeeps DEF CountActivity, RequestState
  <2>5. CASE Notify(r)
    BY <2>1, <2>5, MoveKeeps DEF Notify, RequestState
  <2> QED
    BY <1>3, <2>2, <2>3, <2>4, <2>5
<1>4. ASSUME NEW r \in Request, NEW s \in BOOLEAN, Finish(r, s) PROVE LeaseInv'
  BY <1>4, FinishKeeps
<1>5. CASE UNCHANGED <<request, inFlight, pc, locked>>
  BY <1>5 DEF LeaseInv, Leases
<1> QED
  BY <1>1, <1>2, <1>3, <1>4, <1>5
     DEF ActivityNext, RequestStep, Terminate, Exit, activityVars, runVars

(* Run stops the workers and the rooms for idleness only while no admitted  *)
(* request is being served, however requests, sockets, timers and the stop  *)
(* of the process interleave.                                               *)
THEOREM IdleNeedsNoLease == ActivitySpec => []NoIdleUnderLease
<1>1. LeaseInv => NoIdleUnderLease
  BY DEF LeaseInv, NoIdleUnderLease
<1> QED
  BY <1>1, LeaseStart, LeaseStep, PTL DEF ActivitySpec

----------------------------------------------------------------------------
\* The way of a commit to the browsers

ClientRec == [phase : {"off", "accepted", "subscribed", "synced"}, queue : Seq(Note),
              sent : [Target -> Version], early : BOOLEAN, lossy : BOOLEAN]
PageRec == [data : [Target -> Version], seen : [Target -> Version], dirty : SUBSET Target,
            reconnecting : BOOLEAN]

\* The listener is behind the store and neither it nor its queues ahead of it.
ListenerOK ==
  /\ \A t \in Target : known[t] <= store[t] /\ Noticed(t)
  /\ \A n \in Range(wire) \cup Range(batch) : n[2] <= store[n[1]]

\* A client that synchronized with the listener's help and lost nothing.  The
\* listener has published whatever it came to know since.
Kept(c) ==
  \A t \in Target :
    client[c].phase = "synced" /\ ~client[c].early /\ ~client[c].lossy =>
      initialized /\ Upcoming(c, t, known[t])

FeedInv == FeedTypeOK /\ ListenerOK /\ \A c \in Client : Kept(c)

LEMMA AppendRange ==
  ASSUME NEW S, NEW s \in Seq(S), NEW x \in S
  PROVE  /\ Append(s, x) \in Seq(S) /\ Len(Append(s, x)) = Len(s) + 1 /\ Len(s) \in Nat
         /\ Range(Append(s, x)) = Range(s) \cup {x}
<1>1. /\ Append(s, x) \in Seq(S) /\ Len(Append(s, x)) = Len(s) + 1 /\ Len(s) \in Nat
      /\ \A i \in 1..Len(s) : Append(s, x)[i] = s[i]
      /\ Append(s, x)[Len(s) + 1] = x
  OBVIOUS
<1>2. DOMAIN Append(s, x) = 1..Len(s) \cup {Len(s) + 1} /\ DOMAIN s = 1..Len(s)
  BY <1>1
<1> QED BY <1>1, <1>2 DEF Range

LEMMA HeadRange ==
  ASSUME NEW S, NEW s \in Seq(S), s # <<>>
  PROVE  /\ Head(s) \in S /\ Head(s) \in Range(s)
         /\ Tail(s) \in Seq(S) /\ Len(Tail(s)) = Len(s) - 1 /\ Len(s) \in Nat
         /\ Range(s) = {Head(s)} \cup Range(Tail(s))
<1>1. /\ Head(s) \in S /\ Head(s) = s[1] /\ Len(s) \in Nat /\ Len(s) > 0
      /\ Tail(s) \in Seq(S) /\ Len(Tail(s)) = Len(s) - 1
      /\ \A i \in 1..Len(Tail(s)) : Tail(s)[i] = s[i + 1]
  BY HeadTailProperties
<1>2. DOMAIN s = 1..Len(s) /\ DOMAIN Tail(s) = 1..(Len(s) - 1) /\ 1 \in DOMAIN s
  BY <1>1
<1>3. Range(Tail(s)) \subseteq Range(s)
  <2> SUFFICES ASSUME NEW i \in 1..(Len(s) - 1) PROVE Tail(s)[i] \in Range(s)
    BY <1>2 DEF Range
  <2>1. i + 1 \in 1..Len(s) /\ Tail(s)[i] = s[i + 1]
    BY <1>1
  <2> QED BY <2>1, <1>2 DEF Range
<1>4. ASSUME NEW i \in 1..Len(s), i # 1 PROVE s[i] \in Range(Tail(s))
  <2>1. i - 1 \in 1..(Len(s) - 1) /\ (i - 1) + 1 = i
    BY <1>1, <1>4
  <2>2. Tail(s)[i - 1] = s[i]
    BY <2>1, <1>1
  <2> QED BY <2>1, <2>2, <1>2 DEF Range
<1>5. Head(s) \in Range(s)
  BY <1>1, <1>2 DEF Range
<1>6. Range(s) \subseteq {Head(s)} \cup Range(Tail(s))
  BY <1>1, <1>2, <1>4 DEF Range
<1> QED BY <1>1, <1>3, <1>5, <1>6

LEMMA InRange ==
  ASSUME NEW S, NEW s \in Seq(S)
  PROVE  Range(s) \subseteq S
BY DEF Range

----------------------------------------------------------------------------
\* Slots of WebSocket clients

Slots ==
  /\ client \in [Client -> ClientRec]
  /\ \A c \in Client : Len(client[c].queue) <= QueueDepth
  /\ Cardinality(Occupied) <= MaxConns

LEMMA OccupiedFinite == IsFiniteSet(Occupied) /\ Cardinality(Occupied) \in Nat
<1>1. Occupied \in SUBSET Client /\ IsFiniteSet(Client)
  BY FeedAssumption DEF Occupied
<1>2. IsFiniteSet(Occupied)
  BY <1>1, FS_Subset
<1> QED BY <1>2, FS_CardinalityType

\* One client changes; a slot is taken only where one is free.
LEMMA OneClient ==
  ASSUME Slots, NEW c \in Client, NEW r \in ClientRec, Len(r.queue) <= QueueDepth,
         r.phase # "off" => client[c].phase # "off" \/ Cardinality(Occupied) < MaxConns,
         client' = [client EXCEPT ![c] = r]
  PROVE  Slots'
<1> USE FeedAssumption DEF Slots
<1>1. /\ client' \in [Client -> ClientRec] /\ client'[c] = r
      /\ \A d \in Client : d # c => client'[d] = client[d]
  OBVIOUS
<1>2. \A d \in Client : Len(client'[d].queue) <= QueueDepth
  BY <1>1
<1>3. CASE r.phase = "off" \/ client[c].phase # "off"
  <2>1. Occupied' \in SUBSET Occupied
    BY <1>1, <1>3 DEF Occupied
  <2> DEFINE T == Occupied'
  <2> HIDE DEF T
  <2>2. IsFiniteSet(T) /\ Cardinality(T) <= Cardinality(Occupied)
    BY <2>1, OccupiedFinite, FS_Subset DEF T
  <2>3. Cardinality(T) \in Nat
    BY <2>2, FS_CardinalityType
  <2>4. Cardinality(T) <= MaxConns
    BY <2>2, <2>3, OccupiedFinite
  <2> QED BY <1>1, <1>2, <2>4 DEF T
<1>4. CASE r.phase # "off" /\ client[c].phase = "off"
  <2>1. Occupied' = Occupied \cup {c} /\ c \notin Occupied
    BY <1>1, <1>4 DEF Occupied
  <2>2. Cardinality(Occupied \cup {c}) = Cardinality(Occupied) + 1
    BY <2>1, OccupiedFinite, FS_AddElement
  <2>3. Cardinality(Occupied \cup {c}) <= MaxConns
    BY <2>2, <1>4, OccupiedFinite
  <2> QED BY <1>1, <1>2, <2>1, <2>3
<1> QED BY <1>3, <1>4

\* Clients are handed events, or lose them; none comes or goes.
LEMMA EveryClient ==
  ASSUME Slots, client' \in [Client -> ClientRec],
         \A c \in Client : Len(client'[c].queue) <= QueueDepth /\ client'[c].phase = client[c].phase
  PROVE  Slots'
<1>1. Occupied' = Occupied
  BY DEF Occupied
<1> QED BY <1>1 DEF Slots

LEMMA OffTyped == Off \in ClientRec /\ Off.phase = "off" /\ Len(Off.queue) <= QueueDepth
<1>1. Zero \in [Target -> Version]
  BY FeedAssumption DEF Zero, Version
<1>2. <<>> \in Seq(Note) /\ Len(<<>>) = 0
  OBVIOUS
<1> HIDE DEF Note
<1> QED BY <1>1, <1>2, FeedAssumption DEF Off, ClientRec

----------------------------------------------------------------------------
\* The rest of the state

Rest ==
  /\ store \in [Target -> Version]
  /\ wire \in Seq(Note) /\ batch \in Seq(Note)
  /\ conn \in {"down", "listening", "reconciling", "ready"}
  /\ known \in [Target -> Version]
  /\ initialized \in BOOLEAN
  /\ checkpoint \in Nat /\ sequence \in Nat
  /\ breaks \in 0..MaxBreaks

Hub == ingress \in Seq(Note) /\ Len(ingress) <= IngressDepth
Pages == page \in [Client -> PageRec]

LEMMA TypeParts == FeedTypeOK <=> Rest /\ Hub /\ Pages /\ Slots
BY DEF FeedTypeOK, Rest, Hub, Pages, Slots, ClientRec, PageRec, Occupied

LEMMA TypeAgain == Rest' /\ Hub' /\ Pages' /\ Slots' => FeedTypeOK'
BY TypeParts, PTL

LEMMA NoteParts == \A n \in Note : n[1] \in Target /\ n[2] \in Version /\ n[2] \in Nat /\ n = <<n[1], n[2]>>
BY FeedAssumption DEF Note, Version

\* observe: a version the listener did not know is told to the hub, once the
\* listener is initialized; if the ingress is full every subscriber has a loss.
LEMMA Observed ==
  ASSUME FeedInv, NEW n \in Note, n[2] <= store[n[1]], NEW b \in BOOLEAN, initialized => b,
         Observe(n, b), initialized' = initialized
  PROVE  /\ Hub' /\ Slots' /\ \A c \in Client : Kept(c)'
         /\ known' \in [Target -> Version]
         /\ \A t \in Target : known[t] <= known'[t] /\ known'[t] <= store[t]
         /\ n[2] <= known'[n[1]]
<1> USE FeedAssumption
<1> DEFINE t0 == n[1]
           v0 == n[2]
<1>1. /\ t0 \in Target /\ v0 \in Version /\ v0 \in Nat
      /\ Hub /\ Slots /\ Rest /\ ListenerOK /\ \A c \in Client : Kept(c)
      /\ \A t \in Target : known[t] \in Nat /\ store[t] \in Nat
  BY NoteParts, TypeParts DEF FeedInv, Rest, Version
<1>2. CASE v0 <= known[t0]
  <2>1. UNCHANGED <<known, ingress, client>>
    BY <1>2 DEF Observe
  <2>2. \A c \in Client : Kept(c)'
    BY <1>1, <2>1 DEF Kept, Upcoming, Waiting
  <2>3. Hub' /\ Slots'
    BY <1>1, <2>1 DEF Hub, Slots, Occupied
  <2> QED BY <1>1, <1>2, <2>1, <2>2, <2>3 DEF Rest, ListenerOK
<1>3. CASE ~(v0 <= known[t0])
  <2>1. /\ known' = [known EXCEPT ![t0] = v0]
        /\ IF b THEN Publish(n) ELSE UNCHANGED <<ingress, client>>
    BY <1>3 DEF Observe
  <2>2. known' \in [Target -> Version]
    BY <1>1, <2>1 DEF Rest
  <2>3. \A t \in Target : known[t] <= known'[t] /\ known'[t] <= store[t]
    BY <1>1, <1>3, <2>1 DEF Rest, ListenerOK
  <2>4. known'[t0] = v0 /\ \A t \in Target : t # t0 => known'[t] = known[t]
    BY <1>1, <2>1 DEF Rest
  <2>5. CASE ~b
    <3>1. ~initialized' /\ UNCHANGED <<ingress, client>>
      BY <2>1, <2>5
    <3>2. \A c \in Client : Kept(c)'
      BY <1>1, <3>1 DEF Kept
    <3>3. Hub' /\ Slots'
      BY <1>1, <3>1 DEF Hub, Slots, Occupied
    <3> QED BY <1>1, <2>2, <2>3, <2>4, <3>2, <3>3
  <2>6. CASE b /\ Len(ingress) < IngressDepth
    <3>1. ingress' = Append(ingress, n) /\ client' = client
      BY <2>1, <2>6 DEF Publish
    <3>2. /\ ingress' \in Seq(Note) /\ Range(ingress') = Range(ingress) \cup {n}
          /\ Len(ingress') = Len(ingress) + 1 /\ Len(ingress) \in Nat
      <4>1. ingress \in Seq(Note)
        BY <1>1 DEF Hub
      <4>2. /\ Append(ingress, n) \in Seq(Note) /\ Len(ingress) \in Nat
            /\ Len(Append(ingress, n)) = Len(ingress) + 1
            /\ Range(Append(ingress, n)) = Range(ingress) \cup {n}
        BY <4>1, AppendRange
      <4> QED BY <3>1, <4>2
    <3>3. Hub' /\ Slots'
      <4>1. Len(ingress') <= IngressDepth
        BY <2>6, <3>2
      <4>2. Slots'
        BY <1>1, <3>1 DEF Slots, Occupied
      <4> QED BY <3>2, <4>1, <4>2 DEF Hub
    <3>4. ASSUME NEW c \in Client, client[c].phase = "synced", ~client[c].early, ~client[c].lossy,
                 NEW t \in Target
          PROVE  initialized /\ Upcoming(c, t, known[t])' 
      <4>1. initialized /\ Upcoming(c, t, known[t])
        BY <1>1, <3>4 DEF Kept
      <4>2. CASE t = t0
        <5>1. n \in Waiting(c)' /\ n[1] = t /\ n[2] >= known'[t]
          BY <1>1, <2>4, <3>2, <4>2 DEF Waiting
        <5> QED BY <4>1, <5>1 DEF Upcoming
      <4>3. CASE t # t0
        <5>1. known'[t] = known[t] /\ Waiting(c) \subseteq Waiting(c)'
          BY <2>4, <3>1, <3>2, <4>3 DEF Waiting
        <5> QED BY <4>1, <5>1, <3>1 DEF Upcoming
      <4> QED BY <4>2, <4>3
    <3>5. \A c \in Client : Kept(c)'
      BY <3>1, <3>4 DEF Kept
    <3> QED BY <1>1, <2>2, <2>3, <2>4, <3>3, <3>5
  <2>7. CASE b /\ ~(Len(ingress) < IngressDepth)
    <3>1. /\ client' = [c \in Client |-> [client[c] EXCEPT !.lossy = @ \/ c \in Subscribed]]
          /\ ingress' = ingress
      BY <2>1, <2>7 DEF Publish
    <3>2. ASSUME NEW c \in Client
          PROVE  /\ client'[c] \in ClientRec /\ client'[c].phase = client[c].phase
                 /\ client'[c].queue = client[c].queue
                 /\ client'[c].phase = "synced" => client'[c].lossy
      <4>1. client[c] \in ClientRec /\ client'[c] = [client[c] EXCEPT !.lossy = @ \/ c \in Subscribed]
        BY <1>1, <3>1 DEF Slots
      <4>2. PICK l \in BOOLEAN : l = (client[c].lossy \/ c \in Subscribed)
        OBVIOUS
      <4>3. client'[c] = [client[c] EXCEPT !.lossy = l]
        BY <4>1, <4>2
      <4>4. client[c].phase = "synced" => l
        BY <4>2 DEF Subscribed
      <4> QED BY <4>1, <4>3, <4>4 DEF ClientRec
    <3>3. client' \in [Client -> ClientRec]
      BY <3>1, <3>2
    <3>4. Slots'
      BY <1>1, <3>2, <3>3, EveryClient DEF Slots
    <3>5. Hub'
      BY <1>1, <3>1 DEF Hub
    <3>6. \A c \in Client : Kept(c)'
      BY <3>2 DEF Kept
    <3> QED BY <1>1, <2>2, <2>3, <2>4, <3>4, <3>5, <3>6
  <2> QED BY <2>5, <2>6, <2>7
<1> QED BY <1>2, <1>3

\* What a step does to the clients and the hub leaves the listener alone.
LEMMA ListenerStays ==
  ASSUME ListenerOK, UNCHANGED <<store, listenerVars>>
  PROVE  ListenerOK'
BY DEF ListenerOK, Noticed, listenerVars

\* Steps that publish nothing.
LEMMA NothingPublished ==
  ASSUME FeedInv, UNCHANGED <<client, ingress, known>>, initialized => initialized'
  PROVE  Hub' /\ Slots' /\ \A c \in Client : Kept(c)'
<1>1. Hub /\ Slots /\ \A c \in Client : Kept(c)
  BY TypeParts DEF FeedInv
<1>2. \A c \in Client : Kept(c)'
  BY <1>1 DEF Kept, Upcoming, Waiting
<1>3. Hub' /\ Slots'
  BY <1>1 DEF Hub, Slots, Occupied
<1> QED BY <1>2, <1>3

LEMMA CommitKeeps ==
  ASSUME FeedInv, NEW t \in Target, Commit(t)
  PROVE  FeedInv'
<1> USE FeedAssumption
<1>1. Rest /\ Pages /\ ListenerOK
  BY TypeParts DEF FeedInv
<1>2. Hub' /\ Slots' /\ \A c \in Client : Kept(c)'
  BY NothingPublished DEF Commit
<1> DEFINE n == <<t, store[t] + 1>>
<1>3. store[t] \in Nat /\ store[t] + 1 \in Version /\ n \in Note
  BY <1>1 DEF Rest, Version, Commit, Note
<1>4. /\ store' \in [Target -> Version] /\ store'[t] = store[t] + 1
      /\ \A u \in Target : u # t => store'[u] = store[u]
      /\ \A u \in Target : store[u] \in Nat /\ store[u] <= store'[u]
  BY <1>1, <1>3 DEF Rest, Version, Commit
<1>5. UNCHANGED <<conn, batch, known, initialized, checkpoint, breaks, page>> /\ sequence' = sequence + 1
  BY DEF Commit
<1>6. /\ wire' \in Seq(Note) /\ Range(wire) \subseteq Range(wire') /\ Range(wire') \subseteq Range(wire) \cup {n}
      /\ conn = "down" \/ n \in Range(wire')
  <2>1. wire \in Seq(Note)
    BY <1>1 DEF Rest
  <2>2. CASE conn = "down"
    BY <2>1, <2>2 DEF Commit
  <2>3. CASE conn # "down"
    <3>1. wire' = Append(wire, n)
      BY <2>3 DEF Commit
    <3> HIDE DEF n
    <3> QED BY <2>1, <3>1, <1>3, AppendRange
  <2> QED BY <2>2, <2>3
<1>7. Rest' /\ Pages'
  BY <1>1, <1>4, <1>5, <1>6 DEF Rest, Pages
<1>8. \A m \in Range(wire') \cup Range(batch') : m[2] <= store'[m[1]]
  <2> SUFFICES ASSUME NEW m \in Range(wire) \cup Range(batch) PROVE m[2] <= store'[m[1]]
    BY <1>4, <1>5, <1>6
  <2>1. m \in Note /\ m[2] <= store[m[1]]
    BY <1>1, InRange DEF Rest, ListenerOK
  <2>2. m[1] \in Target /\ m[2] \in Nat
    BY <2>1, NoteParts
  <2>3. store'[m[1]] \in Nat
    BY <1>4, <2>2 DEF Version
  <2> QED BY <2>1, <2>2, <2>3, <1>4
<1>9. ASSUME NEW u \in Target PROVE known'[u] <= store'[u] /\ Noticed(u)'
  <2>1. known[u] \in Nat /\ known[u] <= store[u] /\ Noticed(u) /\ store'[u] \in Nat
    BY <1>1, <1>4 DEF Rest, ListenerOK, Version
  <2>2. known'[u] <= store'[u]
    BY <2>1, <1>4, <1>5
  <2>3. Noticed(u)'
    BY <2>1, <1>4, <1>5, <1>6 DEF Noticed
  <2> QED BY <2>2, <2>3
<1>10. ListenerOK'
  BY <1>8, <1>9 DEF ListenerOK
<1> QED BY <1>2, <1>7, <1>10, TypeAgain DEF FeedInv

\* The listener takes a note from a queue: either it knew the version, or it
\* does now.
LEMMA NoteTaken ==
  ASSUME ListenerOK, Rest, NEW n \in Note, n[2] <= store[n[1]], known' \in [Target -> Version],
         \A t \in Target : known[t] <= known'[t] /\ known'[t] <= store[t],
         n[2] <= known'[n[1]], store' = store, conn' = conn,
         Range(wire) \cup Range(batch) \subseteq Range(wire') \cup Range(batch') \cup {n},
         Range(wire') \cup Range(batch') \subseteq Range(wire) \cup Range(batch)
  PROVE  ListenerOK'
<1>1. \A t \in Target : known[t] \in Nat /\ known'[t] \in Nat /\ store[t] \in Nat
  BY FeedAssumption DEF Rest, Version
<1>2. \A m \in Range(wire') \cup Range(batch') : m[2] <= store'[m[1]]
  BY DEF ListenerOK
<1>3. ASSUME NEW t \in Target PROVE Noticed(t)'
  <2>1. Noticed(t)
    BY DEF ListenerOK
  <2>2. CASE known[t] = store[t]
    <3>1. known'[t] = store[t]
      BY <1>1, <2>2
    <3> QED BY <3>1 DEF Noticed
  <2>3. CASE n = <<t, store[t]>>
    <3>1. n[1] = t /\ n[2] = store[t]
      BY <2>3
    <3>2. known'[t] = store[t]
      BY <1>1, <3>1
    <3> QED BY <3>2 DEF Noticed
  <2>4. CASE conn \in {"down", "listening"}
    BY <2>4 DEF Noticed
  <2>5. CASE <<t, store[t]>> \in Range(wire) \cup Range(batch) /\ n # <<t, store[t]>>
    BY <2>5 DEF Noticed
  <2> QED BY <2>1, <2>2, <2>3, <2>4, <2>5 DEF Noticed
<1> QED BY <1>2, <1>3 DEF ListenerOK

LEMMA TakeKeeps ==
  ASSUME FeedInv, ReconcileItem \/ HandlePayload
  PROVE  FeedInv'
<1>1. Rest /\ Pages /\ ListenerOK /\ wire \in Seq(Note) /\ batch \in Seq(Note)
  BY TypeParts DEF FeedInv, Rest
<1>2. PICK n \in Note, b \in BOOLEAN :
        /\ Observe(n, b) /\ n \in Range(wire) \cup Range(batch) /\ (initialized => b)
        /\ wire' \in Seq(Note) /\ batch' \in Seq(Note)
        /\ Range(wire) \cup Range(batch) = Range(wire') \cup Range(batch') \cup {n}
  <2>1. CASE ReconcileItem
    <3>1. batch # <<>> /\ batch' = Tail(batch) /\ wire' = wire /\ Observe(Head(batch), initialized)
      BY <2>1 DEF ReconcileItem
    <3>2. /\ Head(batch) \in Note /\ Tail(batch) \in Seq(Note) /\ Head(batch) \in Range(batch)
          /\ Range(batch) = {Head(batch)} \cup Range(Tail(batch))
      BY <1>1, <3>1, HeadRange
    <3>3. initialized \in BOOLEAN
      BY <1>1 DEF Rest
    <3>4. Range(wire) \cup Range(batch) = Range(wire') \cup Range(batch') \cup {Head(batch)}
      BY <3>1, <3>2
    <3> QED BY <1>1, <3>1, <3>2, <3>3, <3>4
  <2>2. CASE HandlePayload
    <3>1. wire # <<>> /\ wire' = Tail(wire) /\ batch' = batch /\ Observe(Head(wire), TRUE)
      BY <2>2 DEF HandlePayload
    <3>2. /\ Head(wire) \in Note /\ Tail(wire) \in Seq(Note) /\ Head(wire) \in Range(wire)
          /\ Range(wire) = {Head(wire)} \cup Range(Tail(wire))
      BY <1>1, <3>1, HeadRange
    <3>3. Range(wire) \cup Range(batch) = Range(wire') \cup Range(batch') \cup {Head(wire)}
      BY <3>1, <3>2
    <3> QED BY <1>1, <3>1, <3>2, <3>3
  <2> QED BY <2>1, <2>2
<1>3. UNCHANGED <<store, sequence, conn, initialized, checkpoint, page, breaks>>
  BY DEF ReconcileItem, HandlePayload
<1>4. n[2] <= store[n[1]]
  BY <1>1, <1>2 DEF ListenerOK
<1>5. /\ Hub' /\ Slots' /\ \A c \in Client : Kept(c)'
      /\ known' \in [Target -> Version]
      /\ \A t \in Target : known[t] <= known'[t] /\ known'[t] <= store[t]
      /\ n[2] <= known'[n[1]]
  BY <1>2, <1>3, <1>4, Observed
<1>6. ListenerOK'
  BY <1>1, <1>2, <1>3, <1>4, <1>5, NoteTaken
<1>7. Rest' /\ Pages'
  BY <1>1, <1>2, <1>3, <1>5 DEF Rest, Pages
<1> QED BY <1>5, <1>6, <1>7, TypeAgain DEF FeedInv

\* catchUp reads the metadata of every target.
LEMMA CatchUpKeeps ==
  ASSUME FeedInv, CatchUp
  PROVE  FeedInv'
<1>1. Rest /\ Pages /\ ListenerOK
  BY TypeParts DEF FeedInv
<1>2. Hub' /\ Slots' /\ \A c \in Client : Kept(c)'
  BY NothingPublished DEF CatchUp
<1> DEFINE N == Cardinality(Target)
<1>3. N \in Nat
  BY FeedAssumption, FS_CardinalityType
<1>4. PICK order \in Bijection(1..N, Target) : batch' = [i \in 1..N |-> <<order[i], store[order[i]]>>]
  BY DEF CatchUp
<1> HIDE DEF N
<1>5. order \in [1..N -> Target] /\ \A t \in Target : \E i \in 1..N : order[i] = t
  BY <1>4 DEF Bijection, Injection, Surjection
<1>6. \A i \in 1..N : <<order[i], store[order[i]]>> \in Note
  BY <1>1, <1>5 DEF Rest, Note
<1>7. batch' \in Seq(Note)
  <2>1. batch' \in [1..N -> Note]
    BY <1>4, <1>6
  <2> QED BY <1>3, <2>1
<1>8. Range(batch') = {<<t, store[t]>> : t \in Target}
  BY <1>4, <1>5 DEF Range
<1>9. UNCHANGED <<store, sequence, wire, known, initialized, checkpoint, page, breaks>> /\ conn' = "reconciling"
  BY DEF CatchUp
<1>10. Rest' /\ Pages'
  BY <1>1, <1>7, <1>9 DEF Rest, Pages
<1>11. \A t \in Target : known'[t] <= store'[t] /\ Noticed(t)'
  BY <1>1, <1>8, <1>9 DEF ListenerOK, Noticed
<1>12. \A m \in Range(wire') \cup Range(batch') : m[2] <= store'[m[1]]
  <2>1. \A t \in Target : store[t] <= store[t]
    BY <1>1, FeedAssumption DEF Rest, Version
  <2> QED BY <1>1, <1>8, <1>9, <2>1 DEF ListenerOK
<1> QED BY <1>2, <1>10, <1>11, <1>12, TypeAgain DEF FeedInv, ListenerOK

\* The other steps of the listener's connection.
LEMMA ConnectionKeeps ==
  ASSUME FeedInv, Connect \/ Ready \/ Broken
  PROVE  FeedInv'
<1>1. Rest /\ Pages /\ ListenerOK
  BY TypeParts DEF FeedInv
<1>2. /\ UNCHANGED <<client, ingress, known, store, page, sequence, checkpoint>>
      /\ initialized' \in {initialized, TRUE}
  BY DEF Connect, Ready, Broken
<1>3. Hub' /\ Slots' /\ \A c \in Client : Kept(c)'
  BY <1>1, <1>2, NothingPublished DEF Rest
<1>4. wire' \in {wire, <<>>} /\ batch' \in {batch, <<>>} /\ <<>> \in Seq(Note) /\ Range(<<>>) = {}
  BY DEF Connect, Ready, Broken, Range
<1>5. conn' \in {"down", "listening", "ready"} /\ breaks' \in 0..MaxBreaks
  BY <1>1, FeedAssumption DEF Connect, Ready, Broken, Rest
<1>6. Rest' /\ Pages'
  BY <1>1, <1>2, <1>4, <1>5 DEF Rest, Pages
<1>7. ASSUME NEW t \in Target PROVE Noticed(t)'
  <2>1. Noticed(t)
    BY <1>1 DEF ListenerOK
  <2>2. CASE Ready
    BY <2>1, <2>2 DEF Ready, Noticed
  <2>3. CASE Connect \/ Broken
    BY <2>3 DEF Connect, Broken, Noticed
  <2> QED BY <2>2, <2>3
<1>8. ListenerOK'
  BY <1>1, <1>2, <1>4, <1>7 DEF ListenerOK
<1> QED BY <1>3, <1>6, <1>8, TypeAgain DEF FeedInv

----------------------------------------------------------------------------
\* The hub and the WebSocket handlers

\* A step that leaves the listener and the store alone.
LEMMA AwayFromListener ==
  ASSUME FeedInv, UNCHANGED <<store, sequence, listenerVars>>, breaks' \in 0..MaxBreaks,
         Hub', Slots', Pages', \A c \in Client : Kept(c)'
  PROVE  FeedInv'
<1>1. Rest /\ ListenerOK
  BY TypeParts DEF FeedInv
<1>2. Rest'
  BY <1>1 DEF Rest, listenerVars
<1>3. ListenerOK'
  BY <1>1, ListenerStays
<1> QED BY <1>2, <1>3, TypeAgain DEF FeedInv

LEMMA DispatchKeeps ==
  ASSUME FeedInv, Dispatch
  PROVE  FeedInv'
<1> USE FeedAssumption
<1>1. Rest /\ Hub /\ Pages /\ Slots /\ ingress \in Seq(Note) /\ ingress # <<>>
  BY TypeParts DEF FeedInv, Hub, Dispatch
<1> DEFINE n == Head(ingress)
<1>2. /\ n \in Note /\ Tail(ingress) \in Seq(Note) /\ Len(Tail(ingress)) = Len(ingress) - 1
      /\ Len(ingress) \in Nat /\ Range(ingress) = {n} \cup Range(Tail(ingress))
  BY <1>1, HeadRange
<1> HIDE DEF n
<1>3. /\ ingress' = Tail(ingress) /\ UNCHANGED <<store, sequence, page, breaks, listenerVars>>
      /\ client' = [c \in Client |->
           IF c \notin Subscribed THEN client[c]
           ELSE IF Len(client[c].queue) < QueueDepth
             THEN [client[c] EXCEPT !.queue = Append(@, n)]
             ELSE [client[c] EXCEPT !.lossy = TRUE]]
  BY DEF Dispatch, n
<1>4. Hub'
  BY <1>1, <1>2, <1>3 DEF Hub
<1>5. ASSUME NEW c \in Client
      PROVE  /\ client'[c] \in ClientRec /\ client'[c].phase = client[c].phase
             /\ Len(client'[c].queue) <= QueueDepth
             /\ Kept(c)'
  <2>1. /\ client[c] \in ClientRec /\ Len(client[c].queue) <= QueueDepth
        /\ client[c].queue \in Seq(Note) /\ Kept(c)
    BY <1>1 DEF Slots, ClientRec, FeedInv
  <2>2. CASE c \notin Subscribed
    <3>1. client'[c] = client[c] /\ client[c].phase # "synced"
      BY <1>3, <2>2 DEF Subscribed
    <3> QED BY <2>1, <3>1 DEF Kept
  <2>3. CASE c \in Subscribed /\ ~(Len(client[c].queue) < QueueDepth)
    <3>1. client'[c] = [client[c] EXCEPT !.lossy = TRUE]
      BY <1>3, <2>3
    <3>2. /\ client'[c] \in ClientRec /\ client'[c].phase = client[c].phase
          /\ client'[c].queue = client[c].queue /\ client'[c].lossy
      BY <2>1, <3>1 DEF ClientRec
    <3> QED BY <2>1, <3>2 DEF Kept
  <2>4. CASE c \in Subscribed /\ Len(client[c].queue) < QueueDepth
    <3> DEFINE q == Append(client[c].queue, n)
    <3>1. q \in Seq(Note) /\ Len(q) <= QueueDepth /\ Range(q) = Range(client[c].queue) \cup {n}
      <4>1. /\ q \in Seq(Note) /\ Len(q) = Len(client[c].queue) + 1 /\ Len(client[c].queue) \in Nat
            /\ Range(q) = Range(client[c].queue) \cup {n}
        BY <1>2, <2>1, AppendRange
      <4> QED BY <2>4, <4>1
    <3>2. client'[c] = [client[c] EXCEPT !.queue = q]
      BY <1>3, <2>4
    <3> HIDE DEF q
    <3>3. /\ client'[c] \in ClientRec /\ client'[c].phase = client[c].phase
          /\ client'[c].queue = q /\ client'[c].lossy = client[c].lossy
          /\ client'[c].early = client[c].early /\ client'[c].sent = client[c].sent
      BY <2>1, <3>1, <3>2 DEF ClientRec
    <3>4. Waiting(c)' = Waiting(c)
      BY <1>2, <1>3, <3>1, <3>3 DEF Waiting
    <3>5. known' = known /\ initialized' = initialized
      BY <1>3 DEF listenerVars
    <3>6. Kept(c)'
      BY <2>1, <3>3, <3>4, <3>5 DEF Kept, Upcoming
    <3> QED BY <3>1, <3>3, <3>6
  <2> QED BY <2>2, <2>3, <2>4
<1>6. client' \in [Client -> ClientRec]
  BY <1>3, <1>5
<1>7. Slots'
  BY <1>1, <1>5, <1>6, EveryClient
<1>8. Pages' /\ breaks' \in 0..MaxBreaks
  BY <1>1, <1>3 DEF Pages, Rest
<1> QED BY <1>3, <1>4, <1>5, <1>7, <1>8, AwayFromListener

\* A client changes and is not one that has to be kept up to date after it.
LEMMA OtherClients ==
  ASSUME FeedInv, NEW c \in Client, NEW r \in ClientRec, client' = [client EXCEPT ![c] = r],
         UNCHANGED <<ingress, listenerVars>>, Kept(c)'
  PROVE  \A d \in Client : Kept(d)'
<1>1. ASSUME NEW d \in Client, d # c PROVE Kept(d)'
  <2>1. client'[d] = client[d]
    BY <1>1, TypeParts DEF FeedInv, Slots
  <2> QED BY <2>1 DEF FeedInv, Kept, Upcoming, Waiting, listenerVars
<1> QED BY <1>1

LEMMA MaxOfTyped ==
  ASSUME NEW f \in [Target -> Version], NEW g \in [Target -> Version]
  PROVE  MaxOf(f, g) \in [Target -> Version]
BY DEF MaxOf

LEMMA HandlerKeeps ==
  ASSUME FeedInv, NEW c \in Client, Accept(c) \/ Subscribe(c) \/ StateSync(c) \/ Closed(c)
  PROVE  FeedInv'
<1> USE FeedAssumption
<1>1. /\ Rest /\ Hub /\ Pages /\ Slots /\ ListenerOK
      /\ client[c] \in ClientRec /\ page[c] \in PageRec /\ Len(client[c].queue) <= QueueDepth
  BY TypeParts DEF FeedInv, Slots, Pages
<1>2. UNCHANGED <<store, sequence, ingress, listenerVars>> /\ breaks' \in 0..MaxBreaks /\ Hub'
  BY <1>1 DEF Accept, Subscribe, StateSync, Closed, Rest, Hub
<1>3. PICK r \in ClientRec :
        /\ client' = [client EXCEPT ![c] = r] /\ Len(r.queue) <= QueueDepth
        /\ r.phase # "off" => client[c].phase # "off" \/ Cardinality(Occupied) < MaxConns
        /\ r.phase = "synced" => r.sent = store /\ r.early = ~initialized
  <2>1. CASE Accept(c)
    <3> DEFINE r == [client[c] EXCEPT !.phase = "accepted"]
    <3>1. r \in ClientRec /\ r.queue = client[c].queue /\ r.phase = "accepted"
      BY <1>1 DEF ClientRec
    <3>2. client' = [client EXCEPT ![c] = r] /\ Cardinality(Occupied) < MaxConns
      BY <2>1 DEF Accept
    <3> HIDE DEF r
    <3> QED BY <1>1, <3>1, <3>2
  <2>2. CASE Subscribe(c)
    <3> DEFINE r == [client[c] EXCEPT !.phase = "subscribed"]
    <3>1. r \in ClientRec /\ r.queue = client[c].queue /\ r.phase = "subscribed"
      BY <1>1 DEF ClientRec
    <3>2. client' = [client EXCEPT ![c] = r] /\ client[c].phase # "off"
      BY <2>2 DEF Subscribe
    <3> HIDE DEF r
    <3> QED BY <1>1, <3>1, <3>2
  <2>3. CASE StateSync(c)
    <3>1. PICK e \in BOOLEAN : e = ~initialized
      OBVIOUS
    <3> DEFINE r == [client[c] EXCEPT !.phase = "synced", !.sent = store, !.early = e]
    <3>2. /\ r \in ClientRec /\ r.queue = client[c].queue /\ r.sent = store /\ r.early = e
      BY <1>1, <3>1 DEF ClientRec, Rest
    <3>3. client' = [client EXCEPT ![c] = r] /\ client[c].phase # "off"
      BY <2>3, <3>1 DEF StateSync
    <3> HIDE DEF r
    <3> QED BY <1>1, <3>1, <3>2, <3>3
  <2>4. CASE Closed(c)
    BY <2>4, OffTyped DEF Closed
  <2> QED BY <2>1, <2>2, <2>3, <2>4
<1>4. Slots'
  BY <1>1, <1>3, OneClient
<1>5. Kept(c)'
  <2> SUFFICES ASSUME client'[c].phase = "synced", ~client'[c].early, NEW t \in Target
               PROVE  initialized' /\ Upcoming(c, t, known[t])'
    BY DEF Kept
  <2>1. client'[c] = r
    BY <1>1, <1>3 DEF Slots
  <2>2. r.sent = store /\ initialized
    BY <1>3, <2>1
  <2>3. known'[t] <= store[t] /\ known'[t] \in Nat /\ store[t] \in Nat /\ initialized'
    <3>1. known' = known /\ initialized'
      BY <1>2, <2>2 DEF listenerVars
    <3>2. known[t] \in Nat /\ store[t] \in Nat /\ known[t] <= store[t]
      BY <1>1, <1>2 DEF ListenerOK, Rest, Version
    <3> QED BY <3>1, <3>2
  <2> QED BY <2>1, <2>2, <2>3 DEF Upcoming
<1>6. \A d \in Client : Kept(d)'
  BY <1>2, <1>3, <1>5, OtherClients
<1>7. Pages'
  <2>1. CASE Accept(c)
    <3>1. PICK D \in SUBSET Target : page' = [page EXCEPT ![c].dirty = D, ![c].reconnecting = FALSE]
      BY <1>1, <2>1 DEF Accept, PageRec
    <3>2. [page[c] EXCEPT !.dirty = D, !.reconnecting = FALSE] \in PageRec
      BY <1>1 DEF PageRec
    <3>3. page' = [page EXCEPT ![c] = [page[c] EXCEPT !.dirty = D, !.reconnecting = FALSE]]
      BY <1>1, <3>1 DEF Pages
    <3> QED BY <1>1, <3>2, <3>3 DEF Pages
  <2>2. CASE Subscribe(c)
    BY <1>1, <2>2 DEF Subscribe, Pages
  <2>3. CASE StateSync(c)
    <3>1. page[c].seen \in [Target -> Version] /\ store \in [Target -> Version]
      BY <1>1 DEF PageRec, Rest
    <3>2. PICK f \in [Target -> Version] : f = MaxOf(page[c].seen, store)
      BY <3>1, MaxOfTyped
    <3>3. [page[c] EXCEPT !.seen = f] \in PageRec
      BY <1>1 DEF PageRec
    <3>4. page' = [page EXCEPT ![c] = [page[c] EXCEPT !.seen = f]]
      BY <2>3, <3>2 DEF StateSync
    <3> QED BY <1>1, <3>3, <3>4 DEF Pages
  <2>4. CASE Closed(c)
    <3>1. [page[c] EXCEPT !.reconnecting = TRUE] \in PageRec
      BY <1>1 DEF PageRec
    <3>2. page' = [page EXCEPT ![c] = [page[c] EXCEPT !.reconnecting = TRUE]]
      BY <2>4 DEF Closed
    <3> QED BY <1>1, <3>1, <3>2 DEF Pages
  <2> QED BY <2>1, <2>2, <2>3, <2>4
<1> QED BY <1>2, <1>4, <1>6, <1>7, AwayFromListener

LEMMA ForwardKeeps ==
  ASSUME FeedInv, NEW c \in Client, Forward(c)
  PROVE  FeedInv'
<1> USE FeedAssumption
<1>1. /\ Rest /\ Hub /\ Pages /\ Slots /\ Kept(c)
      /\ client[c] \in ClientRec /\ page[c] \in PageRec /\ Len(client[c].queue) <= QueueDepth
      /\ client[c].queue \in Seq(Note) /\ client[c].queue # <<>> /\ client[c].phase = "synced"
  BY TypeParts DEF FeedInv, Slots, Pages, ClientRec, Forward
<1> DEFINE q == client[c].queue
           n == Head(q)
           t == n[1]
           v == n[2]
           new == v > client[c].sent[t]
           x == IF new THEN v ELSE client[c].sent[t]
           r == [client[c] EXCEPT !.queue = Tail(q), !.sent = [@ EXCEPT ![t] = x]]
<1>2. /\ n \in Note /\ Tail(q) \in Seq(Note) /\ Len(Tail(q)) = Len(q) - 1 /\ Len(q) \in Nat
      /\ Range(q) = {n} \cup Range(Tail(q))
  BY <1>1, HeadRange
<1>3. t \in Target /\ v \in Version /\ v \in Nat
  BY <1>2, NoteParts
<1>4. client[c].sent \in [Target -> Version] /\ \A u \in Target : client[c].sent[u] \in Nat
  BY <1>1 DEF ClientRec, Version
<1>5. x \in Version /\ x \in Nat /\ x >= v /\ x >= client[c].sent[t]
  <2>1. client[c].sent[t] \in Version /\ client[c].sent[t] \in Nat
    BY <1>3, <1>4
  <2> HIDE DEF t, v
  <2> QED BY <1>3, <2>1
<1>6. /\ client' = [client EXCEPT ![c] = r]
      /\ page' = IF new /\ v > page[c].seen[t]
                   THEN [page EXCEPT ![c].seen[t] = v, ![c].dirty = @ \cup {t}]
                   ELSE page
      /\ UNCHANGED <<store, sequence, ingress, breaks, listenerVars>>
  <2>1. client' = [client EXCEPT ![c] = r]
    BY <1>1, <1>4 DEF Forward, Slots
  <2> QED BY <2>1 DEF Forward
<1>7. /\ r \in ClientRec /\ r.queue = Tail(q) /\ r.phase = "synced"
      /\ r.lossy = client[c].lossy /\ r.early = client[c].early
      /\ r.sent[t] = x /\ \A u \in Target : u # t => r.sent[u] = client[c].sent[u]
  <2>1. [client[c].sent EXCEPT ![t] = x] \in [Target -> Version]
    BY <1>3, <1>4, <1>5
  <2> HIDE DEF x, t
  <2> QED BY <1>1, <1>2, <1>3, <1>4, <2>1 DEF ClientRec
<1>8. Pages'
  <2>1. CASE new /\ v > page[c].seen[t]
    <3> DEFINE p == [page[c] EXCEPT !.seen = [@ EXCEPT ![t] = v], !.dirty = @ \cup {t}]
    <3>1. page' = [page EXCEPT ![c] = p]
      BY <1>1, <1>6, <2>1 DEF Pages
    <3>2. p \in PageRec
      BY <1>1, <1>3 DEF PageRec
    <3> QED BY <1>1, <3>1, <3>2 DEF Pages
  <2>2. CASE ~(new /\ v > page[c].seen[t])
    BY <1>1, <1>6, <2>2 DEF Pages
  <2> QED BY <2>1, <2>2
<1> HIDE DEF r, x, new
<1>9. Slots'
  <2>1. Len(r.queue) <= QueueDepth
    BY <1>1, <1>2, <1>7
  <2> QED BY <1>1, <1>6, <1>7, <2>1, OneClient
<1>10. Kept(c)'
  <2> SUFFICES ASSUME ~r.early, ~r.lossy, NEW u \in Target
               PROVE  initialized' /\ Upcoming(c, u, known[u])'
    <3>1. client'[c] = r
      BY <1>1, <1>6 DEF Slots
    <3> QED BY <3>1 DEF Kept
  <2>1. initialized /\ Upcoming(c, u, known[u])
    BY <1>1, <1>7 DEF Kept
  <2>2. client'[c] = r /\ known' = known /\ initialized' = initialized /\ ingress' = ingress
    BY <1>1, <1>6 DEF Slots, listenerVars
  <2>3. known[u] \in Nat
    BY <1>1 DEF Rest, Version
  <2>4. CASE client[c].sent[u] >= known[u]
    <3>1. r.sent[u] >= client[c].sent[u] /\ client[c].sent[u] \in Nat /\ r.sent[u] \in Nat
      BY <1>4, <1>5, <1>7
    <3>2. r.sent[u] >= known[u]
      BY <2>3, <2>4, <3>1
    <3> QED BY <2>1, <2>2, <3>2 DEF Upcoming
  <2>5. ASSUME NEW m \in Waiting(c), m[1] = u, m[2] >= known[u]
        PROVE  Upcoming(c, u, known[u])'
    <3>1. CASE m = n
      <4>1. r.sent[u] >= known[u]
        BY <1>3, <1>5, <1>7, <2>3, <2>5, <3>1
      <4> QED BY <2>2, <4>1 DEF Upcoming
    <3>2. CASE m # n
      <4>1. m \in Waiting(c)'
        BY <1>2, <1>7, <2>2, <2>5, <3>2 DEF Waiting
      <4> QED BY <2>2, <2>5, <4>1 DEF Upcoming
    <3> QED BY <3>1, <3>2
  <2> QED BY <2>1, <2>2, <2>4, <2>5 DEF Upcoming
<1>11. \A d \in Client : Kept(d)'
  BY <1>6, <1>7, <1>10, OtherClients
<1>12. Hub' /\ breaks' \in 0..MaxBreaks
  BY <1>1, <1>6 DEF Hub, Rest
<1> QED BY <1>6, <1>8, <1>9, <1>11, <1>12, AwayFromListener

\* The browser's queries touch the page alone.
LEMMA BrowserKeeps ==
  ASSUME FeedInv, NEW c \in Client,
         Poll(c) \/ Focus(c) \/ \E t \in Target : Refetch(c, t)
  PROVE  FeedInv'
<1>1. Rest /\ Pages /\ page[c] \in PageRec
  BY TypeParts DEF FeedInv, Pages
<1>2. UNCHANGED <<store, sequence, ingress, client, breaks, listenerVars>>
  BY DEF Poll, Focus, Refetch
<1>3. Hub' /\ Slots' /\ \A d \in Client : Kept(d)'
  BY <1>2, NothingPublished DEF listenerVars
<1>4. PICK p \in PageRec : page' = [page EXCEPT ![c] = p]
  <2>1. CASE Poll(c) \/ Focus(c)
    <3>1. [page[c] EXCEPT !.dirty = Target] \in PageRec
      BY <1>1 DEF PageRec
    <3> QED BY <2>1, <3>1 DEF Poll, Focus
  <2>2. ASSUME NEW t \in Target, Refetch(c, t)
        PROVE  \E p \in PageRec : page' = [page EXCEPT ![c] = p]
    <3> DEFINE p == [page[c] EXCEPT !.dirty = @ \ {t}, !.data = [@ EXCEPT ![t] = store[t]]]
    <3>1. p \in PageRec
      <4>1. store[t] \in Version
        BY <1>1 DEF Rest
      <4> QED BY <1>1, <4>1 DEF PageRec
    <3>2. page' = [page EXCEPT ![c] = p]
      <4>1. page' = [page EXCEPT ![c].dirty = @ \ {t}, ![c].data[t] = store[t]] /\ page \in [Client -> PageRec]
        BY <1>1, <2>2 DEF Refetch, Pages
      <4> QED BY <1>1, <4>1 DEF PageRec
    <3> QED BY <3>1, <3>2
  <2> QED BY <2>1, <2>2
<1>5. Pages' /\ breaks' \in 0..MaxBreaks
  BY <1>1, <1>2, <1>4 DEF Pages, Rest
<1> QED BY <1>2, <1>3, <1>5, AwayFromListener

LEMMA FeedStart == FeedInit => FeedInv
<1> SUFFICES ASSUME FeedInit PROVE FeedInv
  OBVIOUS
<1> USE FeedAssumption
<1>1. Zero \in [Target -> Version] /\ \A t \in Target : Zero[t] = 0
  BY DEF Zero, Version
<1>2. client \in [Client -> ClientRec] /\ \A c \in Client : client[c] = Off
  BY OffTyped DEF FeedInit
<1>3. Slots
  <2>1. Occupied = {}
    BY <1>2, OffTyped DEF Occupied
  <2>2. Cardinality(Occupied) = 0
    BY <2>1, FS_EmptySet
  <2> QED BY <1>2, <2>2, OffTyped DEF Slots
<1>4. store \in [Target -> Version]
  BY DEF FeedInit, Version
<1>5. Rest
  <2>1. <<>> \in Seq(Note)
    OBVIOUS
  <2>2. checkpoint \in Nat /\ sequence \in Nat /\ breaks \in 0..MaxBreaks
    BY DEF FeedInit
  <2>3. wire \in Seq(Note) /\ batch \in Seq(Note) /\ conn = "down" /\ known = Zero /\ initialized = FALSE
    BY <2>1 DEF FeedInit
  <2> QED BY <1>1, <1>4, <2>2, <2>3 DEF Rest
<1>6. Hub
  BY DEF Hub, FeedInit
<1>7. Pages
  <2> DEFINE p == [data |-> Zero, seen |-> Zero, dirty |-> Target, reconnecting |-> FALSE]
  <2>1. p \in PageRec
    BY <1>1 DEF PageRec
  <2>2. page = [c \in Client |-> p]
    BY DEF FeedInit
  <2> HIDE DEF p
  <2> QED BY <2>1, <2>2 DEF Pages
<1>8. ListenerOK
  <2>1. Range(wire) = {} /\ Range(batch) = {}
    BY DEF FeedInit, Range
  <2>2. \A t \in Target : known[t] <= store[t] /\ Noticed(t)
    BY <1>1, <1>4 DEF FeedInit, Noticed, Version
  <2> QED BY <2>1, <2>2 DEF ListenerOK
<1>9. \A c \in Client : Kept(c)
  BY <1>2, OffTyped DEF Kept
<1> QED BY <1>3, <1>5, <1>6, <1>7, <1>8, <1>9, TypeParts DEF FeedInv

\* For any targets and clients, any depth of the queues and any number of
\* broken connections: the slots and queues of the WebSocket handlers stay
\* within their limits, and a client that synchronized once the listener had
\* and found no queue full has been sent every version the listener knows, or
\* will be without its help; and the listener knows every commit, or is about
\* to (wsHandlerWithSnapshots subscribes before it reads the state, runOnce
\* listens before it reconciles).
THEOREM NothingFallsIntoTheGap == FeedSpec => [](FeedTypeOK /\ NoGapOnceReady)
<1>1. FeedInv => FeedTypeOK /\ NoGapOnceReady
  BY DEF FeedInv, ListenerOK, Kept, NoGapOnceReady, GapFree
<1>2. FeedInv /\ [FeedNext]_feedVars => FeedInv'
  <2> SUFFICES ASSUME FeedInv, [FeedNext]_feedVars PROVE FeedInv'
    OBVIOUS
  <2>1. CASE UNCHANGED feedVars
    <3>1. Rest /\ Pages
      BY TypeParts DEF FeedInv
    <3>2. Hub' /\ Slots' /\ \A c \in Client : Kept(c)'
      BY <2>1, NothingPublished DEF feedVars, listenerVars
    <3>3. Pages' /\ breaks' \in 0..MaxBreaks /\ UNCHANGED <<store, sequence, listenerVars>>
      BY <2>1, <3>1 DEF feedVars, Pages, Rest
    <3> QED BY <3>2, <3>3, AwayFromListener
  <2>2. ASSUME NEW t \in Target, Commit(t) PROVE FeedInv'
    BY <2>2, CommitKeeps
  <2>3. CASE ListenerNext \/ Broken
    BY <2>3, TakeKeeps, CatchUpKeeps, ConnectionKeeps DEF ListenerNext
  <2>4. CASE Dispatch
    BY <2>4, DispatchKeeps
  <2>5. ASSUME NEW c \in Client, SocketNext(c) \/ Closed(c) \/ Poll(c) \/ Focus(c) PROVE FeedInv'
    BY <2>5, HandlerKeeps, ForwardKeeps, BrowserKeeps DEF SocketNext
  <2>6. ASSUME NEW c \in Client, NEW t \in Target, Refetch(c, t) PROVE FeedInv'
    BY <2>6, BrowserKeeps
  <2> QED BY <2>1, <2>2, <2>3, <2>4, <2>5, <2>6 DEF FeedNext
<1> QED BY <1>1, <1>2, FeedStart, PTL DEF FeedSpec
=============================================================================
