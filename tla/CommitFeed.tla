----------------------------- MODULE CommitFeed -----------------------------
(***************************************************************************)
(* The way of a committed version to the browsers of one instance: the     *)
(* notification of the commit, SnapshotNotificationListener, EventHub, the *)
(* WebSocket handler and the front end's query cache.                      *)
(*                                                                         *)
(* Every queue and hand-over is there: PostgreSQL's queue of the LISTEN    *)
(* connection, the hub's bounded ingress, each subscriber's bounded        *)
(* channel.  A message that is written to a socket is handled by the       *)
(* browser at once; the REST answer it asks for comes later.               *)
(*                                                                         *)
(* checkpoint stays 0: processMissedEvents alone moves it, and is called   *)
(* only once it is above 0.  The branches behind it are left out.          *)
(***************************************************************************)
EXTENDS Naturals, Sequences, Functions, FiniteSets

CONSTANTS
  Target, Client,
  MaxCommitted,   \* bound on committed versions
  IngressDepth, QueueDepth,
  MaxConns,       \* WS_MAX_CONNS
  MaxBreaks       \* bound on broken connections

ASSUME FeedAssumption ==
  /\ IsFiniteSet(Target) /\ IsFiniteSet(Client)
  /\ MaxCommitted \in Nat \ {0} /\ MaxConns \in Nat /\ MaxBreaks \in Nat
  /\ IngressDepth \in Nat \ {0} /\ QueueDepth \in Nat \ {0}

VARIABLES
  store,       \* current_version of each target
  wire,        \* notifications on the LISTEN connection
  conn,        \* the listener: down, listening, reconciling, ready
  batch,       \* metadata the reconciliation still has to observe
  known,       \* l.versions
  initialized, \* l.initialized
  checkpoint,  \* snapshot_listener_checkpoints.last_sequence
  sequence,    \* last sequence of snapshot_commit_events
  ingress,     \* hub.publishCh
  client,      \* WebSocket handlers
  page,        \* browsers
  breaks

listenerVars == <<wire, conn, batch, known, initialized, checkpoint>>
feedVars == <<store, sequence, ingress, client, page, breaks, listenerVars>>

Version == 0..MaxCommitted
Note == Target \X Version

FeedTypeOK ==
  /\ store \in [Target -> Version]
  /\ wire \in Seq(Note) /\ batch \in Seq(Note) /\ ingress \in Seq(Note)
  /\ Len(ingress) <= IngressDepth
  /\ conn \in {"down", "listening", "reconciling", "ready"}
  /\ known \in [Target -> Version]
  /\ initialized \in BOOLEAN
  /\ checkpoint \in Nat /\ sequence \in Nat
  /\ client \in [Client -> [phase: {"off", "accepted", "subscribed", "synced"},
                            queue: Seq(Note), sent: [Target -> Version],
                            early: BOOLEAN, lossy: BOOLEAN]]
  /\ \A c \in Client : Len(client[c].queue) <= QueueDepth
  /\ Cardinality({c \in Client : client[c].phase # "off"}) <= MaxConns
  /\ page \in [Client -> [data: [Target -> Version], seen: [Target -> Version],
                          dirty: SUBSET Target, reconnecting: BOOLEAN]]
  /\ breaks \in 0..MaxBreaks

Zero == [t \in Target |-> 0]
Off == [phase |-> "off", queue |-> <<>>, sent |-> Zero, early |-> FALSE, lossy |-> FALSE]

FeedInit ==
  /\ store \in [Target -> {0, 1}]
  /\ wire = <<>> /\ conn = "down" /\ batch = <<>> /\ known = Zero
  /\ initialized = FALSE /\ checkpoint = 0 /\ sequence = 0
  /\ ingress = <<>>
  /\ client = [c \in Client |-> Off]
  /\ page = [c \in Client |-> [data |-> Zero, seen |-> Zero, dirty |-> Target,
                               reconnecting |-> FALSE]]
  /\ breaks = 0

Subscribed == {c \in Client : client[c].phase \in {"subscribed", "synced"}}
Occupied == {c \in Client : client[c].phase # "off"}
MaxOf(f, g) == [t \in Target |-> IF f[t] > g[t] THEN f[t] ELSE g[t]]

----------------------------------------------------------------------------
(* Variant: the connection listens only once the reconciliation is over *)
CommitHeardWhenReady(t) ==
  /\ store[t] < MaxCommitted
  /\ store' = [store EXCEPT ![t] = @ + 1]
  /\ sequence' = sequence + 1
  /\ wire' = IF conn = "ready" THEN Append(wire, <<t, store[t] + 1>>) ELSE wire
  /\ UNCHANGED <<conn, batch, known, initialized, checkpoint, ingress, client, page, breaks>>

(* A commit that changes a target: its outbox event and its notification *)
Commit(t) ==
  /\ store[t] < MaxCommitted
  /\ store' = [store EXCEPT ![t] = @ + 1]
  /\ sequence' = sequence + 1
  /\ wire' = IF conn = "down" THEN wire ELSE Append(wire, <<t, store[t] + 1>>)
  /\ UNCHANGED <<conn, batch, known, initialized, checkpoint, ingress, client, page, breaks>>

----------------------------------------------------------------------------
(* SnapshotNotificationListener *)

(* Publish; an event that finds the ingress full is lost for everyone *)
Publish(note) ==
  IF Len(ingress) < IngressDepth
    THEN ingress' = Append(ingress, note) /\ UNCHANGED client
    ELSE /\ client' = [c \in Client |-> [client[c] EXCEPT !.lossy = @ \/ c \in Subscribed]]
         /\ UNCHANGED ingress

(* observe *)
Observe(note, publish) ==
  LET t == note[1]
      v == note[2]
  IN IF v <= known[t]
       THEN UNCHANGED <<known, ingress, client>>
       ELSE /\ known' = [known EXCEPT ![t] = v]
            /\ IF publish THEN Publish(note) ELSE UNCHANGED <<ingress, client>>

(* Connect and LISTEN *)
Connect ==
  /\ conn = "down"
  /\ conn' = "listening"
  /\ UNCHANGED <<store, sequence, wire, batch, known, initialized, checkpoint, ingress,
                 client, page, breaks>>

(* Variant: reconnecting takes the versions over without telling anyone *)
CatchUpSilently ==
  /\ conn = "listening"
  /\ known' = MaxOf(known, store)
  /\ conn' = "reconciling"
  /\ UNCHANGED <<store, sequence, wire, batch, initialized, checkpoint, ingress, client,
                 page, breaks>>

(* catchUp with no checkpoint: reconcile reads the metadata of all targets *)
CatchUp ==
  /\ conn = "listening"
  /\ checkpoint = 0
  /\ \E order \in Bijection(1..Cardinality(Target), Target) :
       batch' = [i \in 1..Cardinality(Target) |-> <<order[i], store[order[i]]>>]
  /\ conn' = "reconciling"
  /\ UNCHANGED <<store, sequence, wire, known, initialized, checkpoint, ingress, client,
                 page, breaks>>

ReconcileItem ==
  /\ conn = "reconciling"
  /\ batch # <<>>
  /\ Observe(Head(batch), initialized)
  /\ batch' = Tail(batch)
  /\ UNCHANGED <<store, sequence, wire, conn, initialized, checkpoint, page, breaks>>

Ready ==
  /\ conn = "reconciling"
  /\ batch = <<>>
  /\ conn' = "ready"
  /\ initialized' = TRUE
  /\ UNCHANGED <<store, sequence, wire, batch, known, checkpoint, ingress, client, page,
                 breaks>>

(* handlePayload; catchUpFromCheckpoint does nothing without a checkpoint *)
HandlePayload ==
  /\ conn = "ready"
  /\ checkpoint = 0
  /\ wire # <<>>
  /\ Observe(Head(wire), TRUE)
  /\ wire' = Tail(wire)
  /\ UNCHANGED <<store, sequence, conn, batch, initialized, checkpoint, page, breaks>>

(* The connection breaks, or the reconciliation fails *)
Broken ==
  /\ conn # "down"
  /\ breaks < MaxBreaks
  /\ breaks' = breaks + 1
  /\ conn' = "down"
  /\ wire' = <<>>
  /\ batch' = <<>>
  /\ UNCHANGED <<store, sequence, known, initialized, checkpoint, ingress, client, page>>

----------------------------------------------------------------------------
(* EventHub.run: hand an event to every subscriber that has room *)

Dispatch ==
  /\ ingress # <<>>
  /\ client' = [c \in Client |->
       IF c \notin Subscribed THEN client[c]
       ELSE IF Len(client[c].queue) < QueueDepth
         THEN [client[c] EXCEPT !.queue = Append(@, Head(ingress))]
         ELSE [client[c] EXCEPT !.lossy = TRUE]]
  /\ ingress' = Tail(ingress)
  /\ UNCHANGED <<store, sequence, page, breaks, listenerVars>>

----------------------------------------------------------------------------
(* wsHandlerWithSnapshots *)

(* A slot is taken; the browser's onopen refetches after a reconnect *)
Accept(c) ==
  /\ client[c].phase = "off"
  /\ Cardinality(Occupied) < MaxConns
  /\ client' = [client EXCEPT ![c].phase = "accepted"]
  /\ page' = [page EXCEPT ![c].dirty = IF page[c].reconnecting THEN Target ELSE @,
                          ![c].reconnecting = FALSE]
  /\ UNCHANGED <<store, sequence, ingress, breaks, listenerVars>>

Subscribe(c) ==
  /\ client[c].phase = "accepted"
  /\ client' = [client EXCEPT ![c].phase = "subscribed"]
  /\ UNCHANGED <<store, sequence, ingress, page, breaks, listenerVars>>

(* ListMetadata, SnapshotStateSync and applySnapshotStateSync *)
StateSync(c) ==
  /\ client[c].phase = "subscribed"
  /\ client' = [client EXCEPT ![c].phase = "synced", ![c].sent = store,
                              ![c].early = ~initialized]
  /\ page' = [page EXCEPT ![c].seen = MaxOf(@, store)]
  /\ UNCHANGED <<store, sequence, ingress, breaks, listenerVars>>

(* One event of the channel; acceptSnapshotCommitted invalidates the query *)
Forward(c) ==
  /\ client[c].phase = "synced"
  /\ client[c].queue # <<>>
  /\ LET note == Head(client[c].queue)
         t == note[1]
         v == note[2]
         new == v > client[c].sent[t]
     IN /\ client' = [client EXCEPT ![c].queue = Tail(@),
                                    ![c].sent[t] = IF new THEN v ELSE @]
        /\ page' = IF new /\ v > page[c].seen[t]
                     THEN [page EXCEPT ![c].seen[t] = v, ![c].dirty = @ \cup {t}]
                     ELSE page
  /\ UNCHANGED <<store, sequence, ingress, breaks, listenerVars>>

(* A write fails or the browser goes away *)
Closed(c) ==
  /\ client[c].phase # "off"
  /\ breaks < MaxBreaks
  /\ breaks' = breaks + 1
  /\ client' = [client EXCEPT ![c] = Off]
  /\ page' = [page EXCEPT ![c].reconnecting = TRUE]
  /\ UNCHANGED <<store, sequence, ingress, listenerVars>>

----------------------------------------------------------------------------
(* The browser: an invalid query is fetched by REST *)
Refetch(c, t) ==
  /\ t \in page[c].dirty
  /\ page' = [page EXCEPT ![c].dirty = @ \ {t}, ![c].data[t] = store[t]]
  /\ UNCHANGED <<store, sequence, ingress, client, breaks, listenerVars>>

(* refetchInterval runs while the socket is down, focus refetches at any time *)
Poll(c) ==
  /\ client[c].phase = "off"
  /\ page' = [page EXCEPT ![c].dirty = Target]
  /\ UNCHANGED <<store, sequence, ingress, client, breaks, listenerVars>>

Focus(c) ==
  /\ page' = [page EXCEPT ![c].dirty = Target]
  /\ UNCHANGED <<store, sequence, ingress, client, breaks, listenerVars>>

ListenerNext == Connect \/ CatchUp \/ ReconcileItem \/ Ready \/ HandlePayload
SocketNext(c) == Accept(c) \/ Subscribe(c) \/ StateSync(c) \/ Forward(c)

FeedNext ==
  \/ \E t \in Target : Commit(t)
  \/ ListenerNext \/ Broken
  \/ Dispatch
  \/ \E c \in Client : SocketNext(c) \/ Closed(c) \/ Poll(c) \/ Focus(c)
  \/ \E c \in Client, t \in Target : Refetch(c, t)

FeedSpec == FeedInit /\ [][FeedNext]_feedVars

(* The goroutines run, reconnecting is tried for ever, a page polls while   *)
(* its socket is down, requests are answered                                *)
FairFeedSpec ==
  /\ FeedSpec
  /\ WF_feedVars(ListenerNext)
  /\ WF_feedVars(Dispatch)
  /\ \A c \in Client : WF_feedVars(SocketNext(c)) /\ WF_feedVars(Poll(c))
  /\ \A c \in Client, t \in Target : WF_feedVars(Refetch(c, t))

----------------------------------------------------------------------------
Waiting(c) == Range(client[c].queue) \cup Range(ingress)

(* What the client has been sent or will be, without the listener's help *)
Upcoming(c, t, v) == client[c].sent[t] >= v \/ \E n \in Waiting(c) : n[1] = t /\ n[2] >= v

(* The listener has noticed every commit, or is about to *)
Noticed(t) ==
  \/ known[t] = store[t]
  \/ conn \in {"down", "listening"}
  \/ <<t, store[t]>> \in Range(wire) \cup Range(batch)

GapFree(c) == \A t \in Target : Noticed(t) /\ Upcoming(c, t, known[t])

(* "Subscribe before reading either state source so committed events cannot *)
(* fall into the synchronization gap" (wsHandlerWithSnapshots): unless a    *)
(* queue was full, every commit has reached a synchronized client or is on  *)
(* its way, over any number of reconnects of the listener - for clients     *)
(* that synchronized once the listener had.                                 *)
NoGapOnceReady ==
  \A c \in Client :
    client[c].phase = "synced" /\ ~client[c].early /\ ~client[c].lossy => GapFree(c)

(* The same for every client, as the comment has it.                        *)
NoGap ==
  \A c \in Client : client[c].phase = "synced" /\ ~client[c].lossy => GapFree(c)

(* So it arrives: a connected client that lost nothing is sent the latest   *)
(* version of every target.                                                 *)
CommitsArrive ==
  \A c \in Client, t \in Target, v \in Version :
    (client[c].phase = "synced" /\ store[t] = v) ~>
      (client[c].sent[t] >= v \/ client[c].phase # "synced" \/ client[c].lossy
         \/ client[c].early)

(* "REST remains the payload source and polling remains a repair path" (ADR *)
(* 009): what a page shows becomes current again.                           *)
PageRepaired ==
  \A c \in Client, t \in Target, v \in Version :
    (store[t] = v) ~> (page[c].data[t] >= v \/ client[c].lossy \/ client[c].early)

(* "If last_sequence is behind the outbox sequence, the listener has not    *)
(* caught up" (hardening runbook).                                          *)
CheckpointTells ==
  checkpoint < sequence => conn # "ready" \/ wire # <<>> \/ known # store
============================================================================
