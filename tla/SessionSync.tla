----------------------------- MODULE SessionSync -----------------------------
(***************************************************************************)
(* The check-in sync of an active room.  A loop polls the roster of its    *)
(* session, publishes the differences from the last observed roster to the *)
(* pages and asks for a reconciliation of the snapshot.  A restart of the  *)
(* room starts a loop over the same RoomState; the loop of the stopped     *)
(* worker, cancelled, may still be on its way out.                         *)
(***************************************************************************)
EXTENDS Naturals, FiniteSets, Functions, TLC

CONSTANTS
  Student,
  Loop,
  MaxChanges,   \* bound on changes at Warwick
  MaxStarts     \* bound on starts of the room

ASSUME SyncAssumption ==
  /\ IsFiniteSet(Student) /\ IsFiniteSet(Loop)
  /\ {MaxChanges, MaxStarts} \subseteq Nat

VARIABLES
  roster,     \* Warwick: checked in or not, for every enrolled student
  changes, starts,
  lastCheckins,   \* {} for nil, or a singleton
  recent,     \* loops for which lastSetDueAt may be less than 3 s ago
  loop,
  due,        \* a reconciliation has been asked for
  screen,       \* what a page that agreed with the baseline learns from the events
  owed,       \* history: a change was published and not reconciled while the room runs
  alone       \* history: no loop was started before the cancelled one was gone

syncVars == <<roster, changes, starts, lastCheckins, recent, loop, due, screen, owed, alone>>

Rosters == UNION {[S -> BOOLEAN] : S \in SUBSET Student}
sessionSyncUnchangedToMax == 7
Base == 3
Ceiling == 10
RateLimitBackoff == 30

SyncTypeOK ==
  /\ roster \in Rosters /\ screen \in Rosters
  /\ changes \in 0..MaxChanges /\ starts \in 0..MaxStarts
  /\ \E m \in Rosters : lastCheckins \in {{}, {m}}
  /\ recent \subseteq Loop /\ {due, owed, alone} \subseteq BOOLEAN
  /\ loop \in [Loop -> [pc: {"off", "seed", "wait", "cycle", "fetched", "publish", "trigger"}, live: BOOLEAN,
                        unchanged: 0..sessionSyncUnchangedToMax,
                        interval: Base..Ceiling \cup {RateLimitBackoff}, updates: Rosters,
                        seeded: BOOLEAN]]

NoUpdates == [s \in {} |-> TRUE]
OffLoop == [pc |-> "off", live |-> FALSE, unchanged |-> 0, interval |-> Base, updates |-> NoUpdates,
        seeded |-> FALSE]

SyncInit ==
  /\ roster \in [Student -> {FALSE}]
  /\ changes = 0 /\ starts = 0
  /\ lastCheckins = {}
  /\ recent = {} /\ due = FALSE /\ owed = FALSE /\ alone = TRUE
  /\ loop = [w \in Loop |-> OffLoop]
  /\ screen = roster

----------------------------------------------------------------------------
(* Warwick: a student is checked in or out, leaves the roster or returns *)
Change(s) ==
  /\ changes < MaxChanges
  /\ changes' = changes + 1
  /\ roster' \in {(s :> b) @@ roster : b \in BOOLEAN}
                   \cup {Restrict(roster, DOMAIN roster \ {s})}
  /\ roster' # roster
  /\ UNCHANGED <<starts, lastCheckins, recent, loop, due, screen, owed, alone>>

(* StartRoom: a loop for the new worker *)
StartLoop(w) ==
  /\ loop[w].pc = "off" /\ starts < MaxStarts
  /\ \A v \in Loop : ~loop[v].live
  /\ alone' = (alone /\ \A v \in Loop : loop[v].pc = "off")
  /\ starts' = starts + 1
  /\ loop' = [loop EXCEPT ![w] = [OffLoop EXCEPT !.pc = "seed", !.live = TRUE]]
  /\ UNCHANGED <<roster, changes, lastCheckins, recent, due, screen, owed>>

(* StopRoom cancels the worker's context; a loop that waits returns at      *)
(* once, and another will not wait again: its cadence is forgotten          *)
StopLoop(w) ==
  /\ loop[w].live
  /\ loop' = [loop EXCEPT ![w] = IF @.pc = "wait" THEN OffLoop
               ELSE [@ EXCEPT !.live = FALSE, !.unchanged = 0, !.interval = Base]]
  /\ owed' = FALSE
  /\ UNCHANGED <<roster, changes, starts, lastCheckins, recent, due, screen, alone>>

(* time.After(jitteredSyncDelay(interval)), at least the base interval; a   *)
(* cancelled loop ends here                                                 *)
WaitingLoop(rec) ==
  IF rec.live THEN [rec EXCEPT !.pc = "wait", !.updates = NoUpdates, !.seeded = TRUE] ELSE OffLoop

(* FetchSessionCheckins succeeds, which it does not for a cancelled loop;   *)
(* what it returns may be old when it is used                               *)
Fetch(w) ==
  /\ loop[w].pc \in {"seed", "cycle"}
  /\ loop[w].live
  /\ loop' = [loop EXCEPT ![w].pc = "fetched", ![w].updates = roster]
  /\ UNCHANGED <<roster, changes, starts, lastCheckins, recent, due, screen, owed, alone>>

(* The roster a loop sets out from.  The page followed is one that agrees   *)
(* with it, unless another loop is at work.                                 *)
Baseline(w) ==
  /\ lastCheckins' = {loop[w].updates}
  /\ IF \A v \in Loop \ {w} : ~loop[v].live
       THEN screen' = loop[w].updates /\ owed' = FALSE
       ELSE UNCHANGED <<screen, owed>>

(* The first fetch of a loop replaces the baseline and publishes nothing *)
Seed(w) ==
  /\ loop[w].pc = "fetched" /\ ~loop[w].seeded
  /\ Baseline(w)
  /\ loop' = [loop EXCEPT ![w] = WaitingLoop(@)]
  /\ recent' = recent \ {w}
  /\ UNCHANGED <<roster, changes, starts, due, alone>>

SeedFails(w) ==
  /\ loop[w].pc = "seed"
  /\ loop' = [loop EXCEPT ![w] = WaitingLoop(@)]
  /\ recent' = recent \ {w}
  /\ UNCHANGED <<roster, changes, starts, lastCheckins, due, screen, owed, alone>>

Awake(w) ==
  /\ loop[w].pc = "wait"
  /\ loop' = [loop EXCEPT ![w].pc = "cycle"]
  /\ UNCHANGED <<roster, changes, starts, lastCheckins, recent, due, screen, owed, alone>>

growSyncInterval(unchanged) ==
  IF unchanged >= sessionSyncUnchangedToMax THEN Ceiling ELSE Base + unchanged

(* One more unchanged cycle; the count matters up to its threshold *)
OneMore(rec) ==
  LET n == IF rec.unchanged < sessionSyncUnchangedToMax THEN rec.unchanged + 1 ELSE rec.unchanged
  IN [rec EXCEPT !.unchanged = n, !.interval = growSyncInterval(n)]

(* sessionSyncCycle when the fetch fails: rate limit and auth churn, an     *)
(* exhausted pool, anything else                                            *)
CycleFails(w) ==
  /\ loop[w].pc = "cycle"
  /\ \E next \in {[loop[w] EXCEPT !.interval = RateLimitBackoff],
                  [loop[w] EXCEPT !.interval = growSyncInterval(loop[w].unchanged)],
                  OneMore(loop[w])} :
       loop' = [loop EXCEPT ![w] = WaitingLoop(next)]
  /\ recent' = recent \ {w}
  /\ UNCHANGED <<roster, changes, starts, lastCheckins, due, screen, owed, alone>>

(* Variant: only students known before are compared *)
DeltasKnown(prev, current) ==
  Restrict(current, {s \in DOMAIN current : s \in DOMAIN prev /\ prev[s] /\ ~current[s]})

(* The students whose state differs from the previous roster, or who are new *)
Deltas(prev, current) ==
  Restrict(current, {s \in DOMAIN current : s \notin DOMAIN prev \/ prev[s] # current[s]})

(* sessionSyncCycle and publishCheckinDeltas up to the unlock: the fetched  *)
(* roster becomes the last one                                              *)
Cycle(w) ==
  LET current == loop[w].updates
      updates == Deltas(CHOOSE m \in lastCheckins : TRUE, current) IN
  /\ loop[w].pc = "fetched" /\ loop[w].seeded
  /\ IF lastCheckins = {}
       THEN /\ Baseline(w)
            /\ loop' = [loop EXCEPT ![w] = WaitingLoop(OneMore(@))]
            /\ recent' = recent \ {w}
       ELSE /\ lastCheckins' = {current}
            /\ UNCHANGED <<screen, owed>>
            /\ IF updates = NoUpdates
                 THEN loop' = [loop EXCEPT ![w] = WaitingLoop(OneMore(@))] /\ recent' = recent \ {w}
                 ELSE loop' = [loop EXCEPT ![w].pc = "publish", ![w].updates = updates] /\ UNCHANGED recent
  /\ UNCHANGED <<roster, changes, starts, due, alone>>

(* The events reach the page, one by one or as a batch *)
PublishDeltas(w) ==
  /\ loop[w].pc = "publish"
  /\ screen' = loop[w].updates @@ screen
  /\ owed' = (owed \/ loop[w].live)
  /\ loop' = [loop EXCEPT ![w].pc = "trigger"]
  /\ UNCHANGED <<roster, changes, starts, lastCheckins, recent, due, alone>>

(* Variant: the throttle outlasts the cadence *)
TriggerThrottled(w) ==
  /\ loop[w].pc = "trigger"
  /\ \/ UNCHANGED <<recent, due>>
     \/ recent' = (Loop \ {w}) /\ due' = (due \/ loop[w].live)
  /\ loop' = [loop EXCEPT ![w] = WaitingLoop([@ EXCEPT !.interval = Base, !.unchanged = 0])]
  /\ UNCHANGED <<roster, changes, starts, lastCheckins, screen, owed, alone>>

(* triggerSyncReconcile: throttled for 3 s after the last; SetDueNow of a   *)
(* cancelled loop fails                                                     *)
Trigger(w) ==
  /\ loop[w].pc = "trigger"
  /\ \/ w \in recent /\ recent' = recent \ {w} /\ UNCHANGED due
     \/ recent' = (Loop \ {w}) /\ due' = (due \/ loop[w].live)
  /\ loop' = [loop EXCEPT ![w] = WaitingLoop([@ EXCEPT !.interval = Base, !.unchanged = 0])]
  /\ UNCHANGED <<roster, changes, starts, lastCheckins, screen, owed, alone>>

(* The scraper: the session is fetched and committed                        *)
Reconcile ==
  /\ due
  /\ due' = FALSE
  /\ owed' = FALSE
  /\ UNCHANGED <<roster, changes, starts, lastCheckins, recent, loop, screen, alone>>

LoopStep(w) == Awake(w) \/ Seed(w) \/ Cycle(w) \/ PublishDeltas(w) \/ Trigger(w)

SyncNext ==
  \/ \E s \in Student : Change(s)
  \/ \E w \in Loop : StartLoop(w) \/ StopLoop(w) \/ Fetch(w) \/ SeedFails(w) \/ CycleFails(w) \/ LoopStep(w)
  \/ Reconcile

SyncSpec == SyncInit /\ [][SyncNext]_syncVars

(* A loop goes on; a fetch that is repeated succeeds at some time; a        *)
(* requested scrape happens                                                 *)
FairSyncSpec ==
  /\ SyncSpec
  /\ \A w \in Loop : WF_syncVars(LoopStep(w) \/ SeedFails(w)) /\ SF_syncVars(Fetch(w))
  /\ WF_syncVars(Reconcile)

----------------------------------------------------------------------------
Active == \E w \in Loop : loop[w].live

(* The loop "publishes per-student deltas": a page that agreed with the     *)
(* baseline and applies the events ends with what Warwick holds, however    *)
(* many fetches failed and whatever changed while one was under way, as     *)
(* long as a restart has waited for the loop of the stopped worker.         *)
PageFollows ==
  <>[](Active /\ alone) => <>[](\A s \in DOMAIN roster : s \in DOMAIN screen /\ screen[s] = roster[s])

(* "a burst of check-ins collapses into a single reconciliation" and none   *)
(* is dropped: after a published change the session is scraped again,       *)
(* unless the room is stopped, as long as a restart has waited for the loop *)
(* of the stopped worker.                                                   *)
ChangeReconciled == owed /\ alone ~> ~owed
=============================================================================
