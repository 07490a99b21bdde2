-------------------------- MODULE ActivityController --------------------------
(***************************************************************************)
(* The active/idle lifecycle of the serverless runtime: requests hold a    *)
(* lease while they are served and record activity when they succeed; the  *)
(* controller's loop stops the speculative workers and the QR rooms after  *)
(* idleGrace without activity.  Time is the order of events: the idle      *)
(* timer, once armed, may fire at any later moment.                        *)
(***************************************************************************)
EXTENDS Naturals, FiniteSets

CONSTANTS
  Request,
  MaxActivity,   \* bound on activities
  Stops          \* whether the process is told to stop

ASSUME ActivityAssumption == IsFiniteSet(Request) /\ MaxActivity \in Nat /\ Stops \in BOOLEAN

VARIABLES
  process,      \* main: up, stopping (ctx is done), exited
  pc,           \* where Run is
  armed,        \* idleTimerC # nil
  token,        \* activityCh holds a notification
  activitySeq, handledActivity,
  locked,       \* transitionMu is held by Run
  inFlight,
  working,      \* cancelWorkers # nil
  rooms,        \* a room's worker is running
  request,
  unquiet       \* history: a request succeeded after the timer was last armed

activityVars == <<process, pc, armed, token, activitySeq, handledActivity, locked, inFlight,
                  working, rooms, request, unquiet>>
runVars == <<pc, armed, handledActivity, locked, working>>

ActivityTypeOK ==
  /\ process \in {"up", "stopping", "exited"}
  /\ pc \in {"select", "received", "expired", "stopWorkers", "idle", "shutdown", "returned"}
  /\ {armed, token, locked, working, rooms, unquiet} \subseteq BOOLEAN
  /\ activitySeq \in 0..MaxActivity /\ handledActivity \in 0..activitySeq
  /\ inFlight \in 0..Cardinality(Request)
  /\ request \in [Request -> {"out", "admitted", "started", "released", "recorded"}]

ActivityInit ==
  /\ process = "up" /\ pc = "select"
  /\ armed = FALSE /\ token = FALSE /\ locked = FALSE /\ working = FALSE /\ rooms = FALSE
  /\ activitySeq = 0 /\ handledActivity = 0 /\ inFlight = 0
  /\ request = [r \in Request |-> "out"]
  /\ unquiet = FALSE

(* Activities recorded or about to be *)
Activities == activitySeq + Cardinality({r \in Request : request[r] \in {"admitted", "started", "released"}})

----------------------------------------------------------------------------
(* Variant: the lease is counted without transitionMu *)
BeginUnlocked(r) ==
  /\ request[r] = "out" /\ Activities < MaxActivity
  /\ inFlight' = inFlight + 1
  /\ request' = [request EXCEPT ![r] = "admitted"]
  /\ UNCHANGED <<process, runVars, token, activitySeq, rooms, unquiet>>

(* admittedActivityMiddleware takes a lease: BeginActivity waits for an     *)
(* idle transition to end                                                   *)
BeginActivity(r) ==
  /\ request[r] = "out" /\ Activities < MaxActivity
  /\ ~locked
  /\ inFlight' = inFlight + 1
  /\ request' = [request EXCEPT ![r] = "admitted"]
  /\ UNCHANGED <<process, runVars, token, activitySeq, rooms, unquiet>>

(* The handler starts a room; it will answer 200 or 202 *)
StartsRoom(r) ==
  /\ request[r] = "admitted"
  /\ rooms' = TRUE
  /\ request' = [request EXCEPT ![r] = "started"]
  /\ UNCHANGED <<process, runVars, token, activitySeq, inFlight, unquiet>>

(* Finish, its first half: the lease is given back, once *)
Finish(r, success) ==
  /\ request[r] = "admitted" \/ (request[r] = "started" /\ success)
  /\ inFlight' = inFlight - 1
  /\ request' = [request EXCEPT ![r] = IF success THEN "released" ELSE "out"]
  /\ unquiet' = (unquiet \/ success)
  /\ UNCHANGED <<process, runVars, token, activitySeq, rooms>>

(* wsHandler records an activity and holds no lease *)
AcceptSocket(r) ==
  /\ request[r] = "out" /\ Activities < MaxActivity
  /\ request' = [request EXCEPT ![r] = "released"]
  /\ UNCHANGED <<process, runVars, token, activitySeq, inFlight, rooms, unquiet>>

(* RecordActivity: the count, then the notification if there is room for it *)
CountActivity(r) ==
  /\ request[r] = "released"
  /\ activitySeq' = activitySeq + 1
  /\ request' = [request EXCEPT ![r] = "recorded"]
  /\ UNCHANGED <<process, runVars, token, inFlight, rooms, unquiet>>

Notify(r) ==
  /\ request[r] = "recorded"
  /\ token' = TRUE
  /\ request' = [request EXCEPT ![r] = "out"]
  /\ UNCHANGED <<process, runVars, activitySeq, inFlight, rooms, unquiet>>

RequestStep(r) ==
  StartsRoom(r) \/ (\E s \in BOOLEAN : Finish(r, s)) \/ CountActivity(r) \/ Notify(r)

----------------------------------------------------------------------------
(* Run: activityCh is chosen *)
ReceiveActivity ==
  /\ pc = "select" /\ token
  /\ token' = FALSE
  /\ pc' = "received"
  /\ UNCHANGED <<process, armed, activitySeq, handledActivity, locked, inFlight, working, rooms, request, unquiet>>

(* The rest of that case: the deadline moves, workers start if there are none *)
HandleActivity ==
  /\ pc = "received"
  /\ handledActivity' = activitySeq
  /\ armed' = TRUE
  /\ working' = TRUE
  /\ unquiet' = FALSE
  /\ pc' = "select"
  /\ UNCHANGED <<process, token, activitySeq, locked, inFlight, rooms, request>>

(* idleTimerC is chosen *)
Expire ==
  /\ pc = "select" /\ armed
  /\ armed' = FALSE
  /\ pc' = "expired"
  /\ UNCHANGED <<process, token, activitySeq, handledActivity, locked, inFlight, working, rooms, request, unquiet>>

(* Variant: the timer is not armed again for a request in flight *)
ExpiryDropped ==
  /\ pc = "expired"
  /\ IF inFlight > 0 \/ activitySeq # handledActivity
       THEN pc' = "select" /\ UNCHANGED <<locked, armed, unquiet>>
       ELSE pc' = "stopWorkers" /\ locked' = TRUE /\ UNCHANGED <<armed, unquiet>>
  /\ UNCHANGED <<process, token, activitySeq, handledActivity, inFlight, working, rooms, request>>

(* Under transitionMu: a lease or a newer activity puts the transition off *)
CheckExpiry ==
  /\ pc = "expired"
  /\ IF inFlight > 0 \/ activitySeq # handledActivity
       THEN pc' = "select" /\ armed' = TRUE /\ unquiet' = FALSE /\ UNCHANGED locked
       ELSE pc' = "stopWorkers" /\ locked' = TRUE /\ UNCHANGED <<armed, unquiet>>
  /\ UNCHANGED <<process, token, activitySeq, handledActivity, inFlight, working, rooms, request>>

(* Variant: the pending notification is discarded with the workers *)
StopWorkersDrains ==
  /\ pc = "stopWorkers"
  /\ working' = FALSE
  /\ token' = FALSE
  /\ IF activitySeq # handledActivity
       THEN pc' = "select" /\ locked' = FALSE
       ELSE pc' = "idle" /\ UNCHANGED locked
  /\ UNCHANGED <<process, armed, activitySeq, handledActivity, inFlight, rooms, request, unquiet>>

(* stopWorkers returns; an activity recorded meanwhile aborts the idle      *)
(* cleanup, and the timer waits for its notification                        *)
StopWorkers ==
  /\ pc = "stopWorkers"
  /\ working' = FALSE
  /\ IF activitySeq # handledActivity
       THEN pc' = "select" /\ locked' = FALSE
       ELSE pc' = "idle" /\ UNCHANGED locked
  /\ UNCHANGED <<process, armed, token, activitySeq, handledActivity, inFlight, rooms, request, unquiet>>

(* The idle handlers: StopAllActiveRooms, CloseIdleConnections *)
RunIdleHandlers ==
  /\ pc = "idle"
  /\ rooms' = FALSE
  /\ locked' = FALSE
  /\ pc' = "select"
  /\ UNCHANGED <<process, armed, token, activitySeq, handledActivity, inFlight, working, request, unquiet>>

(* ctx.Done is chosen: workers, then handlers, with no regard to leases *)
ReceiveDone ==
  /\ pc = "select" /\ process = "stopping"
  /\ working' = FALSE
  /\ pc' = "shutdown"
  /\ UNCHANGED <<process, armed, token, activitySeq, handledActivity, locked, inFlight, rooms, request, unquiet>>

RunShutdownHandlers ==
  /\ pc = "shutdown"
  /\ rooms' = FALSE
  /\ pc' = "returned"
  /\ UNCHANGED <<process, armed, token, activitySeq, handledActivity, locked, inFlight, working, request, unquiet>>

RunStep ==
  ReceiveActivity \/ HandleActivity \/ Expire \/ CheckExpiry \/ StopWorkers \/ RunIdleHandlers
  \/ ReceiveDone \/ RunShutdownHandlers

----------------------------------------------------------------------------
(* SIGTERM cancels the context that main and Run share *)
Terminate ==
  /\ Stops /\ process = "up"
  /\ process' = "stopping"
  /\ UNCHANGED <<runVars, token, activitySeq, inFlight, rooms, request, unquiet>>

(* main: Shutdown drains the requests and StartBackgroundRuntime's done is  *)
(* closed, or the two timeouts expire                                       *)
Exit ==
  /\ process = "stopping"
  /\ process' = "exited"
  /\ UNCHANGED <<runVars, token, activitySeq, inFlight, rooms, request, unquiet>>

ActivityNext ==
  \/ process # "exited" /\ (RunStep \/ \E r \in Request : BeginActivity(r) \/ AcceptSocket(r) \/ RequestStep(r))
  \/ Terminate
  \/ Exit

ActivitySpec == ActivityInit /\ [][ActivityNext]_activityVars

(* A request that was admitted ends; the loop runs and its timer fires; a   *)
(* select does not pass over a ready notification for ever                  *)
FairActivitySpec ==
  /\ ActivitySpec
  /\ WF_activityVars(process # "exited" /\ RunStep)
  /\ SF_activityVars(process # "exited" /\ ReceiveActivity)
  /\ \A r \in Request : WF_activityVars(process # "exited" /\ RequestStep(r))

----------------------------------------------------------------------------
(* "idle cleanup must not run during an admitted request": the idle         *)
(* transition finds no lease, and BeginActivity grants none until it ends.  *)
NoIdleUnderLease == pc \in {"stopWorkers", "idle"} => inFlight = 0

(* An activity recorded at any moment of an idle transition starts the      *)
(* workers again, although the loop may have consumed its timer and the     *)
(* notification shares a channel of capacity one.                           *)
ActivityServed == (activitySeq # handledActivity) ~> (working \/ process # "up")

(* "the idle transition stops that work": once the requests are over every  *)
(* room is stopped, whatever ended them and whenever the timer fired.       *)
RoomsGoQuiet ==
  <>[](process = "up" /\ \A r \in Request : request[r] = "out") => <>[](~rooms)

(* "Quiet period before speculative workers and rooms stop": the cleanup    *)
(* runs only if no request succeeded after the timer was armed.             *)
QuietBeforeIdle == pc = "idle" => ~unquiet

(* "Process shutdown cancels active workers and does not start another      *)
(* generation".                                                             *)
NoGenerationAfterShutdown == [][process # "up" => (working' => working)]_activityVars
=============================================================================
