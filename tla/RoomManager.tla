---------------------------- MODULE RoomManager ----------------------------
(***************************************************************************)
(* One QR room: the handlers of RoomManager, the workers it starts, the    *)
(* row of table rooms and what the browsers show.                          *)
(*                                                                         *)
(* Each action is what runs under rm.mu, or between two uses of it.  A     *)
(* worker copies the room under the lock and writes and publishes the copy *)
(* later: the write by a goroutine of its own (writes), the event by       *)
(* itself (field copy).  Deleting and creating the room again yields       *)
(* another RoomState; old workers keep theirs.  Start, Stop and Delete     *)
(* hold lifecycleMu throughout and are single steps but for the waiting of *)
(* StopAllActiveRooms.                                                     *)
(***************************************************************************)
EXTENDS Integers, Sequences

CONSTANTS
  MaxWorker,    \* bound on started workers
  MaxWrites,    \* bound on asynchronous writes under way
  MaxAttempts,  \* roomRecoveryMaxAttempts
  Uses          \* the ways the program is run that are considered

ASSUME RoomAssumption ==
  /\ MaxWorker \in Nat \ {0} /\ MaxWrites \in Nat \ {0} /\ MaxAttempts \in Nat \ {0}
  /\ \A u \in Uses : u \in [serverless: BOOLEAN, labels: BOOLEAN, fetches: BOOLEAN,
                             creates: Nat, objects: Nat \ {0}, crashes: Nat]

VARIABLES
  use,       \* how this program is run
  here,      \* rm.rooms: the RoomState in the map, 0 if none
  state,     \* RoomState objects
  worker,    \* workers in the order of their start
  writes,    \* persistRoomUpdate goroutines: <<object, room>>
  row,       \* the row of rooms: {} or {room}
  view,      \* the QR as browsers show it
  creating,  \* calls of CreateRoom under way, with the row each has read
  stopAll,   \* StopAllActiveRooms: where it is, and the copy it persists
  stuck,     \* rm.mu is held by a worker that panicked
  crashes,
  replaced   \* history: CreateRoom has replaced a RoomState in the map

roomVars == <<use, here, state, worker, writes, row, view, creating, stopAll, stuck, crashes, replaced>>

Serverless == use.serverless   \* SERVERLESS_ENABLED: StopAll and RecoverLoadedRooms run
Creates == use.creates         \* calls of CreateRoom at a time; 0: rooms are not created or deleted
Labels == use.labels           \* an attendance label source is configured
Fetches == use.fetches         \* the ticker of a worker fires in the time considered
Objects == use.objects         \* bound on RoomState objects
Crashes == use.crashes         \* bound on restarts

Status == {"Idle", "Running", "Fetching", "Warning", "AuthExpired", "Stopped"}
QR == {"none", "code"}      \* how old a code is, is left to chance
Room == [status: Status, qr: QR]
NewRoom == [status |-> "Idle", qr |-> "none"]

WorkerPhase == {"idle", "fetch", "success", "auth", "other", "warn", "recover", "refetch", "giveup",
                "emit", "emitlast", "emitrecover", "exited", "panicked"}
StopPhase == {"idle", "locking", "persist", "wait", "drain", "reassert", "record"}
Worker == 1..Len(worker)

RoomTypeOK ==
  /\ use \in Uses
  /\ here \in 0..Len(state)
  /\ state \in Seq([room: Room, cancel: 0..MaxWorker, pending: BOOLEAN, label: 0..MaxWorker])
  /\ worker \in Seq([of: 1..Objects, phase: WorkerPhase, live: BOOLEAN, attempt: 0..MaxAttempts,
                     copy: Room, verify: {"run", "got", "done"}])
  /\ Len(state) <= Objects /\ Len(worker) <= MaxWorker /\ Len(writes) <= MaxWrites
  /\ writes \in Seq((1..Objects) \X Room)
  /\ row \in {{}} \cup {{r} : r \in Room}
  /\ view \in QR
  /\ creating \in [1..Creates -> [step: {"none", "looked", "saved"}, room: {{}} \cup {{r} : r \in Room}]]
  /\ stopAll \in [phase: StopPhase, of: 0..Objects, room: Room, quiet: BOOLEAN]
  /\ stuck \in BOOLEAN
  /\ crashes \in 0..Crashes
  /\ replaced \in BOOLEAN

Object(room) == [room |-> room, cancel |-> 0, pending |-> FALSE, label |-> 0]
NoCreate == [step |-> "none", room |-> {}]
NoStop == [phase |-> "idle", of |-> 0, room |-> NewRoom, quiet |-> FALSE]

RoomInit ==
  /\ use \in Uses
  /\ here = 1 /\ state = <<Object(NewRoom)>>
  /\ worker = <<>> /\ writes = <<>>
  /\ row = {NewRoom} /\ view = "none"
  /\ creating = [c \in 1..Creates |-> NoCreate] /\ stopAll = NoStop
  /\ stuck = FALSE /\ crashes = 0 /\ replaced = FALSE

----------------------------------------------------------------------------
(* domain.Room *)

allowedTransitions ==
  [Idle        |-> {"Running", "Stopped"},
   Running     |-> {"Fetching", "Stopped"},
   Fetching    |-> {"Running", "Warning", "AuthExpired", "Stopped"},
   Warning     |-> {"Fetching", "Stopped"},
   AuthExpired |-> {"Fetching", "Stopped"},
   Stopped     |-> {"Running"}]

(* A transition that is not allowed is logged and leaves the status *)
TransitionTo(room, next) ==
  IF next \in allowedTransitions[room.status] THEN [room EXCEPT !.status = next] ELSE room

(* UpdateRoom: an existing row only.  roomStatusToString makes authexpired  *)
(* of AuthExpired, which is no label of the enum: the statement fails.      *)
Stored(room) == IF row = {} \/ room.status = "AuthExpired" THEN row ELSE {room}

(* emitRoomEvents: within five seconds only a QR or a stop is told *)
Shown(room) == IF room.qr # "none" \/ room.status = "Stopped" THEN {room.qr} ELSE {"none", view}

Unlocked == ~stuck /\ stopAll.phase = "idle"     \* lifecycleMu and mu can be taken

----------------------------------------------------------------------------
(* Handlers *)

(* CreateRoom looks for the row first, without a lock *)
CreateLooks(c) ==
  /\ creating[c].step = "none"
  /\ creating' = [creating EXCEPT ![c] = [step |-> "looked", room |-> row]]
  /\ UNCHANGED <<here, state, worker, writes, row, view, stopAll, stuck, crashes, use, replaced>>

(* There was none: insert unless there is one now, and read it back *)
CreateInserts(c) ==
  /\ creating[c].step = "looked" /\ creating[c].room = {}
  /\ row' = IF row = {} THEN {NewRoom} ELSE row
  /\ creating' = [creating EXCEPT ![c] = [step |-> "saved", room |-> row']]
  /\ UNCHANGED <<here, state, worker, writes, view, stopAll, stuck, crashes, use, replaced>>

Registered(room) ==
  /\ Len(state) < Objects
  /\ state' = Append(state, Object(room))
  /\ here' = Len(state) + 1

(* What was saved is registered, in the place of what the map may have by now *)
CreateRegistersSaved(c) ==
  /\ ~stuck
  /\ creating[c].step = "saved"
  /\ \E saved \in creating[c].room : Registered(saved) /\ view' \in Shown(saved)
  /\ creating' = [creating EXCEPT ![c] = NoCreate]
  /\ replaced' = (replaced \/ here # 0)
  /\ UNCHANGED <<worker, writes, row, stopAll, stuck, crashes, use>>

(* The row was there: register it if the map lacks it *)
CreateRegisters(c) ==
  /\ ~stuck
  /\ creating[c].step = "looked"
  /\ \E found \in creating[c].room :
       IF here = 0 THEN Registered(found) ELSE UNCHANGED <<state, here>>
  /\ creating' = [creating EXCEPT ![c] = NoCreate]
  /\ UNCHANGED <<worker, writes, row, view, stopAll, stuck, crashes, use, replaced>>

(* Variant: the check for a running worker is left out *)
StartAlways ==
  /\ Unlocked /\ here # 0 /\ Len(worker) < MaxWorker
  /\ LET w == Len(worker) + 1
         room == TransitionTo(state[here].room, "Running")
     IN /\ state' = [state EXCEPT ![here].room = room, ![here].cancel = w, ![here].label = 0]
        /\ worker' = Append(worker, [of |-> here, phase |-> "idle", live |-> TRUE, attempt |-> 0,
                                     copy |-> NewRoom, verify |-> IF Labels THEN "run" ELSE "done"])
        /\ view' \in Shown(room)
  /\ UNCHANGED <<here, writes, row, creating, stopAll, stuck, crashes, use, replaced>>

(* StartRoom, and EnsureSessionRoom of a room that exists *)
StartRoom ==
  /\ Unlocked /\ here # 0 /\ Len(worker) < MaxWorker
  /\ state[here].cancel = 0
  /\ LET w == Len(worker) + 1
         old == state[here].room
         reset == IF old.status = "Running" THEN old ELSE [old EXCEPT !.qr = "none"]
         room == TransitionTo(reset, "Running")
     IN /\ state' = [state EXCEPT ![here].room = room, ![here].cancel = w, ![here].label = 0]
        /\ worker' = Append(worker, [of |-> here, phase |-> "idle", live |-> TRUE, attempt |-> 0,
                                     copy |-> NewRoom, verify |-> IF Labels THEN "run" ELSE "done"])
        /\ view' \in Shown(room)
  /\ UNCHANGED <<here, writes, row, creating, stopAll, stuck, crashes, use, replaced>>

(* The context of the worker that state.cancel belongs to is cancelled *)
Cancelled(o) ==
  [w \in Worker |-> IF w = state[o].cancel THEN [worker[w] EXCEPT !.live = FALSE] ELSE worker[w]]

StopRoom ==
  /\ Unlocked /\ here # 0 /\ Len(writes) < MaxWrites
  /\ LET room == [TransitionTo(state[here].room, "Stopped") EXCEPT !.qr = "none"]
     IN /\ state' = [state EXCEPT ![here].room = room, ![here].cancel = 0]
        /\ worker' = Cancelled(here)
        /\ writes' = Append(writes, <<here, room>>)
        /\ view' \in Shown(room)
  /\ UNCHANGED <<here, row, creating, stopAll, stuck, crashes, use, replaced>>

DeleteRoom ==
  /\ Creates > 0
  /\ Unlocked /\ row # {}
  /\ row' = {}
  /\ here' = 0
  /\ worker' = IF here = 0 THEN worker ELSE Cancelled(here)
  /\ view' = "none"
  /\ UNCHANGED <<state, writes, creating, stopAll, stuck, crashes, use, replaced>>

----------------------------------------------------------------------------
(* StopAllActiveRooms, when the instance becomes idle *)

StopAllCalled ==
  /\ Serverless
  /\ stopAll.phase = "idle"
  /\ stopAll' = [stopAll EXCEPT !.phase = "locking"]
  /\ UNCHANGED <<here, state, worker, writes, row, view, creating, stuck, crashes, use, replaced>>

StopAllCancels ==
  /\ stopAll.phase = "locking"
  /\ ~stuck
  /\ IF here = 0 \/ (state[here].cancel = 0 /\ ~state[here].pending)
       THEN stopAll' = NoStop /\ UNCHANGED <<state, worker>>
       ELSE LET room == IF state[here].cancel = 0 THEN state[here].room
                        ELSE TransitionTo(state[here].room, "Stopped")
                refused == state[here].cancel # 0 /\ room.status # "Stopped"
            IN /\ stopAll' = IF refused THEN NoStop
                             ELSE [NoStop EXCEPT !.phase = "persist", !.of = here, !.room = room]
               /\ state' = [state EXCEPT ![here].room = room, ![here].cancel = 0,
                                         ![here].pending = @ \/ ~refused]
               /\ worker' = Cancelled(here)
  /\ UNCHANGED <<here, writes, row, view, creating, stuck, crashes, use, replaced>>

(* Either UpdateRoom may fail *)
StopAllPersists ==
  /\ stopAll.phase = "persist"
  /\ row' \in {Stored(stopAll.room), row}
  /\ stopAll' = [stopAll EXCEPT !.phase = "wait"]
  /\ UNCHANGED <<here, state, worker, writes, view, creating, stuck, crashes, use, replaced>>

(* The goroutines of a worker are done *)
Ended(w) == worker[w].phase \in {"exited", "panicked"} /\ worker[w].verify = "done"

(* state.done is closed, the channel of the worker started last; quiet      *)
(* remembers whether all have ended                                         *)
StopAllWaited ==
  /\ stopAll.phase = "wait"
  /\ \A w \in Worker :
       worker[w].of = stopAll.of /\ (\A v \in Worker : worker[v].of = stopAll.of => v <= w)
       => Ended(w)
  /\ stopAll' = [stopAll EXCEPT !.phase = "drain",
       !.quiet = \A w \in Worker : worker[w].of = stopAll.of => Ended(w)]
  /\ UNCHANGED <<here, state, worker, writes, row, view, creating, stuck, crashes, use, replaced>>

StopAllTimesOut ==
  /\ stopAll.phase \in {"wait", "drain"}
  /\ stopAll' = NoStop
  /\ UNCHANGED <<here, state, worker, writes, row, view, creating, stuck, crashes, use, replaced>>

(* Variant: older writes are not waited for *)
StopAllDrainsNot ==
  /\ stopAll.phase = "drain"
  /\ stopAll' = [stopAll EXCEPT !.phase = "reassert"]
  /\ UNCHANGED <<here, state, worker, writes, row, view, creating, stuck, crashes, use, replaced>>

(* persistWG.Wait *)
StopAllDrained ==
  /\ stopAll.phase = "drain"
  /\ \A i \in 1..Len(writes) : writes[i][1] # stopAll.of
  /\ stopAll' = [stopAll EXCEPT !.phase = "reassert"]
  /\ UNCHANGED <<here, state, worker, writes, row, view, creating, stuck, crashes, use, replaced>>

(* UpdateRoom once more; only its success is recorded, under rm.mu *)
StopAllReasserts ==
  /\ stopAll.phase = "reassert"
  /\ \/ /\ Stored(stopAll.room) = {stopAll.room}
        /\ row' = {stopAll.room}
        /\ stopAll' = [stopAll EXCEPT !.phase = "record"]
        /\ UNCHANGED view
     \/ /\ stopAll' = NoStop
        /\ view' \in Shown(stopAll.room)
        /\ UNCHANGED row
  /\ UNCHANGED <<here, state, worker, writes, creating, stuck, crashes, use, replaced>>

StopAllRecords ==
  /\ stopAll.phase = "record"
  /\ ~stuck
  /\ state' = [state EXCEPT ![stopAll.of].pending = FALSE]
  /\ view' \in Shown(stopAll.room)
  /\ stopAll' = NoStop
  /\ UNCHANGED <<here, worker, writes, row, creating, stuck, crashes, use, replaced>>

----------------------------------------------------------------------------
(* runRoomWorker *)

On(w, phase) == w \in Worker /\ worker[w].phase = phase
RoomOf(w) == state[worker[w].of].room
SetRoom(w, room) == state' = [state EXCEPT ![worker[w].of].room = room]
Step(w, phase) == worker' = [worker EXCEPT ![w].phase = phase]

(* What an ended worker leaves does not matter *)
Exited(w) == worker' = [worker EXCEPT ![w] = [@ EXCEPT !.phase = "exited", !.attempt = 0,
                                                       !.copy = NewRoom]]

(* The copy is written by a goroutine and published by the worker *)
Copied(w, room, phase) ==
  /\ Len(writes) < MaxWrites
  /\ writes' = Append(writes, <<worker[w].of, room>>)
  /\ worker' = [worker EXCEPT ![w].phase = phase, ![w].copy = room]

(* roomWorkerTick, when there is no QR or it is past 75 % of its lifetime,  *)
(* as it may be at any time.  A cancelled context need not be noticed       *)
(* before it.                                                               *)
Tick(w) ==
  /\ On(w, "idle") /\ ~stuck /\ Fetches
  /\ SetRoom(w, TransitionTo(RoomOf(w), "Fetching"))
  /\ view' \in Shown(TransitionTo(RoomOf(w), "Fetching"))
  /\ Step(w, "fetch")
  /\ UNCHANGED <<here, writes, row, creating, stopAll, stuck, crashes, use, replaced>>

Exit(w) ==
  /\ w \in Worker
  /\ worker[w].phase \in {"idle", "fetch", "recover"}
  /\ ~worker[w].live
  /\ Exited(w)
  /\ UNCHANGED <<here, state, writes, row, view, creating, stopAll, stuck, crashes, use, replaced>>

(* The fetch is over and the context still open *)
Fetched(w) ==
  /\ On(w, "fetch")
  /\ worker[w].live
  /\ \E answer \in {"success", "auth", "other"} : Step(w, answer)
  /\ UNCHANGED <<here, state, writes, row, view, creating, stopAll, stuck, crashes, use, replaced>>

handleRoomFetchSuccess(w) ==
  /\ On(w, "success") /\ ~stuck
  /\ LET room == TransitionTo([RoomOf(w) EXCEPT !.qr = "code"], "Running")
     IN SetRoom(w, room) /\ Copied(w, room, "emit")
  /\ UNCHANGED <<here, row, view, creating, stopAll, stuck, crashes, use, replaced>>

(* A room that is AuthExpired now goes to recovery *)
FetchError(w) ==
  /\ On(w, "auth") \/ On(w, "other")
  /\ ~stuck
  /\ LET room == TransitionTo(RoomOf(w), IF On(w, "auth") THEN "AuthExpired" ELSE "Warning")
     IN /\ SetRoom(w, room)
        /\ IF room.status = "AuthExpired" THEN Copied(w, room, "emitrecover")
                                          ELSE Step(w, "warn") /\ UNCHANGED writes
  /\ UNCHANGED <<here, row, view, creating, stopAll, stuck, crashes, use, replaced>>

(* The others get a warning, under the lock taken once more *)
handleNonRecoverableError(w) ==
  /\ On(w, "warn") /\ ~stuck
  /\ Copied(w, RoomOf(w), "emit")
  /\ UNCHANGED <<here, state, row, view, creating, stopAll, stuck, crashes, use, replaced>>

Emit(w) ==
  /\ w \in Worker
  /\ worker[w].phase \in {"emit", "emitlast", "emitrecover"}
  /\ view' \in Shown(worker[w].copy)
  /\ IF On(w, "emitlast") THEN Exited(w)
     ELSE worker' = [worker EXCEPT ![w].copy = NewRoom, ![w].attempt = 0,
                                   ![w].phase = IF On(w, "emit") THEN "idle" ELSE "recover"]
  /\ UNCHANGED <<here, state, writes, row, creating, stopAll, stuck, crashes, use, replaced>>

----------------------------------------------------------------------------
(* recoveryLoop *)

(* The back-off ends before the context does *)
RecoveryFetch(w) ==
  /\ On(w, "recover")
  /\ worker[w].live
  /\ Step(w, "refetch")
  /\ UNCHANGED <<here, state, writes, row, view, creating, stopAll, stuck, crashes, use, replaced>>

Recovered(w) ==
  /\ On(w, "refetch") /\ ~stuck
  /\ IF ~worker[w].live THEN Exited(w) /\ UNCHANGED <<state, writes>>
     ELSE LET fetching == TransitionTo([RoomOf(w) EXCEPT !.qr = "code"], "Fetching")
              room == TransitionTo(fetching, "Running")
          IN SetRoom(w, room) /\ Copied(w, room, "emit")
  /\ UNCHANGED <<here, row, view, creating, stopAll, stuck, crashes, use, replaced>>

(* ErrAuthConflict and an invalid payload: the worker ends *)
RecoveryEnds(w) ==
  /\ On(w, "refetch") /\ ~stuck
  /\ \E next \in {"Warning", "Stopped"} :
       LET room == TransitionTo(RoomOf(w), next)
       IN SetRoom(w, room) /\ Copied(w, room, "emitlast")
  /\ UNCHANGED <<here, row, view, creating, stopAll, stuck, crashes, use, replaced>>

RecoveryPoolExhausted(w) ==
  /\ On(w, "refetch")
  /\ Step(w, "recover")
  /\ UNCHANGED <<here, state, writes, row, view, creating, stopAll, stuck, crashes, use, replaced>>

RecoveryFails(w) ==
  /\ On(w, "refetch")
  /\ worker' = [worker EXCEPT ![w].attempt = @ + 1,
                              ![w].phase = IF worker[w].attempt + 1 >= MaxAttempts THEN "giveup"
                                           ELSE "recover"]
  /\ UNCHANGED <<here, state, writes, row, view, creating, stopAll, stuck, crashes, use, replaced>>

(* After the last attempt state.cancel is called as it is then.  If it is   *)
(* nil the call panics, and the deferred recover does not release rm.mu.    *)
RecoveryGivesUp(w) ==
  LET o == worker[w].of
      room == TransitionTo(RoomOf(w), "Stopped")
  IN /\ On(w, "giveup") /\ ~stuck
     /\ IF state[o].cancel = 0
          THEN /\ stuck' = TRUE
               /\ Step(w, "panicked")
               /\ SetRoom(w, room)
               /\ UNCHANGED writes
          ELSE /\ Len(writes) < MaxWrites
               /\ state' = [state EXCEPT ![o].room = room, ![o].cancel = 0]
               /\ writes' = Append(writes, <<o, room>>)
               /\ worker' = [Cancelled(o) EXCEPT ![w].phase = "emitlast", ![w].copy = room]
               /\ UNCHANGED stuck
     /\ UNCHANGED <<here, row, view, creating, stopAll, crashes, use, replaced>>

----------------------------------------------------------------------------
(* runAttendanceVerification: fetch, then store the outcome if the room runs *)
Verified(w) ==
  /\ w \in Worker /\ worker[w].verify = "run"
  /\ worker' = [worker EXCEPT ![w].verify = IF worker[w].live THEN "got" ELSE "done"]
  /\ UNCHANGED <<here, state, writes, row, view, creating, stopAll, stuck, crashes, use, replaced>>

LabelStored(w) ==
  /\ w \in Worker /\ worker[w].verify = "got" /\ ~stuck
  /\ LET o == worker[w].of IN
       state' = IF here # o \/ state[o].cancel = 0 THEN state
                ELSE [state EXCEPT ![o].label = w]
  /\ worker' = [worker EXCEPT ![w].verify = "done"]
  /\ UNCHANGED <<here, writes, row, view, creating, stopAll, stuck, crashes, use, replaced>>

----------------------------------------------------------------------------
(* A write of persistRoomUpdate; they overtake one another *)
WriteDone(i) ==
  /\ i \in 1..Len(writes)
  /\ row' \in {Stored(writes[i][2]), row}
  /\ writes' = SubSeq(writes, 1, i - 1) \o SubSeq(writes, i + 1, Len(writes))
  /\ UNCHANGED <<here, state, worker, view, creating, stopAll, stuck, crashes, use, replaced>>

(* ClearExpiredQRs and its statement: a QR may have expired *)
Cleared(r) ==
  IF r.status \in {"Stopped", "Idle"} THEN {[r EXCEPT !.qr = "none"]}
  ELSE {r, [r EXCEPT !.qr = "none"]}

(* RecoverLoadedRooms, in serverless mode *)
Normalized(r) ==
  IF Serverless /\ r.status \notin {"Idle", "Stopped"} THEN TransitionTo(r, "Stopped") ELSE r

(* The process ends and starts again: LoadRoomsFromDB, ClearExpiredQRs,     *)
(* RetainRooms, RecoverLoadedRooms; browsers reconnect to the loaded rooms  *)
Restart ==
  /\ crashes < Crashes
  /\ crashes' = crashes + 1 /\ use' = use
  /\ worker' = <<>> /\ writes' = <<>> /\ stopAll' = NoStop /\ stuck' = FALSE /\ replaced' = FALSE
  /\ creating' = [c \in 1..Creates |-> NoCreate]
  /\ \/ /\ row # {}
        /\ \E r \in row : \E c \in Cleared(r) :
             /\ state' = <<Object(Normalized(c))>>
             /\ row' = {Normalized(c)}
             /\ view' = Normalized(c).qr
        /\ here' = 1
     \/ /\ \A r \in row : r.status = "Stopped"        \* deleted by RetainRooms, or before
        /\ state' = <<>> /\ here' = 0 /\ row' = {} /\ view' = "none"

WorkerNext(w) ==
  \/ Tick(w) \/ Exit(w) \/ Fetched(w) \/ handleRoomFetchSuccess(w) \/ FetchError(w)
  \/ handleNonRecoverableError(w) \/ Emit(w)
  \/ RecoveryFetch(w) \/ Recovered(w) \/ RecoveryEnds(w) \/ RecoveryPoolExhausted(w)
  \/ RecoveryFails(w) \/ RecoveryGivesUp(w)
  \/ Verified(w) \/ LabelStored(w)

StopAllNext ==
  \/ StopAllCancels \/ StopAllPersists \/ StopAllWaited \/ StopAllTimesOut \/ StopAllDrained
  \/ StopAllReasserts \/ StopAllRecords

RoomNext ==
  \/ \E c \in 1..Creates :
       CreateLooks(c) \/ CreateInserts(c) \/ CreateRegistersSaved(c) \/ CreateRegisters(c)
  \/ StartRoom \/ StopRoom \/ DeleteRoom
  \/ StopAllCalled \/ StopAllNext
  \/ \E w \in 1..MaxWorker : WorkerNext(w)
  \/ \E i \in 1..MaxWrites : WriteDone(i)
  \/ Restart

RoomSpec == RoomInit /\ [][RoomNext]_roomVars

(* Goroutines run; a fetch is over by its timeout, a write by its five      *)
(* seconds, the wait of StopAll by its ten                                  *)
FairRoomSpec ==
  /\ RoomSpec
  /\ WF_roomVars(StopAllNext)
  /\ \A w \in 1..MaxWorker : WF_roomVars(WorkerNext(w))
  /\ \A i \in 1..MaxWrites : WF_roomVars(WriteDone(i))

----------------------------------------------------------------------------
(* Start, stop, delete and create in any order and any timing of failing    *)
(* recoveries leave at most one worker whose context is open: two would     *)
(* fetch the QR of the room twice.  The one way to a second is a CreateRoom *)
(* that replaces the RoomState in the map, and with it the cancel function  *)
(* of its worker.                                                           *)
OneLiveWorker ==
  \A v, w \in Worker :
    worker[v].live /\ worker[w].live /\ worker[v].phase # "exited" /\ worker[w].phase # "exited"
    => v = w \/ (replaced /\ worker[v].of # worker[w].of)

(* StopAllActiveRooms has cleared the pending flag of the object *)
StopRecorded ==
  /\ stopAll.phase = "record" /\ stopAll'.phase = "idle" /\ crashes' = crashes
  /\ state[stopAll.of].pending /\ ~state'[stopAll.of].pending

(* StopAllActiveRooms waits for the worker started last.  If every earlier  *)
(* one of the RoomState had ended by then, none of its writes is left to    *)
(* change the row when the pending flag is cleared, and the row is the one  *)
(* reasserted.  The writes of a RoomState deleted before are not waited     *)
(* for: the row is certain only where there was no other.                   *)
ReassertedLast ==
  [][ StopRecorded /\ stopAll.quiet
      => /\ \A i \in 1..Len(writes') : writes'[i][1] # stopAll.of
         /\ Len(state) = 1 => row' = {stopAll.room} ]_roomVars

(* StopAllActiveRooms "durably records their stopped state", and reasserts  *)
(* it "after all older writes so durable ordering is deterministic".        *)
StoppedDurably ==
  [][ StopRecorded => \A r \in row' : r.status = "Stopped" ]_roomVars

(* A deleted room stays deleted: the late write of a worker or of a stop    *)
(* does not bring its row back (UpdateRoom of a missing row is an error).   *)
DeletedStaysDeleted ==
  [][ row = {} /\ row' # {} => \E c \in 1..Creates : creating[c].step = "looked" /\ creating[c].room = {} ]_roomVars

(* "only a live worker (cancel != nil) proves the QR loop is running"       *)
(* (EnsureSessionRoom): a room with a cancel function has a worker.         *)
CancelProvesWorker ==
  here # 0 => LET w == state[here].cancel IN w # 0 => worker[w].phase \notin {"exited", "panicked"}

(* "A stopped room no longer serves a QR" (StopRoom): without a worker the  *)
(* room has no QR and does not become Running.                              *)
StoppedServesNoQR ==
  [][ here # 0 /\ here' = here /\ state[here].cancel = 0 /\ state'[here].cancel = 0
      /\ state[here].room.status = "Stopped" /\ state[here].room.qr = "none"
      /\ crashes' = crashes
      => state'[here].room.qr = "none" ]_roomVars

(* "a stop must always be delivered so clients clear their QR view"         *)
(* (emitRoomEvents): once nothing is under way, a room that is stopped and  *)
(* has no QR is not shown with one.                                         *)
StopIsShown ==
  (here # 0 /\ ~stuck /\ (\A w \in Worker : Ended(w)) /\ stopAll.phase = "idle"
     /\ state[here].room = [status |-> "Stopped", qr |-> "none"])
  => view = "none"

(* "Do not carry a label from a previous process/worker and present it as   *)
(* freshly scraped" (StartRoom).                                            *)
LabelIsOwn ==
  here # 0 => state[here].label = 0 \/ state[here].cancel \in {0, state[here].label}

(* A verification that was under way when the room was stopped does not     *)
(* label the stopped room: runAttendanceVerification looks for the worker   *)
(* again under the lock.                                                    *)
NoLabelAfterStop ==
  [][ \A o \in 1..Len(state) :
        state[o].cancel = 0 /\ crashes' = crashes
        => state'[o].label = state[o].label \/ state'[o].label = 0 ]_roomVars

(* StopAllActiveRooms "returns only after every cancelled worker has exited *)
(* or ctx is cancelled": then it does return.                               *)
StopAllReturns == stopAll.phase # "idle" ~> stopAll.phase = "idle"

(* "a cold start never serves (or re-emits) an expired or terminal room's   *)
(* QR" (bootstrap).                                                         *)
ColdStartServesNoQR ==
  [][ crashes' # crashes /\ here' # 0 /\ state'[here'].room.status \in {"Stopped", "Idle"}
      => view' = "none" ]_roomVars
============================================================================
