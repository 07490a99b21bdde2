----------------------------- MODULE RoomProofs -----------------------------
(***************************************************************************)
(* The room manager for any number of workers, writes, attempts, creating  *)
(* calls and restarts: who owns a worker whose context is open, and what   *)
(* StopAllActiveRooms leaves in the row.                                   *)
(***************************************************************************)
EXTENDS RoomManager, SequenceTheorems, TLAPS

ObjectRec == [room: Room, cancel: 0..MaxWorker, pending: BOOLEAN, label: 0..MaxWorker]
AnyWorker == [of: 1..Objects, phase: WorkerPhase, live: BOOLEAN, attempt: 0..MaxAttempts,
              copy: Room, verify: {"run", "got", "done"}]

\* A worker that still tries to recover has an attempt left.
Trying == {"recover", "refetch"}
WorkerRec == {r \in AnyWorker : r.phase \in Trying => r.attempt < MaxAttempts}

Rows == {{}} \cup {{r} : r \in Room}

\* A worker whose context is open is the one that the RoomState it was started
\* for can cancel.  Unless CreateRoom replaced a RoomState, that one is in the
\* map.
Owned ==
  \A w \in Worker :
    /\ worker[w].of \in 1..Len(state)
    /\ worker[w].live => state[worker[w].of].cancel = w
    /\ worker[w].live /\ ~replaced => worker[w].of = here

\* The part of the type invariant that workers and handlers change most.
Shape ==
  /\ use \in Uses /\ here \in 0..Len(state)
  /\ state \in Seq(ObjectRec) /\ worker \in Seq(WorkerRec)
  /\ Len(state) <= Objects /\ Len(worker) <= MaxWorker

\* The rest of it.
Rest ==
  /\ writes \in Seq((1..Objects) \X Room) /\ Len(writes) <= MaxWrites
  /\ row \in Rows /\ view \in QR
  /\ creating \in [1..Creates -> [step: {"none", "looked", "saved"}, room: Rows]]
  /\ stopAll \in [phase: StopPhase, of: 0..Objects, room: Room, quiet: BOOLEAN]
  /\ stuck \in BOOLEAN /\ crashes \in 0..Crashes /\ replaced \in BOOLEAN

RoomInv == Shape /\ Rest /\ Owned

\* The properties follow.
LEMMA InvImplies == RoomInv => RoomTypeOK /\ OneLiveWorker
<1>1. SUFFICES ASSUME RoomInv PROVE RoomTypeOK /\ OneLiveWorker
  OBVIOUS
<1>2. WorkerRec \subseteq AnyWorker
  BY DEF WorkerRec
<1>3. worker \in Seq(AnyWorker)
  BY <1>1, <1>2, SeqMonotonic DEF RoomInv, Shape
<1>4. RoomTypeOK
  BY <1>1, <1>3 DEF RoomInv, RoomTypeOK, Shape, Rest, ObjectRec, AnyWorker, Rows
<1>5. OneLiveWorker
  BY <1>1 DEF RoomInv, Owned, OneLiveWorker
<1>6. QED
  BY <1>4, <1>5

\* The bounds are natural numbers.
LEMMA Bounds ==
  ASSUME use \in Uses
  PROVE  /\ MaxWorker \in Nat \ {0} /\ MaxWrites \in Nat \ {0} /\ MaxAttempts \in Nat \ {0}
         /\ Objects \in Nat \ {0} /\ Creates \in Nat /\ Crashes \in Nat
BY RoomAssumption DEF Objects, Creates, Crashes

----------------------------------------------------------------------------
\* Values

\* Transitions and cleared or new codes make rooms of rooms.
LEMMA RoomValues ==
  ASSUME NEW room \in Room
  PROVE  /\ \A next \in Status : TransitionTo(room, next) \in Room
         /\ \A code \in QR : [room EXCEPT !.qr = code] \in Room
         /\ room.status \in Status /\ room.qr \in QR
         /\ NewRoom \in Room /\ "none" \in QR /\ "code" \in QR
BY DEF Room, TransitionTo, NewRoom, QR, Status

\* What UpdateRoom leaves is a row, what browsers show is a QR.
LEMMA RowValues ==
  ASSUME NEW room \in Room, row \in Rows, view \in QR
  PROVE  Stored(room) \in Rows /\ Shown(room) \subseteq QR
BY RoomValues DEF Stored, Shown, Rows

\* A new RoomState has no worker.
LEMMA NewObject ==
  ASSUME NEW room \in Room, use \in Uses
  PROVE  Object(room) \in ObjectRec /\ Object(room).cancel = 0
<1>1. 0 \in 0..MaxWorker
  BY Bounds
<1>2. PICK n \in 0..MaxWorker : n = 0
  BY <1>1
<1>3. [room |-> room, cancel |-> n, pending |-> FALSE, label |-> n] \in ObjectRec
  BY DEF ObjectRec
<1>4. QED
  BY <1>2, <1>3 DEF Object

\* Workers and objects are found by their numbers.
LEMMA Elements ==
  ASSUME Shape
  PROVE  /\ Len(state) \in Nat /\ Len(worker) \in Nat
         /\ \A o \in 1..Len(state) : state[o] \in ObjectRec
         /\ \A w \in Worker : worker[w] \in WorkerRec
         /\ DOMAIN worker = Worker /\ DOMAIN state = 1..Len(state)
BY ElementOfSeq, LenProperties DEF Shape, Worker

----------------------------------------------------------------------------
\* Steps of a worker

\* No object comes or goes, and what each can cancel stays.
StateKept ==
  /\ state' \in Seq(ObjectRec) /\ Len(state') = Len(state)
  /\ \A o \in 1..Len(state) : state'[o].cancel = state[o].cancel

\* No worker comes or goes, and the contexts stay as they are.
WorkersKept ==
  /\ worker' \in Seq(WorkerRec) /\ Len(worker') = Len(worker)
  /\ \A w \in Worker : worker'[w].of = worker[w].of /\ worker'[w].live = worker[w].live

\* Then the invariant's main part is kept.
LEMMA KeptIsOwned ==
  ASSUME Shape, Owned, StateKept, WorkersKept, use' = use, here' = here, replaced' = replaced
  PROVE  Shape' /\ Owned'
<1>1. ObjectRec' = ObjectRec /\ WorkerRec' = WorkerRec /\ Objects' = Objects
  BY DEF ObjectRec, WorkerRec, AnyWorker, Objects
<1>2. Shape'
  BY <1>1 DEF Shape, StateKept, WorkersKept
<1>3. Worker' = Worker
  BY DEF Worker, WorkersKept
<1>4. Owned'
  BY <1>3 DEF Owned, StateKept, WorkersKept
<1>5. QED
  BY <1>2, <1>4

\* SetRoom, and a changed flag or label, keep the objects.
LEMMA ObjectSet ==
  ASSUME Shape, NEW o \in 1..Len(state), NEW e \in ObjectRec, e.cancel = state[o].cancel,
         state' = [state EXCEPT ![o] = e]
  PROVE  StateKept
BY ExceptSeq DEF Shape, StateKept

LEMMA RoomSet ==
  ASSUME Shape, NEW o \in 1..Len(state), NEW room \in Room,
         state' = [state EXCEPT ![o].room = room]
  PROVE  StateKept
<1> DEFINE e == [state[o] EXCEPT !.room = room]
<1>1. state[o] \in ObjectRec
  BY Elements
<1>2. e \in ObjectRec /\ e.cancel = state[o].cancel
  BY <1>1 DEF ObjectRec
<1>3. state' = [state EXCEPT ![o] = e]
  OBVIOUS
<1> HIDE DEF e
<1>4. QED
  BY <1>2, <1>3, ObjectSet

\* A new record of a worker with the same object and context keeps the workers.
LEMMA WorkerSet ==
  ASSUME Shape, NEW w \in Worker, NEW e \in WorkerRec,
         e.of = worker[w].of, e.live = worker[w].live,
         worker' = [worker EXCEPT ![w] = e]
  PROVE  WorkersKept
BY ExceptSeq DEF Shape, WorkersKept, Worker

LEMMA Stepped ==
  ASSUME Shape, NEW w \in Worker, NEW phase \in WorkerPhase, Step(w, phase),
         phase \in Trying => worker[w].phase \in Trying
  PROVE  WorkersKept
<1> DEFINE e == [worker[w] EXCEPT !.phase = phase]
<1>1. worker[w] \in WorkerRec
  BY Elements
<1>2. e \in WorkerRec /\ e.of = worker[w].of /\ e.live = worker[w].live
  BY <1>1 DEF WorkerRec, AnyWorker
<1>3. worker' = [worker EXCEPT ![w] = e]
  BY DEF Step
<1> HIDE DEF e
<1>4. QED
  BY <1>2, <1>3, WorkerSet

\* The record a worker leaves, has after a copy, or goes on with.
LEMMA Resumed ==
  ASSUME Shape, NEW w \in Worker, NEW phase \in WorkerPhase, NEW copy \in Room,
         NEW n \in 0..MaxAttempts, phase \in Trying => n < MaxAttempts,
         worker' = [worker EXCEPT ![w] = [@ EXCEPT !.phase = phase, !.attempt = n, !.copy = copy]]
  PROVE  WorkersKept
<1> DEFINE e == [worker[w] EXCEPT !.phase = phase, !.attempt = n, !.copy = copy]
<1>1. worker[w] \in WorkerRec
  BY Elements
<1>2. e \in WorkerRec /\ e.of = worker[w].of /\ e.live = worker[w].live
  BY <1>1 DEF WorkerRec, AnyWorker
<1>3. worker' = [worker EXCEPT ![w] = e]
  OBVIOUS
<1> HIDE DEF e
<1>4. QED
  BY <1>2, <1>3, WorkerSet

LEMMA ExitedKeeps ==
  ASSUME Shape, NEW w \in Worker, Exited(w)
  PROVE  WorkersKept
<1>1. NewRoom \in Room /\ "exited" \in WorkerPhase \ Trying
  BY DEF NewRoom, Room, Status, QR, WorkerPhase, Trying
<1>2. PICK n \in 0..MaxAttempts : n = 0
  BY Bounds DEF Shape
<1>3. worker' = [worker EXCEPT ![w] = [@ EXCEPT !.phase = "exited", !.attempt = n, !.copy = NewRoom]]
  BY <1>2 DEF Exited
<1>4. QED
  BY <1>1, <1>3, Resumed

\* A copy also adds a write.
LEMMA CopiedKeeps ==
  ASSUME Shape, Rest, Owned, NEW w \in Worker, NEW room \in Room, NEW phase \in WorkerPhase \ Trying,
         Copied(w, room, phase)
  PROVE  /\ WorkersKept
         /\ writes' \in Seq((1..Objects) \X Room) /\ Len(writes') <= MaxWrites
<1>1. worker[w] \in WorkerRec
  BY Elements
<1>2. PICK n \in 0..MaxAttempts : n = worker[w].attempt
  BY <1>1 DEF WorkerRec, AnyWorker
<1>3. [worker[w] EXCEPT !.phase = phase, !.copy = room]
        = [worker[w] EXCEPT !.phase = phase, !.attempt = n, !.copy = room]
  BY <1>1, <1>2 DEF WorkerRec, AnyWorker
<1>4. worker' = [worker EXCEPT ![w] = [@ EXCEPT !.phase = phase, !.attempt = n, !.copy = room]]
  BY <1>3 DEF Copied
<1>5. WorkersKept
  BY <1>4, Resumed
<1>6. <<worker[w].of, room>> \in (1..Objects) \X Room
  BY <1>1 DEF WorkerRec, AnyWorker
<1>7. writes' \in Seq((1..Objects) \X Room) /\ Len(writes') = Len(writes) + 1
  BY <1>6, AppendProperties DEF Copied, Rest
<1>8. QED
  BY <1>5, <1>7, LenProperties, Bounds DEF Copied, Rest, Shape

\* What is left to show of the step of a worker.
LEMMA WorkerDoes ==
  ASSUME RoomInv, StateKept, WorkersKept,
         writes' \in Seq((1..Objects) \X Room), Len(writes') <= MaxWrites,
         row' \in Rows, view' \in QR, stuck' \in BOOLEAN,
         UNCHANGED <<here, creating, stopAll, crashes, use, replaced>>
  PROVE  RoomInv'
<1>1. Shape' /\ Owned'
  BY KeptIsOwned DEF RoomInv
<1>2. Objects' = Objects /\ Creates' = Creates /\ Crashes' = Crashes
  BY DEF Objects, Creates, Crashes
<1>3. Rest'
  BY <1>2 DEF RoomInv, Rest
<1>4. QED
  BY <1>1, <1>3 DEF RoomInv

\* State and workers that do not change are kept.
LEMMA Same ==
  ASSUME Shape
  PROVE  /\ state' = state => StateKept
         /\ worker' = worker => WorkersKept
BY DEF Shape, StateKept, WorkersKept

\* The facts about a worker that its steps use.
LEMMA OfWorker ==
  ASSUME RoomInv, NEW w \in Worker
  PROVE  /\ worker[w] \in WorkerRec /\ worker[w].of \in 1..Len(state)
         /\ state[worker[w].of] \in ObjectRec
         /\ RoomOf(w) \in Room /\ worker[w].copy \in Room
         /\ worker[w].phase \in WorkerPhase /\ worker[w].attempt \in 0..MaxAttempts
<1>1. worker[w] \in WorkerRec /\ worker[w].of \in 1..Len(state)
  BY Elements DEF RoomInv, Owned
<1>2. state[worker[w].of] \in ObjectRec
  BY <1>1, Elements DEF RoomInv
<1>3. QED
  BY <1>1, <1>2 DEF RoomOf, ObjectRec, WorkerRec, AnyWorker

LEMMA TickInv ==
  ASSUME RoomInv, NEW w, Tick(w)
  PROVE  RoomInv'
<1>1. w \in Worker /\ worker[w].phase = "idle"
  BY DEF Tick, On
<1> DEFINE room == TransitionTo(RoomOf(w), "Fetching")
<1>2. room \in Room
  BY <1>1, OfWorker, RoomValues DEF Status
<1>3. StateKept
  BY <1>1, <1>2, OfWorker, RoomSet DEF Tick, SetRoom, RoomInv
<1>4. WorkersKept
  BY <1>1, Stepped DEF Tick, RoomInv, WorkerPhase, Trying
<1>5. view' \in QR
  BY <1>2, RowValues DEF Tick, RoomInv, Rest
<1>6. QED
  BY <1>3, <1>4, <1>5, WorkerDoes DEF Tick, RoomInv, Rest

LEMMA ExitInv ==
  ASSUME RoomInv, NEW w, Exit(w)
  PROVE  RoomInv'
BY ExitedKeeps, Same, WorkerDoes DEF Exit, RoomInv, Rest

LEMMA FetchedInv ==
  ASSUME RoomInv, NEW w, Fetched(w)
  PROVE  RoomInv'
<1>1. PICK answer \in {"success", "auth", "other"} : Step(w, answer)
  BY DEF Fetched
<1>2. w \in Worker /\ answer \in WorkerPhase \ Trying
  BY <1>1 DEF Fetched, On, WorkerPhase, Trying
<1>3. WorkersKept
  BY <1>1, <1>2, Stepped DEF RoomInv
<1>4. QED
  BY <1>3, Same, WorkerDoes DEF Fetched, RoomInv, Rest

\* The steps that change the room, copy it and have it written.
LEMMA SetAndCopied ==
  ASSUME RoomInv, NEW w \in Worker, NEW room \in Room, NEW phase \in WorkerPhase \ Trying,
         SetRoom(w, room) \/ UNCHANGED state, Copied(w, room, phase),
         UNCHANGED <<here, row, view, creating, stopAll, stuck, crashes, use, replaced>>
  PROVE  RoomInv'
<1>1. StateKept
  BY OfWorker, RoomSet, Same DEF SetRoom, RoomInv
<1>2. /\ WorkersKept
      /\ writes' \in Seq((1..Objects) \X Room) /\ Len(writes') <= MaxWrites
  BY CopiedKeeps DEF RoomInv
<1>3. QED
  BY <1>1, <1>2, WorkerDoes DEF RoomInv, Rest

LEMMA FetchSuccessInv ==
  ASSUME RoomInv, NEW w, handleRoomFetchSuccess(w)
  PROVE  RoomInv'
<1> DEFINE room == TransitionTo([RoomOf(w) EXCEPT !.qr = "code"], "Running")
<1>1. w \in Worker
  BY DEF handleRoomFetchSuccess, On
<1>2. [RoomOf(w) EXCEPT !.qr = "code"] \in Room
  BY <1>1, OfWorker, RoomValues
<1>3. room \in Room
  BY <1>2, RoomValues DEF Status
<1>4. SetRoom(w, room) /\ Copied(w, room, "emit")
  BY DEF handleRoomFetchSuccess
<1>5. "emit" \in WorkerPhase \ Trying
  BY DEF WorkerPhase, Trying
<1> HIDE DEF room
<1>6. QED
  BY <1>1, <1>3, <1>4, <1>5, SetAndCopied DEF handleRoomFetchSuccess

LEMMA FetchErrorInv ==
  ASSUME RoomInv, NEW w, FetchError(w)
  PROVE  RoomInv'
<1> DEFINE room == TransitionTo(RoomOf(w), IF On(w, "auth") THEN "AuthExpired" ELSE "Warning")
<1>1. w \in Worker
  BY DEF FetchError, On
<1>2. room \in Room
  BY <1>1, OfWorker, RoomValues DEF Status
<1>3. /\ SetRoom(w, room)
      /\ IF room.status = "AuthExpired" THEN Copied(w, room, "emitrecover")
                                        ELSE Step(w, "warn") /\ UNCHANGED writes
  BY DEF FetchError
<1>4. "emitrecover" \in WorkerPhase \ Trying /\ "warn" \in WorkerPhase \ Trying
  BY DEF WorkerPhase, Trying
<1> HIDE DEF room
<1>5. CASE room.status = "AuthExpired"
  BY <1>1, <1>2, <1>3, <1>4, <1>5, SetAndCopied DEF FetchError
<1>6. CASE room.status # "AuthExpired"
  <2>1. StateKept
    BY <1>1, <1>2, <1>3, OfWorker, RoomSet DEF SetRoom, RoomInv
  <2>2. WorkersKept
    BY <1>1, <1>3, <1>4, <1>6, Stepped DEF RoomInv
  <2>3. QED
    BY <2>1, <2>2, <1>3, <1>6, WorkerDoes DEF FetchError, RoomInv, Rest
<1>7. QED
  BY <1>5, <1>6

LEMMA WarningInv ==
  ASSUME RoomInv, NEW w, handleNonRecoverableError(w)
  PROVE  RoomInv'
<1>1. w \in Worker /\ RoomOf(w) \in Room /\ "emit" \in WorkerPhase \ Trying
  BY OfWorker DEF handleNonRecoverableError, On, WorkerPhase, Trying
<1>2. QED
  BY <1>1, SetAndCopied DEF handleNonRecoverableError

LEMMA EmitInv ==
  ASSUME RoomInv, NEW w, Emit(w)
  PROVE  RoomInv'
<1>1. w \in Worker /\ view' \in Shown(worker[w].copy)
  BY DEF Emit
<1>2. view' \in QR
  BY <1>1, OfWorker, RowValues DEF RoomInv, Rest
<1>3. WorkersKept
  <2>1. CASE On(w, "emitlast")
    BY <1>1, <2>1, ExitedKeeps DEF Emit, RoomInv
  <2>2. CASE ~On(w, "emitlast")
    <3>1. PICK phase \in {"idle", "recover"} :
            worker' = [worker EXCEPT ![w].copy = NewRoom, ![w].attempt = 0, ![w].phase = phase]
      BY <2>2 DEF Emit
    <3>2. PICK n \in 0..MaxAttempts : n = 0 /\ n < MaxAttempts
      BY Bounds DEF RoomInv, Shape
    <3>3. [worker[w] EXCEPT !.copy = NewRoom, !.attempt = 0, !.phase = phase]
            = [worker[w] EXCEPT !.phase = phase, !.attempt = n, !.copy = NewRoom]
      BY <1>1, <3>2, OfWorker DEF WorkerRec, AnyWorker
    <3>4. worker' = [worker EXCEPT ![w] = [@ EXCEPT !.phase = phase, !.attempt = n, !.copy = NewRoom]]
      BY <3>1, <3>3
    <3>5. phase \in WorkerPhase /\ NewRoom \in Room
      BY <3>1, RoomValues, OfWorker, <1>1 DEF WorkerPhase
    <3>6. QED
      BY <1>1, <3>2, <3>4, <3>5, Resumed DEF RoomInv
  <2>3. QED
    BY <2>1, <2>2
<1>4. QED
  BY <1>2, <1>3, Same, WorkerDoes DEF Emit, RoomInv, Rest

----------------------------------------------------------------------------
\* Cancelling

\* What cancelling the worker of an object leaves: no worker of it is live.
LEMMA CancelLeaves ==
  ASSUME RoomInv, NEW o \in 1..Len(state)
  PROVE  /\ Cancelled(o) \in Seq(WorkerRec) /\ Len(Cancelled(o)) = Len(worker)
         /\ \A w \in Worker :
              /\ Cancelled(o)[w] \in WorkerRec
              /\ Cancelled(o)[w].of = worker[w].of
              /\ Cancelled(o)[w].live => worker[w].live /\ worker[w].of # o
<1>1. \A w \in Worker : worker[w] \in WorkerRec /\ [worker[w] EXCEPT !.live = FALSE] \in WorkerRec
  BY OfWorker DEF WorkerRec, AnyWorker
<1>2. \A w \in Worker : Cancelled(o)[w] = IF w = state[o].cancel THEN [worker[w] EXCEPT !.live = FALSE]
                                          ELSE worker[w]
  BY DEF Cancelled
<1>3. \A w \in Worker : Cancelled(o)[w] \in WorkerRec
  BY <1>1, <1>2
<1>4. \A w \in Worker : /\ Cancelled(o)[w].of = worker[w].of
                        /\ Cancelled(o)[w].live => worker[w].live /\ worker[w].of # o
  BY <1>1, <1>2 DEF RoomInv, Owned, WorkerRec, AnyWorker
<1>5. Cancelled(o) \in [1..Len(worker) -> WorkerRec]
  BY <1>3 DEF Cancelled, Worker
<1>6. Len(worker) \in Nat
  BY Elements DEF RoomInv
<1>7. Cancelled(o) \in Seq(WorkerRec)
  BY <1>5, <1>6, SeqDef
<1>8. DOMAIN Cancelled(o) = 1..Len(worker)
  BY <1>5
<1>9. Len(Cancelled(o)) = Len(worker)
  BY <1>6, <1>7, <1>8, LenProperties
<1>10. QED
  BY <1>3, <1>4, <1>7, <1>9

\* The worker of an object is cancelled and its cancel function cleared.
LEMMA ClearedOwned ==
  ASSUME RoomInv, NEW o \in 1..Len(state), NEW e \in ObjectRec,
         state' = [state EXCEPT ![o] = e],
         worker' \in Seq(WorkerRec), Len(worker') = Len(worker),
         \A w \in Worker : /\ worker'[w].of = worker[w].of
                           /\ worker'[w].live => worker[w].live /\ worker[w].of # o,
         use' = use, here' = here, replaced' = replaced
  PROVE  Shape' /\ Owned'
<1>1. /\ state' \in Seq(ObjectRec) /\ Len(state') = Len(state)
      /\ \A p \in 1..Len(state) : p # o => state'[p] = state[p]
  BY ExceptSeq DEF RoomInv, Shape
<1>2. ObjectRec' = ObjectRec /\ WorkerRec' = WorkerRec /\ Objects' = Objects
  BY DEF ObjectRec, WorkerRec, AnyWorker, Objects
<1>3. Shape'
  BY <1>1, <1>2 DEF RoomInv, Shape
<1>4. Worker' = Worker
  BY DEF Worker
<1>5. Owned'
  BY <1>1, <1>4 DEF RoomInv, Owned
<1>6. QED
  BY <1>3, <1>5

----------------------------------------------------------------------------
\* recoveryLoop and runAttendanceVerification

LEMMA RecoveryFetchInv ==
  ASSUME RoomInv, NEW w, RecoveryFetch(w) \/ RecoveryPoolExhausted(w)
  PROVE  RoomInv'
<1>1. PICK phase \in {"recover", "refetch"} : Step(w, phase)
  BY DEF RecoveryFetch, RecoveryPoolExhausted
<1>2. w \in Worker /\ worker[w].phase \in Trying /\ phase \in WorkerPhase
  BY <1>1 DEF RecoveryFetch, RecoveryPoolExhausted, On, Trying, WorkerPhase
<1>3. WorkersKept
  BY <1>1, <1>2, Stepped DEF RoomInv
<1>4. QED
  BY <1>3, Same, WorkerDoes DEF RecoveryFetch, RecoveryPoolExhausted, RoomInv, Rest

LEMMA RecoveredInv ==
  ASSUME RoomInv, NEW w, Recovered(w)
  PROVE  RoomInv'
<1> DEFINE fetching == TransitionTo([RoomOf(w) EXCEPT !.qr = "code"], "Fetching")
           room == TransitionTo(fetching, "Running")
<1>1. w \in Worker
  BY DEF Recovered, On
<1>2. CASE ~worker[w].live
  BY <1>1, <1>2, ExitedKeeps, Same, WorkerDoes DEF Recovered, RoomInv, Rest
<1>3. CASE worker[w].live
  <2>1. [RoomOf(w) EXCEPT !.qr = "code"] \in Room
    BY <1>1, OfWorker, RoomValues
  <2>2. fetching \in Room
    BY <2>1, RoomValues DEF Status
  <2>3. room \in Room
    BY <2>2, RoomValues DEF Status
  <2>4. SetRoom(w, room) /\ Copied(w, room, "emit")
    BY <1>3 DEF Recovered
  <2>5. "emit" \in WorkerPhase \ Trying
    BY DEF WorkerPhase, Trying
  <2> HIDE DEF room
  <2>6. QED
    BY <1>1, <2>3, <2>4, <2>5, SetAndCopied DEF Recovered
<1>4. QED
  BY <1>2, <1>3

LEMMA RecoveryEndsInv ==
  ASSUME RoomInv, NEW w, RecoveryEnds(w)
  PROVE  RoomInv'
<1>1. w \in Worker
  BY DEF RecoveryEnds, On
<1>2. PICK next \in {"Warning", "Stopped"} :
        SetRoom(w, TransitionTo(RoomOf(w), next)) /\ Copied(w, TransitionTo(RoomOf(w), next), "emitlast")
  BY DEF RecoveryEnds
<1>3. TransitionTo(RoomOf(w), next) \in Room
  BY <1>1, OfWorker, RoomValues DEF Status
<1>4. "emitlast" \in WorkerPhase \ Trying
  BY DEF WorkerPhase, Trying
<1>5. QED
  BY <1>1, <1>2, <1>3, <1>4, SetAndCopied DEF RecoveryEnds

LEMMA RecoveryFailsInv ==
  ASSUME RoomInv, NEW w, RecoveryFails(w)
  PROVE  RoomInv'
<1>1. w \in Worker /\ worker[w].phase = "refetch"
  BY DEF RecoveryFails, On
<1>2. worker[w].attempt \in 0..MaxAttempts /\ worker[w].attempt < MaxAttempts /\ MaxAttempts \in Nat
  BY <1>1, OfWorker, Bounds DEF WorkerRec, Trying, RoomInv, Shape
<1>3. PICK n \in 0..MaxAttempts : n = worker[w].attempt + 1
  BY <1>2
<1>4. PICK phase \in {"giveup", "recover"} :
        /\ phase = IF worker[w].attempt + 1 >= MaxAttempts THEN "giveup" ELSE "recover"
        /\ worker' = [worker EXCEPT ![w].attempt = @ + 1, ![w].phase = phase]
  BY DEF RecoveryFails
<1>5. phase \in WorkerPhase /\ (phase \in Trying => n < MaxAttempts)
  BY <1>2, <1>3, <1>4 DEF WorkerPhase, Trying
<1>6. PICK copy \in Room : copy = worker[w].copy
  BY <1>1, OfWorker
<1>7. [worker[w] EXCEPT !.attempt = @ + 1, !.phase = phase]
        = [worker[w] EXCEPT !.phase = phase, !.attempt = n, !.copy = copy]
  BY <1>1, <1>3, <1>6, OfWorker DEF WorkerRec, AnyWorker
<1>8. worker' = [worker EXCEPT ![w] = [@ EXCEPT !.phase = phase, !.attempt = n, !.copy = copy]]
  BY <1>4, <1>7
<1>9. WorkersKept
  BY <1>1, <1>5, <1>8, Resumed DEF RoomInv
<1>10. QED
  BY <1>9, Same, WorkerDoes DEF RecoveryFails, RoomInv, Rest

\* The last attempt failed: the worker calls the cancel function of its object,
\* whosever it is.
LEMMA GivesUpInv ==
  ASSUME RoomInv, NEW w, RecoveryGivesUp(w)
  PROVE  RoomInv'
<1> DEFINE o == worker[w].of
           room == TransitionTo(RoomOf(w), "Stopped")
<1>1. w \in Worker /\ o \in 1..Len(state)
  BY OfWorker DEF RecoveryGivesUp, On
<1>2. room \in Room
  BY <1>1, OfWorker, RoomValues DEF Status
<1>3. "panicked" \in WorkerPhase \ Trying /\ "emitlast" \in WorkerPhase \ Trying
  BY DEF WorkerPhase, Trying
<1>4. CASE state[o].cancel = 0
  <2>1. SetRoom(w, room) /\ Step(w, "panicked") /\ writes' = writes /\ stuck' = TRUE
    BY <1>4 DEF RecoveryGivesUp
  <2>2. StateKept
    BY <1>1, <1>2, <2>1, RoomSet DEF SetRoom, RoomInv
  <2>3. WorkersKept
    BY <1>1, <1>3, <2>1, Stepped DEF RoomInv
  <2>4. QED
    BY <2>1, <2>2, <2>3, WorkerDoes DEF RecoveryGivesUp, RoomInv, Rest
<1>5. CASE state[o].cancel # 0
  <2>1. /\ Len(writes) < MaxWrites
        /\ state' = [state EXCEPT ![o].room = room, ![o].cancel = 0]
        /\ writes' = Append(writes, <<o, room>>)
        /\ worker' = [Cancelled(o) EXCEPT ![w].phase = "emitlast", ![w].copy = room]
        /\ stuck' = stuck
    BY <1>5 DEF RecoveryGivesUp
  <2>2. PICK n \in 0..MaxWorker : n = 0
    BY Bounds DEF RoomInv, Shape
  <2> DEFINE e == [state[o] EXCEPT !.room = room, !.cancel = n]
             r == [Cancelled(o)[w] EXCEPT !.phase = "emitlast", !.copy = room]
  <2>3. e \in ObjectRec /\ state' = [state EXCEPT ![o] = e]
    BY <1>1, <1>2, <2>1, <2>2, OfWorker DEF ObjectRec
  <2>4. /\ r \in WorkerRec /\ r.of = Cancelled(o)[w].of /\ r.live = Cancelled(o)[w].live
        /\ worker' = [Cancelled(o) EXCEPT ![w] = r]
    BY <1>1, <1>2, <1>3, <2>1, CancelLeaves DEF WorkerRec, AnyWorker
  <2> HIDE DEF e, r
  <2>5. /\ worker' \in Seq(WorkerRec) /\ Len(worker') = Len(worker)
        /\ \A v \in Worker : worker'[v].of = Cancelled(o)[v].of /\ worker'[v].live = Cancelled(o)[v].live
    BY <1>1, <2>4, CancelLeaves, ExceptSeq DEF Worker
  <2>6. Shape' /\ Owned'
    <3>1. \A v \in Worker : /\ worker'[v].of = worker[v].of
                            /\ worker'[v].live => worker[v].live /\ worker[v].of # o
      BY <1>1, <2>5, CancelLeaves
    <3>2. use' = use /\ here' = here /\ replaced' = replaced
      BY DEF RecoveryGivesUp
    <3> HIDE DEF o
    <3>3. QED
      BY <1>1, <2>3, <2>5, <3>1, <3>2, ClearedOwned
  <2>7. <<o, room>> \in (1..Objects) \X Room
    BY <1>1, <1>2, OfWorker DEF WorkerRec, AnyWorker
  <2>8. writes' \in Seq((1..Objects) \X Room) /\ Len(writes') = Len(writes) + 1
    BY <2>1, <2>7, AppendProperties DEF RoomInv, Rest
  <2>9. Objects' = Objects /\ Creates' = Creates /\ Crashes' = Crashes
    BY DEF RecoveryGivesUp, Objects, Creates, Crashes
  <2>10. Len(writes') <= MaxWrites
    <3>1. Len(writes) \in Nat /\ MaxWrites \in Nat
      BY LenProperties, Bounds DEF RoomInv, Shape, Rest
    <3>2. Len(writes) < MaxWrites /\ Len(writes') = Len(writes) + 1
      BY <2>1, <2>8
    <3> HIDE DEF o, room
    <3>3. QED
      BY <3>1, <3>2
  <2>11. /\ row' = row /\ view' = view /\ creating' = creating /\ stopAll' = stopAll
         /\ stuck' = stuck /\ crashes' = crashes /\ replaced' = replaced
    BY <2>1 DEF RecoveryGivesUp
  <2>12. Rest'
    BY <2>8, <2>9, <2>10, <2>11 DEF RoomInv, Rest
  <2>13. QED
    BY <2>6, <2>12 DEF RoomInv
<1>6. QED
  BY <1>4, <1>5

LEMMA VerifiedInv ==
  ASSUME RoomInv, NEW w, Verified(w)
  PROVE  RoomInv'
<1>1. w \in Worker
  BY DEF Verified
<1>2. PICK next \in {"got", "done"} : worker' = [worker EXCEPT ![w].verify = next]
  BY DEF Verified
<1> DEFINE e == [worker[w] EXCEPT !.verify = next]
<1>3. e \in WorkerRec /\ e.of = worker[w].of /\ e.live = worker[w].live
  BY <1>1, OfWorker DEF WorkerRec, AnyWorker
<1>4. worker' = [worker EXCEPT ![w] = e]
  BY <1>2
<1> HIDE DEF e
<1>5. WorkersKept
  BY <1>1, <1>3, <1>4, WorkerSet DEF RoomInv
<1>6. QED
  BY <1>5, Same, WorkerDoes DEF Verified, RoomInv, Rest

LEMMA LabelStoredInv ==
  ASSUME RoomInv, NEW w \in 1..MaxWorker, LabelStored(w)
  PROVE  RoomInv'
<1> DEFINE o == worker[w].of
           e == [state[o] EXCEPT !.label = w]
           r == [worker[w] EXCEPT !.verify = "done"]
<1>1. w \in Worker /\ o \in 1..Len(state) /\ w \in 0..MaxWorker
  BY OfWorker, Bounds DEF LabelStored, RoomInv, Shape
<1>2. e \in ObjectRec /\ e.cancel = state[o].cancel
  BY <1>1, OfWorker DEF ObjectRec
<1>3. r \in WorkerRec /\ r.of = worker[w].of /\ r.live = worker[w].live
  BY <1>1, OfWorker DEF WorkerRec, AnyWorker
<1>4. state' = state \/ state' = [state EXCEPT ![o] = e]
  BY DEF LabelStored
<1>5. worker' = [worker EXCEPT ![w] = r]
  BY DEF LabelStored
<1> HIDE DEF o, e, r
<1>6. StateKept
  BY <1>1, <1>2, <1>4, ObjectSet, Same DEF RoomInv
<1>7. WorkersKept
  BY <1>1, <1>3, <1>5, WorkerSet DEF RoomInv
<1>8. QED
  BY <1>6, <1>7, WorkerDoes DEF LabelStored, RoomInv, Rest

----------------------------------------------------------------------------
\* Handlers

\* One asynchronous write is over.
LEMMA WriteDoneInv ==
  ASSUME RoomInv, NEW i, WriteDone(i)
  PROVE  RoomInv'
<1> DEFINE W == (1..Objects) \X Room
<1>1. writes \in Seq(W) /\ i \in 1..Len(writes) /\ Len(writes) \in Nat
  BY LenProperties DEF RoomInv, Rest, WriteDone
<1>2. writes[i] \in W
  BY <1>1, ElementOfSeq
<1>3. \A j \in 1..Len(writes) : writes[j] \in W
  BY <1>1, ElementOfSeq
<1>4. writes' = SubSeq(writes, 1, i - 1) \o SubSeq(writes, i + 1, Len(writes))
  BY DEF WriteDone
<1> HIDE DEF W
<1>5. SubSeq(writes, 1, i - 1) \in Seq(W) /\ Len(SubSeq(writes, 1, i - 1)) = i - 1
  <2>1. 1 \in Int /\ i - 1 \in Int /\ \A j \in 1..(i - 1) : writes[j] \in W
    BY <1>1, <1>3
  <2>2. /\ SubSeq(writes, 1, i - 1) \in Seq(W)
        /\ Len(SubSeq(writes, 1, i - 1)) = IF 1 <= i - 1 THEN i - 1 - 1 + 1 ELSE 0
    BY <2>1, SubSeqProperties
  <2>3. QED
    BY <1>1, <2>2
<1>6. SubSeq(writes, i + 1, Len(writes)) \in Seq(W) /\ Len(SubSeq(writes, i + 1, Len(writes))) = Len(writes) - i
  <2>1. i + 1 \in Int /\ Len(writes) \in Int /\ \A j \in (i + 1)..Len(writes) : writes[j] \in W
    BY <1>1, <1>3
  <2>2. /\ SubSeq(writes, i + 1, Len(writes)) \in Seq(W)
        /\ Len(SubSeq(writes, i + 1, Len(writes)))
             = IF i + 1 <= Len(writes) THEN Len(writes) - (i + 1) + 1 ELSE 0
    BY <2>1, SubSeqProperties
  <2>3. QED
    BY <1>1, <2>2
<1>7. writes' \in Seq(W) /\ Len(writes') = (i - 1) + (Len(writes) - i)
  BY <1>4, <1>5, <1>6, ConcatProperties
<1>8. Len(writes') <= MaxWrites
  BY <1>1, <1>7, Bounds DEF RoomInv, Rest, Shape
<1>9. row' \in Rows
  BY <1>2, RowValues DEF WriteDone, RoomInv, Rest, W
<1>10. QED
  BY <1>7, <1>8, <1>9, Same, WorkerDoes DEF WriteDone, RoomInv, Rest, W

\* CreateRoom before it has the lock.
LEMMA CreateReadsInv ==
  ASSUME RoomInv, NEW c \in 1..Creates, CreateLooks(c) \/ CreateInserts(c)
  PROVE  RoomInv'
<1>1. row' \in Rows /\ {} \in Rows
  BY RoomValues DEF CreateLooks, CreateInserts, RoomInv, Rest, Rows, NewRoom, Room, Status, QR
<1>2. PICK step \in {"looked", "saved"}, room \in Rows :
        creating' = [creating EXCEPT ![c] = [step |-> step, room |-> room]]
  BY <1>1 DEF CreateLooks, CreateInserts, RoomInv, Rest
<1>3. [step |-> step, room |-> room] \in [step: {"none", "looked", "saved"}, room: Rows]
  BY <1>2
<1>4. creating' \in [1..Creates -> [step: {"none", "looked", "saved"}, room: Rows]]
  BY <1>2, <1>3 DEF RoomInv, Rest
<1>5. UNCHANGED <<here, state, worker, writes, view, stopAll, stuck, crashes, use, replaced>>
  BY DEF CreateLooks, CreateInserts
<1>6. Shape' /\ Owned'
  BY <1>5, Same, KeptIsOwned DEF RoomInv
<1>7. Objects' = Objects /\ Creates' = Creates /\ Crashes' = Crashes
  BY <1>5 DEF Objects, Creates, Crashes
<1>8. Rest'
  BY <1>1, <1>4, <1>5, <1>7 DEF RoomInv, Rest
<1>9. QED
  BY <1>6, <1>8 DEF RoomInv

\* A new object enters the map.  If it replaces none, no worker is live.
LEMMA RegisteredOwned ==
  ASSUME RoomInv, NEW room \in Room, Registered(room), worker' = worker, use' = use,
         here # 0 => replaced', replaced => replaced'
  PROVE  Shape' /\ Owned'
<1>1. Object(room) \in ObjectRec
  BY NewObject DEF RoomInv, Shape
<1>2. /\ state' \in Seq(ObjectRec) /\ Len(state') = Len(state) + 1
      /\ \A o \in 1..Len(state) : state'[o] = state[o]
  BY <1>1, AppendProperties DEF Registered, RoomInv, Shape
<1>3. ObjectRec' = ObjectRec /\ WorkerRec' = WorkerRec /\ Objects' = Objects
  BY DEF ObjectRec, WorkerRec, AnyWorker, Objects
<1>4. Len(state) \in Nat /\ Objects \in Nat
  BY Elements, Bounds DEF RoomInv, Shape
<1>5. Shape'
  BY <1>2, <1>3, <1>4 DEF RoomInv, Shape, Registered
<1>6. Owned'
  <2>1. SUFFICES ASSUME NEW w \in Worker
                 PROVE  /\ worker[w].of \in 1..Len(state')
                        /\ worker[w].live => state'[worker[w].of].cancel = w
                        /\ worker[w].live /\ ~replaced' => worker[w].of = here'
    BY DEF Owned, Worker
  <2>2. worker[w].of \in 1..Len(state)
    BY OfWorker
  <2>3. ~(worker[w].live /\ ~replaced')
    BY <2>2 DEF RoomInv, Owned
  <2>4. QED
    BY <1>2, <1>4, <2>2, <2>3 DEF RoomInv, Owned
<1>7. QED
  BY <1>5, <1>6

LEMMA CreateRegistersInv ==
  ASSUME RoomInv, NEW c \in 1..Creates, CreateRegistersSaved(c) \/ CreateRegisters(c)
  PROVE  RoomInv'
<1>1. UNCHANGED <<worker, writes, row, stopAll, stuck, crashes, use>>
  BY DEF CreateRegistersSaved, CreateRegisters
<1>2. creating[c].room \in Rows
  BY DEF RoomInv, Rest
<1>3. \A room \in creating[c].room : room \in Room
  BY <1>2 DEF Rows
<1>4. view' \in QR /\ replaced' \in BOOLEAN
  BY <1>3, RowValues DEF CreateRegistersSaved, CreateRegisters, RoomInv, Rest
<1>5. NoCreate \in [step: {"none", "looked", "saved"}, room: Rows]
  BY DEF NoCreate, Rows
<1>6. creating' = [creating EXCEPT ![c] = NoCreate]
  BY DEF CreateRegistersSaved, CreateRegisters
<1>7. creating' \in [1..Creates -> [step: {"none", "looked", "saved"}, room: Rows]]
  BY <1>5, <1>6 DEF RoomInv, Rest
<1>8. Shape' /\ Owned'
  <2>1. CASE CreateRegistersSaved(c)
    BY <1>1, <1>3, <2>1, RegisteredOwned DEF CreateRegistersSaved
  <2>2. CASE CreateRegisters(c) /\ here = 0
    BY <1>1, <1>3, <2>2, RegisteredOwned DEF CreateRegisters
  <2>3. CASE CreateRegisters(c) /\ here # 0
    <3>1. state' = state /\ here' = here /\ replaced' = replaced
      BY <2>3 DEF CreateRegisters
    <3>2. QED
      BY <1>1, <3>1, Same, KeptIsOwned DEF RoomInv
  <2>4. QED
    BY <2>1, <2>2, <2>3
<1>9. Objects' = Objects /\ Creates' = Creates /\ Crashes' = Crashes
  BY <1>1 DEF Objects, Creates, Crashes
<1>10. Rest'
  BY <1>1, <1>4, <1>7, <1>9 DEF RoomInv, Rest
<1>11. QED
  BY <1>8, <1>10 DEF RoomInv

\* StartRoom of a room without cancel function: the map's object has no live
\* worker, and unless one was replaced no other object has.
LEMMA StartInv ==
  ASSUME RoomInv, StartRoom
  PROVE  RoomInv'
<1>1. /\ here \in 1..Len(state) /\ state[here] \in ObjectRec /\ state[here].cancel = 0
      /\ Len(worker) < MaxWorker /\ Len(worker) \in Nat /\ MaxWorker \in Nat
  BY Elements, Bounds DEF StartRoom, RoomInv, Shape
<1> DEFINE old == state[here].room
           reset == IF old.status = "Running" THEN old ELSE [old EXCEPT !.qr = "none"]
           room == TransitionTo(reset, "Running")
<1>2. old \in Room
  BY <1>1 DEF ObjectRec
<1>3. reset \in Room
  BY <1>2, RoomValues
<1>4. room \in Room
  BY <1>3, RoomValues DEF Status
<1>5. PICK n \in 1..MaxWorker : n = Len(worker) + 1
  BY <1>1
<1>6. PICK z \in 0..MaxWorker : z = 0
  BY <1>1
<1>7. PICK y \in 0..MaxAttempts : y = 0
  BY Bounds DEF RoomInv, Shape
<1>8. PICK verify \in {"run", "done"} : verify = IF Labels THEN "run" ELSE "done"
  OBVIOUS
<1> DEFINE e == [state[here] EXCEPT !.room = room, !.cancel = n, !.label = z]
           r == [of |-> here, phase |-> "idle", live |-> TRUE, attempt |-> y,
                 copy |-> NewRoom, verify |-> verify]
<1>9. /\ state' = [state EXCEPT ![here].room = room, ![here].cancel = Len(worker) + 1, ![here].label = 0]
      /\ worker' = Append(worker, [of |-> here, phase |-> "idle", live |-> TRUE, attempt |-> 0,
                                   copy |-> NewRoom, verify |-> IF Labels THEN "run" ELSE "done"])
      /\ view' \in Shown(room)
      /\ UNCHANGED <<here, writes, row, creating, stopAll, stuck, crashes, use, replaced>>
  BY DEF StartRoom
<1>10. view' \in QR
  BY <1>4, <1>9, RowValues DEF RoomInv, Rest
<1> HIDE DEF room
<1>11. e \in ObjectRec /\ e.cancel = n /\ state' = [state EXCEPT ![here] = e]
  BY <1>1, <1>4, <1>5, <1>6, <1>9 DEF ObjectRec
<1>12. here \in 1..Objects
  BY <1>1, Bounds, Elements DEF RoomInv, Shape
<1>13. NewRoom \in Room /\ "idle" \in WorkerPhase \ Trying
  BY <1>4, RoomValues DEF WorkerPhase, Trying
<1>14. r \in WorkerRec /\ r.of = here
  BY <1>7, <1>8, <1>12, <1>13 DEF WorkerRec, AnyWorker
<1>15. worker' = Append(worker, r)
  BY <1>7, <1>8, <1>9
<1> HIDE DEF e, r
<1>16. /\ worker' \in Seq(WorkerRec) /\ Len(worker') = n
       /\ \A w \in Worker : worker'[w] = worker[w]
       /\ worker'[n] = r
  BY <1>5, <1>14, <1>15, AppendProperties DEF RoomInv, Shape, Worker
<1>17. /\ state' \in Seq(ObjectRec) /\ Len(state') = Len(state)
       /\ \A o \in 1..Len(state) : state'[o] = IF o = here THEN e ELSE state[o]
  BY <1>1, <1>11, ExceptSeq DEF RoomInv, Shape
<1>18. ObjectRec' = ObjectRec /\ WorkerRec' = WorkerRec
       /\ Objects' = Objects /\ Creates' = Creates /\ Crashes' = Crashes
  BY <1>9 DEF ObjectRec, WorkerRec, AnyWorker, Objects, Creates, Crashes
<1>19. Shape'
  BY <1>1, <1>5, <1>9, <1>16, <1>17, <1>18 DEF RoomInv, Shape
<1>20. Rest'
  BY <1>9, <1>10, <1>18 DEF RoomInv, Rest
<1>21. Owned'
  <2>1. SUFFICES ASSUME NEW w \in 1..n
                 PROVE  /\ worker'[w].of \in 1..Len(state)
                        /\ worker'[w].live => state'[worker'[w].of].cancel = w
                        /\ worker'[w].live /\ ~replaced => worker'[w].of = here
    BY <1>9, <1>16, <1>17 DEF Owned, Worker
  <2>2. CASE w = n
    BY <1>1, <1>11, <1>14, <1>16, <1>17, <2>2
  <2>3. CASE w # n
    <3>1. w \in Worker /\ w # 0
      BY <1>1, <1>5, <2>3 DEF Worker
    <3>2. worker[w].of \in 1..Len(state) /\ worker'[w] = worker[w]
      BY <1>16, <3>1, OfWorker
    <3>3. worker[w].live => worker[w].of # here
      BY <1>1, <3>1 DEF RoomInv, Owned
    <3>4. QED
      BY <1>17, <3>1, <3>2, <3>3 DEF RoomInv, Owned
  <2>4. QED
    BY <2>2, <2>3
<1>22. QED
  BY <1>19, <1>20, <1>21 DEF RoomInv

\* StopRoom.
LEMMA StopInv ==
  ASSUME RoomInv, StopRoom
  PROVE  RoomInv'
<1>1. here \in 1..Len(state) /\ state[here] \in ObjectRec
  BY Elements DEF StopRoom, RoomInv, Shape
<1> DEFINE stopped == TransitionTo(state[here].room, "Stopped")
           room == [stopped EXCEPT !.qr = "none"]
<1>2. stopped \in Room
  BY <1>1, RoomValues DEF ObjectRec, Status
<1>3. room \in Room
  BY <1>2, RoomValues
<1>4. /\ state' = [state EXCEPT ![here].room = room, ![here].cancel = 0]
      /\ worker' = Cancelled(here)
      /\ writes' = Append(writes, <<here, room>>)
      /\ view' \in Shown(room) /\ Len(writes) < MaxWrites
      /\ UNCHANGED <<here, row, creating, stopAll, stuck, crashes, use, replaced>>
  BY DEF StopRoom
<1> HIDE DEF room
<1>5. PICK n \in 0..MaxWorker : n = 0
  BY Bounds DEF RoomInv, Shape
<1> DEFINE e == [state[here] EXCEPT !.room = room, !.cancel = n]
<1>6. e \in ObjectRec /\ state' = [state EXCEPT ![here] = e]
  BY <1>1, <1>3, <1>4, <1>5 DEF ObjectRec
<1> HIDE DEF e
<1>7. Shape' /\ Owned'
  <2>1. /\ worker' \in Seq(WorkerRec) /\ Len(worker') = Len(worker)
        /\ \A w \in Worker : /\ worker'[w].of = worker[w].of
                             /\ worker'[w].live => worker[w].live /\ worker[w].of # here
    BY <1>1, <1>4, CancelLeaves
  <2>2. QED
    BY <1>1, <1>4, <1>6, <2>1, ClearedOwned
<1>8. <<here, room>> \in (1..Objects) \X Room
  BY <1>1, <1>3, Bounds, Elements DEF RoomInv, Shape
<1>9. writes' \in Seq((1..Objects) \X Room) /\ Len(writes') = Len(writes) + 1
  BY <1>4, <1>8, AppendProperties DEF RoomInv, Rest
<1>10. view' \in QR
  BY <1>3, <1>4, RowValues DEF RoomInv, Rest
<1>11. Objects' = Objects /\ Creates' = Creates /\ Crashes' = Crashes
  BY <1>4 DEF Objects, Creates, Crashes
<1>12. Rest'
  BY <1>4, <1>9, <1>10, <1>11, LenProperties, Bounds DEF RoomInv, Shape, Rest
<1>13. QED
  BY <1>7, <1>12 DEF RoomInv

\* DeleteRoom: the map is empty, and unless a RoomState was replaced no worker
\* is live.
LEMMA DeleteInv ==
  ASSUME RoomInv, DeleteRoom
  PROVE  RoomInv'
<1>1. /\ row' = {} /\ here' = 0 /\ view' = "none"
      /\ worker' = IF here = 0 THEN worker ELSE Cancelled(here)
      /\ UNCHANGED <<state, writes, creating, stopAll, stuck, crashes, use, replaced>>
  BY DEF DeleteRoom
<1>2. here # 0 => here \in 1..Len(state)
  BY Elements DEF RoomInv, Shape
<1>3. /\ worker' \in Seq(WorkerRec) /\ Len(worker') = Len(worker)
      /\ \A w \in Worker : /\ worker'[w].of = worker[w].of
                           /\ worker'[w].live => worker[w].live /\ worker[w].of # here
  <2>1. CASE here = 0
    BY <1>1, <2>1, OfWorker, Elements DEF RoomInv, Shape
  <2>2. CASE here # 0
    BY <1>1, <1>2, <2>2, CancelLeaves
  <2>3. QED
    BY <2>1, <2>2
<1>4. ObjectRec' = ObjectRec /\ WorkerRec' = WorkerRec
      /\ Objects' = Objects /\ Creates' = Creates /\ Crashes' = Crashes
  BY <1>1 DEF ObjectRec, WorkerRec, AnyWorker, Objects, Creates, Crashes
<1>5. Shape'
  BY <1>1, <1>3, <1>4, Elements DEF RoomInv, Shape
<1>6. Owned'
  BY <1>1, <1>3 DEF RoomInv, Owned, Worker
<1>7. Rest'
  BY <1>1, <1>4 DEF RoomInv, Rest, Rows, QR
<1>8. QED
  BY <1>5, <1>6, <1>7 DEF RoomInv

----------------------------------------------------------------------------
\* StopAllActiveRooms

StopRec == [phase: StopPhase, of: 0..Objects, room: Room, quiet: BOOLEAN]

\* The record of no call.
LEMMA NoStopTyped ==
  ASSUME use \in Uses
  PROVE  NoStop \in StopRec
<1>1. PICK n \in 0..Objects : n = 0
  BY Bounds
<1>2. NewRoom \in Room /\ "idle" \in StopPhase
  BY DEF NewRoom, Room, Status, QR, StopPhase
<1>3. [phase |-> "idle", of |-> n, room |-> NewRoom, quiet |-> FALSE] \in StopRec
  BY <1>2 DEF StopRec
<1>4. QED
  BY <1>1, <1>3 DEF NoStop

\* A step of StopAllActiveRooms that cancels nothing.
LEMMA StopAllDoes ==
  ASSUME RoomInv, StateKept, stopAll' \in StopRec, row' \in Rows, view' \in QR,
         UNCHANGED <<here, worker, writes, creating, stuck, crashes, use, replaced>>
  PROVE  RoomInv'
<1>1. Shape' /\ Owned'
  BY Same, KeptIsOwned DEF RoomInv
<1>2. Objects' = Objects /\ Creates' = Creates /\ Crashes' = Crashes
  BY DEF Objects, Creates, Crashes
<1>3. Rest'
  BY <1>2 DEF RoomInv, Rest, StopRec
<1>4. QED
  BY <1>1, <1>3 DEF RoomInv

\* The steps that leave the rooms alone: calling, persisting, waiting,
\* draining, reasserting.
LEMMA StopAllStepsInv ==
  ASSUME RoomInv,
         \/ StopAllCalled \/ StopAllPersists \/ StopAllWaited \/ StopAllTimesOut
         \/ StopAllDrained \/ StopAllReasserts
  PROVE  RoomInv'
<1>1. UNCHANGED <<here, state, worker, writes, creating, stuck, crashes, use, replaced>>
  BY DEF StopAllCalled, StopAllPersists, StopAllWaited, StopAllTimesOut, StopAllDrained,
         StopAllReasserts
<1>2. stopAll \in StopRec /\ stopAll.room \in Room /\ NoStop \in StopRec
  BY NoStopTyped DEF RoomInv, Shape, Rest, StopRec
<1>3. StateKept
  BY <1>1, Same DEF RoomInv
<1>4. row' \in Rows /\ view' \in QR
  <2>1. row \in Rows /\ view \in QR
    BY DEF RoomInv, Rest
  <2>2. Stored(stopAll.room) \in Rows /\ Shown(stopAll.room) \subseteq QR
    BY <1>2, <2>1, RowValues
  <2>3. CASE StopAllCalled \/ StopAllWaited \/ StopAllTimesOut \/ StopAllDrained
    BY <2>1, <2>3 DEF StopAllCalled, StopAllWaited, StopAllTimesOut, StopAllDrained
  <2>4. CASE StopAllPersists
    BY <2>1, <2>2, <2>4 DEF StopAllPersists
  <2>5. CASE StopAllReasserts
    BY <2>1, <2>2, <2>5 DEF StopAllReasserts
  <2>6. QED
    BY <2>3, <2>4, <2>5
<1>5. stopAll' \in StopRec
  <2>1. CASE StopAllWaited
    <3>1. PICK b \in BOOLEAN : b = \A w \in Worker : worker[w].of = stopAll.of => Ended(w)
      OBVIOUS
    <3>2. stopAll' = [stopAll EXCEPT !.phase = "drain", !.quiet = b]
      BY <2>1, <3>1 DEF StopAllWaited
    <3>3. QED
      BY <1>2, <3>2 DEF StopRec, StopPhase
  <2>2. CASE StopAllCalled \/ StopAllPersists \/ StopAllDrained
    <3>1. PICK p \in {"locking", "wait", "reassert"} : stopAll' = [stopAll EXCEPT !.phase = p]
      BY <2>2 DEF StopAllCalled, StopAllPersists, StopAllDrained
    <3>2. QED
      BY <1>2, <3>1 DEF StopRec, StopPhase
  <2>3. CASE StopAllTimesOut
    BY <1>2, <2>3 DEF StopAllTimesOut
  <2>4. CASE StopAllReasserts
    <3>1. stopAll' = NoStop \/ stopAll' = [stopAll EXCEPT !.phase = "record"]
      BY <2>4 DEF StopAllReasserts
    <3>2. QED
      BY <1>2, <3>1 DEF StopRec, StopPhase
  <2>5. QED
    BY <2>1, <2>2, <2>3, <2>4
<1>6. QED
  BY <1>1, <1>3, <1>4, <1>5, StopAllDoes

\* The pending flag is cleared.
LEMMA StopAllRecordsInv ==
  ASSUME RoomInv, StopAllRecords
  PROVE  RoomInv'
<1>1. /\ state' = [state EXCEPT ![stopAll.of].pending = FALSE]
      /\ view' \in Shown(stopAll.room) /\ stopAll' = NoStop
      /\ UNCHANGED <<here, worker, writes, row, creating, stuck, crashes, use, replaced>>
  BY DEF StopAllRecords
<1>2. stopAll.room \in Room /\ NoStop \in StopRec
  BY NoStopTyped DEF RoomInv, Shape, Rest, StopRec
<1>3. view' \in QR
  BY <1>1, <1>2, RowValues DEF RoomInv, Rest
<1>4. StateKept
  <2>1. CASE stopAll.of \in 1..Len(state)
    <3> DEFINE e == [state[stopAll.of] EXCEPT !.pending = FALSE]
    <3>1. state[stopAll.of] \in ObjectRec
      BY <2>1, Elements DEF RoomInv
    <3>2. e \in ObjectRec /\ e.cancel = state[stopAll.of].cancel
      BY <3>1 DEF ObjectRec
    <3>3. state' = [state EXCEPT ![stopAll.of] = e]
      BY <1>1
    <3> HIDE DEF e
    <3>4. QED
      BY <2>1, <3>2, <3>3, ObjectSet DEF RoomInv
  <2>2. CASE stopAll.of \notin 1..Len(state)
    <3>1. stopAll.of \notin DOMAIN state
      BY <2>2, Elements DEF RoomInv
    <3>2. state \in [1..Len(state) -> ObjectRec]
      BY LenProperties DEF RoomInv, Shape
    <3>3. state' = state
      BY <1>1, <2>2, <3>2
    <3>4. QED
      BY <3>3, Same DEF RoomInv
  <2>3. QED
    BY <2>1, <2>2
<1>5. QED
  BY <1>1, <1>2, <1>3, <1>4, StopAllDoes DEF RoomInv, Rest

\* The worker of the room in the map is cancelled.
LEMMA StopAllCancelsInv ==
  ASSUME RoomInv, StopAllCancels
  PROVE  RoomInv'
<1>1. UNCHANGED <<here, writes, row, view, creating, stuck, crashes, use, replaced>>
  BY DEF StopAllCancels
<1>2. NoStop \in StopRec /\ row' \in Rows /\ view' \in QR
  BY <1>1, NoStopTyped DEF RoomInv, Shape, Rest
<1>3. CASE here = 0 \/ (state[here].cancel = 0 /\ ~state[here].pending)
  <2>1. stopAll' = NoStop /\ state' = state /\ worker' = worker
    BY <1>3 DEF StopAllCancels
  <2>2. QED
    BY <1>1, <1>2, <2>1, Same, StopAllDoes DEF RoomInv
<1>4. CASE ~(here = 0 \/ (state[here].cancel = 0 /\ ~state[here].pending))
  <2> DEFINE room == IF state[here].cancel = 0 THEN state[here].room
                     ELSE TransitionTo(state[here].room, "Stopped")
             refused == state[here].cancel # 0 /\ room.status # "Stopped"
  <2>1. here \in 1..Len(state) /\ state[here] \in ObjectRec /\ here \in 0..Objects
    BY <1>4, Elements, Bounds DEF RoomInv, Shape
  <2>2. room \in Room
    BY <2>1, RoomValues DEF ObjectRec, Status
  <2>3. /\ stopAll' = IF refused THEN NoStop
                      ELSE [NoStop EXCEPT !.phase = "persist", !.of = here, !.room = room]
        /\ state' = [state EXCEPT ![here].room = room, ![here].cancel = 0,
                                  ![here].pending = @ \/ ~refused]
        /\ worker' = Cancelled(here)
    BY <1>4 DEF StopAllCancels
  <2>4. PICK n \in 0..MaxWorker : n = 0
    BY Bounds DEF RoomInv, Shape
  <2>5. PICK b \in BOOLEAN : b = (state[here].pending \/ ~refused)
    OBVIOUS
  <2> HIDE DEF room, refused
  <2> DEFINE e == [state[here] EXCEPT !.room = room, !.cancel = n, !.pending = b]
  <2>6. e \in ObjectRec /\ state' = [state EXCEPT ![here] = e]
    BY <2>1, <2>2, <2>3, <2>4, <2>5 DEF ObjectRec
  <2> HIDE DEF e
  <2>7. /\ worker' \in Seq(WorkerRec) /\ Len(worker') = Len(worker)
        /\ \A w \in Worker : /\ worker'[w].of = worker[w].of
                             /\ worker'[w].live => worker[w].live /\ worker[w].of # here
    BY <2>1, <2>3, CancelLeaves
  <2>8. Shape' /\ Owned'
    BY <1>1, <2>1, <2>6, <2>7, ClearedOwned
  <2>9. stopAll' \in StopRec
    BY <1>2, <2>1, <2>2, <2>3 DEF StopRec, StopPhase
  <2>10. Objects' = Objects /\ Creates' = Creates /\ Crashes' = Crashes
    BY <1>1 DEF Objects, Creates, Crashes
  <2>11. Rest'
    BY <1>1, <2>9, <2>10 DEF RoomInv, Rest, StopRec
  <2>12. QED
    BY <2>8, <2>11 DEF RoomInv
<1>5. QED
  BY <1>3, <1>4

----------------------------------------------------------------------------
\* Start of the process

\* A process that starts has no worker, and at most the room it has loaded.
Started ==
  /\ use \in Uses /\ crashes \in 0..Crashes /\ row \in Rows /\ view \in QR
  /\ worker = <<>> /\ writes = <<>> /\ stopAll = NoStop /\ stuck = FALSE /\ replaced = FALSE
  /\ creating = [c \in 1..Creates |-> NoCreate]
  /\ \/ state = <<>> /\ here = 0
     \/ here = 1 /\ \E room \in Room : state = <<Object(room)>>

LEMMA Fresh == Started => RoomInv
<1> SUFFICES ASSUME Started PROVE RoomInv
  OBVIOUS
<1> USE DEF Started
<1>1. Objects \in Nat \ {0} /\ MaxWorker \in Nat /\ MaxWrites \in Nat
  BY Bounds
<1>2. state \in Seq(ObjectRec) /\ Len(state) <= Objects /\ here \in 0..Len(state)
  <2>1. CASE state = <<>> /\ here = 0
    BY <1>1, <2>1, EmptySeq
  <2>2. CASE here = 1 /\ \E room \in Room : state = <<Object(room)>>
    <3>1. PICK room \in Room : state = <<Object(room)>>
      BY <2>2
    <3>2. Object(room) \in ObjectRec
      BY NewObject
    <3>3. state \in Seq(ObjectRec) /\ Len(state) = 1
      BY <3>1, <3>2
    <3>4. QED
      BY <1>1, <2>2, <3>3
  <2>3. QED
    BY <2>1, <2>2
<1>3. /\ worker \in Seq(WorkerRec) /\ Len(worker) = 0
      /\ writes \in Seq((1..Objects) \X Room) /\ Len(writes) = 0
  BY EmptySeq
<1>4. Shape
  BY <1>1, <1>2, <1>3 DEF Shape
<1>5. Worker = {}
  BY <1>3 DEF Worker
<1>6. NoCreate \in [step: {"none", "looked", "saved"}, room: Rows]
  BY DEF NoCreate, Rows
<1>7. creating \in [1..Creates -> [step: {"none", "looked", "saved"}, room: Rows]]
  BY <1>6
<1>8. stopAll \in [phase: StopPhase, of: 0..Objects, room: Room, quiet: BOOLEAN]
  BY NoStopTyped DEF StopRec
<1>9. Rest
  <2>1. stuck \in BOOLEAN /\ replaced \in BOOLEAN
    OBVIOUS
  <2>2. writes \in Seq((1..Objects) \X Room) /\ Len(writes) <= MaxWrites
    BY <1>1, <1>3
  <2> USE DEF Rest
  <2> HIDE DEF Started
  <2>3. row \in Rows /\ view \in QR /\ crashes \in 0..Crashes
    BY DEF Started
  <2>4. QED
    BY <1>7, <1>8, <2>1, <2>2, <2>3
<1>10. QED
  BY <1>4, <1>5, <1>9 DEF RoomInv, Owned

LEMMA RoomStart == RoomInit => RoomInv
<1>1. SUFFICES ASSUME RoomInit PROVE RoomInv
  OBVIOUS
<1>2. use \in Uses /\ crashes = 0 /\ NewRoom \in Room
  BY <1>1 DEF RoomInit, NewRoom, Room, Status, QR
<1>3. crashes \in 0..Crashes /\ row \in Rows /\ view \in QR
  BY <1>1, <1>2, Bounds DEF RoomInit, Rows, QR
<1>4. QED
  BY <1>1, <1>2, <1>3, Fresh DEF RoomInit, Started

LEMMA FreshAgain == Started' => RoomInv'
BY Fresh, PTL

\* The loaded row, with what ClearExpiredQRs and RecoverLoadedRooms make of it.
LEMMA RestartInv ==
  ASSUME RoomInv, Restart
  PROVE  RoomInv'
<1>1. /\ crashes < Crashes /\ crashes' = crashes + 1 /\ use' = use
      /\ worker' = <<>> /\ writes' = <<>> /\ stopAll' = NoStop /\ stuck' = FALSE /\ replaced' = FALSE
      /\ creating' = [c \in 1..Creates |-> NoCreate]
  BY DEF Restart
<1>2. use' \in Uses /\ Crashes' = Crashes /\ Creates' = Creates
  BY <1>1 DEF RoomInv, Shape, Crashes, Creates
<1>3. crashes' \in 0..Crashes
  BY <1>1, Bounds DEF RoomInv, Shape, Rest
<1>4. /\ row' \in Rows /\ view' \in QR
      /\ \/ state' = <<>> /\ here' = 0
         \/ here' = 1 /\ \E room \in Room : state' = <<Object(room)>>
  <2>1. CASE \E r \in row : \E c \in Cleared(r) :
               /\ state' = <<Object(Normalized(c))>> /\ row' = {Normalized(c)}
               /\ view' = Normalized(c).qr /\ here' = 1
    <3>1. PICK r \in row : \E c \in Cleared(r) :
               /\ state' = <<Object(Normalized(c))>> /\ row' = {Normalized(c)}
               /\ view' = Normalized(c).qr /\ here' = 1
      BY <2>1
    <3>2. PICK c \in Cleared(r) :
               /\ state' = <<Object(Normalized(c))>> /\ row' = {Normalized(c)}
               /\ view' = Normalized(c).qr /\ here' = 1
      BY <3>1
    <3>3. r \in Room
      BY <3>1 DEF RoomInv, Rest, Rows
    <3>4. c \in Room
      BY <3>2, <3>3, RoomValues DEF Cleared
    <3>5. Normalized(c) \in Room
      BY <3>4, RoomValues DEF Normalized, Status
    <3>6. Normalized(c).qr \in QR
      BY <3>5, RoomValues
    <3>7. QED
      BY <3>2, <3>5, <3>6 DEF Rows
  <2>2. CASE state' = <<>> /\ here' = 0 /\ row' = {} /\ view' = "none"
    BY <2>2 DEF Rows, QR
  <2>3. QED
    BY <2>1, <2>2 DEF Restart
<1>5. Started'
  BY <1>1, <1>2, <1>3, <1>4 DEF Started
<1>6. QED
  BY <1>5, FreshAgain

----------------------------------------------------------------------------
\* The theorem

LEMMA WorkerInv ==
  ASSUME RoomInv, NEW w \in 1..MaxWorker, WorkerNext(w)
  PROVE  RoomInv'
BY TickInv, ExitInv, FetchedInv, FetchSuccessInv, FetchErrorInv, WarningInv, EmitInv,
   RecoveryFetchInv, RecoveredInv, RecoveryEndsInv, RecoveryFailsInv, GivesUpInv,
   VerifiedInv, LabelStoredInv DEF WorkerNext

LEMMA RoomStep == RoomInv /\ [RoomNext]_roomVars => RoomInv'
<1>1. SUFFICES ASSUME RoomInv, [RoomNext]_roomVars PROVE RoomInv'
  OBVIOUS
<1>2. CASE UNCHANGED roomVars
  BY <1>1, <1>2, Same, WorkerDoes DEF roomVars, RoomInv, Rest
<1>3. ASSUME NEW c \in 1..Creates,
             CreateLooks(c) \/ CreateInserts(c) \/ CreateRegistersSaved(c) \/ CreateRegisters(c)
      PROVE  RoomInv'
  BY <1>1, <1>3, CreateReadsInv, CreateRegistersInv
<1>4. CASE StartRoom \/ StopRoom \/ DeleteRoom
  BY <1>1, <1>4, StartInv, StopInv, DeleteInv
<1>5. CASE StopAllCalled \/ StopAllNext
  BY <1>1, <1>5, StopAllStepsInv, StopAllCancelsInv, StopAllRecordsInv DEF StopAllNext
<1>6. ASSUME NEW w \in 1..MaxWorker, WorkerNext(w) PROVE RoomInv'
  BY <1>1, <1>6, WorkerInv
<1>7. ASSUME NEW i \in 1..MaxWrites, WriteDone(i) PROVE RoomInv'
  BY <1>1, <1>7, WriteDoneInv
<1>8. CASE Restart
  BY <1>1, <1>8, RestartInv
<1>9. QED
  BY <1>1, <1>2, <1>3, <1>4, <1>5, <1>6, <1>7, <1>8 DEF RoomNext

\* However StartRoom, StopRoom, DeleteRoom, CreateRoom, StopAllActiveRooms and
\* failing recoveries interleave, at most one worker has an open context, unless
\* CreateRoom has replaced a RoomState in the map; and then each RoomState still
\* has at most one.
THEOREM WorkersAreOwned == RoomSpec => [](RoomTypeOK /\ OneLiveWorker)
BY RoomStart, RoomStep, InvImplies, PTL DEF RoomSpec

----------------------------------------------------------------------------
\* StopAllActiveRooms

\* Writes, and StopAllActiveRooms once it has cancelled, are about a RoomState
\* that exists.
Named ==
  /\ \A i \in 1..Len(writes) : writes[i][1] \in 1..Len(state)
  /\ stopAll.phase \notin {"idle", "locking"} => stopAll.of \in 1..Len(state)

\* Once all its workers have ended, the RoomState that is stopped gets no new
\* write; once the older ones are done, none is left; and if there is no other
\* RoomState, the row reasserted then stays.
Quiet ==
  stopAll.quiet =>
    /\ stopAll.phase \in {"drain", "reassert", "record"}
    /\ \A w \in Worker : worker[w].of = stopAll.of => Ended(w)
    /\ stopAll.phase # "drain" => \A i \in 1..Len(writes) : writes[i][1] # stopAll.of
    /\ stopAll.phase = "record" /\ Len(state) = 1 => row = {stopAll.room}

StopKept == Named /\ Quiet

\* What a step of worker w may do that concerns StopAllActiveRooms: it goes on
\* itself, and has rooms of its own RoomState written.
WorkerMoves(w) ==
  /\ w \in Worker /\ ~Ended(w)
  /\ row' = row /\ stopAll' = stopAll
  /\ DOMAIN state' = DOMAIN state /\ DOMAIN worker' = Worker
  /\ \A v \in Worker :
       /\ worker'[v].of = worker[v].of
       /\ v # w => worker'[v].phase = worker[v].phase /\ worker'[v].verify = worker[v].verify
  /\ writes' = writes \/ \E room \in Room : writes' = Append(writes, <<worker[w].of, room>>)

\* Sequences with the same domain have the same length.
LEMMA SameLength ==
  ASSUME NEW m \in Nat, NEW n \in Nat, 1..m = 1..n
  PROVE  m = n
<1>1. CASE m > n
  <2>1. m \in 1..m /\ m \notin 1..n
    BY <1>1
  <2>2. QED
    BY <2>1
<1>2. CASE n > m
  <2>1. n \in 1..n /\ n \notin 1..m
    BY <1>2
  <2>2. QED
    BY <2>1
<1>3. QED
  BY <1>1, <1>2

\* An appended write.
LEMMA WriteAdded ==
  ASSUME Rest, NEW o \in 1..Objects, NEW room \in Room, writes' = Append(writes, <<o, room>>)
  PROVE  \A i \in 1..Len(writes') :
           writes'[i][1] = o \/ (i \in 1..Len(writes) /\ writes'[i] = writes[i])
<1>1. writes \in Seq((1..Objects) \X Room) /\ <<o, room>> \in (1..Objects) \X Room
  BY DEF Rest
<1>2. /\ Len(writes) \in Nat /\ Len(writes') = Len(writes) + 1
      /\ \A i \in 1..Len(writes) : writes'[i] = writes[i]
      /\ writes'[Len(writes) + 1] = <<o, room>>
  BY <1>1
<1>3. ASSUME NEW i \in 1..Len(writes') PROVE i = Len(writes) + 1 \/ i \in 1..Len(writes)
  BY <1>2
<1>4. QED
  BY <1>2, <1>3

LEMMA WorkerMovesKeeps ==
  ASSUME RoomInv, RoomInv', StopKept, NEW w, WorkerMoves(w)
  PROVE  StopKept'
<1>1. /\ w \in Worker /\ ~Ended(w) /\ row' = row /\ stopAll' = stopAll
      /\ worker[w].of \in 1..Len(state) /\ worker[w].of \in 1..Objects
  BY OfWorker DEF WorkerMoves, WorkerRec, AnyWorker
<1>2. /\ Len(state) \in Nat /\ DOMAIN state = 1..Len(state)
      /\ Len(state') \in Nat /\ DOMAIN state' = 1..Len(state')
  BY LenProperties DEF RoomInv, Shape
<1>3. Len(state') = Len(state)
  BY <1>2, SameLength DEF WorkerMoves
<1>4. DOMAIN worker' = 1..Len(worker')
  BY LenProperties DEF RoomInv, Shape
<1>5. Worker' = Worker
  BY <1>4 DEF WorkerMoves, Worker
<1>6. ASSUME NEW v \in Worker, Ended(v) PROVE Ended(v)'
  BY <1>1, <1>6 DEF WorkerMoves, Ended
<1>7. \A i \in 1..Len(writes') :
        writes'[i][1] = worker[w].of \/ (i \in 1..Len(writes) /\ writes'[i] = writes[i])
  <2>1. CASE writes' = writes
    BY <2>1
  <2>2. ASSUME NEW room \in Room, writes' = Append(writes, <<worker[w].of, room>>)
        PROVE  \A i \in 1..Len(writes') :
                 writes'[i][1] = worker[w].of \/ (i \in 1..Len(writes) /\ writes'[i] = writes[i])
    BY <1>1, <2>2, WriteAdded DEF RoomInv
  <2>3. QED
    BY <2>1, <2>2 DEF WorkerMoves
<1>8. Named'
  BY <1>1, <1>3, <1>7 DEF StopKept, Named
<1>9. Quiet'
  <2>1. SUFFICES ASSUME stopAll.quiet
               PROVE  /\ stopAll.phase \in {"drain", "reassert", "record"}
                      /\ \A v \in Worker : worker'[v].of = stopAll.of => Ended(v)'
                      /\ stopAll.phase # "drain" =>
                           \A i \in 1..Len(writes') : writes'[i][1] # stopAll.of
                      /\ stopAll.phase = "record" /\ Len(state) = 1 => row = {stopAll.room}
    BY <1>1, <1>3, <1>5 DEF Quiet
  <2>2. worker[w].of # stopAll.of
    BY <1>1, <2>1 DEF StopKept, Quiet
  <2>3. \A v \in Worker : worker'[v].of = worker[v].of
    BY DEF WorkerMoves
  <2>4. QED
    BY <1>6, <1>7, <2>1, <2>2, <2>3 DEF StopKept, Quiet
<1>10. QED
  BY <1>8, <1>9 DEF StopKept


\* The new record of a worker that goes on.
LEMMA GoesOn ==
  ASSUME Shape, NEW w \in Worker, NEW e, e.of = worker[w].of, worker' = [worker EXCEPT ![w] = e]
  PROVE  /\ DOMAIN worker' = Worker
         /\ \A v \in Worker :
              /\ worker'[v].of = worker[v].of
              /\ v # w => worker'[v].phase = worker[v].phase /\ worker'[v].verify = worker[v].verify
BY Elements

\* Step, Exited and Copied are of that form.
LEMMA FormsGoOn ==
  ASSUME RoomInv, NEW w \in Worker, NEW phase, NEW room,
         Step(w, phase) \/ Exited(w) \/ Copied(w, room, phase)
  PROVE  \E e : e.of = worker[w].of /\ worker' = [worker EXCEPT ![w] = e]
<1>1. worker[w] \in AnyWorker
  BY OfWorker DEF WorkerRec
<1>2. CASE Step(w, phase)
  <2>1. [worker[w] EXCEPT !.phase = phase].of = worker[w].of
    BY <1>1 DEF AnyWorker
  <2>2. worker' = [worker EXCEPT ![w] = [worker[w] EXCEPT !.phase = phase]]
    BY <1>2 DEF Step
  <2>3. QED
    BY <2>1, <2>2
<1>3. CASE Exited(w)
  <2>1. [worker[w] EXCEPT !.phase = "exited", !.attempt = 0, !.copy = NewRoom].of = worker[w].of
    BY <1>1 DEF AnyWorker
  <2>2. worker' = [worker EXCEPT ![w] = [worker[w] EXCEPT !.phase = "exited", !.attempt = 0,
                                                          !.copy = NewRoom]]
    BY <1>3 DEF Exited
  <2>3. QED
    BY <2>1, <2>2
<1>4. CASE Copied(w, room, phase)
  <2>1. [worker[w] EXCEPT !.phase = phase, !.copy = room].of = worker[w].of
    BY <1>1 DEF AnyWorker
  <2>2. worker' = [worker EXCEPT ![w] = [worker[w] EXCEPT !.phase = phase, !.copy = room]]
    BY <1>4 DEF Copied
  <2>3. QED
    BY <2>1, <2>2
<1>5. QED
  BY <1>2, <1>3, <1>4

\* Every step of a worker moves that worker.
LEMMA SimpleMoves ==
  ASSUME RoomInv, NEW w, Tick(w) \/ Exit(w) \/ Fetched(w) \/ RecoveryFetch(w) \/ RecoveryPoolExhausted(w)
  PROVE  WorkerMoves(w)
<1>1. w \in Worker /\ ~Ended(w)
  BY DEF Tick, Exit, Fetched, RecoveryFetch, RecoveryPoolExhausted, On, Ended
<1>2. (\E phase : Step(w, phase)) \/ Exited(w)
  BY DEF Tick, Exit, Fetched, RecoveryFetch, RecoveryPoolExhausted
<1>3. PICK e : e.of = worker[w].of /\ worker' = [worker EXCEPT ![w] = e]
  BY <1>1, <1>2, FormsGoOn
<1>4. row' = row /\ stopAll' = stopAll /\ writes' = writes /\ DOMAIN state' = DOMAIN state
  BY DEF Tick, Exit, Fetched, RecoveryFetch, RecoveryPoolExhausted, SetRoom
<1>5. QED
  BY <1>1, <1>3, <1>4, GoesOn DEF WorkerMoves, RoomInv

LEMMA CopyMoves ==
  ASSUME RoomInv, NEW w \in Worker, ~Ended(w), NEW room \in Room, NEW phase,
         Copied(w, room, phase), SetRoom(w, room) \/ UNCHANGED state, row' = row, stopAll' = stopAll
  PROVE  WorkerMoves(w)
<1>1. PICK e : e.of = worker[w].of /\ worker' = [worker EXCEPT ![w] = e]
  BY FormsGoOn
<1>2. DOMAIN state' = DOMAIN state /\ writes' = Append(writes, <<worker[w].of, room>>)
  BY DEF SetRoom, Copied
<1>3. QED
  BY <1>1, <1>2, GoesOn DEF WorkerMoves, RoomInv

LEMMA WritingMoves ==
  ASSUME RoomInv, NEW w,
         handleRoomFetchSuccess(w) \/ FetchError(w) \/ handleNonRecoverableError(w)
         \/ Recovered(w) \/ RecoveryEnds(w)
  PROVE  WorkerMoves(w)
<1>1. w \in Worker /\ ~Ended(w) /\ row' = row /\ stopAll' = stopAll
  BY DEF handleRoomFetchSuccess, FetchError, handleNonRecoverableError, Recovered, RecoveryEnds, On,
         Ended
<1>2. RoomOf(w) \in Room
  BY <1>1, OfWorker
<1>3. [RoomOf(w) EXCEPT !.qr = "code"] \in Room
  BY <1>2, RoomValues
<1>4. \A next \in Status : /\ TransitionTo(RoomOf(w), next) \in Room
                           /\ TransitionTo([RoomOf(w) EXCEPT !.qr = "code"], next) \in Room
  BY <1>2, <1>3, RoomValues
<1>5. CASE \E room \in Room, phase \in WorkerPhase :
             Copied(w, room, phase) /\ (SetRoom(w, room) \/ UNCHANGED state)
  BY <1>1, <1>5, CopyMoves
<1>6. CASE handleRoomFetchSuccess(w)
  BY <1>4, <1>5, <1>6 DEF handleRoomFetchSuccess, Status, WorkerPhase
<1>7. CASE handleNonRecoverableError(w)
  BY <1>2, <1>5, <1>7 DEF handleNonRecoverableError, WorkerPhase
<1>8. CASE RecoveryEnds(w)
  BY <1>4, <1>5, <1>8 DEF RecoveryEnds, Status, WorkerPhase
<1>9. ASSUME Step(w, "warn") \/ Exited(w), writes' = writes, DOMAIN state' = DOMAIN state
      PROVE  WorkerMoves(w)
  <2>1. PICK e : e.of = worker[w].of /\ worker' = [worker EXCEPT ![w] = e]
    BY <1>1, <1>9, FormsGoOn
  <2>2. QED
    BY <1>1, <1>9, <2>1, GoesOn DEF WorkerMoves, RoomInv
<1>10. CASE FetchError(w)
  <2>1. PICK room \in Room :
          /\ SetRoom(w, room)
          /\ Copied(w, room, "emitrecover") \/ (Step(w, "warn") /\ UNCHANGED writes)
    BY <1>4, <1>10 DEF FetchError, Status
  <2>2. "emitrecover" \in WorkerPhase
    BY DEF WorkerPhase
  <2>3. DOMAIN state' = DOMAIN state
    BY <2>1 DEF SetRoom
  <2>4. QED
    BY <1>5, <1>9, <2>1, <2>2, <2>3
<1>11. CASE Recovered(w)
  <2>1. CASE ~worker[w].live
    BY <1>9, <1>11, <2>1 DEF Recovered
  <2>2. CASE worker[w].live
    <3> DEFINE fetching == TransitionTo([RoomOf(w) EXCEPT !.qr = "code"], "Fetching")
               room == TransitionTo(fetching, "Running")
    <3>1. fetching \in Room
      BY <1>4 DEF Status
    <3>2. room \in Room
      BY <3>1, RoomValues DEF Status
    <3>3. SetRoom(w, room) /\ Copied(w, room, "emit") /\ "emit" \in WorkerPhase
      BY <1>11, <2>2 DEF Recovered, WorkerPhase
    <3> HIDE DEF room
    <3>4. QED
      BY <1>5, <3>2, <3>3
  <2>3. QED
    BY <2>1, <2>2
<1>12. QED
  BY <1>6, <1>7, <1>8, <1>10, <1>11


LEMMA OtherMoves ==
  ASSUME RoomInv, NEW w, Emit(w) \/ RecoveryFails(w) \/ Verified(w) \/ LabelStored(w)
  PROVE  WorkerMoves(w)
<1>1. w \in Worker /\ ~Ended(w) /\ row' = row /\ stopAll' = stopAll /\ writes' = writes
  BY DEF Emit, RecoveryFails, Verified, LabelStored, On, Ended
<1>2. DOMAIN state' = DOMAIN state
  BY DEF Emit, RecoveryFails, Verified, LabelStored
<1>3. worker[w] \in AnyWorker
  BY <1>1, OfWorker DEF WorkerRec
<1>4. ASSUME NEW e, e.of = worker[w].of, worker' = [worker EXCEPT ![w] = e]
      PROVE  WorkerMoves(w)
  BY <1>1, <1>2, <1>4, GoesOn DEF WorkerMoves, RoomInv
<1>5. CASE Emit(w)
  <2>1. CASE On(w, "emitlast")
    BY <1>1, <1>4, <1>5, <2>1, FormsGoOn DEF Emit
  <2>2. CASE ~On(w, "emitlast")
    <3>1. PICK phase : worker' = [worker EXCEPT ![w].copy = NewRoom, ![w].attempt = 0,
                                                ![w].phase = phase]
      BY <1>5, <2>2 DEF Emit
    <3> DEFINE e == [worker[w] EXCEPT !.copy = NewRoom, !.attempt = 0, !.phase = phase]
    <3>2. e.of = worker[w].of /\ worker' = [worker EXCEPT ![w] = e]
      BY <1>3, <3>1 DEF AnyWorker
    <3> HIDE DEF e
    <3>3. QED
      BY <1>4, <3>2
  <2>3. QED
    BY <2>1, <2>2
<1>6. CASE RecoveryFails(w)
  <2>1. PICK phase : worker' = [worker EXCEPT ![w].attempt = @ + 1, ![w].phase = phase]
    BY <1>6 DEF RecoveryFails
  <2> DEFINE e == [worker[w] EXCEPT !.attempt = @ + 1, !.phase = phase]
  <2>2. e.of = worker[w].of /\ worker' = [worker EXCEPT ![w] = e]
    BY <1>3, <2>1 DEF AnyWorker
  <2> HIDE DEF e
  <2>3. QED
    BY <1>4, <2>2
<1>7. CASE Verified(w) \/ LabelStored(w)
  <2>1. PICK next : worker' = [worker EXCEPT ![w].verify = next]
    BY <1>7 DEF Verified, LabelStored
  <2> DEFINE e == [worker[w] EXCEPT !.verify = next]
  <2>2. e.of = worker[w].of /\ worker' = [worker EXCEPT ![w] = e]
    BY <1>3, <2>1 DEF AnyWorker
  <2> HIDE DEF e
  <2>3. QED
    BY <1>4, <2>2
<1>8. QED
  BY <1>5, <1>6, <1>7

LEMMA GivesUpMoves ==
  ASSUME RoomInv, NEW w, RecoveryGivesUp(w)
  PROVE  WorkerMoves(w)
<1> DEFINE o == worker[w].of
           room == TransitionTo(RoomOf(w), "Stopped")
<1>1. w \in Worker /\ ~Ended(w) /\ row' = row /\ stopAll' = stopAll
  BY DEF RecoveryGivesUp, On, Ended
<1>2. o \in 1..Len(state) /\ worker[w] \in AnyWorker /\ room \in Room
  BY <1>1, OfWorker, RoomValues DEF WorkerRec, Status
<1>3. DOMAIN state' = DOMAIN state
  BY DEF RecoveryGivesUp, SetRoom
<1>4. CASE state[o].cancel = 0
  <2>1. Step(w, "panicked") /\ writes' = writes
    BY <1>4 DEF RecoveryGivesUp
  <2>2. PICK e : e.of = worker[w].of /\ worker' = [worker EXCEPT ![w] = e]
    BY <1>1, <2>1, FormsGoOn
  <2>3. QED
    BY <1>1, <1>3, <2>1, <2>2, GoesOn DEF WorkerMoves, RoomInv
<1>5. CASE state[o].cancel # 0
  <2>1. /\ writes' = Append(writes, <<worker[w].of, room>>)
        /\ worker' = [Cancelled(o) EXCEPT ![w].phase = "emitlast", ![w].copy = room]
    BY <1>5 DEF RecoveryGivesUp
  <2>2. /\ DOMAIN Cancelled(o) = Worker
        /\ \A v \in Worker : /\ Cancelled(o)[v] \in AnyWorker
                             /\ Cancelled(o)[v].of = worker[v].of
                             /\ Cancelled(o)[v].phase = worker[v].phase
                             /\ Cancelled(o)[v].verify = worker[v].verify
    <3>1. DOMAIN Cancelled(o) = Worker
      BY DEF Cancelled
    <3>2. ASSUME NEW v \in Worker
          PROVE  /\ Cancelled(o)[v] \in AnyWorker
                 /\ Cancelled(o)[v].of = worker[v].of
                 /\ Cancelled(o)[v].phase = worker[v].phase
                 /\ Cancelled(o)[v].verify = worker[v].verify
      BY OfWorker DEF Cancelled, WorkerRec, AnyWorker
    <3>3. QED
      BY <3>1, <3>2
  <2> HIDE DEF o, room
  <2>3. DOMAIN worker' = Worker
    BY <2>1, <2>2
  <2>4. ASSUME NEW v \in Worker
        PROVE  /\ worker'[v].of = worker[v].of
               /\ v # w => worker'[v].phase = worker[v].phase /\ worker'[v].verify = worker[v].verify
    <3>1. CASE v # w
      BY <2>1, <2>2, <3>1
    <3>2. CASE v = w
      <4>1. worker'[w] = [Cancelled(o)[w] EXCEPT !.phase = "emitlast", !.copy = room]
        BY <1>1, <2>1, <2>2
      <4>2. QED
        BY <1>1, <2>2, <3>2, <4>1 DEF AnyWorker
    <3>3. QED
      BY <3>1, <3>2
  <2>5. QED
    BY <1>1, <1>2, <1>3, <2>1, <2>3, <2>4 DEF WorkerMoves
<1>6. QED
  BY <1>4, <1>5

----------------------------------------------------------------------------
\* The other steps

\* Those that wait for StopAllActiveRooms, and those of it that leave no quiet.
LEMMA NotQuiet ==
  ASSUME RoomInv, Named', ~stopAll'.quiet
  PROVE  StopKept'
BY DEF StopKept, Quiet

LEMMA HandlersKeep ==
  ASSUME RoomInv, RoomInv', StopKept, StartRoom \/ StopRoom \/ DeleteRoom \/ StopAllCalled
  PROVE  StopKept'
<1>1. stopAll.phase = "idle" /\ ~stopAll.quiet
  BY DEF StartRoom, StopRoom, DeleteRoom, StopAllCalled, Unlocked, StopKept, Quiet
<1>2. stopAll \in [phase: StopPhase, of: 0..Objects, room: Room, quiet: BOOLEAN]
  BY DEF RoomInv, Rest
<1>3. stopAll'.phase \in {"idle", "locking"} /\ ~stopAll'.quiet
  BY <1>1, <1>2 DEF StartRoom, StopRoom, DeleteRoom, StopAllCalled
<1>4. /\ Len(state) \in Nat /\ DOMAIN state = 1..Len(state)
      /\ Len(state') \in Nat /\ DOMAIN state' = 1..Len(state')
  BY LenProperties DEF RoomInv, Shape
<1>5. DOMAIN state' = DOMAIN state
  BY DEF StartRoom, StopRoom, DeleteRoom, StopAllCalled
<1>6. Len(state') = Len(state)
  BY <1>4, <1>5, SameLength
<1>7. CASE writes' = writes
  BY <1>3, <1>6, <1>7, NotQuiet DEF StopKept, Named
<1>8. CASE StopRoom
  <2>1. PICK room \in Room : writes' = Append(writes, <<here, room>>)
    <3>1. here \in 1..Len(state)
      BY <1>4, <1>8 DEF StopRoom, RoomInv, Shape
    <3>2. TransitionTo(state[here].room, "Stopped") \in Room
      BY <3>1, Elements, RoomValues DEF RoomInv, ObjectRec, Status
    <3>3. [TransitionTo(state[here].room, "Stopped") EXCEPT !.qr = "none"] \in Room
      BY <3>2, RoomValues
    <3>4. QED
      BY <1>8, <3>3 DEF StopRoom
  <2>2. here \in 1..Len(state) /\ here \in 1..Objects
    BY <1>4, <1>8, Bounds DEF StopRoom, RoomInv, Shape
  <2>3. \A i \in 1..Len(writes') :
          writes'[i][1] = here \/ (i \in 1..Len(writes) /\ writes'[i] = writes[i])
    BY <2>1, <2>2, WriteAdded DEF RoomInv
  <2>4. QED
    BY <1>3, <1>6, <2>2, <2>3, NotQuiet DEF StopKept, Named
<1>9. QED
  BY <1>7, <1>8 DEF StartRoom, DeleteRoom, StopAllCalled


\* CreateRoom inserts no row where there is one, and what it registers is
\* another RoomState than the one that is stopped.
LEMMA CreatesKeep ==
  ASSUME RoomInv, RoomInv', StopKept, NEW c \in 1..Creates,
         CreateLooks(c) \/ CreateInserts(c) \/ CreateRegistersSaved(c) \/ CreateRegisters(c)
  PROVE  StopKept'
<1>1. worker' = worker /\ writes' = writes /\ stopAll' = stopAll
  BY DEF CreateLooks, CreateInserts, CreateRegistersSaved, CreateRegisters
<1>2. Len(state) \in Nat /\ (state' = state \/ Len(state') = Len(state) + 1)
  BY LenProperties, AppendProperties
  DEF CreateLooks, CreateInserts, CreateRegistersSaved, CreateRegisters, Registered, RoomInv, Shape
<1>3. state' = state \/ row' = row
  BY DEF CreateLooks, CreateInserts, CreateRegistersSaved, CreateRegisters
<1>4. row # {} => row' = row
  BY DEF CreateLooks, CreateInserts, CreateRegistersSaved, CreateRegisters
<1>5. Named'
  BY <1>1, <1>2 DEF StopKept, Named
<1>6. Worker' = Worker /\ \A w : Ended(w)' = Ended(w)
  BY <1>1 DEF Worker, Ended
<1>7. ASSUME stopAll.quiet, stopAll.phase = "record", Len(state') = 1
      PROVE  row' = {stopAll.room}
  <2>1. stopAll.of \in 1..Len(state)
    BY <1>7 DEF StopKept, Named
  <2>2. Len(state) = 1
    BY <1>2, <1>7, <2>1
  <2>3. row = {stopAll.room}
    BY <1>7, <2>2 DEF StopKept, Quiet
  <2>4. QED
    BY <1>4, <2>3
<1>8. Quiet'
  BY <1>1, <1>6, <1>7 DEF StopKept, Quiet
<1>9. QED
  BY <1>5, <1>8 DEF StopKept

\* A write that is over leaves the others.
LEMMA WriteRemoved ==
  ASSUME RoomInv, NEW i, WriteDone(i)
  PROVE  \A j \in 1..Len(writes') : \E k \in 1..Len(writes) : writes'[j] = writes[k]
<1> DEFINE W == (1..Objects) \X Room
           a == SubSeq(writes, 1, i - 1)
           b == SubSeq(writes, i + 1, Len(writes))
<1>1. writes \in Seq(W) /\ i \in 1..Len(writes) /\ Len(writes) \in Nat
  BY LenProperties DEF RoomInv, Rest, WriteDone
<1>2. \A j \in 1..Len(writes) : writes[j] \in W
  BY <1>1, ElementOfSeq
<1> HIDE DEF W
<1>3. a \in Seq(W) /\ Len(a) = i - 1 /\ \A j \in 1..(i - 1) : a[j] = writes[j]
  <2>1. 1 \in Int /\ i - 1 \in Int /\ \A j \in 1..(i - 1) : writes[j] \in W
    BY <1>1, <1>2
  <2>2. /\ a \in Seq(W) /\ Len(a) = IF 1 <= i - 1 THEN i - 1 - 1 + 1 ELSE 0
        /\ \A j \in 1..(i - 1 - 1 + 1) : a[j] = writes[1 + j - 1]
    BY <2>1, SubSeqProperties
  <2>3. QED
    BY <1>1, <2>2
<1>4. b \in Seq(W) /\ Len(b) = Len(writes) - i /\ \A j \in 1..(Len(writes) - i) : b[j] = writes[i + j]
  <2>1. i + 1 \in Int /\ Len(writes) \in Int /\ \A j \in (i + 1)..Len(writes) : writes[j] \in W
    BY <1>1, <1>2
  <2>2. /\ b \in Seq(W) /\ Len(b) = IF i + 1 <= Len(writes) THEN Len(writes) - (i + 1) + 1 ELSE 0
        /\ \A j \in 1..(Len(writes) - (i + 1) + 1) : b[j] = writes[i + 1 + j - 1]
    BY <2>1, SubSeqProperties
  <2>3. QED
    BY <1>1, <2>2
<1>5. writes' = a \o b
  BY DEF WriteDone
<1> HIDE DEF a, b
<1>6. /\ Len(writes') = Len(a) + Len(b)
      /\ \A j \in 1..(Len(a) + Len(b)) : writes'[j] = IF j <= Len(a) THEN a[j] ELSE b[j - Len(a)]
  BY <1>3, <1>4, <1>5, ConcatProperties
<1>7. ASSUME NEW j \in 1..Len(writes')
      PROVE  \E k \in 1..Len(writes) : writes'[j] = writes[k]
  <2>1. CASE j <= i - 1
    BY <1>1, <1>3, <1>4, <1>6, <2>1
  <2>2. CASE j > i - 1
    <3>1. j - (i - 1) \in 1..(Len(writes) - i) /\ i + (j - (i - 1)) \in 1..Len(writes)
      BY <1>1, <1>3, <1>4, <1>6, <2>2
    <3>2. writes'[j] = b[j - (i - 1)]
      BY <1>1, <1>3, <1>4, <1>6, <2>2
    <3>3. QED
      BY <1>4, <3>1, <3>2
  <2>3. QED
    BY <1>1, <1>3, <1>4, <1>6, <2>1, <2>2
<1>8. QED
  BY <1>7

LEMMA WriteKeeps ==
  ASSUME RoomInv, StopKept, NEW i, WriteDone(i)
  PROVE  StopKept'
<1>1. /\ state' = state /\ worker' = worker /\ stopAll' = stopAll
      /\ i \in 1..Len(writes)
  BY DEF WriteDone
<1>2. \A j \in 1..Len(writes') : \E k \in 1..Len(writes) : writes'[j] = writes[k]
  BY WriteRemoved
<1>3. Named'
  BY <1>1, <1>2 DEF StopKept, Named
<1>4. Worker' = Worker /\ \A w : Ended(w)' = Ended(w)
  BY <1>1 DEF Worker, Ended
<1>5. ASSUME stopAll.quiet, stopAll.phase = "record", Len(state) = 1 PROVE FALSE
  <2>1. writes[i][1] \in 1..1 /\ stopAll.of \in 1..1
    BY <1>1, <1>5 DEF StopKept, Named
  <2>2. writes[i][1] # stopAll.of
    BY <1>1, <1>5 DEF StopKept, Quiet
  <2>3. QED
    BY <2>1, <2>2
<1>6. Quiet'
  BY <1>1, <1>2, <1>4, <1>5 DEF StopKept, Quiet
<1>7. QED
  BY <1>3, <1>6 DEF StopKept


\* StopAllActiveRooms itself.
LEMMA StopAllKeeps ==
  ASSUME RoomInv, RoomInv', StopKept, StopAllNext
  PROVE  StopKept'
<1>1. writes' = writes
  BY DEF StopAllNext, StopAllCancels, StopAllPersists, StopAllWaited, StopAllTimesOut,
         StopAllDrained, StopAllReasserts, StopAllRecords
<1>2. DOMAIN state' = DOMAIN state
  BY DEF StopAllNext, StopAllCancels, StopAllPersists, StopAllWaited, StopAllTimesOut,
         StopAllDrained, StopAllReasserts, StopAllRecords
<1>3. /\ Len(state) \in Nat /\ DOMAIN state = 1..Len(state)
      /\ Len(state') \in Nat /\ DOMAIN state' = 1..Len(state')
  BY LenProperties DEF RoomInv, Shape
<1>4. Len(state') = Len(state)
  BY <1>2, <1>3, SameLength
<1>5. stopAll \in StopRec
  BY DEF RoomInv, Rest, StopRec
<1>6. ASSUME stopAll' = NoStop PROVE StopKept'
  <2>1. stopAll'.phase = "idle" /\ ~stopAll'.quiet
    BY <1>6 DEF NoStop
  <2>2. QED
    BY <1>1, <1>4, <2>1, NotQuiet DEF StopKept, Named
<1>7. CASE StopAllCancels
  <2>1. CASE stopAll' # NoStop
    <3>1. PICK room : stopAll' = [NoStop EXCEPT !.phase = "persist", !.of = here, !.room = room]
      BY <1>7, <2>1 DEF StopAllCancels
    <3>2. ~stopAll'.quiet /\ stopAll'.of = here
      BY <3>1 DEF NoStop
    <3>3. here # 0
      BY <1>7, <2>1, Zenon DEF StopAllCancels
    <3>4. here \in 1..Len(state)
      BY <1>3, <3>3 DEF RoomInv, Shape
    <3>5. QED
      BY <1>1, <1>4, <3>2, <3>4, NotQuiet DEF StopKept, Named
  <2>2. QED
    BY <1>6, <2>1
<1>8. CASE StopAllPersists
  <2>1. ~stopAll'.quiet /\ stopAll'.of = stopAll.of /\ stopAll.phase = "persist"
    BY <1>5, <1>8 DEF StopAllPersists, StopRec, StopKept, Quiet
  <2>2. QED
    BY <1>1, <1>4, <2>1, NotQuiet DEF StopKept, Named
<1>9. CASE StopAllWaited
  <2>1. /\ stopAll.phase = "wait" /\ worker' = worker
        /\ stopAll'.phase = "drain" /\ stopAll'.of = stopAll.of
        /\ stopAll'.quiet => \A w \in Worker : worker[w].of = stopAll.of => Ended(w)
    BY <1>5, <1>9 DEF StopAllWaited, StopRec
  <2>2. Worker' = Worker /\ \A w : Ended(w)' = Ended(w)
    BY <2>1 DEF Worker, Ended
  <2>3. Named'
    BY <1>1, <1>4, <2>1 DEF StopKept, Named
  <2>4. Quiet'
    BY <2>1, <2>2 DEF Quiet
  <2>5. QED
    BY <2>3, <2>4 DEF StopKept
<1>10. CASE StopAllDrained
  <2>1. /\ stopAll.phase = "drain" /\ worker' = worker
        /\ stopAll'.phase = "reassert" /\ stopAll'.of = stopAll.of
        /\ stopAll'.quiet = stopAll.quiet
        /\ \A i \in 1..Len(writes) : writes[i][1] # stopAll.of
    BY <1>5, <1>10 DEF StopAllDrained, StopRec
  <2>2. Worker' = Worker /\ \A w : Ended(w)' = Ended(w)
    BY <2>1 DEF Worker, Ended
  <2>3. Named'
    BY <1>1, <1>4, <2>1 DEF StopKept, Named
  <2>4. Quiet'
    BY <1>1, <2>1, <2>2 DEF StopKept, Quiet
  <2>5. QED
    BY <2>3, <2>4 DEF StopKept
<1>11. CASE StopAllReasserts /\ stopAll' # NoStop
  <2>1. /\ stopAll.phase = "reassert" /\ worker' = worker /\ row' = {stopAll.room}
        /\ stopAll'.phase = "record" /\ stopAll'.of = stopAll.of
        /\ stopAll'.quiet = stopAll.quiet /\ stopAll'.room = stopAll.room
    BY <1>5, <1>11 DEF StopAllReasserts, StopRec
  <2>2. Worker' = Worker /\ \A w : Ended(w)' = Ended(w)
    BY <2>1 DEF Worker, Ended
  <2>3. Named'
    BY <1>1, <1>4, <2>1 DEF StopKept, Named
  <2>4. Quiet'
    BY <1>1, <2>1, <2>2 DEF StopKept, Quiet
  <2>5. QED
    BY <2>3, <2>4 DEF StopKept
<1>12. QED
  BY <1>6, <1>7, <1>8, <1>9, <1>10, <1>11 DEF StopAllNext, StopAllTimesOut, StopAllRecords

\* A process that starts stops nothing.
LEMMA RestartKeeps ==
  ASSUME RoomInv, Restart
  PROVE  StopKept'
<1>1. writes' = <<>> /\ stopAll' = NoStop
  BY DEF Restart
<1>2. Len(writes') = 0 /\ ~stopAll'.quiet /\ stopAll'.phase = "idle"
  BY <1>1 DEF NoStop
<1>3. QED
  BY <1>2, NotQuiet DEF Named

LEMMA StopKeptStart == RoomInit => StopKept
<1>1. SUFFICES ASSUME RoomInit PROVE StopKept
  OBVIOUS
<1>2. writes = <<>> /\ stopAll = NoStop
  BY <1>1 DEF RoomInit
<1>3. Len(writes) = 0 /\ ~stopAll.quiet /\ stopAll.phase = "idle"
  BY <1>2 DEF NoStop
<1>4. QED
  BY <1>3 DEF StopKept, Named, Quiet

LEMMA WorkerStopKept ==
  ASSUME RoomInv, RoomInv', StopKept, NEW w \in 1..MaxWorker, WorkerNext(w)
  PROVE  StopKept' /\ stopAll' = stopAll
<1>1. WorkerMoves(w)
  BY SimpleMoves, WritingMoves, OtherMoves, GivesUpMoves DEF WorkerNext
<1>2. QED
  BY <1>1, WorkerMovesKeeps DEF WorkerMoves

LEMMA StopKeptStep ==
  ASSUME RoomInv, RoomInv', StopKept, [RoomNext]_roomVars
  PROVE  StopKept'
<1>1. CASE UNCHANGED roomVars
  BY <1>1 DEF roomVars, StopKept, Named, Quiet, Worker, Ended
<1>2. ASSUME NEW c \in 1..Creates,
             CreateLooks(c) \/ CreateInserts(c) \/ CreateRegistersSaved(c) \/ CreateRegisters(c)
      PROVE  StopKept'
  BY <1>2, CreatesKeep
<1>3. CASE StartRoom \/ StopRoom \/ DeleteRoom \/ StopAllCalled
  BY <1>3, HandlersKeep
<1>4. CASE StopAllNext
  BY <1>4, StopAllKeeps
<1>5. ASSUME NEW w \in 1..MaxWorker, WorkerNext(w) PROVE StopKept'
  BY <1>5, WorkerStopKept
<1>6. ASSUME NEW i \in 1..MaxWrites, WriteDone(i) PROVE StopKept'
  BY <1>6, WriteKeeps
<1>7. CASE Restart
  BY <1>7, RestartKeeps
<1>8. QED
  BY <1>1, <1>2, <1>3, <1>4, <1>5, <1>6, <1>7 DEF RoomNext

\* The pending flag is cleared by the last step of StopAllActiveRooms only.
LEMMA RecordedBy ==
  ASSUME RoomInv, RoomInv', StopKept, [RoomNext]_roomVars, StopRecorded
  PROVE  row' = row /\ writes' = writes
<1>1. stopAll.phase = "record" /\ stopAll'.phase = "idle" /\ crashes' = crashes
  BY DEF StopRecorded
<1>2. stopAll' # stopAll
  BY <1>1
<1>3. CASE StopAllNext
  BY <1>1, <1>3 DEF StopAllNext, StopAllCancels, StopAllPersists, StopAllWaited, StopAllTimesOut,
                    StopAllDrained, StopAllReasserts, StopAllRecords
<1>4. ASSUME NEW w \in 1..MaxWorker, WorkerNext(w) PROVE FALSE
  BY <1>2, <1>4, WorkerStopKept
<1>5. CASE UNCHANGED roomVars
  BY <1>2, <1>5 DEF roomVars
<1>6. ASSUME NEW c \in 1..Creates,
             CreateLooks(c) \/ CreateInserts(c) \/ CreateRegistersSaved(c) \/ CreateRegisters(c)
      PROVE  FALSE
  BY <1>2, <1>6 DEF CreateLooks, CreateInserts, CreateRegistersSaved, CreateRegisters
<1>7. ~(StartRoom \/ StopRoom \/ DeleteRoom \/ StopAllCalled)
  BY <1>1 DEF StartRoom, StopRoom, DeleteRoom, StopAllCalled, Unlocked
<1>8. ASSUME NEW i \in 1..MaxWrites, WriteDone(i) PROVE FALSE
  BY <1>2, <1>8 DEF WriteDone
<1>9. ~Restart
  <2>1. crashes \in Int
    BY Bounds DEF RoomInv, Shape, Rest
  <2>2. QED
    BY <1>1, <2>1 DEF Restart
<1>10. QED
  BY <1>3, <1>4, <1>5, <1>6, <1>7, <1>8, <1>9 DEF RoomNext

\* When StopAllActiveRooms clears the pending flag after all workers of the
\* RoomState had ended, no write of it is left, and the row is the one it has
\* reasserted unless another RoomState was created: however workers, writes that
\* fail or overtake one another, timeouts and CreateRoom interleave with it.
THEOREM StopIsReasserted == RoomSpec => ReassertedLast
<1>1. ASSUME RoomInv, RoomInv', StopKept, [RoomNext]_roomVars, StopRecorded, stopAll.quiet
      PROVE  /\ \A i \in 1..Len(writes') : writes'[i][1] # stopAll.of
             /\ Len(state) = 1 => row' = {stopAll.room}
  <2>1. row' = row /\ writes' = writes
    BY <1>1, RecordedBy
  <2>2. QED
    BY <1>1, <2>1 DEF StopRecorded, StopKept, Quiet
<1>2. ASSUME RoomInv, RoomInv', StopKept, [RoomNext]_roomVars
      PROVE  [ StopRecorded /\ stopAll.quiet
               => /\ \A i \in 1..Len(writes') : writes'[i][1] # stopAll.of
                  /\ Len(state) = 1 => row' = {stopAll.room} ]_roomVars
  BY <1>1, <1>2
<1>3. QED
  BY <1>2, RoomStart, RoomStep, StopKeptStart, StopKeptStep, PTL DEF RoomSpec, ReassertedLast
=============================================================================
