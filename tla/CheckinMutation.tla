-------------------------- MODULE CheckinMutation --------------------------
(***************************************************************************)
(* The check-in of students of one session: TeacherService.Checkin, the    *)
(* rows of checkin_mutation_requests, the advisory lock per student, the   *)
(* write to Humanix (ClassroomClient.ToggleCheckin) and the snapshot that  *)
(* verifies it.                                                            *)
(*                                                                         *)
(* A request is one delivery; deliveries with the same key are retries.    *)
(* The snapshot of the session is refreshed by runs that read the roster   *)
(* at one time and commit it later (module ScrapeRun); RefreshNow is done  *)
(* as soon as one commits, whenever that run read the roster.  Every       *)
(* statement takes a connection of the pool for a moment; the lock keeps   *)
(* one until it is released, and so does waiting for it.                   *)
(***************************************************************************)
EXTENDS Integers, FiniteSets

CONSTANTS
  Req, Key, Student, NoReq,
  KeyOf, StudentOf, Desired,   \* [Req -> Key], [Req -> Student], [Req -> BOOLEAN]
  Expected,                    \* [Req -> SUBSET Nat]: {} or {ExpectedSnapshotVersion}
  PoolSize,
  MaxVersion,                  \* bound on snapshot versions
  MaxSeq                       \* bound on validations

ASSUME CheckinAssumption ==
  /\ NoReq \notin Req
  /\ IsFiniteSet(Req)
  /\ KeyOf \in [Req -> Key] /\ StudentOf \in [Req -> Student]
  /\ Desired \in [Req -> BOOLEAN]
  /\ Expected \in [Req -> SUBSET Nat]
  /\ PoolSize \in Nat /\ MaxVersion \in Nat /\ MaxSeq \in Nat

VARIABLES
  roster,   \* Humanix: [Student -> BOOLEAN]
  snap,     \* the current snapshot: version (0 without snapshot reads), roster, and
            \* the writes before its fetch
  fetch,    \* {} or {what a run has fetched and not committed}
  seq,      \* validation_seq of the session's target
  lock,     \* [Student -> Req]: advisory locks
  key,      \* rows of checkin_mutation_requests
  req,      \* the requests
  writes,   \* history: [Key -> Nat]: writes that reached Humanix
  truth     \* history: values the student had while the request was under way

checkinVars == <<roster, snap, fetch, seq, lock, key, req, writes, truth>>

Phase == {"start", "waiting", "locked", "reserved", "write", "verify", "refreshing",
          "refreshed", "done"}
Status == {"none", "reserved", "confirmed", "pending_verification", "failed"}
Answer == {"none", "confirmed", "already_satisfied", "pending_verification", "failed",
           "conflict", "error"}
View == [version: 0..MaxVersion, checked: [Student -> BOOLEAN], after: SUBSET Req]

CheckinTypeOK ==
  /\ roster \in [Student -> BOOLEAN]
  /\ snap \in View
  /\ fetch \in {{}} \cup {{v} : v \in View}
  /\ seq \in 0..MaxSeq
  /\ lock \in [Student -> Req \cup {NoReq}]
  /\ key \in [Key -> [status: Status, desired: SUBSET BOOLEAN, response: Answer]]
  /\ req \in [Req -> [phase: Phase, attempt: 0..2, baseline: 0..MaxSeq,
                      answer: Answer, replay: BOOLEAN, seen: BOOLEAN]]
  /\ writes \in [Key -> 0..Cardinality(Req)]
  /\ truth \in [Req -> SUBSET BOOLEAN]

CheckinInit ==
  /\ roster \in [Student -> BOOLEAN]
  /\ \/ snap = [version |-> 0, checked |-> [s \in Student |-> FALSE], after |-> {}]
     \/ \E checked \in [Student -> BOOLEAN] :
          snap = [version |-> 1, checked |-> checked, after |-> {}]
  /\ fetch = {}
  /\ seq = 0
  /\ lock = [s \in Student |-> NoReq]
  /\ key = [k \in Key |-> [status |-> "none", desired |-> {}, response |-> "none"]]
  /\ req = [r \in Req |-> [phase |-> "start", attempt |-> 0, baseline |-> 0,
                           answer |-> "none", replay |-> FALSE, seen |-> FALSE]]
  /\ writes = [k \in Key |-> 0]
  /\ truth = [r \in Req |-> {}]

(* SNAPSHOT_READS_ENABLED *)
SnapshotMode == snap.version > 0

In(r, phase) == req[r].phase = phase
Goto(r, phase) == req' = [req EXCEPT ![r].phase = phase]

(* A connection is held while waiting for a lock and until its release *)
Busy == {r \in Req : ~In(r, "start") /\ ~In(r, "done")}
Connection == Cardinality(Busy) < PoolSize

(* The answer; the deferred release of the lock *)
Reply(r, answer, replay) ==
  /\ req' = [req EXCEPT ![r].phase = "done", ![r].answer = answer, ![r].replay = replay]
  /\ lock' = [lock EXCEPT ![StudentOf[r]] = IF @ = r THEN NoReq ELSE @]

(* Confirm-, Mark-Pending and -Failed: only from reserved; errors are ignored *)
Mark(r, status, response) ==
  \/ key' = [key EXCEPT ![KeyOf[r]] =
               IF @.status = "reserved" THEN [@ EXCEPT !.status = status, !.response = response]
                                        ELSE @]
  \/ UNCHANGED key

----------------------------------------------------------------------------
(* AcquireCheckinLock: begin a transaction, then wait in it for the lock *)

Begin(r) ==
  /\ In(r, "start")
  /\ Connection
  /\ Goto(r, "waiting")
  /\ truth' = [truth EXCEPT ![r] = {roster[StudentOf[r]]}]
  /\ UNCHANGED <<roster, snap, fetch, seq, lock, key, writes>>

Lock(r) ==
  /\ In(r, "waiting")
  /\ lock[StudentOf[r]] = NoReq
  /\ lock' = [lock EXCEPT ![StudentOf[r]] = r]
  /\ Goto(r, "locked")
  /\ UNCHANGED <<roster, snap, fetch, seq, key, writes, truth>>

(* The connection of the lock breaks; its request does not notice *)
LockLost(r) ==
  /\ lock[StudentOf[r]] = r
  /\ lock' = [lock EXCEPT ![StudentOf[r]] = NoReq]
  /\ UNCHANGED <<roster, snap, fetch, seq, key, req, writes, truth>>

(* storedCheckinResult *)
Stored(row) ==
  IF row.status = "failed" THEN "failed"
  ELSE IF row.response = "none" THEN "pending_verification" ELSE row.response

(* Variant: a key that is merely reserved is taken over *)
ReserveTakesOver(r) ==
  LET row == key[KeyOf[r]] IN
  /\ In(r, "locked")
  /\ Connection
  /\ IF row.status \in {"none", "reserved"}
       THEN /\ key' = [key EXCEPT ![KeyOf[r]] = [status |-> "reserved",
                         desired |-> {Desired[r]}, response |-> "none"]]
            /\ Goto(r, "reserved")
            /\ UNCHANGED lock
       ELSE /\ Reply(r, IF row.desired = {Desired[r]} THEN Stored(row) ELSE "conflict", TRUE)
            /\ UNCHANGED key
  /\ UNCHANGED <<roster, snap, fetch, seq, writes, truth>>

(* ReserveIdempotencyKey, and the answer to a key that exists *)
Reserve(r) ==
  LET row == key[KeyOf[r]] IN
  /\ In(r, "locked")
  /\ Connection
  /\ IF row.status = "none"
       THEN /\ key' = [key EXCEPT ![KeyOf[r]] = [status |-> "reserved",
                         desired |-> {Desired[r]}, response |-> "none"]]
            /\ Goto(r, "reserved")
            /\ UNCHANGED lock
       ELSE /\ Reply(r, IF row.desired = {Desired[r]} THEN Stored(row) ELSE "conflict", TRUE)
            /\ UNCHANGED key
  /\ UNCHANGED <<roster, snap, fetch, seq, writes, truth>>

----------------------------------------------------------------------------
(* currentCheckinState: what the reader says of the student *)
Read(r) == IF SnapshotMode THEN snap.checked[StudentOf[r]] ELSE roster[StudentOf[r]]

(* Variant: an early return without the release of the lock *)
ReadStateKeepsLock(r) ==
  /\ In(r, "reserved")
  /\ Connection
  /\ IF Read(r) = Desired[r]
       THEN /\ req' = [req EXCEPT ![r].phase = "done", ![r].answer = "already_satisfied"]
            /\ Mark(r, "confirmed", "already_satisfied")
       ELSE Goto(r, "write") /\ UNCHANGED key
  /\ UNCHANGED <<roster, snap, fetch, seq, lock, writes, truth>>

ReadState(r) ==
  /\ In(r, "reserved")
  /\ Connection
  /\ IF Read(r) = Desired[r]
       THEN Reply(r, "already_satisfied", FALSE) /\ Mark(r, "confirmed", "already_satisfied")
       ELSE IF SnapshotMode /\ Expected[r] # {} /\ snap.version \notin Expected[r]
         THEN Reply(r, "conflict", FALSE) /\ UNCHANGED key
         ELSE Goto(r, "write") /\ UNCHANGED <<key, lock>>
  /\ UNCHANGED <<roster, snap, fetch, seq, writes, truth>>

(* student_state_error: unknown student, no snapshot, a failing read *)
ReadFails(r) ==
  /\ In(r, "reserved")
  /\ Reply(r, "error", FALSE)
  /\ Mark(r, "failed", "none")
  /\ UNCHANGED <<roster, snap, fetch, seq, writes, truth>>

(* doToggleCheckin reaches Humanix; the second attempt after a login page   *)
(* is part of the one write                                                 *)
Written(r) ==
  LET s == StudentOf[r] IN
  /\ roster' = [roster EXCEPT ![s] = Desired[r]]
  /\ writes' = [writes EXCEPT ![KeyOf[r]] = @ + 1]
  /\ truth' = [q \in Req |-> IF StudentOf[q] = s /\ q \in Busy
                               THEN truth[q] \cup {Desired[r]} ELSE truth[q]]

(* An answer 200, with or without effect *)
WriteAccepted(r) ==
  /\ In(r, "write")
  /\ Goto(r, "verify")
  /\ Written(r) \/ UNCHANGED <<roster, writes, truth>>
  /\ UNCHANGED <<snap, fetch, seq, lock, key>>

(* An error: Humanix has refused, or its answer is lost *)
WriteFails(r) ==
  /\ In(r, "write")
  /\ Connection
  /\ Written(r) \/ UNCHANGED <<roster, writes, truth>>
  /\ Reply(r, "failed", FALSE)
  /\ Mark(r, "failed", "none")
  /\ UNCHANGED <<snap, fetch, seq>>

----------------------------------------------------------------------------
(* The two attempts to verify *)

(* What a run fetches now *)
Fetched ==
  {[version |-> snap.version, checked |-> roster,
    after |-> {r \in Req : req[r].phase \in {"verify", "refreshing", "refreshed"}}]}

(* RefreshNow starts a run or waits for the one under way *)
Refresh(r) ==
  /\ SnapshotMode
  /\ In(r, "verify")
  /\ Connection
  /\ req[r].attempt < 2
  /\ seq < MaxSeq
  /\ req' = [req EXCEPT ![r].phase = "refreshing", ![r].attempt = @ + 1, ![r].baseline = seq]
  /\ fetch' = IF fetch = {} THEN Fetched ELSE fetch
  /\ UNCHANGED <<roster, snap, seq, lock, key, writes, truth>>

Refreshed(r) ==
  /\ In(r, "refreshing")
  /\ seq > req[r].baseline
  /\ Goto(r, "refreshed")
  /\ UNCHANGED <<roster, snap, fetch, seq, lock, key, writes, truth>>

RefreshFails(r) ==
  /\ In(r, "refreshing")
  /\ Goto(r, "verify")
  /\ UNCHANGED <<roster, snap, fetch, seq, lock, key, writes, truth>>

(* Without snapshots each attempt reads the roster itself *)
LiveAttempt(r) ==
  /\ ~SnapshotMode
  /\ In(r, "verify")
  /\ req[r].attempt < 2
  /\ req' = [req EXCEPT ![r].phase = "refreshed", ![r].attempt = @ + 1]
  /\ UNCHANGED <<roster, snap, fetch, seq, lock, key, writes, truth>>

Subsequent(r) == ~SnapshotMode \/ r \in snap.after

(* Variant: the answer 200 is taken for the confirmation *)
VerifyTrusts(r) ==
  /\ In(r, "refreshed")
  /\ Connection
  /\ req' = [req EXCEPT ![r].phase = "done", ![r].answer = "confirmed",
                        ![r].seen = Subsequent(r) /\ Read(r) = Desired[r]]
  /\ lock' = [lock EXCEPT ![StudentOf[r]] = IF @ = r THEN NoReq ELSE @]
  /\ Mark(r, "confirmed", "confirmed")
  /\ UNCHANGED <<roster, snap, fetch, seq, writes, truth>>

Verify(r) ==
  /\ In(r, "refreshed")
  /\ Connection
  /\ IF Read(r) = Desired[r]
       THEN /\ req' = [req EXCEPT ![r].phase = "done", ![r].answer = "confirmed",
                                  ![r].seen = Subsequent(r)]
            /\ lock' = [lock EXCEPT ![StudentOf[r]] = IF @ = r THEN NoReq ELSE @]
            /\ Mark(r, "confirmed", "confirmed")
       ELSE Goto(r, "verify") /\ UNCHANGED <<key, lock>>
  /\ UNCHANGED <<roster, snap, fetch, seq, writes, truth>>

(* Variant: the row is marked failed while the answer is pending *)
VerifyEndsFailed(r) ==
  /\ In(r, "verify")
  /\ Connection
  /\ req[r].attempt = 2 \/ (SnapshotMode /\ seq = MaxSeq)
  /\ Reply(r, "pending_verification", FALSE)
  /\ Mark(r, "failed", "none")
  /\ UNCHANGED <<roster, snap, fetch, seq, writes, truth>>

(* Both attempts are used up: MarkIdempotencyKeyPending and SetDueNow *)
VerifyEnds(r) ==
  /\ In(r, "verify")
  /\ Connection
  /\ req[r].attempt = 2 \/ (SnapshotMode /\ seq = MaxSeq)
  /\ Reply(r, "pending_verification", FALSE)
  /\ Mark(r, "pending_verification", "pending_verification")
  /\ UNCHANGED <<roster, snap, fetch, seq, writes, truth>>

----------------------------------------------------------------------------
(* The client is gone or the process dies: no answer, no mark.  A write     *)
(* under way may still arrive.                                              *)
Abandoned(r) ==
  /\ r \in Busy
  /\ Reply(r, "error", FALSE)
  /\ (In(r, "write") /\ Written(r)) \/ UNCHANGED <<roster, writes, truth>>
  /\ UNCHANGED <<snap, fetch, seq, key>>

(* A scheduled run of the session's target *)
FetchStarts ==
  /\ SnapshotMode
  /\ fetch = {}
  /\ seq < MaxSeq
  /\ fetch' = Fetched
  /\ UNCHANGED <<roster, snap, seq, lock, key, req, writes, truth>>

FetchCommits ==
  /\ \E v \in fetch :
       snap' = [v EXCEPT !.version = IF v.checked = snap.checked THEN snap.version
                                     ELSE snap.version + 1]
  /\ fetch' = {}
  /\ seq' = seq + 1
  /\ UNCHANGED <<roster, lock, key, req, writes, truth>>

FetchFails ==
  /\ fetch # {}
  /\ fetch' = {}
  /\ UNCHANGED <<roster, snap, seq, lock, key, req, writes, truth>>

(* Students scan the QR code, staff use Humanix *)
RosterChanges(s) ==
  /\ roster' = [roster EXCEPT ![s] = ~@]
  /\ truth' = [q \in Req |-> IF StudentOf[q] = s /\ q \in Busy THEN BOOLEAN ELSE truth[q]]
  /\ UNCHANGED <<snap, fetch, seq, lock, key, req, writes>>

Handler(r) ==
  \/ Begin(r) \/ Lock(r) \/ Reserve(r) \/ ReadState(r) \/ ReadFails(r)
  \/ WriteAccepted(r) \/ WriteFails(r)
  \/ Refresh(r) \/ Refreshed(r) \/ RefreshFails(r) \/ LiveAttempt(r) \/ Verify(r) \/ VerifyEnds(r)

CheckinNext ==
  \/ \E r \in Req : Handler(r) \/ LockLost(r) \/ Abandoned(r)
  \/ FetchStarts \/ FetchCommits \/ FetchFails
  \/ \E s \in Student : RosterChanges(s)

CheckinSpec == CheckinInit /\ [][CheckinNext]_checkinVars

(* A handler goes on as long as it can.  Connections and advisory locks are *)
(* handed out in order, so one that is free again and again is obtained.    *)
CheckinFairness == \A r \in Req : SF_checkinVars(Handler(r))

FairCheckinSpec == CheckinSpec /\ CheckinFairness

----------------------------------------------------------------------------
(* "Repeated delivery of one idempotency key never sends a second Humanix   *)
(* write" (the plan of the check-in undo), also when the lock is lost, when *)
(* a delivery is abandoned half way and when marking the key fails.         *)
OneWritePerKey == \A k \in Key : writes[k] <= 1

(* A retry that is told an outcome is told the outcome its first delivery   *)
(* was told, if that one was answered at all (storedCheckinResult).         *)
ReplaysAgree ==
  \A p, q \in Req :
    /\ KeyOf[p] = KeyOf[q] /\ In(p, "done") /\ In(q, "done")
    /\ req[p].replay /\ ~req[q].replay
    /\ req[p].answer \in {"confirmed", "already_satisfied", "failed"}
    => req[q].answer \in {req[p].answer, "error"}

(* "Confirmation means a subsequent Humanix roster read contains the same   *)
(* student UUID in the requested state": without snapshot reads, the read   *)
(* that confirms comes after the write.                                     *)
ConfirmedSubsequently ==
  \A r \in Req : ~SnapshotMode /\ req[r].answer = "confirmed" /\ ~req[r].replay => req[r].seen

(* An attendance that is reported as already satisfied was so while the     *)
(* request was under way (Checkin "verifies the result against the          *)
(* authoritative Humanix roster before confirming it"), without snapshot    *)
(* reads.                                                                   *)
SatisfiedWasTrue ==
  \A r \in Req :
    ~SnapshotMode /\ req[r].answer = "already_satisfied" /\ ~req[r].replay => Desired[r] \in truth[r]

(* A write reported as failed was not applied: one whose outcome is         *)
(* ambiguous is to be pending ("upstream was attempted but outcome is       *)
(* ambiguous", MarkIdempotencyKeyPending).                                  *)
FailedWasRefused ==
  \A r \in Req : req[r].answer = "failed" => writes[KeyOf[r]] = 0

(* Every request is answered: the lock serializes the changes of one        *)
(* student "but allows different students through".                         *)
EveryRequestAnswered == \A r \in Req : In(r, "waiting") ~> In(r, "done")
============================================================================
