---------------------------- MODULE CheckinProofs ----------------------------
(***************************************************************************)
(* Check-ins for any number of deliveries, keys and students: with locks   *)
(* that get lost, deliveries abandoned half way and marks that fail.  One  *)
(* write per key: a key leaves the status none once and for all, and only  *)
(* the delivery that took it out may write, once; the advisory lock plays  *)
(* no part.  Retries are told what the first delivery was told: the row of *)
(* a key says that or nothing.  Without snapshot reads the read that       *)
(* confirms a check-in comes after its write.                              *)
(***************************************************************************)
EXTENDS CheckinMutation, TLAPS

RequestRec == [phase : Phase, attempt : Nat, baseline : Nat, answer : Answer,
               replay : BOOLEAN, seen : BOOLEAN]
KeyRow == [status : Status, desired : SUBSET BOOLEAN, response : Answer]

Shape ==
    /\ req \in [Req -> RequestRec]
    /\ key \in [Key -> KeyRow]
    /\ writes \in [Key -> Nat]
    /\ seq \in Nat

\* The delivery has taken its key and has not sent its write.
Owns(r) == req[r].phase \in {"reserved", "write"}

Ownership ==
    /\ \A k \in Key : writes[k] <= 1
    /\ \A k \in Key : key[k].status = "none" =>
          writes[k] = 0 /\ \A r \in Req : KeyOf[r] = k => ~Owns(r)
    /\ \A r \in Req : Owns(r) => writes[KeyOf[r]] = 0
    /\ \A p, q \in Req : Owns(p) /\ Owns(q) /\ p # q => KeyOf[p] # KeyOf[q]

CheckinInv == Shape /\ Ownership

NoNewOwner == \A q \in Req : Owns(q)' => Owns(q)
NoKeyFreed == \A k \in Key : key'[k].status = "none" => key[k].status = "none"

LEMMA CheckinStart == CheckinInit => CheckinInv
<1> SUFFICES ASSUME CheckinInit PROVE CheckinInv
  OBVIOUS
<1>1. Shape
  BY DEF CheckinInit, Shape, RequestRec, KeyRow, Phase, Status, Answer
<1>2. Ownership
  BY CheckinAssumption DEF CheckinInit, Ownership, Owns
<1> QED
  BY <1>1, <1>2 DEF CheckinInv

\* A step that makes nobody an owner, frees no key and writes nothing.
LEMMA QuietStep ==
    ASSUME Shape, Ownership, NoNewOwner, NoKeyFreed, writes' = writes
    PROVE  Ownership'
BY DEF Ownership, NoNewOwner, NoKeyFreed

\* A step in which the owner of a key writes and is no owner any more.
LEMMA WritingStep ==
    ASSUME Shape, Ownership, NoNewOwner, NoKeyFreed,
           NEW r \in Req, Owns(r), ~Owns(r)',
           writes' = [writes EXCEPT ![KeyOf[r]] = @ + 1]
    PROVE  Ownership'
<1>1. KeyOf[r] \in Key /\ writes[KeyOf[r]] = 0 /\ key[KeyOf[r]].status # "none"
  BY CheckinAssumption DEF Ownership
<1>2. writes'[KeyOf[r]] = 1 /\ \A k \in Key : k # KeyOf[r] => writes'[k] = writes[k]
  BY <1>1 DEF Shape
<1>3. \A k \in Key : writes'[k] <= 1
  BY <1>2 DEF Ownership
<1>4. \A k \in Key : key'[k].status = "none" =>
         writes'[k] = 0 /\ \A q \in Req : KeyOf[q] = k => ~Owns(q)'
  BY <1>1, <1>2 DEF Ownership, NoKeyFreed, NoNewOwner
<1>5. \A q \in Req : Owns(q)' => writes'[KeyOf[q]] = 0
  BY <1>1, <1>2, CheckinAssumption DEF Ownership, NoNewOwner
<1>6. \A p, q \in Req : Owns(p)' /\ Owns(q)' /\ p # q => KeyOf[p] # KeyOf[q]
  BY DEF Ownership, NoNewOwner
<1> QED
  BY <1>3, <1>4, <1>5, <1>6 DEF Ownership

\* Marking a key keeps its shape and frees nothing.
LEMMA MarkKeeps ==
    ASSUME Shape, NEW r \in Req, NEW status \in Status \ {"none"}, NEW response \in Answer,
           Mark(r, status, response)
    PROVE  key' \in [Key -> KeyRow] /\ NoKeyFreed
<1>1. KeyOf[r] \in Key
  BY CheckinAssumption
<1>2. CASE UNCHANGED key
  BY <1>2 DEF Shape, NoKeyFreed
<1>3. CASE key' = [key EXCEPT ![KeyOf[r]] =
                     IF @.status = "reserved"
                       THEN [@ EXCEPT !.status = status, !.response = response] ELSE @]
  BY <1>1, <1>3 DEF Shape, NoKeyFreed, KeyRow
<1> QED
  BY <1>2, <1>3 DEF Mark

\* Answering a request keeps the shape and makes nobody an owner.
LEMMA ReplyKeeps ==
    ASSUME Shape, NEW r \in Req, NEW answer \in Answer, NEW replay \in BOOLEAN,
           Reply(r, answer, replay)
    PROVE  req' \in [Req -> RequestRec] /\ NoNewOwner /\ ~Owns(r)'
<1> DEFINE after == [req[r] EXCEPT !.phase = "done", !.answer = answer, !.replay = replay]
<1>1. req \in [Req -> RequestRec] /\ req[r] \in RequestRec
  BY DEF Shape
<1>2. after \in RequestRec /\ after.phase = "done"
  BY <1>1 DEF RequestRec, Phase
<1>3. req' = [req EXCEPT ![r] = after]
  BY <1>1 DEF Reply, RequestRec
<1>4. req' \in [Req -> RequestRec]
  BY <1>1, <1>2, <1>3
<1>5. req'[r].phase = "done" /\ \A q \in Req : q # r => req'[q] = req[q]
  BY <1>1, <1>2, <1>3
<1> QED
  BY <1>4, <1>5 DEF NoNewOwner, Owns

\* So does moving a request to a phase that is not an owner's.
LEMMA GotoKeeps ==
    ASSUME Shape, NEW r \in Req, NEW phase \in Phase \ {"reserved", "write"}, Goto(r, phase)
    PROVE  req' \in [Req -> RequestRec] /\ NoNewOwner /\ ~Owns(r)'
BY DEF Shape, Goto, RequestRec, NoNewOwner, Owns

\* A write of r, or none, in a step after which r is no owner.
LEMMA MaybeWritten ==
    ASSUME Shape, Ownership, NoNewOwner, NoKeyFreed,
           NEW r \in Req, ~Owns(r)',
           (In(r, "write") /\ Written(r)) \/ UNCHANGED writes
    PROVE  Ownership' /\ writes' \in [Key -> Nat]
<1>1. CASE UNCHANGED writes
  BY <1>1, QuietStep DEF Shape
<1>2. CASE In(r, "write") /\ Written(r)
  <2>1. Owns(r) /\ writes' = [writes EXCEPT ![KeyOf[r]] = @ + 1]
    BY <1>2 DEF In, Owns, Written
  <2>2. writes' \in [Key -> Nat]
    BY <2>1, CheckinAssumption DEF Shape
  <2> QED
    BY <2>1, <2>2, WritingStep
<1> QED
  BY <1>1, <1>2

\* The only step that makes an owner: the key was free, and is not any more.
LEMMA ReserveKeeps ==
    ASSUME CheckinInv, NEW r \in Req, Reserve(r)
    PROVE  CheckinInv'
<1> DEFINE k == KeyOf[r]
           row == key[k]
<1>1. k \in Key /\ row \in KeyRow /\ Shape /\ Ownership /\ writes' = writes /\ seq' = seq
  BY CheckinAssumption DEF CheckinInv, Shape, Reserve
<1>2. CASE row.status = "none"
  <2>1. /\ key' = [key EXCEPT ![k] = [status |-> "reserved", desired |-> {Desired[r]},
                                      response |-> "none"]]
        /\ req' = [req EXCEPT ![r].phase = "reserved"]
    BY <1>2 DEF Reserve, Goto
  <2>2. req' \in [Req -> RequestRec]
    BY <1>1, <2>1 DEF Shape, RequestRec, Phase
  <2>3. key' \in [Key -> KeyRow]
    BY <1>1, <2>1, CheckinAssumption DEF Shape, KeyRow, Status, Answer
  <2>4. key'[k].status = "reserved" /\ \A j \in Key : j # k => key'[j] = key[j]
    BY <1>1, <2>1 DEF Shape
  <2>5. Owns(r)' /\ \A q \in Req : q # r => Owns(q)' = Owns(q)
    BY <1>1, <2>1 DEF Shape, RequestRec, Owns
  <2>6. writes[k] = 0 /\ \A q \in Req : KeyOf[q] = k => ~Owns(q)
    BY <1>1, <1>2 DEF Ownership
  <2>7. Ownership'
    BY <1>1, <2>4, <2>5, <2>6 DEF Ownership
  <2> QED
    BY <1>1, <2>2, <2>3, <2>7 DEF CheckinInv, Shape
<1>3. CASE row.status # "none"
  <2> DEFINE answer == IF row.desired = {Desired[r]} THEN Stored(row) ELSE "conflict"
  <2>1. answer \in Answer
    BY <1>1 DEF Stored, KeyRow, Answer
  <2>2. Reply(r, answer, TRUE) /\ key' = key
    BY <1>3 DEF Reserve
  <2>3. req' \in [Req -> RequestRec] /\ NoNewOwner
    <3> HIDE DEF answer
    <3> QED
      BY <1>1, <2>1, <2>2, ReplyKeeps
  <2>4. NoKeyFreed
    BY <2>2 DEF NoKeyFreed
  <2>5. Ownership'
    BY <1>1, <2>3, <2>4, QuietStep
  <2> QED
    BY <1>1, <2>2, <2>3, <2>5 DEF CheckinInv, Shape
<1> QED
  BY <1>2, <1>3

LEMMA ReadStateKeeps ==
    ASSUME CheckinInv, NEW r \in Req, ReadState(r)
    PROVE  CheckinInv'
<1>1. Shape /\ Ownership /\ writes' = writes /\ seq' = seq
  BY DEF CheckinInv, ReadState
<1>2. req' \in [Req -> RequestRec] /\ NoNewOwner /\ key' \in [Key -> KeyRow] /\ NoKeyFreed
  <2>1. CASE Reply(r, "already_satisfied", FALSE) /\ Mark(r, "confirmed", "already_satisfied")
    BY <1>1, <2>1, ReplyKeeps, MarkKeeps DEF Answer, Status
  <2>2. CASE Reply(r, "conflict", FALSE) /\ UNCHANGED key
    BY <1>1, <2>2, ReplyKeeps DEF Answer, Shape, NoKeyFreed
  <2>3. CASE Goto(r, "write") /\ UNCHANGED key
    <3>1. req[r].phase = "reserved"
      BY DEF ReadState, In
    <3> QED
      BY <1>1, <2>3, <3>1 DEF Shape, Goto, RequestRec, Phase, NoNewOwner, Owns, NoKeyFreed
  <2> QED
    BY <2>1, <2>2, <2>3 DEF ReadState
<1> QED
  BY <1>1, <1>2, QuietStep DEF CheckinInv, Shape

LEMMA WriteKeeps ==
    ASSUME CheckinInv, NEW r \in Req, WriteAccepted(r) \/ WriteFails(r) \/ Abandoned(r)
    PROVE  CheckinInv'
<1>1. Shape /\ Ownership /\ seq' = seq
  BY DEF CheckinInv, WriteAccepted, WriteFails, Abandoned
<1>2. /\ req' \in [Req -> RequestRec] /\ NoNewOwner /\ ~Owns(r)'
      /\ key' \in [Key -> KeyRow] /\ NoKeyFreed
  <2>1. CASE WriteAccepted(r)
    BY <1>1, <2>1, GotoKeeps DEF WriteAccepted, Phase, Shape, NoKeyFreed
  <2>2. CASE WriteFails(r)
    BY <1>1, <2>2, ReplyKeeps, MarkKeeps DEF WriteFails, Answer, Status
  <2>3. CASE Abandoned(r)
    BY <1>1, <2>3, ReplyKeeps DEF Abandoned, Answer, Shape, NoKeyFreed
  <2> QED
    BY <2>1, <2>2, <2>3
<1>3. (In(r, "write") /\ Written(r)) \/ UNCHANGED writes
  BY DEF WriteAccepted, WriteFails, Abandoned
<1> QED
  BY <1>1, <1>2, <1>3, MaybeWritten DEF CheckinInv, Shape

\* The steps of a request that neither reserve nor write.
LEMMA OtherStepKeeps ==
    ASSUME CheckinInv, NEW r \in Req,
           \/ Begin(r) \/ Lock(r) \/ ReadFails(r) \/ Refresh(r) \/ Refreshed(r)
           \/ RefreshFails(r) \/ LiveAttempt(r) \/ Verify(r) \/ VerifyEnds(r) \/ LockLost(r)
    PROVE  CheckinInv'
<1>1. Shape /\ Ownership /\ writes' = writes /\ seq' = seq
  BY DEF CheckinInv, Begin, Lock, ReadFails, Refresh, Refreshed, RefreshFails, LiveAttempt,
         Verify, VerifyEnds, LockLost
<1>2. key' \in [Key -> KeyRow] /\ NoKeyFreed
  <2>1. CASE UNCHANGED key
    BY <1>1, <2>1 DEF Shape, NoKeyFreed
  <2>2. CASE \/ Mark(r, "failed", "none") \/ Mark(r, "confirmed", "confirmed")
             \/ Mark(r, "pending_verification", "pending_verification")
    BY <1>1, <2>2, MarkKeeps DEF Status, Answer
  <2> QED
    BY <2>1, <2>2 DEF Begin, Lock, ReadFails, Refresh, Refreshed, RefreshFails, LiveAttempt,
                      Verify, VerifyEnds, LockLost
<1>3. req' \in [Req -> RequestRec] /\ NoNewOwner
  <2>1. CASE \/ Goto(r, "waiting") \/ Goto(r, "locked") \/ Goto(r, "refreshed")
             \/ Goto(r, "verify")
    BY <1>1, <2>1, GotoKeeps DEF Phase
  <2>2. CASE \/ Reply(r, "error", FALSE) \/ Reply(r, "pending_verification", FALSE)
    BY <1>1, <2>2, ReplyKeeps DEF Answer
  <2>3. CASE UNCHANGED req
    BY <1>1, <2>3 DEF Shape, NoNewOwner, Owns
  <2>4. CASE Refresh(r) \/ LiveAttempt(r)
    <3>1. CASE Refresh(r)
      <4>1. req' = [req EXCEPT ![r].phase = "refreshing", ![r].attempt = @ + 1,
                               ![r].baseline = seq]
        BY <3>1 DEF Refresh
      <4> QED
        BY <1>1, <4>1 DEF Shape, RequestRec, Phase, NoNewOwner, Owns
    <3>2. CASE LiveAttempt(r)
      <4>1. req' = [req EXCEPT ![r].phase = "refreshed", ![r].attempt = @ + 1]
        BY <3>2 DEF LiveAttempt
      <4> QED
        BY <1>1, <4>1 DEF Shape, RequestRec, Phase, NoNewOwner, Owns
    <3> QED
      BY <2>4, <3>1, <3>2
  <2>5. CASE req' = [req EXCEPT ![r].phase = "done", ![r].answer = "confirmed",
                                ![r].seen = Subsequent(r)]
    <3> DEFINE after == [req[r] EXCEPT !.phase = "done", !.answer = "confirmed",
                                       !.seen = Subsequent(r)]
    <3>1. req \in [Req -> RequestRec] /\ req[r] \in RequestRec
      BY <1>1 DEF Shape
    <3>2. Subsequent(r) \in BOOLEAN
      BY DEF Subsequent
    <3>3. after \in RequestRec /\ after.phase = "done"
      BY <3>1, <3>2 DEF RequestRec, Phase, Answer
    <3>4. req' = [req EXCEPT ![r] = after]
      BY <2>5, <3>1 DEF RequestRec
    <3> HIDE DEF after
    <3>5. req' \in [Req -> RequestRec]
      BY <3>1, <3>3, <3>4
    <3>6. req'[r].phase = "done" /\ \A q \in Req : q # r => req'[q] = req[q]
      BY <3>1, <3>3, <3>4
    <3> QED
      BY <3>5, <3>6 DEF NoNewOwner, Owns
  <2> QED
    BY <2>1, <2>2, <2>3, <2>4, <2>5 DEF Begin, Lock, ReadFails, Refreshed, RefreshFails,
                                        Verify, VerifyEnds, LockLost
<1> QED
  BY <1>1, <1>2, <1>3, QuietStep DEF CheckinInv, Shape

LEMMA CheckinStep == CheckinInv /\ [CheckinNext]_checkinVars => CheckinInv'
<1> SUFFICES ASSUME CheckinInv, [CheckinNext]_checkinVars PROVE CheckinInv'
  OBVIOUS
<1>1. ASSUME NEW r \in Req, Handler(r) PROVE CheckinInv'
  BY <1>1, ReserveKeeps, ReadStateKeeps, WriteKeeps, OtherStepKeeps DEF Handler
<1>2. ASSUME NEW r \in Req, LockLost(r) PROVE CheckinInv'
  BY <1>2, OtherStepKeeps
<1>3. ASSUME NEW r \in Req, Abandoned(r) PROVE CheckinInv'
  BY <1>3, WriteKeeps
<1>4. CASE UNCHANGED <<req, key, writes>> /\ seq' \in Nat
  BY <1>4 DEF CheckinInv, Shape, Ownership, Owns
<1>5. CASE FetchStarts \/ FetchCommits \/ FetchFails \/ \E s \in Student : RosterChanges(s)
  BY <1>4, <1>5 DEF FetchStarts, FetchCommits, FetchFails, RosterChanges, CheckinInv, Shape
<1>6. CASE UNCHANGED checkinVars
  BY <1>4, <1>6 DEF checkinVars, CheckinInv, Shape
<1> QED
  BY <1>1, <1>2, <1>3, <1>5, <1>6 DEF CheckinNext

(* However often a check-in with one idempotency key is delivered, and      *)
(* whatever is lost on the way (the advisory lock, the client, a mark),     *)
(* Checkin sends Humanix at most one write for it.                          *)
THEOREM WritesOnce == CheckinSpec => []OneWritePerKey
<1>1. CheckinInv => OneWritePerKey
  BY DEF CheckinInv, Ownership, OneWritePerKey
<1> QED
  BY <1>1, CheckinStart, CheckinStep, PTL DEF CheckinSpec
-----------------------------------------------------------------------------
\* The delivery has taken its key and is still under way.
Keeps(r) == req[r].phase \in {"reserved", "write", "verify", "refreshing", "refreshed"}

\* The delivery has taken its key, and was not answered by an error.
FirstDelivery(r) == Keeps(r) \/ (In(r, "done") /\ ~req[r].replay /\ req[r].answer # "error")

Settled(row) == row.status \notin {"none", "reserved"}
Outcome == {"confirmed", "already_satisfied", "failed"}

\* What the row of a key says, its first delivery was told; what a retry was
\* told, the row says, and will say.
RowsAgree ==
    /\ \A k \in Key : key[k].status = "reserved" => key[k].response = "none"
    /\ \A r \in Req : FirstDelivery(r) => key[KeyOf[r]].status # "none"
    /\ \A r \in Req : FirstDelivery(r) /\ Settled(key[KeyOf[r]]) =>
          In(r, "done") /\ req[r].answer = Stored(key[KeyOf[r]])
    /\ \A p, q \in Req : FirstDelivery(p) /\ FirstDelivery(q) /\ p # q => KeyOf[p] # KeyOf[q]
    /\ \A r \in Req : In(r, "done") /\ req[r].replay /\ req[r].answer \in Outcome =>
          Settled(key[KeyOf[r]]) /\ Stored(key[KeyOf[r]]) = req[r].answer
    /\ \A r \in Req : ~In(r, "done") => ~req[r].replay

ReadView == [version : Nat, checked : [Student -> BOOLEAN], after : SUBSET Req]

\* Without snapshot reads nothing is scraped, so the mode never changes.
ModeKept ==
    /\ roster \in [Student -> BOOLEAN]
    /\ snap \in ReadView
    /\ fetch \subseteq ReadView
    /\ fetch # {} => SnapshotMode
    /\ ConfirmedSubsequently

Others(r) == \A q \in Req \ {r} : req'[q] = req[q]

\* A step of r that leaves the keys alone: nobody takes a key in it, and if r is
\* answered as a retry, it is told what the row says.
LEMMA RowsQuiet ==
    ASSUME Shape, RowsAgree, NEW r \in Req, ~In(r, "done"), Others(r), key' = key,
           FirstDelivery(r)' => Keeps(r), ~In(r, "done")' => ~req'[r].replay,
           In(r, "done")' /\ req'[r].replay /\ req'[r].answer \in Outcome =>
               Settled(key[KeyOf[r]]) /\ Stored(key[KeyOf[r]]) = req'[r].answer
    PROVE  RowsAgree'
<1>1. \A q \in Req : FirstDelivery(q)' => FirstDelivery(q)
  BY DEF Others, FirstDelivery, Keeps, In
<1>2. \A q \in Req : FirstDelivery(q)' /\ Settled(key[KeyOf[q]]) => q # r
  BY DEF RowsAgree, FirstDelivery, Keeps, In
<1>3. \A q \in Req : FirstDelivery(q)' /\ Settled(key[KeyOf[q]]) =>
         In(q, "done")' /\ req'[q].answer = Stored(key[KeyOf[q]])
  BY <1>1, <1>2 DEF RowsAgree, Others, In
<1>4. \A q \in Req : In(q, "done")' /\ req'[q].replay /\ req'[q].answer \in Outcome =>
         Settled(key[KeyOf[q]]) /\ Stored(key[KeyOf[q]]) = req'[q].answer
  BY DEF RowsAgree, Others, In
<1>5. \A q \in Req : ~In(q, "done")' => ~req'[q].replay
  BY DEF RowsAgree, Others, In
<1>6. QED
  BY <1>1, <1>3, <1>4, <1>5 DEF RowsAgree

\* The row of a key is settled by its first delivery only, with its answer.
LEMMA RowsMarked ==
    ASSUME Shape, RowsAgree, NEW r \in Req, Others(r), Keeps(r),
           In(r, "done")', ~req'[r].replay,
           key[KeyOf[r]].status = "reserved", Settled(key'[KeyOf[r]]),
           req'[r].answer \in {"error", Stored(key'[KeyOf[r]])},
           \A k \in Key \ {KeyOf[r]} : key'[k] = key[k]
    PROVE  RowsAgree'
<1>0. KeyOf \in [Req -> Key]
  BY CheckinAssumption
<1>1. \A q \in Req : FirstDelivery(q)' => FirstDelivery(q)
  BY DEF Others, FirstDelivery, Keeps, In
<1>2. \A q \in Req \ {r} : FirstDelivery(q)' => key'[KeyOf[q]] = key[KeyOf[q]]
  BY <1>0, <1>1 DEF RowsAgree, FirstDelivery
<1>3. \A k \in Key : key'[k].status = "reserved" => key'[k].response = "none"
  BY <1>0 DEF RowsAgree, Settled
<1>4. \A q \in Req : FirstDelivery(q)' => key'[KeyOf[q]].status # "none"
  BY <1>0, <1>1, <1>2 DEF RowsAgree, Settled
<1>5. \A q \in Req : FirstDelivery(q)' /\ Settled(key'[KeyOf[q]]) =>
         In(q, "done")' /\ req'[q].answer = Stored(key'[KeyOf[q]])
  BY <1>1, <1>2 DEF RowsAgree, Others, In, FirstDelivery, Keeps
<1>6. \A q \in Req : In(q, "done")' /\ req'[q].replay /\ req'[q].answer \in Outcome =>
         Settled(key'[KeyOf[q]]) /\ Stored(key'[KeyOf[q]]) = req'[q].answer
  BY <1>0 DEF RowsAgree, Others, In, Settled
<1>7. \A q \in Req : ~In(q, "done")' => ~req'[q].replay
  BY DEF RowsAgree, Others, In
<1>8. QED
  BY <1>1, <1>3, <1>4, <1>5, <1>6, <1>7 DEF RowsAgree

LEMMA ReplyTells ==
    ASSUME Shape, NEW r \in Req, NEW answer \in Answer, NEW replay \in BOOLEAN,
           Reply(r, answer, replay)
    PROVE  /\ In(r, "done")' /\ req'[r].answer = answer /\ req'[r].replay = replay
           /\ Others(r)
<1> DEFINE after == [req[r] EXCEPT !.phase = "done", !.answer = answer, !.replay = replay]
<1>1. req \in [Req -> RequestRec] /\ req[r] \in RequestRec
  BY DEF Shape
<1>2. after.phase = "done" /\ after.answer = answer /\ after.replay = replay
  BY <1>1 DEF RequestRec
<1>3. req' = [req EXCEPT ![r] = after]
  BY <1>1 DEF Reply, RequestRec
<1> HIDE DEF after
<1>4. QED
  BY <1>1, <1>2, <1>3 DEF Others, In

\* An answer with its mark, which may be lost.
LEMMA AnsweredAndMarked ==
    ASSUME Shape, RowsAgree, NEW r \in Req, Others(r), Keeps(r),
           In(r, "done")', ~req'[r].replay,
           NEW status \in {"confirmed", "failed", "pending_verification"},
           NEW response \in Answer, Mark(r, status, response),
           status # "failed" => response = req'[r].answer /\ response # "none",
           status = "failed" => req'[r].answer \in {"error", "failed"}
    PROVE  RowsAgree'
<1>1. KeyOf[r] \in Key /\ ~In(r, "done") /\ key[KeyOf[r]] \in KeyRow
  BY CheckinAssumption DEF Keeps, In, Shape
<1>2. CASE key' = key
  BY <1>1, <1>2, RowsQuiet
<1>3. CASE key' = [key EXCEPT ![KeyOf[r]] =
                     IF @.status = "reserved"
                       THEN [@ EXCEPT !.status = status, !.response = response] ELSE @]
  <2>1. key[KeyOf[r]].status = "reserved"
    BY <1>1 DEF RowsAgree, FirstDelivery, Settled
  <2>2. /\ key'[KeyOf[r]].status = status /\ key'[KeyOf[r]].response = response
        /\ \A k \in Key \ {KeyOf[r]} : key'[k] = key[k]
    <3> DEFINE row == [key[KeyOf[r]] EXCEPT !.status = status, !.response = response]
    <3>1. row.status = status /\ row.response = response
      BY <1>1 DEF KeyRow
    <3>2. key' = [key EXCEPT ![KeyOf[r]] = row]
      BY <1>3, <2>1
    <3> HIDE DEF row
    <3>3. QED
      BY <1>1, <3>1, <3>2 DEF Shape
  <2>3. Settled(key'[KeyOf[r]]) /\ req'[r].answer \in {"error", Stored(key'[KeyOf[r]])}
    <3>1. CASE status = "failed"
      BY <2>2, <3>1 DEF Settled, Stored
    <3>2. CASE status # "failed"
      <4>1. Settled(key'[KeyOf[r]]) /\ response # "none" /\ response = req'[r].answer
        BY <2>2, <3>2 DEF Settled
      <4>2. Stored(key'[KeyOf[r]]) = response
        BY <2>2, <3>2, <4>1 DEF Stored
      <4>3. QED
        BY <4>1, <4>2
    <3>3. QED
      BY <3>1, <3>2
  <2>4. QED
    BY <2>1, <2>2, <2>3, RowsMarked
<1>4. QED
  BY <1>2, <1>3 DEF Mark

LEMMA ReserveAgrees ==
    ASSUME Shape, RowsAgree, NEW r \in Req, Reserve(r)
    PROVE  RowsAgree'
<1> DEFINE k == KeyOf[r]
           row == key[k]
<1>1. k \in Key /\ row \in KeyRow /\ KeyOf \in [Req -> Key] /\ req[r].phase = "locked"
  BY CheckinAssumption DEF Shape, Reserve, In
<1>2. CASE row.status = "none"
  <2>1. /\ key' = [key EXCEPT ![k] = [status |-> "reserved", desired |-> {Desired[r]},
                                      response |-> "none"]]
        /\ req' = [req EXCEPT ![r].phase = "reserved"]
    BY <1>2 DEF Reserve, Goto
  <2>2. /\ key'[k].status = "reserved" /\ key'[k].response = "none"
        /\ \A j \in Key \ {k} : key'[j] = key[j]
    BY <1>1, <2>1 DEF Shape
  <2>3. req'[r].phase = "reserved" /\ req'[r].replay = req[r].replay /\ Others(r)
    BY <2>1 DEF Shape, RequestRec, Others
  <2>4. \A q \in Req \ {r} : FirstDelivery(q)' => FirstDelivery(q) /\ KeyOf[q] # k
    BY <1>2, <2>3 DEF RowsAgree, Others, FirstDelivery, Keeps, In
  <2>5. \A j \in Key : key'[j].status = "reserved" => key'[j].response = "none"
    BY <2>2 DEF RowsAgree
  <2>6. \A q \in Req : FirstDelivery(q)' => key'[KeyOf[q]].status # "none"
    BY <1>1, <2>2, <2>4 DEF RowsAgree
  <2>7. \A q \in Req : FirstDelivery(q)' /\ Settled(key'[KeyOf[q]]) =>
           In(q, "done")' /\ req'[q].answer = Stored(key'[KeyOf[q]])
    BY <1>1, <2>2, <2>3, <2>4 DEF RowsAgree, Others, In, Settled
  <2>8. \A p, q \in Req : FirstDelivery(p)' /\ FirstDelivery(q)' /\ p # q => KeyOf[p] # KeyOf[q]
    BY <2>4 DEF RowsAgree
  <2>9. \A q \in Req : In(q, "done")' /\ req'[q].replay /\ req'[q].answer \in Outcome =>
           Settled(key'[KeyOf[q]]) /\ Stored(key'[KeyOf[q]]) = req'[q].answer
    BY <1>1, <1>2, <2>2, <2>3 DEF RowsAgree, Others, In, Settled
  <2>10. \A q \in Req : ~In(q, "done")' => ~req'[q].replay
    BY <1>1, <2>3 DEF RowsAgree, Others, In
  <2>11. QED
    BY <2>5, <2>6, <2>7, <2>8, <2>9, <2>10 DEF RowsAgree
<1>3. CASE row.status # "none"
  <2> DEFINE answer == IF row.desired = {Desired[r]} THEN Stored(row) ELSE "conflict"
  <2>1. answer \in Answer
    BY <1>1 DEF Stored, KeyRow, Answer
  <2>2. Reply(r, answer, TRUE) /\ key' = key
    BY <1>3 DEF Reserve
  <2>3. answer \in Outcome => Stored(row) = answer
    BY DEF Outcome
  <2>4. answer \in Outcome => Settled(row)
    BY <1>1, <1>3 DEF Outcome, Settled, Stored, RowsAgree
  <2> HIDE DEF answer
  <2>5. In(r, "done")' /\ req'[r].answer = answer /\ req'[r].replay /\ Others(r)
    BY <2>1, <2>2, ReplyTells
  <2>6. QED
    BY <1>1, <2>2, <2>3, <2>4, <2>5, RowsQuiet DEF FirstDelivery, Keeps, In
<1>4. QED
  BY <1>2, <1>3

\* A request moves on and has no answer yet.
LEMMA MovedAgrees ==
    ASSUME Shape, RowsAgree, NEW r \in Req, key' = key, Others(r), ~In(r, "done"),
           ~In(r, "done")', Keeps(r)' => Keeps(r), req'[r].replay = req[r].replay
    PROVE  RowsAgree'
BY RowsQuiet DEF FirstDelivery, RowsAgree

LEMMA GotoMoves ==
    ASSUME Shape, NEW r \in Req, NEW phase, Goto(r, phase)
    PROVE  req'[r].phase = phase /\ req'[r].replay = req[r].replay /\ Others(r)
BY DEF Shape, Goto, RequestRec, Others

LEMMA HandlerAgrees ==
    ASSUME Shape, RowsAgree, NEW r \in Req, Handler(r) \/ Abandoned(r)
    PROVE  RowsAgree'
<1>1. CASE \/ Begin(r) \/ Lock(r) \/ WriteAccepted(r) \/ Refreshed(r) \/ RefreshFails(r)
  <2>1. key' = key
    BY <1>1 DEF Begin, Lock, WriteAccepted, Refreshed, RefreshFails
  <2>2. CASE Begin(r)
    BY <2>1, <2>2, GotoMoves, MovedAgrees DEF Begin, Keeps, In
  <2>3. CASE Lock(r)
    BY <2>1, <2>3, GotoMoves, MovedAgrees DEF Lock, Keeps, In
  <2>4. CASE WriteAccepted(r)
    BY <2>1, <2>4, GotoMoves, MovedAgrees DEF WriteAccepted, Keeps, In
  <2>5. CASE Refreshed(r) \/ RefreshFails(r)
    BY <2>1, <2>5, GotoMoves, MovedAgrees DEF Refreshed, RefreshFails, Keeps, In
  <2>6. QED
    BY <1>1, <2>2, <2>3, <2>4, <2>5
<1>2. CASE Reserve(r)
  BY <1>2, ReserveAgrees
<1>3. CASE Refresh(r) \/ LiveAttempt(r)
  <2>1. /\ req[r].phase = "verify" /\ key' = key /\ Others(r)
        /\ req'[r].phase \in {"refreshing", "refreshed"} /\ req'[r].replay = req[r].replay
    BY <1>3 DEF Refresh, LiveAttempt, In, Others, Shape, RequestRec
  <2>2. QED
    BY <2>1, MovedAgrees DEF Keeps, In
<1>4. CASE ReadState(r)
  <2>1. Keeps(r) /\ ~In(r, "done")
    BY <1>4 DEF ReadState, Keeps, In
  <2>2. CASE Reply(r, "already_satisfied", FALSE) /\ Mark(r, "confirmed", "already_satisfied")
    <3>1. In(r, "done")' /\ req'[r].answer = "already_satisfied" /\ ~req'[r].replay /\ Others(r)
      BY <2>2, ReplyTells DEF Answer
    <3>2. QED
      BY <2>1, <2>2, <3>1, AnsweredAndMarked DEF Answer
  <2>3. CASE Reply(r, "conflict", FALSE) /\ UNCHANGED key
    <3>1. In(r, "done")' /\ ~req'[r].replay /\ Others(r)
      BY <2>3, ReplyTells DEF Answer
    <3>2. QED
      BY <2>1, <2>3, <3>1, RowsQuiet
  <2>4. CASE Goto(r, "write") /\ UNCHANGED key
    BY <2>1, <2>4, GotoMoves, MovedAgrees DEF In
  <2>5. QED
    BY <1>4, <2>2, <2>3, <2>4 DEF ReadState
<1>5. CASE ReadFails(r)
  <2>1. Keeps(r) /\ Reply(r, "error", FALSE) /\ Mark(r, "failed", "none")
    BY <1>5 DEF ReadFails, Keeps, In
  <2>2. In(r, "done")' /\ req'[r].answer = "error" /\ ~req'[r].replay /\ Others(r)
    BY <2>1, ReplyTells DEF Answer
  <2>3. QED
    BY <2>1, <2>2, AnsweredAndMarked DEF Answer
<1>6. CASE WriteFails(r)
  <2>1. Keeps(r) /\ Reply(r, "failed", FALSE) /\ Mark(r, "failed", "none")
    BY <1>6 DEF WriteFails, Keeps, In
  <2>2. In(r, "done")' /\ req'[r].answer = "failed" /\ ~req'[r].replay /\ Others(r)
    BY <2>1, ReplyTells DEF Answer
  <2>3. QED
    BY <2>1, <2>2, AnsweredAndMarked DEF Answer
<1>7. CASE VerifyEnds(r)
  <2>1. /\ Keeps(r) /\ Reply(r, "pending_verification", FALSE)
        /\ Mark(r, "pending_verification", "pending_verification")
    BY <1>7 DEF VerifyEnds, Keeps, In
  <2>2. /\ In(r, "done")' /\ req'[r].answer = "pending_verification" /\ ~req'[r].replay
        /\ Others(r)
    BY <2>1, ReplyTells DEF Answer
  <2>3. QED
    BY <2>1, <2>2, AnsweredAndMarked DEF Answer
<1>8. CASE Verify(r)
  <2>1. Keeps(r) /\ ~In(r, "done") /\ ~req[r].replay
    BY <1>8 DEF Verify, Keeps, In, RowsAgree
  <2>2. CASE /\ req' = [req EXCEPT ![r].phase = "done", ![r].answer = "confirmed",
                                   ![r].seen = Subsequent(r)]
             /\ Mark(r, "confirmed", "confirmed")
    <3>1. In(r, "done")' /\ req'[r].answer = "confirmed" /\ ~req'[r].replay /\ Others(r)
      BY <2>1, <2>2 DEF Shape, RequestRec, Others, In
    <3>2. QED
      BY <2>1, <2>2, <3>1, AnsweredAndMarked DEF Answer
  <2>3. CASE Goto(r, "verify") /\ UNCHANGED key
    BY <2>1, <2>3, GotoMoves, MovedAgrees DEF In
  <2>4. QED
    BY <1>8, <2>2, <2>3 DEF Verify
<1>9. CASE Abandoned(r)
  <2>1. ~In(r, "done") /\ Reply(r, "error", FALSE) /\ key' = key
    BY <1>9 DEF Abandoned, Busy
  <2>2. In(r, "done")' /\ req'[r].answer = "error" /\ ~req'[r].replay /\ Others(r)
    BY <2>1, ReplyTells DEF Answer
  <2>3. QED
    BY <2>1, <2>2, RowsQuiet DEF FirstDelivery, Keeps, In
<1>10. QED
  BY <1>1, <1>2, <1>3, <1>4, <1>5, <1>6, <1>7, <1>8, <1>9 DEF Handler

LEMMA AgreementStep ==
    ASSUME Shape, RowsAgree, [CheckinNext]_checkinVars
    PROVE  RowsAgree'
<1>1. CASE UNCHANGED <<req, key>>
  BY <1>1 DEF RowsAgree, FirstDelivery, Keeps, In
<1>2. ASSUME NEW r \in Req, Handler(r) \/ LockLost(r) \/ Abandoned(r)
      PROVE  RowsAgree'
  BY <1>1, <1>2, HandlerAgrees DEF LockLost
<1>3. CASE FetchStarts \/ FetchCommits \/ FetchFails \/ \E s \in Student : RosterChanges(s)
  BY <1>1, <1>3 DEF FetchStarts, FetchCommits, FetchFails, RosterChanges
<1>4. QED
  BY <1>1, <1>2, <1>3 DEF CheckinNext, checkinVars

(* Checkin and storedCheckinResult: a retry that is told an outcome is told *)
(* what the first delivery was told, however the two interleave, and though *)
(* the mark of a key, its lock or either caller may be lost.                *)
THEOREM RetriesAreToldTheSame == CheckinSpec => []ReplaysAgree
<1>1. RowsAgree => ReplaysAgree
  <2>1. ASSUME RowsAgree, NEW p \in Req, NEW q \in Req, KeyOf[p] = KeyOf[q],
               In(p, "done"), req[p].replay, req[p].answer \in Outcome,
               In(q, "done"), ~req[q].replay, req[q].answer # "error"
        PROVE  req[q].answer = req[p].answer
    <3>1. FirstDelivery(q) /\ Settled(key[KeyOf[p]]) /\ Stored(key[KeyOf[p]]) = req[p].answer
      BY <2>1 DEF RowsAgree, FirstDelivery
    <3>2. QED
      BY <2>1, <3>1 DEF RowsAgree
  <2>2. QED
    BY <2>1 DEF ReplaysAgree, Outcome
<1>2. CheckinInit => RowsAgree
  <2>1. ASSUME CheckinInit
        PROVE  /\ \A k \in Key : key[k].status = "none"
               /\ \A r \in Req : req[r].phase = "start" /\ ~req[r].replay
    BY <2>1 DEF CheckinInit
  <2>2. QED
    BY <2>1 DEF RowsAgree, FirstDelivery, Keeps, In
<1>3. CheckinInv => Shape
  BY DEF CheckinInv
<1>4. QED
  BY <1>1, <1>2, <1>3, CheckinStart, CheckinStep, AgreementStep, PTL DEF CheckinSpec

-----------------------------------------------------------------------------
\* Only Verify answers "confirmed" to a delivery that is no retry; no other step
\* changes what a request has seen.
LEMMA ConfirmsByReading ==
    ASSUME Shape, NEW r \in Req, Handler(r) \/ Abandoned(r)
    PROVE  /\ Others(r)
           /\ \/ /\ req'[r].answer = req[r].answer /\ req'[r].replay = req[r].replay
                 /\ req'[r].seen = req[r].seen
              \/ req'[r].answer # "confirmed" \/ req'[r].replay
              \/ req'[r].seen = Subsequent(r)
<1>1. CASE \E phase \in Phase : Goto(r, phase)
  BY <1>1 DEF Goto, Shape, RequestRec, Others
<1>2. CASE \E answer \in Answer \ {"confirmed"} : Reply(r, answer, FALSE)
  BY <1>2, ReplyTells
<1>3. CASE Reserve(r)
  <2>1. CASE key[KeyOf[r]].status = "none"
    BY <1>1, <1>3, <2>1 DEF Reserve, Phase
  <2>2. CASE key[KeyOf[r]].status # "none"
    <3> DEFINE row == key[KeyOf[r]]
               answer == IF row.desired = {Desired[r]} THEN Stored(row) ELSE "conflict"
    <3>1. row \in KeyRow
      BY CheckinAssumption DEF Shape
    <3>2. answer \in Answer
      BY <3>1 DEF Stored, KeyRow, Answer
    <3>3. Reply(r, answer, TRUE)
      BY <1>3, <2>2 DEF Reserve
    <3> HIDE DEF answer
    <3>4. QED
      BY <3>2, <3>3, ReplyTells
  <2>3. QED
    BY <2>1, <2>2
<1>4. CASE Refresh(r)
  <2>1. req' = [req EXCEPT ![r].phase = "refreshing", ![r].attempt = @ + 1, ![r].baseline = seq]
    BY <1>4 DEF Refresh
  <2>2. QED
    BY <2>1 DEF Shape, RequestRec, Others
<1>5. CASE LiveAttempt(r)
  <2>1. req' = [req EXCEPT ![r].phase = "refreshed", ![r].attempt = @ + 1]
    BY <1>5 DEF LiveAttempt
  <2>2. QED
    BY <2>1 DEF Shape, RequestRec, Others
<1>6. CASE Verify(r)
  <2>1. CASE req' = [req EXCEPT ![r].phase = "done", ![r].answer = "confirmed",
                                ![r].seen = Subsequent(r)]
    <3> DEFINE after == [req[r] EXCEPT !.phase = "done", !.answer = "confirmed",
                                       !.seen = Subsequent(r)]
    <3>1. req \in [Req -> RequestRec] /\ req[r] \in RequestRec
      BY DEF Shape
    <3>2. after.seen = Subsequent(r)
      BY <3>1 DEF RequestRec
    <3>3. req' = [req EXCEPT ![r] = after]
      BY <2>1
    <3> HIDE DEF after
    <3>4. QED
      BY <3>1, <3>2, <3>3 DEF Others
  <2>2. CASE Goto(r, "verify")
    BY <1>1, <2>2 DEF Phase
  <2>3. QED
    BY <1>6, <2>1, <2>2 DEF Verify
<1>7. CASE ReadState(r)
  BY <1>1, <1>2, <1>7 DEF ReadState, Answer, Phase
<1>8. CASE Begin(r) \/ Lock(r) \/ WriteAccepted(r) \/ Refreshed(r) \/ RefreshFails(r)
  BY <1>1, <1>8 DEF Begin, Lock, WriteAccepted, Refreshed, RefreshFails, Phase
<1>9. CASE ReadFails(r) \/ WriteFails(r) \/ VerifyEnds(r) \/ Abandoned(r)
  BY <1>2, <1>9 DEF ReadFails, WriteFails, VerifyEnds, Abandoned, Answer
<1>10. QED
  BY <1>3, <1>4, <1>5, <1>6, <1>7, <1>8, <1>9 DEF Handler

LEMMA FetchedView ==
    ASSUME ModeKept
    PROVE  Fetched \subseteq ReadView
BY DEF ModeKept, ReadView, Fetched

\* The snapshot only changes by a run that has read the roster.
LEMMA ViewStep ==
    ASSUME ModeKept, [CheckinNext]_checkinVars
    PROVE  /\ roster' \in [Student -> BOOLEAN] /\ snap' \in ReadView /\ fetch' \subseteq ReadView
           /\ SnapshotMode' = SnapshotMode
           /\ fetch' # {} => SnapshotMode
<1>1. roster' \in [Student -> BOOLEAN]
  <2>1. \/ roster' = roster
        \/ \E r \in Req : roster' = [roster EXCEPT ![StudentOf[r]] = Desired[r]]
        \/ \E s \in Student : roster' = [roster EXCEPT ![s] = ~@]
    BY DEF CheckinNext, Handler, Begin, Lock, Reserve, ReadState, ReadFails, WriteAccepted,
           WriteFails, Written, Refresh, Refreshed, RefreshFails, LiveAttempt, Verify, VerifyEnds,
           LockLost, Abandoned, FetchStarts, FetchCommits, FetchFails, RosterChanges, checkinVars
  <2>2. QED
    BY <2>1, CheckinAssumption DEF ModeKept
<1>2. \/ UNCHANGED <<snap, fetch>>
      \/ SnapshotMode /\ snap' = snap /\ fetch' \in {fetch, Fetched, {}}
      \/ FetchCommits
      \/ FetchFails
  <2>1. ASSUME NEW r \in Req, Refresh(r)
        PROVE  SnapshotMode /\ snap' = snap /\ fetch' \in {fetch, Fetched}
    BY <2>1 DEF Refresh
  <2>2. ASSUME NEW r \in Req, Handler(r) \/ LockLost(r) \/ Abandoned(r), ~Refresh(r)
        PROVE  UNCHANGED <<snap, fetch>>
    BY <2>2 DEF Handler, Begin, Lock, Reserve, ReadState, ReadFails, WriteAccepted, WriteFails,
                Refreshed, RefreshFails, LiveAttempt, Verify, VerifyEnds, LockLost, Abandoned
  <2>3. QED
    BY <2>1, <2>2 DEF CheckinNext, FetchStarts, RosterChanges, checkinVars
<1>3. CASE UNCHANGED <<snap, fetch>>
  BY <1>1, <1>3 DEF ModeKept, SnapshotMode
<1>4. CASE SnapshotMode /\ snap' = snap /\ fetch' \in {fetch, Fetched, {}}
  BY <1>1, <1>4, FetchedView DEF ModeKept, SnapshotMode
<1>5. CASE FetchCommits
  <2>1. PICK v \in fetch : snap' = [v EXCEPT !.version = IF v.checked = snap.checked
                                      THEN snap.version ELSE snap.version + 1]
    BY <1>5 DEF FetchCommits
  <2>2. SnapshotMode /\ v \in ReadView /\ snap \in ReadView /\ fetch' = {}
    BY <1>5, <2>1 DEF ModeKept, FetchCommits
  <2>3. PICK n \in {snap.version, snap.version + 1} : snap' = [v EXCEPT !.version = n]
    BY <2>1
  <2>4. n \in Nat /\ n > 0
    BY <2>2, <2>3 DEF ReadView, SnapshotMode
  <2>5. snap' \in ReadView /\ snap'.version = n
    BY <2>2, <2>3, <2>4 DEF ReadView
  <2>6. QED
    BY <1>1, <2>2, <2>4, <2>5 DEF SnapshotMode
<1>6. CASE FetchFails
  BY <1>1, <1>6 DEF ModeKept, FetchFails, SnapshotMode
<1>7. QED
  BY <1>2, <1>3, <1>4, <1>5, <1>6

LEMMA ModeStep ==
    ASSUME Shape, ModeKept, [CheckinNext]_checkinVars
    PROVE  ModeKept'
<1>1. SnapshotMode' = SnapshotMode /\ ConfirmedSubsequently
  BY ViewStep DEF ModeKept
<1>2. ConfirmedSubsequently'
  <2>1. ASSUME NEW r \in Req, Handler(r) \/ Abandoned(r) PROVE ConfirmedSubsequently'
    BY <1>1, <2>1, ConfirmsByReading DEF ConfirmedSubsequently, Others, Subsequent
  <2>2. CASE UNCHANGED req
    BY <1>1, <2>2 DEF ConfirmedSubsequently
  <2>3. QED
    BY <2>1, <2>2 DEF CheckinNext, LockLost, FetchStarts, FetchCommits, FetchFails,
                      RosterChanges, checkinVars
<1>3. QED
  BY <1>1, <1>2, ViewStep DEF ModeKept

(* Checkin without snapshot reads: what it confirms was read from the       *)
(* Humanix roster after the write, never inferred from the answer to it.    *)
THEOREM ConfirmedByARead == CheckinSpec => []ConfirmedSubsequently
<1>1. ModeKept => ConfirmedSubsequently
  BY DEF ModeKept
<1>2. CheckinInit => ModeKept
  <2>1. ASSUME CheckinInit PROVE ConfirmedSubsequently /\ fetch = {} /\ roster \in [Student -> BOOLEAN]
    BY <2>1 DEF CheckinInit, ConfirmedSubsequently
  <2>2. ASSUME CheckinInit PROVE snap \in ReadView
    <3>1. PICK n \in {0, 1}, checked \in [Student -> BOOLEAN] :
             snap = [version |-> n, checked |-> checked, after |-> {}]
      <4>1. [s \in Student |-> FALSE] \in [Student -> BOOLEAN]
        OBVIOUS
      <4>2. QED
        BY <2>2, <4>1 DEF CheckinInit
    <3>2. QED
      BY <3>1 DEF ReadView
  <2>3. QED
    BY <2>1, <2>2 DEF ModeKept
<1>3. CheckinInv => Shape
  BY DEF CheckinInv
<1>4. QED
  BY <1>1, <1>2, <1>3, CheckinStart, CheckinStep, ModeStep, PTL DEF CheckinSpec

=============================================================================
