------------------------------ MODULE Inflight ------------------------------
(***************************************************************************)
(* inflightGroup: callers that ask for the same key while a read of it is  *)
(* under way share that read.  One key; a call is one producer with a      *)
(* context of its own.  Each action is what Do, run or leave does under    *)
(* g.mu, or one choice of the select in Do.                                *)
(***************************************************************************)
EXTENDS Naturals, Sequences, FiniteSets

CONSTANTS
  Waiter,    \* callers of Do
  MaxCalls   \* bound on producers

ASSUME InflightAssumption == IsFiniteSet(Waiter) /\ MaxCalls \in Nat

VARIABLES
  current,   \* g.calls[key]: 0 or the number of a call
  call,      \* the calls in the order of their start
  waiter     \* the callers

inflightVars == <<current, call, waiter>>

Result == {"none", "value", "error", "canceled"}

InflightTypeOK ==
  /\ current \in 0..Len(call)
  /\ call \in Seq([waiters: 0..Cardinality(Waiter), live: BOOLEAN, completed: BOOLEAN,
                   result: Result])
  /\ Len(call) <= MaxCalls
  /\ waiter \in [Waiter -> [phase: {"out", "waiting", "done"}, of: 0..MaxCalls,
                            live: BOOLEAN, result: Result]]

Out == [phase |-> "out", of |-> 0, live |-> TRUE, result |-> "none"]

InflightInit ==
  /\ current = 0
  /\ call = <<>>
  /\ waiter = [c \in Waiter |-> Out]

----------------------------------------------------------------------------
NewCall == [waiters |-> 1, live |-> TRUE, completed |-> FALSE, result |-> "none"]

(* Do up to the select; the producer starts with the first waiter *)
Do(c) ==
  /\ waiter[c].phase = "out"
  /\ IF current = 0
       THEN /\ Len(call) < MaxCalls
            /\ call' = Append(call, NewCall)
            /\ current' = Len(call) + 1
       ELSE /\ call' = [call EXCEPT ![current].waiters = @ + 1]
            /\ UNCHANGED current
  /\ waiter' = [waiter EXCEPT ![c] = [Out EXCEPT !.phase = "waiting", !.of = current']]

(* The waiter's context is cancelled *)
CancelWaiter(c) ==
  /\ waiter[c].phase = "waiting"
  /\ waiter[c].live
  /\ waiter' = [waiter EXCEPT ![c].live = FALSE]
  /\ UNCHANGED <<current, call>>

(* Variant: the abandoned call stays in the map *)
LeaveKeepsCall(c) ==
  LET k == waiter[c].of IN
  /\ waiter[c].phase = "waiting"
  /\ ~waiter[c].live
  /\ waiter' = [waiter EXCEPT ![c].phase = "done", ![c].result = "canceled"]
  /\ IF call[k].completed \/ call[k].waiters = 0
       THEN UNCHANGED call
       ELSE call' = [call EXCEPT ![k].waiters = @ - 1, ![k].live = @ /\ call[k].waiters > 1]
  /\ UNCHANGED current

(* ctx.Done is chosen: leave, and with the last waiter the producer is      *)
(* cancelled and its call forgotten                                         *)
Leave(c) ==
  LET k == waiter[c].of IN
  /\ waiter[c].phase = "waiting"
  /\ ~waiter[c].live
  /\ waiter' = [waiter EXCEPT ![c].phase = "done", ![c].result = "canceled"]
  /\ IF call[k].completed \/ call[k].waiters = 0
       THEN UNCHANGED <<call, current>>
       ELSE /\ call' = [call EXCEPT ![k].waiters = @ - 1, ![k].live = @ /\ call[k].waiters > 1]
            /\ current' = IF call[k].waiters = 1 /\ current = k THEN 0 ELSE current

(* Variant: only the waiter that started the read is woken *)
ReceiveFirst(c) ==
  /\ waiter[c].phase = "waiting"
  /\ call[waiter[c].of].completed
  /\ \A d \in Waiter \ {c} : waiter[d].of # waiter[c].of
  /\ waiter' = [waiter EXCEPT ![c].phase = "done", ![c].result = call[waiter[c].of].result]
  /\ UNCHANGED <<current, call>>

(* call.done is chosen *)
Receive(c) ==
  /\ waiter[c].phase = "waiting"
  /\ call[waiter[c].of].completed
  /\ waiter' = [waiter EXCEPT ![c].phase = "done", ![c].result = call[waiter[c].of].result]
  /\ UNCHANGED <<current, call>>

(* Variant: an abandoned call empties the key even when a newer call has it *)
RunForgetsAny(k) ==
  /\ k \in 1..Len(call)
  /\ ~call[k].completed
  /\ \E r \in {"value", "error"} \cup (IF call[k].live THEN {} ELSE {"canceled"}) :
       call' = [call EXCEPT ![k].completed = TRUE, ![k].result = r]
  /\ current' = 0
  /\ UNCHANGED waiter

(* run: fn returns, fails, panics or notices that it is cancelled *)
Run(k) ==
  /\ k \in 1..Len(call)
  /\ ~call[k].completed
  /\ \E r \in {"value", "error"} \cup (IF call[k].live THEN {} ELSE {"canceled"}) :
       call' = [call EXCEPT ![k].completed = TRUE, ![k].result = r]
  /\ current' = IF current = k THEN 0 ELSE current
  /\ UNCHANGED waiter

Again(c) ==
  /\ waiter[c].phase = "done"
  /\ waiter' = [waiter EXCEPT ![c] = Out]
  /\ UNCHANGED <<current, call>>

InflightNext ==
  \/ \E c \in Waiter : Do(c) \/ CancelWaiter(c) \/ Leave(c) \/ Receive(c) \/ Again(c)
  \/ \E k \in 1..MaxCalls : Run(k)

InflightSpec == InflightInit /\ [][InflightNext]_inflightVars

(* A cancelled producer returns at some time and so does any other: every   *)
(* request has a timeout                                                    *)
FairInflightSpec ==
  /\ InflightSpec
  /\ \A c \in Waiter : WF_inflightVars(Leave(c) \/ Receive(c))
  /\ \A k \in 1..MaxCalls : WF_inflightVars(Run(k))

----------------------------------------------------------------------------
(* A caller whose own context is open never receives the cancellation of    *)
(* others ("A caller that cancels receives its own context error"): it does *)
(* not join a call whose last waiter has left, whichever of leave, run and  *)
(* Do gets the lock first.                                                  *)
NoForeignCancellation ==
  \A c \in Waiter : waiter[c].phase = "done" /\ waiter[c].live => waiter[c].result # "canceled"

(* "every call after a producer exits starts a new upstream read": the read *)
(* a caller shares had not ended when the caller asked, and the waiters a   *)
(* running call counts are those that wait for it.                          *)
SharedWhileRunning ==
  /\ current # 0 => ~call[current].completed /\ call[current].live
  /\ \A k \in 1..Len(call) : ~call[k].completed =>
       call[k].waiters = Cardinality({c \in Waiter : waiter[c].phase = "waiting" /\ waiter[c].of = k})

(* At most one read that somebody still waits for.                          *)
OneLiveProducer ==
  \A j, k \in 1..Len(call) :
    ~call[j].completed /\ call[j].live /\ ~call[k].completed /\ call[k].live => j = k

(* Every waiter gets an answer.                                             *)
EveryCallerAnswered ==
  \A c \in Waiter : waiter[c].phase = "waiting" ~> waiter[c].phase = "done"
=============================================================================
