----------------------------- MODULE HolderProofs -----------------------------
(*****************************************************************************)
(* What the Warwick client holds on to, for any number of callers, reads,    *)
(* sessions and tiers.  The session pool: an index that was taken from the   *)
(* queue of its tier goes back on every path, so a session is in its queue   *)
(* or with one call, and nobody else logs it in meanwhile.  inflightGroup    *)
(* counts the waiters of a shared read, so it is cancelled when the last one *)
(* leaves and not before.                                                    *)
(*****************************************************************************)
EXTENDS SessionPool, Inflight, FiniteSetTheorems, SequenceTheorems, TLAPS

----------------------------------------------------------------------------
\* inflightGroup

Call == [waiters : 0..Cardinality(Waiter), live : BOOLEAN, completed : BOOLEAN, result : Result]
WaiterRec == [phase : {"out", "waiting", "done"}, of : 0..MaxCalls, live : BOOLEAN, result : Result]

Waiting(k) == {c \in Waiter : waiter[c].phase = "waiting" /\ waiter[c].of = k}

\* A call that is under way: the waiters it counts are those that wait, it is
\* live as long as there is one, and then new callers find it under the key.
CallOK(k) ==
    /\ call[k].result = "none"
    /\ call[k].waiters = Cardinality(Waiting(k))
    /\ call[k].live <=> call[k].waiters > 0
    /\ call[k].live => k = current

\* Nobody waits for a call that was cancelled.
WaiterOK(c) ==
    waiter[c].phase = "waiting" =>
        waiter[c].of \in 1..Len(call) /\ call[waiter[c].of].result # "canceled"

InflightInv ==
    /\ InflightTypeOK
    /\ current # 0 => ~call[current].completed /\ call[current].live
    /\ \A k \in 1..Len(call) : ~call[k].completed => CallOK(k)
    /\ \A c \in Waiter : WaiterOK(c)
    /\ NoForeignCancellation

\* Any set of waiters can be counted.
LEMMA WaitersCounted ==
    ASSUME NEW S \in SUBSET Waiter
    PROVE  /\ IsFiniteSet(S)
           /\ Cardinality(S) \in 0..Cardinality(Waiter)
           /\ Cardinality(S) = 0 <=> S = {}
<1>1. IsFiniteSet(Waiter)
  BY InflightAssumption
<1>2. IsFiniteSet(S) /\ Cardinality(S) <= Cardinality(Waiter)
  BY <1>1, FS_Subset
<1>3. Cardinality(S) \in Nat /\ Cardinality(Waiter) \in Nat
  BY <1>1, <1>2, FS_CardinalityType
<1>4. Cardinality(S) = 0 <=> S = {}
  BY <1>2, FS_EmptySet
<1>5. QED
  BY <1>2, <1>3, <1>4

\* The properties of inflightGroup follow from the invariant.
LEMMA InflightInvImplies ==
    InflightInv => SharedWhileRunning /\ OneLiveProducer
<1>1. SUFFICES ASSUME InflightInv PROVE SharedWhileRunning /\ OneLiveProducer
  OBVIOUS
<1>2. SharedWhileRunning
  BY <1>1 DEF InflightInv, SharedWhileRunning, CallOK, Waiting
<1>3. OneLiveProducer
  <2>1. SUFFICES ASSUME NEW j \in 1..Len(call), NEW k \in 1..Len(call),
                        ~call[j].completed, call[j].live, ~call[k].completed, call[k].live
                 PROVE  j = k
    BY DEF OneLiveProducer
  <2>2. CallOK(j) /\ CallOK(k)
    BY <1>1, <2>1 DEF InflightInv
  <2>3. QED
    BY <2>1, <2>2 DEF CallOK
<1>4. QED
  BY <1>2, <1>3

\* A step of one waiter c that leaves the calls alone keeps the invariant if c
\* does not wait afterwards for another call than before, nor stops waiting for
\* one that is under way.
LEMMA WaiterAloneKeeps ==
    ASSUME InflightInv, UNCHANGED <<current, call>>, InflightTypeOK', NEW c \in Waiter,
           \A d \in Waiter \ {c} : waiter'[d] = waiter[d],
           waiter'[c].phase = "waiting" => waiter[c].phase = "waiting" /\ waiter'[c].of = waiter[c].of,
           waiter[c].phase = "waiting" =>
              \/ waiter'[c].phase = "waiting" /\ waiter'[c].of = waiter[c].of
              \/ call[waiter[c].of].completed,
           waiter'[c].phase = "done" /\ waiter'[c].live => waiter'[c].result # "canceled"
    PROVE  InflightInv'
<1> USE DEF InflightInv
<1>1. ASSUME NEW k \in 1..Len(call'), ~call'[k].completed
      PROVE  CallOK(k)'
  <2>1. CallOK(k)
    BY <1>1
  <2>2. Waiting(k)' = Waiting(k)
    BY <1>1 DEF Waiting
  <2>3. QED
    BY <2>1, <2>2 DEF CallOK
<1>2. \A d \in Waiter : WaiterOK(d)'
  BY DEF WaiterOK
<1>3. NoForeignCancellation'
  BY DEF NoForeignCancellation
<1>4. QED
  BY <1>1, <1>2, <1>3

\* A step that replaces the record of one call.
LEMMA CallReplaced ==
    ASSUME call \in Seq(Call), NEW k \in 1..Len(call), NEW e \in Call,
           call' = [call EXCEPT ![k] = e]
    PROVE  /\ call' \in Seq(Call) /\ Len(call') = Len(call) /\ Len(call) \in Nat
           /\ call'[k] = e
           /\ \A j \in 1..Len(call) : j # k => call'[j] = call[j]
BY ExceptSeq, LenProperties

\* What a step makes of the waiters when c starts to wait for call j.
LEMMA Joins ==
    ASSUME InflightTypeOK, NEW c \in Waiter, NEW j \in 0..MaxCalls, waiter[c].phase = "out",
           waiter' = [waiter EXCEPT ![c] = [Out EXCEPT !.phase = "waiting", !.of = j]]
    PROVE  /\ waiter' \in [Waiter -> WaiterRec]
           /\ waiter'[c] = [phase |-> "waiting", of |-> j, live |-> TRUE, result |-> "none"]
           /\ \A d \in Waiter \ {c} : waiter'[d] = waiter[d]
           /\ Cardinality(Waiting(j)') = Cardinality(Waiting(j)) + 1
           /\ Cardinality(Waiting(j)') \in 0..Cardinality(Waiter)
           /\ \A k : k # j => Waiting(k)' = Waiting(k)
<1>1. waiter'[c] = [phase |-> "waiting", of |-> j, live |-> TRUE, result |-> "none"]
  BY DEF InflightTypeOK, Out
<1>2. \A d \in Waiter \ {c} : waiter'[d] = waiter[d]
  BY DEF InflightTypeOK
<1>3. waiter' = [waiter EXCEPT ![c] = waiter'[c]] /\ waiter'[c] \in WaiterRec
  BY <1>1 DEF InflightTypeOK, Result, WaiterRec
<1>4. waiter' \in [Waiter -> WaiterRec]
  BY <1>3 DEF InflightTypeOK, WaiterRec
<1>5. Waiting(j)' = Waiting(j) \cup {c} /\ c \notin Waiting(j)
  BY <1>1, <1>2 DEF Waiting
<1>6. \A k : k # j => Waiting(k)' = Waiting(k)
  BY <1>1, <1>2 DEF Waiting
<1>7. Waiting(j) \in SUBSET Waiter /\ Waiting(j)' \in SUBSET Waiter
  BY DEF Waiting
<1>8. /\ Cardinality(Waiting(j)') = Cardinality(Waiting(j)) + 1
      /\ Cardinality(Waiting(j)') \in 0..Cardinality(Waiter)
  BY <1>5, <1>7, WaitersCounted, FS_AddElement
<1>9. QED
  BY <1>1, <1>2, <1>4, <1>6, <1>8

\* What a step makes of them when c stops waiting for call j.
LEMMA Parts ==
    ASSUME InflightTypeOK, NEW c \in Waiter, NEW j, waiter[c].phase = "waiting",
           waiter[c].of = j, waiter'[c].phase = "done",
           \A d \in Waiter \ {c} : waiter'[d] = waiter[d]
    PROVE  /\ c \in Waiting(j)
           /\ Cardinality(Waiting(j)) > 0
           /\ Cardinality(Waiting(j)') = Cardinality(Waiting(j)) - 1
           /\ \A k : k # j => Waiting(k)' = Waiting(k)
<1>1. Waiting(j)' = Waiting(j) \ {c} /\ c \in Waiting(j)
  BY DEF Waiting
<1>2. \A k : k # j => Waiting(k)' = Waiting(k)
  BY DEF Waiting
<1>3. Waiting(j) \in SUBSET Waiter
  BY DEF Waiting
<1>4. IsFiniteSet(Waiting(j)) /\ Cardinality(Waiting(j)) > 0
  BY <1>1, <1>3, WaitersCounted
<1>5. Cardinality(Waiting(j) \ {c}) = Cardinality(Waiting(j)) - 1
  BY <1>1, <1>4, FS_RemoveElement
<1>6. QED
  BY <1>1, <1>2, <1>4, <1>5

\* Do that joins the call under way.
LEMMA JoinKeeps ==
    ASSUME InflightInv, NEW c \in Waiter, Do(c), current # 0
    PROVE  InflightInv'
<1>1. /\ call \in Seq(Call) /\ Len(call) \in Nat /\ current \in 1..Len(call)
      /\ Len(call) <= MaxCalls /\ MaxCalls \in Nat /\ InflightTypeOK
  BY LenProperties, InflightAssumption DEF InflightInv, InflightTypeOK, Call
<1>2. PICK j \in 1..Len(call) : j = current
  BY <1>1
<1>3. call[j] \in Call /\ ~call[j].completed /\ call[j].live
  BY <1>1, <1>2, ElementOfSeq DEF InflightInv
<1>4. /\ call[j].waiters = Cardinality(Waiting(j)) /\ call[j].result = "none"
      /\ Cardinality(Waiting(j)) \in 0..Cardinality(Waiter)
  BY <1>2, <1>3 DEF InflightInv, CallOK, Call
<1>5. /\ waiter[c].phase = "out" /\ current' = j
      /\ call' = [call EXCEPT ![j].waiters = @ + 1]
      /\ waiter' = [waiter EXCEPT ![c] = [Out EXCEPT !.phase = "waiting", !.of = j]]
  BY <1>2 DEF Do
<1>6. /\ waiter' \in [Waiter -> WaiterRec]
      /\ waiter'[c] = [phase |-> "waiting", of |-> j, live |-> TRUE, result |-> "none"]
      /\ \A d \in Waiter \ {c} : waiter'[d] = waiter[d]
      /\ Cardinality(Waiting(j)') = Cardinality(Waiting(j)) + 1
      /\ Cardinality(Waiting(j)') \in 0..Cardinality(Waiter)
      /\ \A k : k # j => Waiting(k)' = Waiting(k)
  <2>1. j \in 0..MaxCalls
    BY <1>1
  <2>2. QED
    BY <1>1, <1>5, <2>1, Joins
<1> DEFINE e == [call[j] EXCEPT !.waiters = @ + 1]
<1>7. e \in Call /\ call' = [call EXCEPT ![j] = e]
  BY <1>3, <1>4, <1>5, <1>6 DEF Call
<1>8. /\ e.waiters = Cardinality(Waiting(j)') /\ e.live = call[j].live
      /\ e.completed = call[j].completed /\ e.result = call[j].result
  BY <1>3, <1>4, <1>6 DEF Call
<1> HIDE DEF e
<1>9. /\ call' \in Seq(Call) /\ Len(call') = Len(call) /\ call'[j] = e
      /\ \A k \in 1..Len(call) : k # j => call'[k] = call[k]
  BY <1>1, <1>7, CallReplaced
<1>10. InflightTypeOK'
  BY <1>1, <1>5, <1>9, <1>6 DEF InflightTypeOK, Call, WaiterRec
<1>11. current' # 0 => ~call'[current'].completed /\ call'[current'].live
  BY <1>3, <1>5, <1>8, <1>9
<1>12. ASSUME NEW k \in 1..Len(call'), ~call'[k].completed
       PROVE  CallOK(k)'
  <2>1. CASE k = j
    <3>1. Cardinality(Waiting(j)') > 0
      BY <1>4, <1>6
    <3>2. QED
      BY <1>3, <1>4, <1>5, <1>8, <1>9, <2>1, <3>1 DEF CallOK
  <2>2. CASE k # j
    BY <1>2, <1>5, <1>6, <1>9, <1>12, <2>2 DEF CallOK, InflightInv
  <2>3. QED
    BY <2>1, <2>2
<1>13. \A d \in Waiter : WaiterOK(d)'
  <2>1. \A k \in 1..Len(call) : call'[k].result = call[k].result
    BY <1>8, <1>9
  <2>2. QED
    BY <1>4, <1>9, <1>6, <2>1 DEF WaiterOK, InflightInv
<1>14. NoForeignCancellation'
  BY <1>6 DEF NoForeignCancellation, InflightInv
<1>15. QED
  BY <1>10, <1>11, <1>12, <1>13, <1>14 DEF InflightInv

\* Do that starts a call.
LEMMA StartKeeps ==
    ASSUME InflightInv, NEW c \in Waiter, Do(c), current = 0
    PROVE  InflightInv'
<1>1. /\ call \in Seq(Call) /\ Len(call) \in Nat /\ InflightTypeOK
      /\ Len(call) < MaxCalls /\ MaxCalls \in Nat
  BY LenProperties, InflightAssumption DEF InflightInv, InflightTypeOK, Call, Do
<1>2. PICK j \in 0..MaxCalls : j = Len(call) + 1
  BY <1>1
<1>3. /\ waiter[c].phase = "out" /\ current' = j /\ call' = Append(call, NewCall)
      /\ waiter' = [waiter EXCEPT ![c] = [Out EXCEPT !.phase = "waiting", !.of = j]]
  BY <1>2 DEF Do
<1>4. /\ waiter' \in [Waiter -> WaiterRec]
      /\ waiter'[c] = [phase |-> "waiting", of |-> j, live |-> TRUE, result |-> "none"]
      /\ \A d \in Waiter \ {c} : waiter'[d] = waiter[d]
      /\ Cardinality(Waiting(j)') = Cardinality(Waiting(j)) + 1
      /\ Cardinality(Waiting(j)') \in 0..Cardinality(Waiter)
      /\ \A k : k # j => Waiting(k)' = Waiting(k)
  BY <1>1, <1>3, Joins
<1>5. Cardinality(Waiting(j)) = 0
  <2>1. Waiting(j) = {}
    BY <1>1, <1>2 DEF Waiting, InflightInv, WaiterOK
  <2>2. QED
    BY <2>1, FS_EmptySet
<1>6. NewCall \in Call
  BY <1>4, <1>5 DEF NewCall, Call, Result
<1>7. /\ call' \in Seq(Call) /\ Len(call') = j /\ call'[j] = NewCall
      /\ \A k \in 1..Len(call) : call'[k] = call[k]
  BY <1>1, <1>2, <1>3, <1>6
<1>8. InflightTypeOK'
  BY <1>1, <1>2, <1>3, <1>4, <1>7 DEF InflightTypeOK, Call, WaiterRec
<1>9. current' # 0 => ~call'[current'].completed /\ call'[current'].live
  BY <1>3, <1>7 DEF NewCall
<1>10. ASSUME NEW k \in 1..Len(call'), ~call'[k].completed
       PROVE  CallOK(k)'
  <2>1. CASE k = j
    BY <1>3, <1>4, <1>5, <1>7, <2>1 DEF CallOK, NewCall
  <2>2. CASE k # j
    <3>1. k \in 1..Len(call) /\ call'[k] = call[k] /\ Waiting(k)' = Waiting(k)
      BY <1>1, <1>2, <1>4, <1>7, <1>10, <2>2
    <3>2. CallOK(k) /\ k # 0
      BY <1>10, <3>1 DEF InflightInv
    <3>3. QED
      BY <3>1, <3>2 DEF CallOK
  <2>3. QED
    BY <2>1, <2>2
<1>11. \A d \in Waiter : WaiterOK(d)'
  BY <1>1, <1>2, <1>4, <1>7 DEF WaiterOK, InflightInv, NewCall
<1>12. NoForeignCancellation'
  BY <1>4 DEF NoForeignCancellation, InflightInv
<1>13. QED
  BY <1>8, <1>9, <1>10, <1>11, <1>12 DEF InflightInv

\* leave of a call that is under way.
LEMMA LeaveKeeps ==
    ASSUME InflightInv, NEW c \in Waiter, Leave(c), ~call[waiter[c].of].completed
    PROVE  InflightInv'
<1>1. /\ call \in Seq(Call) /\ Len(call) \in Nat /\ InflightTypeOK
      /\ waiter[c].phase = "waiting" /\ ~waiter[c].live /\ current \in 0..Len(call)
  BY LenProperties DEF InflightInv, InflightTypeOK, Call, Leave
<1>2. PICK j \in 1..Len(call) : j = waiter[c].of
  BY <1>1 DEF InflightInv, WaiterOK
<1>3. call[j] \in Call /\ ~call[j].completed /\ CallOK(j)
  BY <1>1, <1>2, ElementOfSeq DEF InflightInv
<1>4. waiter' = [waiter EXCEPT ![c].phase = "done", ![c].result = "canceled"]
  BY DEF Leave
<1>5. /\ waiter'[c].phase = "done" /\ ~waiter'[c].live
      /\ \A d \in Waiter \ {c} : waiter'[d] = waiter[d]
  BY <1>1, <1>4 DEF InflightTypeOK
<1>6. waiter' \in [Waiter -> WaiterRec]
  BY <1>1, <1>4 DEF InflightTypeOK, WaiterRec, Result
<1>7. /\ Cardinality(Waiting(j)) > 0
      /\ Cardinality(Waiting(j)') = Cardinality(Waiting(j)) - 1
      /\ \A k : k # j => Waiting(k)' = Waiting(k)
  BY <1>1, <1>2, <1>5, Parts
<1> DEFINE n == call[j].waiters
<1>8. /\ n \in 0..Cardinality(Waiter) /\ n > 0 /\ n = Cardinality(Waiting(j))
      /\ call[j].live /\ call[j].result = "none"
  BY <1>3, <1>7 DEF CallOK, Call
<1>9. PICK b \in BOOLEAN : (b <=> n > 1) /\ b = (call[j].live /\ n > 1)
  BY <1>8, Zenon
<1>10. /\ call' = [call EXCEPT ![j].waiters = @ - 1, ![j].live = b]
       /\ current' = IF n = 1 /\ current = j THEN 0 ELSE current
  BY <1>2, <1>3, <1>8, <1>9 DEF Leave
<1> DEFINE e == [call[j] EXCEPT !.waiters = n - 1, !.live = b]
<1>11. e \in Call /\ call' = [call EXCEPT ![j] = e]
  <2>1. n - 1 \in 0..Cardinality(Waiter)
    BY <1>8, InflightAssumption, FS_CardinalityType
  <2>2. e \in Call
    <3> HIDE DEF n
    <3>1. QED
      BY <1>3, <2>1 DEF Call
  <2>3. call' = [call EXCEPT ![j] = e]
    BY <1>1, <1>10
  <2>4. QED
    BY <2>2, <2>3
<1>12. e.waiters = n - 1 /\ e.live = b /\ ~e.completed /\ e.result = "none"
  BY <1>3, <1>8 DEF Call
<1> HIDE DEF e
<1>13. /\ call' \in Seq(Call) /\ Len(call') = Len(call) /\ call'[j] = e
       /\ \A k \in 1..Len(call) : k # j => call'[k] = call[k]
  BY <1>1, <1>11, CallReplaced
<1>14. j = current
  BY <1>3, <1>8 DEF CallOK
<1>15. InflightTypeOK'
  BY <1>1, <1>6, <1>10, <1>13 DEF InflightTypeOK, Call, WaiterRec
<1>16. current' # 0 => ~call'[current'].completed /\ call'[current'].live
  BY <1>3, <1>8, <1>9, <1>10, <1>12, <1>13, <1>14
<1>17. ASSUME NEW k \in 1..Len(call'), ~call'[k].completed
       PROVE  CallOK(k)'
  <2>1. CASE k = j
    <3>1. call'[k].waiters = Cardinality(Waiting(k)') /\ call'[k].result = "none"
      BY <1>3, <1>7, <1>8, <1>12, <1>13, <2>1 DEF CallOK
    <3>2. call'[k].live <=> call'[k].waiters > 0
      BY <1>8, <1>9, <1>12, <1>13, <2>1
    <3>3. call'[k].live => k = current'
      BY <1>8, <1>9, <1>10, <1>12, <1>13, <1>14, <2>1
    <3>4. QED
      BY <3>1, <3>2, <3>3 DEF CallOK
  <2>2. CASE k # j
    <3>1. k \in 1..Len(call) /\ call'[k] = call[k] /\ Waiting(k)' = Waiting(k)
      BY <1>7, <1>13, <1>17, <2>2
    <3>2. CallOK(k)
      BY <1>17, <3>1 DEF InflightInv
    <3>3. ~call[k].live
      BY <1>14, <2>2, <3>2 DEF CallOK
    <3>4. QED
      BY <3>1, <3>2, <3>3 DEF CallOK
  <2>3. QED
    BY <2>1, <2>2
<1>18. \A d \in Waiter : WaiterOK(d)'
  <2>1. \A k \in 1..Len(call) : call'[k].result = call[k].result
    BY <1>8, <1>9, <1>12, <1>13
  <2>2. QED
    BY <1>5, <1>13, <2>1 DEF WaiterOK, InflightInv
<1>19. NoForeignCancellation'
  BY <1>5 DEF NoForeignCancellation, InflightInv
<1>20. QED
  BY <1>15, <1>16, <1>17, <1>18, <1>19 DEF InflightInv

\* The end of a producer.
LEMMA RunKeeps ==
    ASSUME InflightInv, NEW j, Run(j)
    PROVE  InflightInv'
<1>1. /\ call \in Seq(Call) /\ Len(call) \in Nat /\ InflightTypeOK
      /\ current \in 0..Len(call) /\ j \in 1..Len(call) /\ ~call[j].completed
  BY LenProperties DEF InflightInv, InflightTypeOK, Call, Run
<1>2. call[j] \in Call /\ CallOK(j)
  BY <1>1, ElementOfSeq DEF InflightInv
<1>3. PICK r \in {"value", "error", "canceled"} :
         /\ r = "canceled" => ~call[j].live
         /\ call' = [call EXCEPT ![j].completed = TRUE, ![j].result = r]
  BY DEF Run
<1>4. current' = (IF current = j THEN 0 ELSE current) /\ waiter' = waiter
  BY DEF Run
<1> DEFINE e == [call[j] EXCEPT !.completed = TRUE, !.result = r]
<1>5. e \in Call /\ call' = [call EXCEPT ![j] = e]
  BY <1>1, <1>2, <1>3 DEF Call, Result
<1>6. e.completed /\ e.result = r
  BY <1>2 DEF Call
<1> HIDE DEF e
<1>7. /\ call' \in Seq(Call) /\ Len(call') = Len(call) /\ call'[j] = e
      /\ \A k \in 1..Len(call) : k # j => call'[k] = call[k]
  BY <1>1, <1>5, CallReplaced
<1>8. \A k : Waiting(k)' = Waiting(k)
  BY <1>4 DEF Waiting
<1>9. r = "canceled" => Waiting(j) = {}
  <2>1. Waiting(j) \in SUBSET Waiter
    BY DEF Waiting
  <2>2. /\ Cardinality(Waiting(j)) \in 0..Cardinality(Waiter)
        /\ Cardinality(Waiting(j)) = 0 <=> Waiting(j) = {}
    BY <2>1, WaitersCounted
  <2>3. QED
    BY <1>2, <1>3, <2>2 DEF CallOK
<1>10. InflightTypeOK'
  BY <1>1, <1>4, <1>7 DEF InflightTypeOK, Call
<1>11. current' # 0 => ~call'[current'].completed /\ call'[current'].live
  BY <1>1, <1>4, <1>7 DEF InflightInv
<1>12. ASSUME NEW k \in 1..Len(call'), ~call'[k].completed
       PROVE  CallOK(k)'
  <2>1. k # j /\ k \in 1..Len(call) /\ call'[k] = call[k] /\ Waiting(k)' = Waiting(k)
    BY <1>6, <1>7, <1>8, <1>12
  <2>2. CallOK(k)
    BY <1>12, <2>1 DEF InflightInv
  <2>3. QED
    BY <1>4, <2>1, <2>2 DEF CallOK
<1>13. ASSUME NEW d \in Waiter PROVE WaiterOK(d)'
  <2>1. SUFFICES ASSUME waiter[d].phase = "waiting"
                 PROVE  waiter[d].of \in 1..Len(call') /\ call'[waiter[d].of].result # "canceled"
    BY <1>4 DEF WaiterOK
  <2>2. waiter[d].of \in 1..Len(call) /\ call[waiter[d].of].result # "canceled"
    BY <2>1 DEF WaiterOK, InflightInv
  <2>3. waiter[d].of = j => r # "canceled"
    BY <1>9, <2>1 DEF Waiting
  <2>4. QED
    BY <1>6, <1>7, <2>2, <2>3
<1>14. NoForeignCancellation'
  BY <1>4 DEF NoForeignCancellation, InflightInv
<1>15. QED
  BY <1>10, <1>11, <1>12, <1>13, <1>14 DEF InflightInv

\* inflightGroup: whatever the order in which Do, run and leave get the lock, a
\* caller with an open context never receives another's cancellation, at most
\* one read that somebody waits for is under way, and callers only join a read
\* that has not ended.
THEOREM ReadsShared ==
    InflightSpec => [](InflightTypeOK /\ NoForeignCancellation /\ OneLiveProducer /\ SharedWhileRunning)
<1>1. InflightInit => InflightInv
  <2>1. ASSUME InflightInit PROVE InflightTypeOK
    BY <2>1, InflightAssumption DEF InflightInit, InflightTypeOK, Out, Result
  <2>2. QED
    BY <2>1 DEF InflightInit, InflightInv, WaiterOK, Out, NoForeignCancellation
<1>2. InflightInv /\ [InflightNext]_inflightVars => InflightInv'
  <2>1. SUFFICES ASSUME InflightInv, [InflightNext]_inflightVars PROVE InflightInv'
    OBVIOUS
  <2>2. ASSUME NEW c \in Waiter, Do(c) PROVE InflightInv'
    BY <2>1, <2>2, JoinKeeps, StartKeeps
  <2>3. ASSUME NEW c \in Waiter, CancelWaiter(c) PROVE InflightInv'
    <3>1. InflightTypeOK'
      BY <2>1, <2>3 DEF InflightInv, InflightTypeOK, CancelWaiter
    <3>2. QED
      BY <2>1, <2>3, <3>1, WaiterAloneKeeps DEF CancelWaiter, InflightInv, InflightTypeOK
  <2>4. ASSUME NEW c \in Waiter, Leave(c) PROVE InflightInv'
    <3>1. CASE call[waiter[c].of].completed
      <4>1. UNCHANGED <<current, call>>
        BY <2>4, <3>1 DEF Leave
      <4>2. InflightTypeOK'
        <5>1. waiter' = [waiter EXCEPT ![c].phase = "done", ![c].result = "canceled"]
          BY <2>4 DEF Leave
        <5>2. waiter \in [Waiter -> WaiterRec]
          BY <2>1 DEF InflightInv, InflightTypeOK, WaiterRec
        <5>3. waiter' \in [Waiter -> WaiterRec]
          BY <5>1, <5>2 DEF WaiterRec, Result
        <5>4. QED
          BY <2>1, <4>1, <5>3 DEF InflightInv, InflightTypeOK, WaiterRec
      <4>3. /\ waiter'[c].phase = "done" /\ ~waiter'[c].live
            /\ \A d \in Waiter \ {c} : waiter'[d] = waiter[d]
        BY <2>1, <2>4 DEF Leave, InflightInv, InflightTypeOK
      <4>4. QED
        BY <2>1, <3>1, <4>1, <4>2, <4>3, WaiterAloneKeeps
    <3>2. QED
      BY <2>1, <2>4, <3>1, LeaveKeeps
  <2>5. ASSUME NEW c \in Waiter, Receive(c) PROVE InflightInv'
    <3>1. waiter[c].of \in 1..Len(call) /\ call[waiter[c].of].result # "canceled"
      BY <2>1, <2>5 DEF Receive, InflightInv, WaiterOK
    <3>2. call[waiter[c].of].result \in Result
      <4>1. call \in Seq(Call)
        BY <2>1 DEF InflightInv, InflightTypeOK, Call
      <4>2. call[waiter[c].of] \in Call
        BY <3>1, <4>1, ElementOfSeq
      <4>3. QED
        BY <4>2 DEF Call
    <3>3. InflightTypeOK'
      BY <2>1, <2>5, <3>2 DEF InflightInv, InflightTypeOK, Receive
    <3>4. /\ waiter'[c].phase = "done" /\ waiter'[c].result = call[waiter[c].of].result
          /\ \A d \in Waiter \ {c} : waiter'[d] = waiter[d]
      BY <2>1, <2>5 DEF Receive, InflightInv, InflightTypeOK
    <3>5. UNCHANGED <<current, call>> /\ call[waiter[c].of].completed
      BY <2>5 DEF Receive
    <3>6. QED
      BY <2>1, <3>1, <3>3, <3>4, <3>5, WaiterAloneKeeps
  <2>6. ASSUME NEW c \in Waiter, Again(c) PROVE InflightInv'
    <3>1. InflightTypeOK'
      BY <2>1, <2>6, InflightAssumption DEF InflightInv, InflightTypeOK, Again, Out, Result
    <3>2. QED
      BY <2>1, <2>6, <3>1, WaiterAloneKeeps DEF Again, Out, InflightInv, InflightTypeOK
  <2>7. ASSUME NEW k \in 1..MaxCalls, Run(k) PROVE InflightInv'
    BY <2>1, <2>7, RunKeeps
  <2>8. CASE UNCHANGED inflightVars
    <3>1. current' = current /\ call' = call /\ waiter' = waiter
      BY <2>8 DEF inflightVars
    <3>2. \A k : Waiting(k)' = Waiting(k)
      BY <3>1 DEF Waiting
    <3>3. \A k \in 1..Len(call) : CallOK(k)' <=> CallOK(k)
      BY <3>1, <3>2 DEF CallOK
    <3>4. (\A c \in Waiter : WaiterOK(c)') /\ NoForeignCancellation' /\ InflightTypeOK'
      BY <2>1, <3>1 DEF InflightInv, WaiterOK, NoForeignCancellation, InflightTypeOK
    <3>5. QED
      BY <2>1, <3>1, <3>3, <3>4 DEF InflightInv
  <2>9. QED
    BY <2>1, <2>2, <2>3, <2>4, <2>5, <2>6, <2>7, <2>8 DEF InflightNext
<1>3. InflightInv => InflightTypeOK /\ NoForeignCancellation /\ OneLiveProducer /\ SharedWhileRunning
  BY InflightInvImplies DEF InflightInv
<1>4. QED
  BY <1>1, <1>2, <1>3, PTL DEF InflightSpec

----------------------------------------------------------------------------
\* The session pool

PooledRec == [age : Age, generation : 0..MaxLogins, backedOff : BOOLEAN,
              backoffCount : 0..MaxBackoff]
CallerRec == [phase : Phase, kind : Kind, tier : Tier, index : Session \cup {0},
              generation : 0..MaxLogins, attempt : 1..2, live : BOOLEAN]

\* A queue holds sessions of its tier, none of them twice.
QueueOK(t) ==
  /\ \A j \in 1..Len(available[t]) : TierOf[available[t][j]] = t
  /\ \A j, k \in 1..Len(available[t]) : available[t][j] = available[t][k] => j = k

Queued(i) == \E j \in 1..Len(available[TierOf[i]]) : available[TierOf[i]][j] = i

\* A call that is past the queue has a session of its tier, which is neither
\* in the queue nor another call's.
HoldOK(c) ==
  /\ caller[c].index = 0 <=> caller[c].phase \in {"idle", "wait"}
  /\ caller[c].index # 0 =>
       /\ TierOf[caller[c].index] = caller[c].tier
       /\ ~Queued(caller[c].index)
       /\ \A d \in Caller : caller[d].index = caller[c].index => d = c

PlaceInv ==
  /\ available \in [Tier -> Seq(Session)]
  /\ caller \in [Caller -> CallerRec]
  /\ \A t \in Tier : QueueOK(t)
  /\ \A c \in Caller : HoldOK(c)
  /\ \A i \in Session : Queued(i) \/ \E c \in Caller : caller[c].index = i

PoolInv ==
  /\ PlaceInv
  /\ session \in [Session -> PooledRec]
  /\ honoured \subseteq Session
  /\ poisoned \in BOOLEAN
  /\ ReferenceIsCurrent

\* A list that names every session of a tier once.
LEMMA ListedOnce ==
  ASSUME NEW S, IsFiniteSet(S)
  PROVE  /\ Listed(S) \in Seq(S)
         /\ Len(Listed(S)) = Cardinality(S)
         /\ \A j, k \in 1..Len(Listed(S)) : Listed(S)[j] = Listed(S)[k] => j = k
         /\ \A x \in S : \E j \in 1..Len(Listed(S)) : Listed(S)[j] = x
<1>1. /\ Cardinality(S) \in Nat
      /\ ExistsBijection(1..Cardinality(S), S)
  BY FS_CardinalityType
<1>2. PICK g : g \in Bijection(1..Cardinality(S), S)
  BY <1>1 DEF ExistsBijection
<1>3. g \in [1..Cardinality(S) -> S] /\ IsInjective(g)
  BY <1>2 DEF Bijection, Injection
<1>4. Listed(S) \in [1..Cardinality(S) -> S] /\ IsInjective(Listed(S))
  BY <1>3 DEF Listed
<1> DEFINE f == Listed(S)
<1> HIDE DEF f
<1>5. f \in Injection(1..Cardinality(S), S)
  BY <1>4 DEF Injection, f
<1>6. Cardinality(1..Cardinality(S)) = Cardinality(S)
  BY <1>1, FS_Interval
<1>7. f \in Surjection(1..Cardinality(S), S)
  BY <1>5, <1>6, FS_Injection
<1>8. f \in [1..Cardinality(S) -> S] /\ IsInjective(f)
  BY <1>4 DEF f
<1>9. f \in Seq(S) /\ Len(f) = Cardinality(S)
  BY <1>1, <1>8
<1>10. \A j, k \in 1..Len(f) : f[j] = f[k] => j = k
  BY <1>8, <1>9 DEF IsInjective
<1>11. \A x \in S : \E j \in 1..Len(f) : f[j] = x
  BY <1>7, <1>9 DEF Surjection
<1> QED BY <1>9, <1>10, <1>11 DEF f

LEMMA NoLonger ==
  ASSUME NEW S, IsFiniteSet(S), NEW q \in Seq(S),
         \A j, k \in 1..Len(q) : q[j] = q[k] => j = k
  PROVE  Len(q) <= Cardinality(S)
<1>1. q \in [1..Len(q) -> S] /\ Len(q) \in Nat
  OBVIOUS
<1>2. q \in Injection(1..Len(q), S)
  BY <1>1 DEF Injection, IsInjective
<1>3. Cardinality(1..Len(q)) <= Cardinality(S)
  BY <1>2, FS_Injection
<1>4. PICK n \in Nat : n = Len(q)
  BY <1>1
<1>5. Cardinality(1..n) = n
  BY FS_Interval
<1> QED BY <1>3, <1>4, <1>5

LEMMA IdleTyped == Idle \in CallerRec /\ Idle.phase = "idle" /\ Idle.index = 0
<1>1. (CHOOSE t \in Tier : TRUE) \in Tier
  BY PoolAssumption
<1>2. PICK z \in 0..MaxLogins : z = 0
  BY PoolAssumption
<1>3. PICK o \in 1..2 : o = 1
  OBVIOUS
<1> QED BY <1>1, <1>2, <1>3 DEF Idle, CallerRec, Phase, Kind

LEMMA PoolInitOK == PoolInit => PoolInv
<1> SUFFICES ASSUME PoolInit PROVE PoolInv
  OBVIOUS
<1> USE PoolAssumption
<1> DEFINE Part(t) == {i \in Session : TierOf[i] = t}
<1>1. \A t \in Tier : IsFiniteSet(Part(t)) /\ available[t] = Listed(Part(t))
  BY FS_Subset DEF PoolInit
<1> HIDE DEF Part
<1>2. \A t \in Tier :
        /\ available[t] \in Seq(Part(t))
        /\ \A j, k \in 1..Len(available[t]) : available[t][j] = available[t][k] => j = k
        /\ \A x \in Part(t) : \E j \in 1..Len(available[t]) : available[t][j] = x
  <2> TAKE t \in Tier
  <2> DEFINE P == Part(t)
  <2>1. IsFiniteSet(P) /\ available[t] = Listed(P)
    BY <1>1
  <2> HIDE DEF P
  <2>2. /\ available[t] \in Seq(P)
        /\ \A j, k \in 1..Len(available[t]) : available[t][j] = available[t][k] => j = k
        /\ \A x \in P : \E j \in 1..Len(available[t]) : available[t][j] = x
    BY <2>1, ListedOnce
  <2> QED BY <2>2 DEF P
<1>3. \A t \in Tier :
        /\ available[t] \in Seq(Session)
        /\ \A j \in 1..Len(available[t]) : available[t][j] \in Part(t)
  <2> TAKE t \in Tier
  <2>1. available[t] \in Seq(Part(t))
    BY <1>2
  <2>2. \A j \in 1..Len(available[t]) : available[t][j] \in Part(t)
    BY <2>1
  <2>3. \A j \in 1..Len(available[t]) : available[t][j] \in Session
    BY <2>2 DEF Part
  <2>4. available[t] \in Seq(Session)
    BY <2>1, <2>3
  <2> QED BY <2>2, <2>4
<1>4. available \in [Tier -> Seq(Session)]
  BY <1>3 DEF PoolInit
<1>5. \A t \in Tier : QueueOK(t)
  BY <1>2, <1>3 DEF QueueOK, Part
<1>6. \A i \in Session : Queued(i)
  BY <1>2 DEF Queued, Part
<1>7. caller \in [Caller -> CallerRec] /\ \A c \in Caller : caller[c].phase = "idle" /\ caller[c].index = 0
  BY IdleTyped DEF PoolInit
<1>8. \A c \in Caller : HoldOK(c)
  BY <1>7 DEF HoldOK
<1>9. session \in [Session -> PooledRec]
  <2>1. PICK z \in 0..MaxLogins : z = 0
    OBVIOUS
  <2>2. PICK b \in 0..MaxBackoff : b = 0
    OBVIOUS
  <2>3. NewSession \in PooledRec
    BY <2>1, <2>2 DEF NewSession, PooledRec, Age
  <2> QED BY <2>3 DEF PoolInit
<1>10. ReferenceIsCurrent
  BY <1>7 DEF ReferenceIsCurrent, At
<1> QED BY <1>4, <1>5, <1>6, <1>7, <1>8, <1>9, <1>10 DEF PoolInv, PlaceInv, PoolInit

LEMMA Holding ==
  ASSUME PlaceInv, NEW c \in Caller
  PROVE  /\ caller[c].phase \notin {"idle", "wait"} => caller[c].index # 0 /\ caller[c].index \in Session
         /\ caller[c].phase \in {"idle", "wait"} => caller[c].index = 0
<1>1. caller[c] \in CallerRec /\ HoldOK(c)
  BY DEF PlaceInv
<1> QED BY <1>1 DEF HoldOK, CallerRec

\* A call that moves on without touching the queue keeps its session.
LEMMA Moves ==
  ASSUME PlaceInv, NEW c \in Caller, NEW e \in CallerRec,
         e.index = caller[c].index,
         e.index # 0 => e.tier = caller[c].tier,
         e.index = 0 <=> e.phase \in {"idle", "wait"},
         caller' = [caller EXCEPT ![c] = e], available' = available
  PROVE  PlaceInv'
<1> USE DEF PlaceInv
<1>1. caller' \in [Caller -> CallerRec] /\ available' \in [Tier -> Seq(Session)]
  OBVIOUS
<1>2. \A d \in Caller : caller'[d].index = caller[d].index
  OBVIOUS
<1>3. \A t \in Tier : QueueOK(t)'
  BY DEF QueueOK
<1>4. \A i : Queued(i)' <=> Queued(i)
  BY DEF Queued
<1>5. \A d \in Caller : HoldOK(d)'
  <2> TAKE d \in Caller
  <2>1. caller'[d].index = 0 <=> caller'[d].phase \in {"idle", "wait"}
    BY DEF HoldOK
  <2>2. ASSUME caller'[d].index # 0
        PROVE  /\ TierOf[caller'[d].index] = caller'[d].tier
               /\ ~Queued(caller'[d].index)
               /\ \A x \in Caller : caller'[x].index = caller'[d].index => x = d
    <3>1. caller'[d].tier = caller[d].tier
      BY <2>2
    <3> QED BY <1>2, <2>2, <3>1 DEF HoldOK
  <2> QED BY <2>1, <2>2, <1>4 DEF HoldOK
<1>6. \A i \in Session : Queued(i)' \/ \E d \in Caller : caller'[d].index = i
  BY <1>2, <1>4
<1> QED BY <1>1, <1>3, <1>5, <1>6

\* The session at the head of the queue changes hands.
LEMMA Taken ==
  ASSUME PlaceInv, NEW c \in Caller, Take(c)
  PROVE  PlaceInv'
<1> USE PoolAssumption DEF PlaceInv
<1> DEFINE t == caller[c].tier
           q == available[t]
           i == Head(q)
           e == [caller[c] EXCEPT !.phase = "ensure", !.index = i]
<1>1. /\ t \in Tier /\ caller[c].index = 0
      /\ q \in Seq(Session) /\ q # <<>>
      /\ caller[c] \in CallerRec
  BY DEF Take, At, HoldOK, CallerRec
<1>2. /\ i \in Session /\ i # 0 /\ i = q[1] /\ 1 \in 1..Len(q)
      /\ Tail(q) \in Seq(Session) /\ Len(Tail(q)) = Len(q) - 1
      /\ \A j \in 1..Len(Tail(q)) : j + 1 \in 1..Len(q) /\ Tail(q)[j] = q[j + 1]
  BY <1>1, HeadTailProperties
<1>3. /\ caller' = [caller EXCEPT ![c] = e]
      /\ available' = [available EXCEPT ![t] = Tail(q)]
  BY DEF Take
<1>4. e \in CallerRec /\ e.index = i /\ e.phase = "ensure" /\ e.tier = t
  BY <1>1, <1>2 DEF CallerRec, Phase
<1>5. /\ TierOf[i] = t
      /\ \A j, k \in 1..Len(q) : q[j] = q[k] => j = k
      /\ \A j \in 1..Len(q) : TierOf[q[j]] = t
  BY <1>1, <1>2 DEF QueueOK
<1>6. \A d \in Caller : caller[d].index # i
  BY <1>2, <1>5 DEF HoldOK, Queued
<1> HIDE DEF e
<1>7. /\ caller' \in [Caller -> CallerRec] /\ caller'[c] = e
      /\ \A d \in Caller : d # c => caller'[d] = caller[d]
  BY <1>3, <1>4
<1>8. /\ available' \in [Tier -> Seq(Session)] /\ available'[t] = Tail(q)
      /\ \A u \in Tier : u # t => available'[u] = available[u]
  BY <1>1, <1>2, <1>3
<1> HIDE DEF i, q, t
<1>9. \A u \in Tier : QueueOK(u)'
  <2> TAKE u \in Tier
  <2>1. CASE u # t
    BY <1>8, <2>1 DEF QueueOK
  <2>2. CASE u = t
    <3>1. \A j \in 1..Len(Tail(q)) : TierOf[Tail(q)[j]] = t
      BY <1>2, <1>5
    <3>2. ASSUME NEW j \in 1..Len(Tail(q)), NEW k \in 1..Len(Tail(q)), Tail(q)[j] = Tail(q)[k]
          PROVE  j = k
      <4>1. j + 1 = k + 1
        BY <1>2, <1>5, <3>2
      <4> QED BY <4>1
    <3> QED BY <2>2, <3>1, <3>2, <1>8 DEF QueueOK
  <2> QED BY <2>1, <2>2
<1>10. \A x \in Session : Queued(x)' <=> Queued(x) /\ x # i
  <2> TAKE x \in Session
  <2>1. CASE TierOf[x] # t
    BY <2>1, <1>5, <1>8 DEF Queued
  <2>2. CASE TierOf[x] = t
    <3>1. Queued(x)' <=> \E j \in 1..Len(Tail(q)) : Tail(q)[j] = x
      BY <2>2, <1>8 DEF Queued
    <3>2. Queued(x) <=> \E j \in 1..Len(q) : q[j] = x
      BY <2>2 DEF Queued, q
    <3>3. ASSUME NEW j \in 1..Len(Tail(q)), Tail(q)[j] = x
          PROVE  Queued(x) /\ x # i
      <4>1. j + 1 \in 1..Len(q) /\ q[j + 1] = x /\ j + 1 # 1
        BY <3>3, <1>2
      <4> QED BY <4>1, <3>2, <1>2, <1>5
    <3>4. ASSUME NEW j \in 1..Len(q), q[j] = x, x # i
          PROVE  \E k \in 1..Len(Tail(q)) : Tail(q)[k] = x
      <4>1. j # 1
        BY <3>4, <1>2
      <4>2. j - 1 \in 1..Len(Tail(q)) /\ (j - 1) + 1 = j
        BY <4>1, <1>1, <1>2
      <4>3. Tail(q)[j - 1] = x
        BY <4>2, <3>4, <1>2
      <4> QED BY <4>2, <4>3
    <3> QED BY <3>1, <3>2, <3>3, <3>4
  <2> QED BY <2>1, <2>2
<1>11. \A d \in Caller : HoldOK(d)'
  <2> TAKE d \in Caller
  <2>1. CASE d = c
    <3>1. ~Queued(caller[c].index)'
      BY <1>2, <1>4, <1>7, <1>10
    <3>2. \A x \in Caller : caller'[x].index = i => x = c
      BY <1>6, <1>7
    <3> QED BY <2>1, <3>1, <3>2, <1>4, <1>5, <1>7, <1>2 DEF HoldOK
  <2>2. CASE d # c
    <3>1. caller'[d] = caller[d] /\ caller[d].index # i /\ caller[d].index \in Session \cup {0}
      BY <2>2, <1>6, <1>7 DEF CallerRec
    <3>2. caller[d].index # 0 => ~Queued(caller[d].index)'
      BY <3>1, <1>10 DEF HoldOK
    <3>3. caller[d].index # 0 => \A x \in Caller : caller'[x].index = caller[d].index => x = d
      BY <3>1, <1>4, <1>7 DEF HoldOK
    <3> QED BY <3>1, <3>2, <3>3 DEF HoldOK
  <2> QED BY <2>1, <2>2
<1>12. \A x \in Session : Queued(x)' \/ \E d \in Caller : caller'[d].index = x
  <2> TAKE x \in Session
  <2>1. CASE x = i
    BY <2>1, <1>4, <1>7
  <2>2. ASSUME NEW d \in Caller, caller[d].index = x
        PROVE  \E b \in Caller : caller'[b].index = x
    <3>1. d # c
      BY <2>2, <1>1, <1>2
    <3> QED BY <2>2, <3>1, <1>7
  <2> QED BY <2>1, <2>2, <1>10
<1> QED BY <1>7, <1>8, <1>9, <1>11, <1>12

\* The session goes to the end of the queue it was taken from.
LEMMA GivenBack ==
  ASSUME PlaceInv, NEW c \in Caller, caller[c].index # 0, GivesBack(c)
  PROVE  PlaceInv'
<1> USE PoolAssumption DEF PlaceInv
<1> DEFINE i == caller[c].index
           t == caller[c].tier
           q == available[t]
           r == Append(q, i)
<1>1. /\ t \in Tier /\ i \in Session /\ i # 0 /\ TierOf[i] = t /\ ~Queued(i)
      /\ q \in Seq(Session)
      /\ \A d \in Caller : caller[d].index = i => d = c
  BY DEF HoldOK, CallerRec
<1>2. /\ r \in Seq(Session) /\ Len(r) = Len(q) + 1 /\ Len(q) \in Nat
      /\ \A j \in 1..Len(q) : r[j] = q[j]
      /\ r[Len(q) + 1] = i
  BY <1>1
<1>ends. DOMAIN r = 1..Len(q) \cup {Len(q) + 1} /\ 1..Len(r) = 1..Len(q) \cup {Len(q) + 1}
       /\ Len(q) + 1 \notin 1..Len(q)
  BY <1>2
<1>3. /\ caller' = [caller EXCEPT ![c] = Idle]
      /\ available' = [available EXCEPT ![t] = r]
  BY DEF GivesBack, Returned
<1>4. /\ \A j, k \in 1..Len(q) : q[j] = q[k] => j = k
      /\ \A j \in 1..Len(q) : TierOf[q[j]] = t /\ q[j] # i
  BY <1>1 DEF QueueOK, Queued
<1>5. /\ caller' \in [Caller -> CallerRec] /\ caller'[c] = Idle
      /\ \A d \in Caller : d # c => caller'[d] = caller[d]
  BY <1>3, IdleTyped
<1>6. /\ available' \in [Tier -> Seq(Session)] /\ available'[t] = r
      /\ \A u \in Tier : u # t => available'[u] = available[u]
  BY <1>1, <1>2, <1>3
<1>7. \A x \in Session : Queued(x) <=> \E j \in 1..Len(available[TierOf[x]]) : available[TierOf[x]][j] = x
  BY DEF Queued
<1> HIDE DEF i, r
<1>8. \A x \in Session : TierOf[x] = t => (Queued(x) <=> \E j \in 1..Len(q) : q[j] = x)
  BY <1>7
<1> HIDE DEF q, t
<1>9. \A u \in Tier : QueueOK(u)'
  <2> TAKE u \in Tier
  <2>1. CASE u # t
    BY <1>6, <2>1 DEF QueueOK
  <2>2. CASE u = t
    <3>1. \A j \in 1..Len(r) : TierOf[r[j]] = t
      BY <1>1, <1>2, <1>ends, <1>4
    <3>2. ASSUME NEW j \in 1..Len(r), NEW k \in 1..Len(r), r[j] = r[k]
          PROVE  j = k
      <4>1. CASE j \in 1..Len(q) /\ k \in 1..Len(q)
        BY <4>1, <3>2, <1>2, <1>4
      <4>2. CASE j = Len(q) + 1 /\ k \in 1..Len(q)
        BY <4>2, <3>2, <1>2, <1>4
      <4>3. CASE j \in 1..Len(q) /\ k = Len(q) + 1
        BY <4>3, <3>2, <1>2, <1>4
      <4> QED BY <4>1, <4>2, <4>3, <1>ends
    <3> QED BY <2>2, <3>1, <3>2, <1>6 DEF QueueOK
  <2> QED BY <2>1, <2>2
<1>10. \A x \in Session : Queued(x)' <=> Queued(x) \/ x = i
  <2> TAKE x \in Session
  <2>1. CASE TierOf[x] # t
    BY <2>1, <1>1, <1>6 DEF Queued
  <2>2. CASE TierOf[x] = t
    <3>1. Queued(x)' <=> \E j \in 1..Len(r) : r[j] = x
      BY <2>2, <1>6 DEF Queued
    <3>2. (\E j \in 1..Len(r) : r[j] = x) <=> (\E j \in 1..Len(q) : q[j] = x) \/ x = i
      BY <1>2, <1>ends
    <3> QED BY <3>1, <3>2, <2>2, <1>8
  <2> QED BY <2>1, <2>2
<1>11. \A d \in Caller : HoldOK(d)'
  <2> TAKE d \in Caller
  <2>1. CASE d = c
    BY <2>1, <1>5, IdleTyped DEF HoldOK
  <2>2. CASE d # c
    <3>1. caller'[d] = caller[d] /\ caller[d].index # i /\ caller[d].index \in Session \cup {0}
      BY <2>2, <1>1, <1>5 DEF CallerRec
    <3>2. caller[d].index # 0 => ~Queued(caller[d].index)'
      BY <3>1, <1>10 DEF HoldOK
    <3>3. caller[d].index # 0 => \A x \in Caller : caller'[x].index = caller[d].index => x = d
      BY <3>1, <1>5, IdleTyped DEF HoldOK
    <3> QED BY <3>1, <3>2, <3>3 DEF HoldOK
  <2> QED BY <2>1, <2>2
<1>12. \A x \in Session : Queued(x)' \/ \E d \in Caller : caller'[d].index = x
  BY <1>5, <1>10 DEF i
<1> QED BY <1>5, <1>6, <1>9, <1>11, <1>12

\* A step of a call leaves the session of every other call alone.
LEMMA StaysCurrent ==
  ASSUME PoolInv, NEW c \in Caller, NEW s \in PooledRec,
         NEW e \in CallerRec, caller' = [caller EXCEPT ![c] = e],
         \/ session' = session
         \/ caller[c].index # 0 /\ session' = [session EXCEPT ![caller[c].index] = s],
         e.phase = "fetch" => e.generation = session'[e.index].generation
  PROVE  ReferenceIsCurrent'
<1> SUFFICES ASSUME NEW d \in Caller, caller'[d].phase = "fetch"
             PROVE  caller'[d].generation = session'[caller'[d].index].generation
  BY DEF ReferenceIsCurrent, At, Of
<1> USE DEF PoolInv, PlaceInv
<1>1. CASE d = c
  BY <1>1
<1>2. CASE d # c
  <2>1. caller'[d] = caller[d]
    BY <1>2
  <2>2. caller[d].index # caller[c].index \/ caller[c].index = 0
    BY <1>2 DEF HoldOK
  <2>3. caller[d].index # 0 /\ caller[d].index \in Session
    BY <2>1, Holding
  <2>4. session'[caller[d].index] = session[caller[d].index]
    BY <2>2, <2>3
  <2> QED BY <2>1, <2>4 DEF ReferenceIsCurrent, At, Of
<1> QED BY <1>1, <1>2

LEMMA BackoffTyped ==
  ASSUME NEW s \in PooledRec
  PROVE  applyBackoff(s) \in PooledRec
<1> USE PoolAssumption
<1> DEFINE next == IF s.backoffCount = 0 /\ s.age = "young" THEN MaxBackoff ELSE s.backoffCount + 1
           n == IF next > MaxBackoff THEN MaxBackoff ELSE next
<1>1. n \in 0..MaxBackoff
  BY DEF PooledRec
<1>2. applyBackoff(s) = [s EXCEPT !.backedOff = TRUE, !.backoffCount = n]
  BY DEF applyBackoff
<1> HIDE DEF n
<1> QED BY <1>1, <1>2 DEF PooledRec

LEMMA LoginTyped ==
  ASSUME NEW s \in PooledRec, s.generation < MaxLogins
  PROVE  LoggedIn(s) \in PooledRec /\ LoggedIn(s).generation = s.generation + 1
<1> USE PoolAssumption
<1>1. PICK g \in 0..MaxLogins : g = s.generation + 1
  BY DEF PooledRec
<1>2. PICK z \in 0..MaxBackoff : z = 0
  OBVIOUS
<1> QED BY <1>1, <1>2 DEF LoggedIn, PooledRec, Age

\* The steps of a call, by what they do to its session: none, one that moves
\* the call on, one that ends it.
LEMMA MoveKeeps ==
  ASSUME PoolInv, NEW c \in Caller, NEW e \in CallerRec, NEW s \in PooledRec,
         e.index = caller[c].index,
         e.index # 0 => e.tier = caller[c].tier,
         e.index = 0 <=> e.phase \in {"idle", "wait"},
         caller' = [caller EXCEPT ![c] = e], available' = available,
         \/ session' = session
         \/ caller[c].index # 0 /\ session' = [session EXCEPT ![caller[c].index] = s],
         e.phase = "fetch" => e.generation = session'[e.index].generation,
         honoured' \subseteq Session, poisoned' \in BOOLEAN
  PROVE  PoolInv'
<1>1. PlaceInv'
  BY Moves DEF PoolInv
<1>2. ReferenceIsCurrent'
  BY StaysCurrent
<1>3. session' \in [Session -> PooledRec]
  BY DEF PoolInv
<1> QED BY <1>1, <1>2, <1>3 DEF PoolInv

LEMMA EndKeeps ==
  ASSUME PoolInv, NEW c \in Caller, NEW s \in PooledRec, caller[c].index # 0, GivesBack(c),
         session' = session \/ session' = [session EXCEPT ![caller[c].index] = s],
         honoured' \subseteq Session, poisoned' \in BOOLEAN
  PROVE  PoolInv'
<1>1. PlaceInv'
  BY GivenBack DEF PoolInv
<1>2. ReferenceIsCurrent'
  BY StaysCurrent, IdleTyped DEF GivesBack
<1>3. session' \in [Session -> PooledRec]
  BY DEF PoolInv
<1> QED BY <1>1, <1>2, <1>3 DEF PoolInv

LEMMA CallKeeps ==
  ASSUME PoolInv, NEW c \in Caller, Begin(c) \/ Cancel(c) \/ Working(c)
  PROVE  PoolInv'
<1> USE PoolAssumption
<1> DEFINE i == caller[c].index
<1>1. /\ caller \in [Caller -> CallerRec] /\ caller[c] \in CallerRec /\ HoldOK(c)
      /\ session \in [Session -> PooledRec] /\ honoured \subseteq Session
      /\ poisoned \in BOOLEAN /\ ReferenceIsCurrent
  BY DEF PoolInv, PlaceInv
<1>2. /\ caller[c].phase \notin {"idle", "wait"} => i # 0 /\ i \in Session
      /\ caller[c].phase \in {"idle", "wait"} => i = 0
  BY Holding DEF PoolInv
<1>3. CASE Begin(c)
  <2>1. PICK k \in Kind, t \in Tier :
          caller' = [caller EXCEPT ![c] = [@ EXCEPT !.phase = "wait", !.kind = k, !.tier = t]]
    BY <1>3 DEF Begin
  <2> DEFINE e == [caller[c] EXCEPT !.phase = "wait", !.kind = k, !.tier = t]
  <2>2. e \in CallerRec /\ e.index = i /\ e.phase = "wait" /\ i = 0
    BY <1>1, <1>2, <1>3 DEF CallerRec, Phase, Begin, At
  <2>3. caller' = [caller EXCEPT ![c] = e]
    BY <2>1
  <2> HIDE DEF e
  <2>4. PlaceInv'
    BY <1>3, <2>2, <2>3, Moves DEF PoolInv, Begin
  <2>5. ReferenceIsCurrent'
    BY <1>1, <1>3, <2>2, <2>3 DEF ReferenceIsCurrent, At, Of, Begin
  <2> QED BY <1>1, <1>3, <2>4, <2>5 DEF PoolInv, Begin
<1>4. CASE Cancel(c)
  <2> DEFINE e == [caller[c] EXCEPT !.live = FALSE]
  <2>1. /\ e \in CallerRec /\ e.index = i /\ e.phase = caller[c].phase
        /\ e.tier = caller[c].tier /\ e.generation = caller[c].generation
    BY <1>1 DEF CallerRec
  <2>2. caller' = [caller EXCEPT ![c] = e]
    BY <1>4 DEF Cancel
  <2> HIDE DEF e
  <2>3. PlaceInv'
    BY <1>1, <1>4, <2>1, <2>2, Moves DEF PoolInv, Cancel, HoldOK
  <2>4. ReferenceIsCurrent'
    BY <1>1, <1>4, <2>1, <2>2 DEF ReferenceIsCurrent, At, Of, Cancel
  <2> QED BY <1>1, <1>4, <2>3, <2>4 DEF PoolInv, Cancel
<1>5. CASE Take(c)
  <2>1. PlaceInv'
    BY <1>5, Taken DEF PoolInv
  <2>2. ReferenceIsCurrent'
    BY <1>1, <1>5 DEF ReferenceIsCurrent, At, Of, Take, CallerRec
  <2> QED BY <1>1, <1>5, <2>1, <2>2 DEF PoolInv, Take
<1>6. CASE WaitEnds(c)
  <2>1. caller' = [caller EXCEPT ![c] = Idle] /\ Idle.index = i
    BY <1>2, <1>6, IdleTyped DEF WaitEnds, At
  <2>2. PlaceInv'
    BY <1>6, <2>1, IdleTyped, Moves DEF PoolInv, WaitEnds
  <2>3. ReferenceIsCurrent'
    BY <1>1, <1>6, <2>1, IdleTyped DEF ReferenceIsCurrent, At, Of, WaitEnds
  <2> QED BY <1>1, <1>6, <2>2, <2>3 DEF PoolInv, WaitEnds
<1> DEFINE Stays(p) == [caller[c] EXCEPT !.phase = p]
           Sends(g, a) == [caller[c] EXCEPT !.phase = "fetch", !.generation = g, !.attempt = a]
<1>7. ASSUME NEW p \in {"login", "refresh", "relogin"}
      PROVE  /\ Stays(p) \in CallerRec /\ Stays(p).index = i
             /\ Stays(p).phase = p /\ Stays(p).tier = caller[c].tier
             /\ To(c, p) => caller' = [caller EXCEPT ![c] = Stays(p)]
  BY <1>1 DEF CallerRec, Phase, To
<1>8. ASSUME NEW g \in 0..MaxLogins, NEW a \in 1..2
      PROVE  /\ Sends(g, a) \in CallerRec /\ Sends(g, a).index = i
             /\ Sends(g, a).phase = "fetch" /\ Sends(g, a).tier = caller[c].tier
             /\ Sends(g, a).generation = g
             /\ Fetching(c, g, a) => caller' = [caller EXCEPT ![c] = Sends(g, a)]
  BY <1>1 DEF CallerRec, Phase, Fetching
<1> HIDE DEF Stays, Sends
<1>9. ASSUME i # 0, i \in Session, NEW p \in {"login", "refresh", "relogin"}, To(c, p),
             UNCHANGED <<available, session, honoured, poisoned>>
      PROVE  PoolInv'
  <2>1. session[i] \in PooledRec
    BY <1>1, <1>9
  <2> QED BY <1>1, <1>7, <1>9, <2>1, MoveKeeps
<1>10. ASSUME i # 0, i \in Session, GivesBack(c), UNCHANGED <<session, honoured, poisoned>>
       PROVE  PoolInv'
  <2>1. session[i] \in PooledRec
    BY <1>1, <1>10
  <2> QED BY <1>1, <1>10, <2>1, EndKeeps
<1>11. CASE Ensure(c)
  <2>1. i # 0 /\ i \in Session /\ UNCHANGED <<session, honoured, poisoned>>
    BY <1>2, <1>11 DEF Ensure, At
  <2>2. session[i] \in PooledRec
    BY <1>1, <2>1
  <2>7. session[i].generation \in 0..MaxLogins
    BY <2>2 DEF PooledRec
  <2>3. CASE GivesBack(c)
    BY <2>1, <2>3, <1>10
  <2>4. CASE To(c, "refresh") /\ UNCHANGED available
    BY <2>1, <2>4, <1>9
  <2>5. CASE To(c, "login") /\ UNCHANGED available
    BY <2>1, <2>5, <1>9
  <2>6. CASE Fetching(c, session[i].generation, 1) /\ UNCHANGED available
    <3>1. PICK e \in CallerRec :
            /\ e.index = i /\ e.phase = "fetch" /\ e.tier = caller[c].tier
            /\ e.generation = session[i].generation
            /\ caller' = [caller EXCEPT ![c] = e]
      BY <1>8, <2>6, <2>7
    <3> QED BY <1>1, <2>1, <2>2, <2>6, <3>1, MoveKeeps
  <2> QED BY <1>11, <2>3, <2>4, <2>5, <2>6 DEF Ensure, Of
<1>12. ASSUME i # 0, i \in Session, session[i].generation < MaxLogins,
              session' = [session EXCEPT ![i] = LoggedIn(@)]
       PROVE  /\ session[i] \in PooledRec /\ LoggedIn(session[i]) \in PooledRec
              /\ session[i].generation + 1 \in 0..MaxLogins
              /\ session' = [session EXCEPT ![i] = LoggedIn(session[i])]
              /\ session'[i].generation = session[i].generation + 1
  <2>1. session[i] \in PooledRec
    BY <1>1, <1>12
  <2>2. session[i].generation + 1 \in 0..MaxLogins
    BY <2>1, <1>12 DEF PooledRec
  <2>3. LoggedIn(session[i]) \in PooledRec /\ LoggedIn(session[i]).generation = session[i].generation + 1
    BY <2>1, <1>12, LoginTyped
  <2> QED BY <1>1, <1>12, <2>1, <2>2, <2>3
<1>20. 1 \in 1..2 /\ 2 \in 1..2
  OBVIOUS
<1>13. CASE LoginSucceeds(c)
  <2>1. /\ i # 0 /\ i \in Session /\ session[i].generation < MaxLogins
        /\ session' = [session EXCEPT ![i] = LoggedIn(@)]
        /\ honoured' \subseteq Session /\ poisoned' \in BOOLEAN
    BY <1>1, <1>2, <1>13 DEF LoginSucceeds, At, Of
  <2> DEFINE s == LoggedIn(session[i])
             g == session[i].generation + 1
  <2>2. /\ s \in PooledRec /\ g \in 0..MaxLogins
        /\ session' = [session EXCEPT ![i] = s] /\ session'[i].generation = g
    BY <2>1, <1>12, Zenon
  <2> HIDE DEF s, g
  <2>3. CASE GivesBack(c)
    BY <2>1, <2>2, <2>3, EndKeeps
  <2>4. CASE To(c, "refresh") /\ UNCHANGED available
    <3>1. PICK e \in CallerRec :
            /\ e.index = i /\ e.phase = "refresh" /\ e.tier = caller[c].tier
            /\ caller' = [caller EXCEPT ![c] = e]
      BY <1>7, <2>4
    <3> QED BY <2>1, <2>2, <2>4, <3>1, MoveKeeps
  <2>5. CASE Fetching(c, g, 1) /\ UNCHANGED available
    <3>1. PICK e \in CallerRec :
            /\ e.index = i /\ e.phase = "fetch" /\ e.tier = caller[c].tier /\ e.generation = g
            /\ caller' = [caller EXCEPT ![c] = e]
      BY <1>8, <1>20, <2>2, <2>5
    <3> QED BY <2>1, <2>2, <2>5, <3>1, MoveKeeps
  <2> QED BY <1>13, <2>3, <2>4, <2>5 DEF LoginSucceeds, Of, g
<1>14. CASE LoginFails(c)
  <2>1. /\ i # 0 /\ i \in Session /\ GivesBack(c)
        /\ honoured' \subseteq Session /\ poisoned' \in BOOLEAN
    BY <1>1, <1>2, <1>14 DEF LoginFails, At
  <2> DEFINE s == applyBackoff(session[i])
  <2>2. s \in PooledRec
    BY <1>1, <2>1, BackoffTyped
  <2>3. session' = session \/ session' = [session EXCEPT ![i] = s]
    BY <1>14 DEF LoginFails
  <2> HIDE DEF s
  <2> QED BY <2>1, <2>2, <2>3, EndKeeps
<1>15. CASE FetchEnds(c)
  BY <1>2, <1>9, <1>10, <1>15 DEF FetchEnds, At
<1>16. CASE FetchFails(c)
  BY <1>2, <1>10, <1>16 DEF FetchFails, At
<1>17. CASE Refresh(c)
  BY <1>2, <1>9, <1>10, <1>17 DEF Refresh, At
<1>18. CASE RefreshSucceeds(c)
  <2>1. /\ i # 0 /\ i \in Session /\ session[i].generation < MaxLogins
        /\ session' = [session EXCEPT ![i] = LoggedIn(@)] /\ available' = available
        /\ honoured' \subseteq Session /\ poisoned' \in BOOLEAN
    BY <1>1, <1>2, <1>18 DEF RefreshSucceeds, At, Of
  <2> DEFINE s == LoggedIn(session[i])
             g == session[i].generation + 1
  <2>2. /\ s \in PooledRec /\ g \in 0..MaxLogins
        /\ session' = [session EXCEPT ![i] = s] /\ session'[i].generation = g
    BY <2>1, <1>12, Zenon
  <2>3. Fetching(c, g, 2)
    BY <1>18 DEF RefreshSucceeds, Of
  <2> HIDE DEF s, g
  <2>4. PICK e \in CallerRec :
          /\ e.index = i /\ e.phase = "fetch" /\ e.tier = caller[c].tier /\ e.generation = g
          /\ caller' = [caller EXCEPT ![c] = e]
    BY <1>8, <1>20, <2>2, <2>3
  <2> QED BY <2>1, <2>2, <2>4, MoveKeeps
<1>19. CASE RefreshFails(c)
  <2>1. /\ i # 0 /\ i \in Session /\ GivesBack(c)
        /\ honoured' \subseteq Session /\ poisoned' \in BOOLEAN
    BY <1>1, <1>2, <1>19 DEF RefreshFails, At
  <2> DEFINE s == applyBackoff(session[i])
  <2>2. s \in PooledRec
    BY <1>1, <2>1, BackoffTyped
  <2>3. session' = session \/ session' = [session EXCEPT ![i] = s]
    BY <1>19 DEF RefreshFails
  <2> HIDE DEF s
  <2> QED BY <2>1, <2>2, <2>3, EndKeeps
<1> QED BY <1>3, <1>4, <1>5, <1>6, <1>11, <1>13, <1>14, <1>15, <1>16, <1>17, <1>18, <1>19 DEF Working

LEMMA PlacesStay ==
  ASSUME PlaceInv, available' = available, caller' = caller
  PROVE  PlaceInv'
<1>1. \A i : Queued(i)' <=> Queued(i)
  BY DEF Queued
<1>2. \A t \in Tier : QueueOK(t)'
  BY DEF PlaceInv, QueueOK
<1>3. \A c \in Caller : HoldOK(c)'
  BY <1>1 DEF PlaceInv, HoldOK
<1> QED BY <1>1, <1>2, <1>3 DEF PlaceInv

\* Time, the end of a backoff and a kick change no place and no cookie.
LEMMA TimeKeeps ==
  ASSUME PoolInv, NEW i \in Session, Ages(i) \/ BackoffEnds(i) \/ Kicked(i)
  PROVE  PoolInv'
<1>1. available' = available /\ caller' = caller /\ poisoned' = poisoned
  BY DEF Ages, BackoffEnds, Kicked
<1>2. PlaceInv'
  BY <1>1, PlacesStay DEF PoolInv
<1>3. /\ session' \in [Session -> PooledRec] /\ honoured' \subseteq Session
      /\ \A j \in Session : session'[j].generation = session[j].generation
  <2>1. session \in [Session -> PooledRec] /\ session[i] \in PooledRec /\ honoured \subseteq Session
    BY DEF PoolInv
  <2>2. CASE Ages(i)
    <3>1. PICK a \in Age : session' = [session EXCEPT ![i].age = a]
      BY <2>2 DEF Ages, Age
    <3>2. [session[i] EXCEPT !.age = a] \in PooledRec
      BY <2>1 DEF PooledRec
    <3>3. \A j \in Session : session[j] \in PooledRec /\ session'[j].generation = session[j].generation
      BY <2>1, <3>1 DEF PooledRec
    <3> QED BY <2>1, <2>2, <3>1, <3>2, <3>3 DEF Ages
  <2>3. CASE BackoffEnds(i)
    <3>1. session' = [session EXCEPT ![i].backedOff = FALSE]
      BY <2>3 DEF BackoffEnds
    <3>2. [session[i] EXCEPT !.backedOff = FALSE] \in PooledRec
      BY <2>1 DEF PooledRec
    <3>3. \A j \in Session : session[j] \in PooledRec /\ session'[j].generation = session[j].generation
      BY <2>1, <3>1 DEF PooledRec
    <3> QED BY <2>1, <2>3, <3>1, <3>2, <3>3 DEF BackoffEnds
  <2>4. CASE Kicked(i)
    BY <2>1, <2>4 DEF Kicked
  <2> QED BY <2>2, <2>3, <2>4
<1>4. ReferenceIsCurrent'
  <2> SUFFICES ASSUME NEW c \in Caller, caller[c].phase = "fetch"
               PROVE  caller[c].generation = session'[caller[c].index].generation
    BY <1>1 DEF ReferenceIsCurrent, At, Of
  <2>1. caller[c].index \in Session
    BY Holding DEF PoolInv
  <2> QED BY <1>3, <2>1 DEF PoolInv, ReferenceIsCurrent, At, Of
<1> QED BY <1>1, <1>2, <1>3, <1>4 DEF PoolInv

LEMMA Places == PlaceInv => SessionInOnePlace
<1> SUFFICES ASSUME PlaceInv, NEW i \in Session
             PROVE  /\ Cardinality({p \in Tier \X (1..Cardinality(Session)) :
                              p[2] <= Len(available[p[1]]) /\ available[p[1]][p[2]] = i})
                       + Cardinality({c \in Caller : caller[c].index = i}) = 1
                    /\ \A t \in Tier : i \in Range(available[t]) => TierOf[i] = t
  BY DEF SessionInOnePlace
<1> USE PoolAssumption DEF PlaceInv
<1> DEFINE N == Cardinality(Session)
           A == {p \in Tier \X (1..N) : p[2] <= Len(available[p[1]]) /\ available[p[1]][p[2]] = i}
           B == {c \in Caller : caller[c].index = i}
           u == TierOf[i]
<1>1. N \in Nat
  BY FS_CardinalityType
<1>2. \A t \in Tier : available[t] \in Seq(Session) /\ Len(available[t]) <= N
  <2> TAKE t \in Tier
  <2> DEFINE q == available[t]
  <2>1. q \in Seq(Session) /\ \A j, k \in 1..Len(q) : q[j] = q[k] => j = k
    BY DEF QueueOK
  <2> QED BY <2>1, NoLonger
<1>3. \A t \in Tier : i \in Range(available[t]) => TierOf[i] = t
  BY <1>2 DEF Range, QueueOK
<1>4. \A t \in Tier, j \in 1..N : <<t, j>> \in A <=> j \in 1..Len(available[t]) /\ available[t][j] = i
  BY <1>1, <1>2
<1>5. \A p \in A : p \in Tier \X (1..N) /\ p = <<p[1], p[2]>>
  OBVIOUS
<1> HIDE DEF A
<1>6. \A p \in A : p[1] = u /\ Queued(i)
  <2> TAKE p \in A
  <2>1. p[1] \in Tier /\ p[2] \in 1..N /\ <<p[1], p[2]>> \in A
    BY <1>5
  <2>2. p[2] \in 1..Len(available[p[1]]) /\ available[p[1]][p[2]] = i
    BY <1>4, <2>1
  <2>3. p[1] = u
    BY <2>1, <2>2 DEF QueueOK
  <2> QED BY <2>2, <2>3 DEF Queued
<1>7. CASE Queued(i)
  <2>1. PICK j \in 1..Len(available[u]) : available[u][j] = i
    BY <1>7 DEF Queued
  <2>2. j \in 1..N /\ u \in Tier
    BY <1>1, <1>2
  <2>3. <<u, j>> \in A
    BY <1>4, <2>1, <2>2
  <2>4. \A p \in A : p[2] = j
    <3> TAKE p \in A
    <3>1. p[1] = u /\ p[2] \in 1..N /\ <<u, p[2]>> \in A
      BY <1>5, <1>6
    <3>2. p[2] \in 1..Len(available[u]) /\ available[u][p[2]] = i
      BY <1>4, <2>2, <3>1
    <3> QED BY <2>1, <2>2, <3>2 DEF QueueOK
  <2>5. A = {<<u, j>>}
    BY <1>5, <1>6, <2>3, <2>4
  <2>6. B = {}
    BY <1>7 DEF HoldOK
  <2>7. Cardinality(A) = 1 /\ Cardinality(B) = 0
    BY <2>5, <2>6, FS_Singleton, FS_EmptySet
  <2> QED BY <2>7, <1>3 DEF A
<1>8. CASE ~Queued(i)
  <2>1. PICK c \in Caller : caller[c].index = i
    BY <1>8
  <2>2. B = {c}
    BY <2>1 DEF HoldOK
  <2>3. A = {}
    BY <1>6, <1>8
  <2>4. Cardinality(A) = 0 /\ Cardinality(B) = 1
    BY <2>2, <2>3, FS_Singleton, FS_EmptySet
  <2> QED BY <2>4, <1>3 DEF A
<1> QED BY <1>7, <1>8

\* Capacity is neither lost nor duplicated, for any number of calls, sessions
\* and tiers: on every path through the error returns of acquireIndex, the
\* retries and the deferred Release, a session is in the queue of its own tier
\* once or used by one call; and the cookie a request is sent with is the
\* latest of its session.
THEOREM SessionsAreKept == PoolSpec => [](PoolTypeOK /\ SessionInOnePlace /\ ReferenceIsCurrent)
<1>1. PoolInit => PoolInv
  BY PoolInitOK
<1>2. PoolInv /\ [PoolNext]_poolVars => PoolInv'
  <2> SUFFICES ASSUME PoolInv, [PoolNext]_poolVars PROVE PoolInv'
    OBVIOUS
  <2>1. CASE UNCHANGED poolVars
    <3>1. PlaceInv'
      BY <2>1, PlacesStay DEF poolVars, PoolInv
    <3>2. ReferenceIsCurrent'
      BY <2>1 DEF poolVars, PoolInv, ReferenceIsCurrent, At, Of
    <3> QED BY <2>1, <3>1, <3>2 DEF poolVars, PoolInv
  <2>2. ASSUME NEW c \in Caller, Begin(c) \/ Cancel(c) \/ Working(c) PROVE PoolInv'
    BY <2>2, CallKeeps
  <2>3. ASSUME NEW i \in Session, Ages(i) \/ BackoffEnds(i) \/ Kicked(i) PROVE PoolInv'
    BY <2>3, TimeKeeps
  <2> QED BY <2>1, <2>2, <2>3 DEF PoolNext
<1>3. PoolInv => PoolTypeOK /\ SessionInOnePlace /\ ReferenceIsCurrent
  BY Places DEF PoolInv, PlaceInv, PoolTypeOK, PooledRec, CallerRec
<1> QED BY <1>1, <1>2, <1>3, PTL DEF PoolSpec

=============================================================================
