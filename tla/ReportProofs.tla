----------------------------- MODULE ReportProofs -----------------------------
(*****************************************************************************)
(* Reports.  The course report for any number of sessions, workers and       *)
(* students and any retry budget: the shared counter gives every session to  *)
(* one worker, the budget bounds the second fetches, and a returned report   *)
(* has a result or an error for every session.  The attendance export for    *)
(* any sessions and any commits around it.                                   *)
(*****************************************************************************)
EXTENDS CourseReport, AttendanceExport, FiniteSetTheorems, TLAPS

-----------------------------------------------------------------------------
\* The course report

Holding == {"fetch", "limited", "backoff", "retry"}

Shape ==
    /\ next \in Nat \ {0}
    /\ worker \in [Worker -> [pc : Holding \cup {"take", "exit"}, index : Nat]]
    /\ results \in [Index -> Results]
    /\ budget \in Nat /\ retries \in Nat /\ cancelled \in BOOLEAN

\* The sessions the counter has passed.
Taken == {i \in Index : i < next}

\* Who holds which session, and what the counter has not reached.
Sharing ==
    /\ \A w \in Worker :
          IF worker[w].pc \in Holding
            THEN /\ worker[w].index \in Taken
                 /\ results[worker[w].index].state = ""
            ELSE worker[w].index = 0
    /\ \A v, w \in Worker : v # w /\ worker[v].index # 0 => worker[v].index # worker[w].index
    /\ report = {} => \A i \in Index \ Taken : results[i].state = ""

\* The sessions the counter has passed are held or have a result.
Progress ==
    /\ report = {} => \A i \in Taken :
          cancelled \/ results[i].state # "" \/ \E w \in Worker : worker[w].index = i
    /\ \A w \in Worker : worker[w].pc = "exit" => cancelled \/ Taken = Index
    /\ report # {} => (\A w \in Worker : worker[w].pc = "exit") /\ NoSilentGap

ReportInv == Shape /\ Sharing /\ Progress

\* The workers that have taken a token and not used it.
Spending == {w \in Worker : worker[w].pc \in {"backoff", "retry"}}

BudgetInv == budget <= MaxRetries /\ retries + Cardinality(Spending) <= budget

\* What next.Add(1) does to the set of the sessions taken.
LEMMA Counter ==
    ASSUME next \in Nat \ {0}, next' = next + 1
    PROVE  /\ next > Sessions => Taken = Index /\ Taken' = Index
           /\ ~(next > Sessions) =>
                 next \in Index /\ next \notin Taken /\ Taken' = Taken \cup {next}
<1>1. Sessions \in Nat \ {0}
  BY ReportAssumption
<1>2. CASE next > Sessions
  BY <1>1, <1>2 DEF Taken, Index
<1>3. CASE ~(next > Sessions)
  <2>1. next \in Index /\ next \notin Taken
    BY <1>1, <1>3 DEF Taken, Index
  <2>2. \A i \in Index : i < next + 1 <=> i < next \/ i = next
    BY <1>1 DEF Index
  <2>3. Taken' = {i \in Index : i < next + 1}
    BY DEF Taken
  <2> QED
    BY <1>3, <2>1, <2>2, <2>3 DEF Taken
<1> QED
  BY <1>2, <1>3

LEMMA ZeroIsNoSession == 0 \notin Index
BY DEF Index

LEMMA EmptyIsRoster == Empty \in Roster
BY DEF Empty, Roster

LEMMA ReportStart == ReportInit => ReportInv
<1> SUFFICES ASSUME ReportInit PROVE ReportInv
  OBVIOUS
<1>1. Shape
  <2>1. results \in [Index -> Results]
    BY EmptyIsRoster DEF ReportInit, Results
  <2>2. worker \in [Worker -> [pc : Holding \cup {"take", "exit"}, index : Nat]]
    BY DEF ReportInit
  <2>3. next = 1 /\ budget = 0 /\ retries = 0
    BY DEF ReportInit
  <2>4. cancelled \in BOOLEAN
    BY Zenon DEF ReportInit
  <2> QED
    BY <2>1, <2>2, <2>3, <2>4 DEF Shape
<1>2. Taken = {}
  <2>1. next = 1
    BY DEF ReportInit
  <2> QED
    BY <2>1, ReportAssumption DEF Taken, Index
<1>3. \A w \in Worker : worker[w].pc = "take" /\ worker[w].index = 0
  BY DEF ReportInit
<1>4. Sharing
  BY <1>2, <1>3 DEF ReportInit, Sharing, Holding
<1>5. Progress
  BY <1>2, <1>3 DEF ReportInit, Progress
<1> QED
  BY <1>1, <1>4, <1>5 DEF ReportInv

\* A worker without a session collides with nobody.
LEMMA FreeKeeps ==
    ASSUME Sharing, NEW w \in Worker, worker'[w].index = 0,
           \A v \in Worker : v # w => worker'[v] = worker[v]
    PROVE  \A u, v \in Worker :
             u # v /\ worker'[u].index # 0 => worker'[u].index # worker'[v].index
<1>1. SUFFICES ASSUME NEW u \in Worker, NEW v \in Worker, u # v, worker'[u].index # 0
               PROVE  worker'[u].index # worker'[v].index
  BY Zenon
<1>2. CASE v = w
  BY <1>1, <1>2, Zenon
<1>3. CASE v # w
  <2>1. worker'[u] = worker[u] /\ worker'[v] = worker[v]
    BY <1>1, <1>3, Zenon
  <2>2. worker[u].index # 0 => worker[u].index # worker[v].index
    BY <1>1, Zenon DEF Sharing
  <2> QED
    BY <1>1, <2>1, <2>2, Zenon
<1> QED
  BY <1>2, <1>3, Zenon

LEMMA TakeKeeps ==
    ASSUME ReportInv, NEW w \in Worker, Take(w)
    PROVE  ReportInv'
<1>1. /\ Shape /\ Sharing /\ Progress /\ worker[w].pc = "take" /\ worker[w].index = 0
      /\ report = {} /\ next' = next + 1
      /\ UNCHANGED <<done, results, budget, retries, cancelled, report>>
  BY DEF ReportInv, Take, Sharing, Progress, Holding
<1>2. CASE next > Sessions \/ cancelled
  <2>1. worker' = [worker EXCEPT ![w] = [pc |-> "exit", index |-> 0]]
    BY <1>2 DEF Take, Exits
  <2>2. /\ worker'[w].pc = "exit" /\ worker'[w].index = 0
        /\ \A v \in Worker : v # w => worker'[v] = worker[v]
    BY <1>1, <2>1 DEF Shape
  <2>3. Shape'
    BY <1>1, <2>1 DEF Shape
  <2>4. Taken \subseteq Taken' /\ (cancelled \/ Taken' = Index)
    BY <1>1, <1>2, Counter DEF Shape
  <2>5. Sharing'
    <3>1. ASSUME NEW v \in Worker
          PROVE  IF worker'[v].pc \in Holding
                   THEN worker'[v].index \in Taken' /\ results[worker'[v].index].state = ""
                   ELSE worker'[v].index = 0
      <4>1. CASE v = w
        BY <2>2, <4>1 DEF Holding
      <4>2. CASE v # w
        BY <1>1, <2>2, <2>4, <3>1, <4>2, Zenon DEF Sharing
      <4> QED
        BY <4>1, <4>2
    <3>2. \A u, v \in Worker :
            u # v /\ worker'[u].index # 0 => worker'[u].index # worker'[v].index
      BY <1>1, <2>2, FreeKeeps, Zenon
    <3>3. \A i \in Index \ Taken' : results[i].state = ""
      BY <1>1, <2>4, Zenon DEF Sharing
    <3>4. Index' = Index /\ results' = results /\ report' = report
      BY <1>1 DEF Index
    <3> QED
      BY <3>1, <3>2, <3>3, <3>4, Zenon DEF Sharing
  <2>6. Progress'
    <3>1. CASE cancelled
      BY <1>1, <2>2, <3>1 DEF Progress
    <3>2. CASE ~cancelled
      <4>1. Taken' = Taken /\ Taken' = Index
        BY <1>1, <1>2, <3>2, Counter DEF Shape
      <4> QED
        <5>1. ASSUME NEW i \in Index, results[i].state = ""
              PROVE  \E v \in Worker : worker'[v].index = i
          <6>1. PICK v \in Worker : worker[v].index = i
            BY <1>1, <3>2, <4>1, <5>1 DEF Progress
          <6>2. i # 0
            BY <5>1, ZeroIsNoSession
          <6>3. worker'[v] = worker[v]
            BY <1>1, <2>2, <6>1, <6>2, Zenon
          <6> QED
            BY <6>1, <6>3, Zenon
        <5> QED
          BY <1>1, <4>1, <5>1 DEF Progress
    <3> QED
      BY <3>1, <3>2
  <2> QED
    BY <2>3, <2>5, <2>6 DEF ReportInv
<1>3. CASE ~(next > Sessions \/ cancelled)
  <2>1. worker' = [worker EXCEPT ![w] = [pc |-> "fetch", index |-> next]]
    BY <1>3 DEF Take
  <2>2. /\ worker'[w].pc = "fetch" /\ worker'[w].index = next
        /\ \A v \in Worker : v # w => worker'[v] = worker[v]
    BY <1>1, <2>1 DEF Shape
  <2>3. Shape'
    BY <1>1, <2>1 DEF Shape, Holding
  <2>4. next \in Index /\ next \notin Taken /\ Taken' = Taken \cup {next}
    BY <1>1, <1>3, Counter DEF Shape
  <2>5. results[next].state = ""
    BY <1>1, <2>4 DEF Sharing
  <2>6. next # 0 /\ \A v \in Worker : worker[v].index # next
    BY <1>1, <2>4, ZeroIsNoSession DEF Sharing
  <2>7. Sharing'
    <3>1. \A v \in Worker :
            IF worker'[v].pc \in Holding
              THEN worker'[v].index \in Taken' /\ results[worker'[v].index].state = ""
              ELSE worker'[v].index = 0
      BY <1>1, <2>2, <2>4, <2>5 DEF Sharing, Holding
    <3>2. \A u, v \in Worker :
            u # v /\ worker'[u].index # 0 => worker'[u].index # worker'[v].index
      <4>1. SUFFICES ASSUME NEW u \in Worker, NEW v \in Worker, u # v, worker'[u].index # 0
                     PROVE  worker'[u].index # worker'[v].index
        BY Zenon
      <4>2. CASE u = w
        BY <2>2, <2>6, <4>1, <4>2, Zenon
      <4>3. CASE v = w
        BY <2>2, <2>6, <4>1, <4>3, Zenon
      <4>4. CASE u # w /\ v # w
        <5>1. worker'[u] = worker[u] /\ worker'[v] = worker[v]
          BY <2>2, <4>4, Zenon
        <5>2. worker[u].index # 0 => worker[u].index # worker[v].index
          BY <1>1, <4>1, Zenon DEF Sharing
        <5> QED
          BY <4>1, <5>1, <5>2, Zenon
      <4> QED
        BY <4>2, <4>3, <4>4, Zenon
    <3>3. \A i \in Index \ Taken' : results[i].state = ""
      BY <1>1, <2>4 DEF Sharing
    <3> QED
      BY <1>1, <3>1, <3>2, <3>3 DEF Sharing
  <2>8. Progress'
    <3>1. \A i \in Taken' : \/ cancelled \/ results[i].state # ""
                            \/ \E v \in Worker : worker'[v].index = i
      <4>1. SUFFICES ASSUME NEW i \in Taken'
                     PROVE  \/ cancelled \/ results[i].state # ""
                            \/ \E v \in Worker : worker'[v].index = i
        BY Zenon
      <4>2. CASE i = next
        BY <2>2, <4>2, Zenon
      <4>3. CASE i \in Taken
        <5>1. \/ cancelled \/ results[i].state # "" \/ \E v \in Worker : worker[v].index = i
          BY <1>1, <4>3, Zenon DEF Progress
        <5>2. i # 0
          BY <4>3, ZeroIsNoSession DEF Taken
        <5>3. ASSUME NEW v \in Worker, worker[v].index = i PROVE worker'[v].index = i
          BY <1>1, <2>2, <5>2, <5>3, Zenon
        <5> QED
          BY <5>1, <5>3, Zenon
      <4> QED
        BY <2>4, <4>1, <4>2, <4>3, Zenon
    <3>2. \A v \in Worker : worker'[v].pc = "exit" => cancelled \/ Taken' = Index
      BY <1>1, <2>2, <2>4 DEF Progress, Taken
    <3> QED
      BY <1>1, <3>1, <3>2 DEF Progress
  <2> QED
    BY <2>3, <2>7, <2>8 DEF ReportInv
<1> QED
  BY <1>2, <1>3

\* A worker that writes its result.
LEMMA EndsKeeps ==
    ASSUME ReportInv, NEW w \in Worker, worker[w].pc \in Holding,
           NEW state \in {"ok", "empty", "error"}, NEW roster \in Roster,
           Ends(w, state, roster),
           UNCHANGED <<next, cancelled, report>>, budget' \in Nat, retries' \in Nat
    PROVE  ReportInv'
<1> DEFINE n == worker[w].index
<1>1. Shape /\ Sharing /\ Progress /\ n \in Taken /\ n \in Index /\ report = {} /\ Taken' = Taken
  BY DEF ReportInv, Sharing, Progress, Holding, Taken
<1>2. /\ results' = [results EXCEPT ![n] = [state |-> state, roster |-> roster]]
      /\ worker' = [worker EXCEPT ![w] = [pc |-> "take", index |-> 0]]
  BY DEF Ends
<1>3. /\ worker'[w].pc = "take" /\ worker'[w].index = 0
      /\ \A v \in Worker : v # w => worker'[v] = worker[v]
  BY <1>1, <1>2 DEF Shape
<1>4. results'[n].state # "" /\ \A i \in Index : i # n => results'[i] = results[i]
  BY <1>1, <1>2 DEF Shape
<1>5. Shape'
  BY <1>1, <1>2 DEF Shape, Results
<1>6. Sharing'
  <2>1. \A v \in Worker : v # w => worker[v].index # n
    BY <1>1, ZeroIsNoSession DEF Sharing
  <2>2. \A v \in Worker :
          IF worker'[v].pc \in Holding
            THEN worker'[v].index \in Taken /\ results'[worker'[v].index].state = ""
            ELSE worker'[v].index = 0
    <3>1. ASSUME NEW v \in Worker, v # w, worker[v].pc \in Holding
          PROVE  worker[v].index \in Taken /\ results'[worker[v].index].state = ""
      <4>1. worker[v].index \in Taken /\ results[worker[v].index].state = ""
        BY <1>1, <3>1 DEF Sharing
      <4>2. worker[v].index \in Index /\ worker[v].index # n
        BY <2>1, <3>1, <4>1 DEF Taken
      <4> QED
        BY <1>4, <4>1, <4>2
    <3>2. \A v \in Worker : worker[v].pc \notin Holding => worker[v].index = 0
      BY <1>1 DEF Sharing
    <3> QED
      BY <1>3, <3>1, <3>2 DEF Holding
  <2>3. \A u, v \in Worker : u # v /\ worker'[u].index # 0 => worker'[u].index # worker'[v].index
    BY <1>1, <1>3, FreeKeeps, Zenon
  <2>4. \A i \in Index \ Taken : results'[i].state = ""
    BY <1>1, <1>4 DEF Sharing
  <2> QED
    BY <1>1, <2>2, <2>3, <2>4 DEF Sharing
<1>7. Progress'
  <2>1. \A i \in Taken : \/ cancelled \/ results'[i].state # ""
                         \/ \E v \in Worker : worker'[v].index = i
    <3>1. ASSUME NEW i \in Taken, i # n, ~cancelled, results[i].state = ""
          PROVE  \E v \in Worker : worker'[v].index = i
      <4>1. PICK v \in Worker : worker[v].index = i
        BY <1>1, <3>1 DEF Progress
      <4>2. v # w
        BY <3>1, <4>1
      <4> QED
        BY <1>3, <4>1, <4>2
    <3> QED
      BY <1>4, <3>1 DEF Taken
  <2>2. \A v \in Worker : worker'[v].pc = "exit" => cancelled \/ Taken = Index
    BY <1>1, <1>3 DEF Progress
  <2> QED
    BY <1>1, <2>1, <2>2 DEF Progress
<1> QED
  BY <1>5, <1>6, <1>7 DEF ReportInv

LEMMA AnswersKeeps ==
    ASSUME ReportInv, NEW w \in Worker, worker[w].pc \in Holding, Answers(w),
           UNCHANGED <<next, cancelled, report>>, budget' \in Nat, retries' \in Nat
    PROVE  ReportInv'
<1>2. CASE Ends(w, "error", Empty)
  BY <1>2, EndsKeeps, EmptyIsRoster
<1>3. ASSUME NEW roster \in Roster, Ends(w, IF roster = Empty THEN "empty" ELSE "ok", roster)
      PROVE  ReportInv'
  BY <1>3, EndsKeeps
<1> QED
  BY <1>2, <1>3 DEF Answers

\* A step after which every worker holds what it held.
LEMMA SameHeld ==
    ASSUME ReportInv, Shape', results' = results, report' = report, report = {},
           cancelled' = cancelled, Taken' = Taken,
           \A v \in Worker : /\ worker'[v].index = worker[v].index
                             /\ (worker'[v].pc \in Holding <=> worker[v].pc \in Holding)
                             /\ (worker'[v].pc = "exit" <=> worker[v].pc = "exit")
    PROVE  ReportInv'
<1>1. Sharing'
  <2>1. \A v \in Worker :
          IF worker'[v].pc \in Holding
            THEN worker'[v].index \in Taken /\ results[worker'[v].index].state = ""
            ELSE worker'[v].index = 0
    <3> SUFFICES ASSUME NEW v \in Worker
                 PROVE  IF worker'[v].pc \in Holding
                          THEN worker'[v].index \in Taken /\ results[worker'[v].index].state = ""
                          ELSE worker'[v].index = 0
      OBVIOUS
    <3>1. /\ worker'[v].index = worker[v].index
          /\ worker'[v].pc \in Holding <=> worker[v].pc \in Holding
      OBVIOUS
    <3>2. IF worker[v].pc \in Holding
            THEN worker[v].index \in Taken /\ results[worker[v].index].state = ""
            ELSE worker[v].index = 0
      BY Zenon DEF ReportInv, Sharing
    <3> QED
      BY <3>1, <3>2
  <2>2. \A u, v \in Worker : u # v /\ worker'[u].index # 0 => worker'[u].index # worker'[v].index
    <3>1. \A u, v \in Worker : u # v /\ worker[u].index # 0 => worker[u].index # worker[v].index
      BY Zenon DEF ReportInv, Sharing
    <3>2. \A v \in Worker : worker'[v].index = worker[v].index
      OBVIOUS
    <3> QED
      BY <3>1, <3>2
  <2>3. report = {} => \A i \in Index \ Taken : results[i].state = ""
    BY Zenon DEF ReportInv, Sharing
  <2> QED
    BY <2>1, <2>2, <2>3 DEF Sharing
<1>2. Progress'
  <2>1. \A i \in Taken : \/ cancelled \/ results[i].state # ""
                         \/ \E v \in Worker : worker'[v].index = i
    <3> SUFFICES ASSUME NEW i \in Taken, ~cancelled, results[i].state = ""
                 PROVE  \E v \in Worker : worker'[v].index = i
      OBVIOUS
    <3>1. PICK v \in Worker : worker[v].index = i
      BY Zenon DEF ReportInv, Progress
    <3> QED
      BY <3>1
  <2>2. \A v \in Worker : worker'[v].pc = "exit" => cancelled \/ Taken = Index
    BY DEF ReportInv, Progress
  <2> QED
    BY <2>1, <2>2 DEF Progress
<1> QED
  BY <1>1, <1>2 DEF ReportInv

\* A worker that goes on with the session it holds.
LEMMA HoldsKeeps ==
    ASSUME ReportInv, NEW w \in Worker, worker[w].pc \in Holding, NEW pc \in Holding,
           worker' = [worker EXCEPT ![w].pc = pc],
           UNCHANGED <<next, results, cancelled, report>>, budget' \in Nat, retries' \in Nat
    PROVE  ReportInv'
<1>1. Shape /\ report = {} /\ Taken' = Taken
  BY DEF ReportInv, Progress, Holding, Taken
<1>2. Shape'
  BY <1>1 DEF Shape
<1>3. worker[w].pc # "exit" /\ pc # "exit"
  BY DEF Holding
<1>4. \A v \in Worker : /\ worker'[v].index = worker[v].index
                         /\ (worker'[v].pc \in Holding <=> worker[v].pc \in Holding)
                         /\ (worker'[v].pc = "exit" <=> worker[v].pc = "exit")
  BY <1>1, <1>3 DEF Shape
<1> QED
  BY <1>1, <1>2, <1>4, SameHeld

LEMMA ReturnKeeps ==
    ASSUME Worker # {}, ReportInv, Return
    PROVE  ReportInv'
<1>1. /\ Shape /\ Sharing /\ Progress /\ report = {} /\ \A w \in Worker : worker[w].pc = "exit"
      /\ results' = [i \in Index |-> IF cancelled /\ results[i].state = ""
                                       THEN [state |-> "error", roster |-> Empty]
                                       ELSE results[i]]
      /\ report' = {Compute(results', cancelled)}
      /\ UNCHANGED <<done, next, worker, budget, retries, cancelled>>
      /\ Taken' = Taken
  BY DEF ReportInv, Return, Taken
<1>2. Shape'
  <2>1. results' \in [Index -> Results]
    BY <1>1, EmptyIsRoster DEF Shape, Results
  <2> QED
    BY <1>1, <2>1 DEF Shape
<1>3. Sharing'
  BY <1>1 DEF Sharing, Holding
<1>4. \A i \in Index : results'[i].state # ""
  <2>1. ASSUME NEW i \in Index, ~cancelled PROVE results[i].state # ""
    <3>1. i \in Taken
      BY <1>1, <2>1 DEF Progress
    <3>2. \A w \in Worker : worker[w].index # i
      BY <1>1, ZeroIsNoSession DEF Sharing, Holding
    <3> QED
      BY <1>1, <2>1, <3>1, <3>2 DEF Progress
  <2> QED
    BY <1>1, <2>1
<1>5. \A i \in Index : results'[i].state \in {"ok", "empty", "error"}
  BY <1>2, <1>4 DEF Shape, Results
<1>6. Compute(results', cancelled).errors = {i \in Index : results'[i].state = "error"}
  BY DEF Compute
<1>7. NoSilentGap'
  BY <1>1, <1>5, <1>6 DEF NoSilentGap
<1> QED
  BY <1>1, <1>2, <1>3, <1>7 DEF ReportInv, Progress

LEMMA ReportKeeps == Worker # {} /\ ReportInv /\ [ReportNext]_reportVars => ReportInv'
<1> SUFFICES ASSUME Worker # {}, ReportInv, [ReportNext]_reportVars PROVE ReportInv'
  OBVIOUS
<1>0. Shape
  BY DEF ReportInv
<1>1. CASE CancelRequest
  BY <1>1 DEF CancelRequest, ReportInv, Shape, Sharing, Progress, NoSilentGap, Taken
<1>2. CASE Return
  BY <1>2, ReturnKeeps
<1>3. ASSUME NEW w \in Worker, WorkerStep(w) PROVE ReportInv'
  <2>1. CASE Take(w)
    BY <2>1, TakeKeeps
  <2>2. CASE Fetch(w)
    BY <1>0, <2>2, AnswersKeeps, HoldsKeeps DEF Fetch, Holding, Shape
  <2>3. CASE AcquireRetry(w)
    BY <1>0, <2>3, EndsKeeps, HoldsKeeps, EmptyIsRoster DEF AcquireRetry, Holding, Shape
  <2>4. CASE Backoff(w)
    BY <1>0, <2>4, EndsKeeps, HoldsKeeps, EmptyIsRoster DEF Backoff, Holding, Shape
  <2>5. CASE Retry(w)
    BY <1>0, <2>5, AnswersKeeps DEF Retry, Holding, Shape
  <2> QED
    BY <1>3, <2>1, <2>2, <2>3, <2>4, <2>5 DEF WorkerStep
<1>4. CASE UNCHANGED reportVars
  BY <1>4 DEF reportVars, ReportInv, Shape, Sharing, Progress, NoSilentGap, Taken
<1> QED
  BY <1>1, <1>2, <1>3, <1>4 DEF ReportNext

----------------------------------------------------------------------------
(* The retry budget *)

LEMMA SpendingFinite ==
    /\ IsFiniteSet(Spending) /\ Cardinality(Spending) \in Nat
    /\ IsFiniteSet(Spending') /\ Cardinality(Spending') \in Nat
<1>1. Spending \subseteq Worker /\ Spending' \subseteq Worker /\ IsFiniteSet(Worker)
  BY ReportAssumption DEF Spending
<1> QED
  BY <1>1, FS_Subset, FS_CardinalityType

\* A step of w in which nobody but w may begin or cease to spend.
LEMMA SpendingOf ==
    ASSUME NEW w \in Worker, \A v \in Worker : v # w => worker'[v] = worker[v]
    PROVE  /\ w \notin Spending /\ w \in Spending' =>
                 Cardinality(Spending') = Cardinality(Spending) + 1
           /\ w \in Spending /\ w \notin Spending' =>
                 Cardinality(Spending') = Cardinality(Spending) - 1
           /\ (w \in Spending) = (w \in Spending') => Spending' = Spending
<1>1. CASE w \notin Spending /\ w \in Spending'
  <2>1. Spending' = Spending \cup {w}
    BY <1>1 DEF Spending
  <2> QED
    BY <1>1, <2>1, SpendingFinite, FS_AddElement
<1>2. CASE w \in Spending /\ w \notin Spending'
  <2>1. Spending' = Spending \ {w}
    BY <1>2 DEF Spending
  <2> QED
    BY <1>2, <2>1, SpendingFinite, FS_RemoveElement
<1>3. CASE (w \in Spending) = (w \in Spending')
  BY <1>3 DEF Spending
<1> QED
  BY <1>1, <1>2, <1>3

LEMMA BudgetStep ==
    ASSUME Shape, BudgetInv, [ReportNext]_reportVars
    PROVE  BudgetInv'
<1>0. /\ budget \in Nat /\ retries \in Nat /\ MaxRetries \in Nat
      /\ Cardinality(Spending) \in Nat /\ Cardinality(Spending') \in Nat
      /\ budget <= MaxRetries /\ retries + Cardinality(Spending) <= budget
  BY ReportAssumption, SpendingFinite DEF Shape, BudgetInv
<1>1. CASE UNCHANGED <<worker, budget, retries>>
  BY <1>1 DEF BudgetInv, Spending
<1>2. ASSUME NEW w \in Worker, WorkerStep(w) PROVE BudgetInv'
  <2>1. \A v \in Worker : v # w => worker'[v] = worker[v]
    BY <1>2 DEF WorkerStep, Take, Exits, Fetch, Answers, Ends, AcquireRetry, Backoff, Retry, Shape
  <2> DEFINE Ended == worker'[w].pc \notin {"backoff", "retry"}
  <2>2. \A state, roster : Ends(w, state, roster) => Ended
    BY DEF Ends, Shape
  <2>3. Answers(w) => Ended
    BY <2>2 DEF Answers
  <2>4. CASE Take(w) \/ Fetch(w)
    <3>1. w \notin Spending /\ UNCHANGED <<budget, retries>>
      BY <2>4 DEF Take, Fetch, Spending
    <3>2. Ended
      BY <2>3, <2>4 DEF Take, Exits, Fetch, Shape
    <3>3. Spending' = Spending
      BY <2>1, <3>1, <3>2, SpendingOf DEF Spending
    <3> QED
      BY <1>0, <3>1, <3>3 DEF BudgetInv
  <2>5. CASE AcquireRetry(w)
    <3>1. w \notin Spending /\ retries' = retries
      BY <2>5 DEF AcquireRetry, Spending
    <3>2. CASE budget < MaxRetries /\ budget' = budget + 1
                 /\ worker' = [worker EXCEPT ![w].pc = "backoff"]
      <4>1. w \in Spending'
        BY <3>2 DEF Spending, Shape
      <4>2. Cardinality(Spending') = Cardinality(Spending) + 1
        BY <2>1, <3>1, <4>1, SpendingOf
      <4> QED
        BY <1>0, <3>1, <3>2, <4>2 DEF BudgetInv
    <3>3. CASE budget' = budget /\ Ended
      <4>1. Spending' = Spending
        BY <2>1, <3>1, <3>3, SpendingOf DEF Spending
      <4> QED
        BY <1>0, <3>1, <3>3, <4>1 DEF BudgetInv
    <3> QED
      BY <2>2, <2>5, <3>2, <3>3 DEF AcquireRetry
  <2>6. CASE Backoff(w) \/ Retry(w)
    <3>1. w \in Spending /\ budget' = budget
      BY <2>6 DEF Backoff, Retry, Spending
    <3>2. CASE Ended
      <4>1. Cardinality(Spending') = Cardinality(Spending) - 1
        BY <2>1, <3>1, <3>2, SpendingOf DEF Spending
      <4>2. retries' = retries \/ retries' = retries + 1
        BY <2>6 DEF Backoff, Retry
      <4> QED
        BY <1>0, <3>1, <4>1, <4>2 DEF BudgetInv
    <3>3. CASE ~Ended
      <4>1. Spending' = Spending
        BY <2>1, <3>1, <3>3, SpendingOf DEF Spending
      <4>2. retries' = retries
        BY <2>3, <2>6, <3>3 DEF Backoff, Retry
      <4> QED
        BY <1>0, <3>1, <4>1, <4>2 DEF BudgetInv
    <3> QED
      BY <3>2, <3>3
  <2> QED
    BY <1>2, <2>4, <2>5, <2>6 DEF WorkerStep
<1> QED
  BY <1>1, <1>2 DEF ReportNext, CancelRequest, Return, reportVars

LEMMA BudgetStart == ReportInit => BudgetInv
<1> SUFFICES ASSUME ReportInit PROVE BudgetInv
  OBVIOUS
<1>1. Spending = {}
  BY DEF ReportInit, Spending
<1>2. budget = 0 /\ retries = 0 /\ Cardinality(Spending) = 0 /\ MaxRetries \in Nat
  BY <1>1, FS_EmptySet, ReportAssumption DEF ReportInit
<1> QED
  BY <1>2 DEF BudgetInv

----------------------------------------------------------------------------
(* Whatever the workers meet and whenever the request is cancelled: no two  *)
(* fetch one session, the second fetches stay within the budget of the      *)
(* report, and a returned report has no silent gap.  A report has at least  *)
(* one worker (runBoundedIndices).                                          *)
THEOREM ReportSound ==
    ASSUME Worker # {}
    PROVE  ReportSpec => [](OneWorkerPerSession /\ RetriesBounded /\ NoSilentGap)
<1>1. ReportInv => OneWorkerPerSession
  BY DEF ReportInv, Sharing, OneWorkerPerSession
<1>2. ReportInv => NoSilentGap
  <2>1. report = {} => NoSilentGap
    BY DEF NoSilentGap
  <2> QED
    BY <2>1 DEF ReportInv, Progress
<1>3. ReportInv /\ BudgetInv => RetriesBounded
  <2> SUFFICES ASSUME ReportInv, BudgetInv PROVE RetriesBounded
    OBVIOUS
  <2>1. /\ retries \in Nat /\ budget \in Nat /\ MaxRetries \in Nat /\ Cardinality(Spending) \in Nat
        /\ budget <= MaxRetries /\ retries + Cardinality(Spending) <= budget
    BY ReportAssumption, SpendingFinite DEF ReportInv, Shape, BudgetInv
  <2> QED
    BY <2>1 DEF RetriesBounded
<1>4. ReportInv => Shape
  BY DEF ReportInv
<1>5. ReportInv /\ BudgetInv /\ [ReportNext]_reportVars => ReportInv' /\ BudgetInv'
  BY <1>4, ReportKeeps, BudgetStep
<1>6. ReportInit => ReportInv /\ BudgetInv
  BY ReportStart, BudgetStart
<1> QED
  BY <1>1, <1>2, <1>3, <1>5, <1>6, PTL DEF ReportSpec

-----------------------------------------------------------------------------
\* The attendance export

TargetRow == [at : Time, usable : BOOLEAN]
ExportRow ==
    [pc : {"off", "begin", "refreshCourse", "courseMetadata", "course", "baseline", "refresh",
           "check", "restabilize", "compute", "profiles", "done", "failed"},
     restarts : 0..1, courseSeq : Time, course : SUBSET Session, todo : SUBSET Ref,
     stale : SUBSET Ref, validatedAt : Time, used : [Ref -> Time], stable : BOOLEAN]

\* Validation times only grow, and a usable snapshot has one.
Stamped ==
    /\ clock \in Time
    /\ target \in [Target -> TargetRow]
    /\ members \subseteq Session
    /\ \A t \in Target : target[t].at <= clock /\ (target[t].usable => target[t].at > 0)

Anchored == {"course", "baseline", "refresh", "check", "restabilize", "compute", "profiles", "done"}
Sources == export.course \cup {"profiles"}

\* The reported time is not younger than any source that was checked, nor,
\* later, than any source that was read.
AgeInv ==
    /\ export.pc \in Anchored => export.validatedAt > 0
    /\ export.pc \in {"check", "restabilize", "compute", "profiles", "done"} =>
          \A r \in Sources : \/ export.pc = "check" /\ r \in export.todo
                             \/ target[r].at >= export.validatedAt
    /\ export.pc \in {"compute", "profiles", "done"} =>
          \A r \in export.course : \/ export.pc = "compute" /\ r \in export.todo
                                   \/ export.used[r] >= export.validatedAt
    /\ export.pc = "done" => export.used["profiles"] >= export.validatedAt

\* Unless the course has been validated again, its sessions are those read.
MembersInv ==
    /\ export.courseSeq <= clock
    /\ export.pc \in {"baseline", "refresh", "check", "restabilize"} =>
          target["course"].at > export.courseSeq \/ export.course = members
    /\ ExportMembershipStable

ExportInv == Stamped /\ export \in ExportRow /\ AgeInv /\ MembersInv

\* What any step may do to the snapshots.
Later ==
    /\ clock' >= clock
    /\ \A t \in Target : target'[t].at >= target[t].at
    /\ members' = members \/ target'["course"].at > clock

LEMMA ValidatedStamps ==
    ASSUME Stamped, NEW t \in Target, Validated(t)
    PROVE  Stamped' /\ Later
<1>1. /\ clock \in Nat /\ clock' = clock + 1 /\ clock' \in Time /\ MaxCommits \in Nat
      /\ target' = [target EXCEPT ![t] = [at |-> clock + 1, usable |-> TRUE]]
  BY ExportAssumption DEF Stamped, Validated, Time
<1>2. /\ target'[t].at = clock + 1
      /\ \A u \in Target \ {t} : target'[u] = target[u]
  BY <1>1 DEF Stamped
<1>3. target' \in [Target -> TargetRow]
  BY <1>1 DEF Stamped, TargetRow
<1>4. \A u \in Target : target[u].at \in Nat /\ target[u].at <= clock
  BY ExportAssumption DEF Stamped, TargetRow, Time
<1>5. \A u \in Target : target'[u].at <= clock' /\ (target'[u].usable => target'[u].at > 0)
  BY <1>1, <1>2, <1>4 DEF Stamped
<1>6. \A u \in Target : target'[u].at >= target[u].at
  BY <1>1, <1>2, <1>4
<1>7. members' \subseteq Session /\ (members' = members \/ target'["course"].at > clock)
  BY <1>1, <1>2 DEF Validated, Stamped
<1>8. QED
  BY <1>1, <1>3, <1>5, <1>6, <1>7 DEF Stamped, Later

LEMMA Unmoved ==
    ASSUME Stamped, UNCHANGED <<clock, target, members>>
    PROVE  Stamped' /\ Later
<1>1. \A t \in Target : target[t].at \in Nat
  BY ExportAssumption DEF Stamped, TargetRow, Time
<1>2. clock \in Nat
  BY ExportAssumption DEF Stamped, Time
<1>3. QED
  BY <1>1, <1>2 DEF Stamped, Later

\* The numbers the invariant compares.
LEMMA ExportNumbers ==
    ASSUME Stamped, export \in ExportRow
    PROVE  /\ clock \in Nat /\ \A t \in Target : target[t].at \in Nat
           /\ export.validatedAt \in Nat /\ export.courseSeq \in Nat
           /\ \A r \in Ref : export.used[r] \in Nat
           /\ Sources \subseteq Ref /\ Ref \subseteq Target /\ "course" \in Target /\ "profiles" \in Ref
<1>1. Time \subseteq Nat
  BY ExportAssumption DEF Time
<1>2. QED
  BY <1>1 DEF Stamped, TargetRow, ExportRow, Sources, Ref, Target

\* The export waits, fails, or goes back to the start.
LEMMA MovesOn ==
    ASSUME ExportInv, Stamped', Later, export' \in ExportRow,
           export'.pc \in {export.pc, "failed", "begin", "courseMetadata", "refreshCourse"},
           export'.courseSeq = export.courseSeq, export'.course = export.course,
           export'.todo = export.todo, export'.validatedAt = export.validatedAt,
           export'.used = export.used, export'.stable = export.stable
    PROVE  ExportInv'
<1>1. Stamped /\ export \in ExportRow /\ AgeInv /\ MembersInv
  BY DEF ExportInv
<1>2. clock' \in Nat /\ \A t \in Target : target'[t].at \in Nat
  BY ExportAssumption DEF Stamped, TargetRow, Time
<1>3. AgeInv'
  <2>1. \A r \in Sources : target[r].at >= export.validatedAt => target'[r].at >= export.validatedAt
    BY <1>1, <1>2, ExportNumbers DEF Later
  <2>2. QED
    BY <1>1, <2>1 DEF AgeInv, Anchored, Sources
<1>4. MembersInv'
  <2>1. export.courseSeq <= clock'
    BY <1>1, <1>2, ExportNumbers DEF MembersInv, Later
  <2>2. target["course"].at > export.courseSeq \/ export.course = members =>
        target'["course"].at > export.courseSeq \/ export.course = members'
    BY <1>1, <1>2, ExportNumbers DEF MembersInv, Later
  <2>3. QED
    BY <1>1, <2>1, <2>2 DEF MembersInv, ExportMembershipStable
<1>5. QED
  BY <1>3, <1>4 DEF ExportInv

\* The course is anchored, and its sessions are read.
LEMMA CourseKeeps ==
    ASSUME ExportInv, ExportCourseMetadata \/ ExportReadCourse
    PROVE  ExportInv'
<1>1. /\ Stamped /\ export \in ExportRow /\ AgeInv /\ MembersInv
      /\ UNCHANGED <<clock, target, members>> /\ Stamped' /\ Later
  BY Unmoved DEF ExportInv, ExportCourseMetadata, ExportReadCourse, ExportOnly
<1>2. CASE ExportCourseMetadata /\ target["course"].usable
  <2> DEFINE at == target["course"].at
  <2>1. /\ export' = [export EXCEPT !.pc = "course", !.courseSeq = at, !.validatedAt = at]
        /\ at \in Time /\ at > 0 /\ at <= clock
    BY <1>1, <1>2, ExportNumbers DEF ExportCourseMetadata, Stamped, TargetRow
  <2> HIDE DEF at
  <2>2. /\ export' \in ExportRow /\ export'.pc = "course" /\ export'.courseSeq = at
        /\ export'.validatedAt = at
    BY <1>1, <2>1 DEF ExportRow
  <2>3. QED
    BY <1>1, <2>1, <2>2 DEF ExportInv, AgeInv, MembersInv, ExportMembershipStable, Anchored
<1>3. CASE ExportCourseMetadata /\ ~target["course"].usable
  <2>1. export' = [export EXCEPT !.pc = "failed"]
    BY <1>3 DEF ExportCourseMetadata
  <2>2. QED
    BY <1>1, <2>1, MovesOn DEF ExportRow
<1>4. CASE ExportReadCourse
  <2>1. /\ export' = [export EXCEPT !.pc = "baseline", !.course = members,
                                    !.todo = members \cup {"profiles"}, !.stale = {}]
        /\ export.pc = "course" /\ members \subseteq Session
        /\ members \cup {"profiles"} \subseteq Ref
    BY <1>1, <1>4 DEF ExportReadCourse, At, Stamped, Ref
  <2>2. /\ export' \in ExportRow /\ export'.pc = "baseline" /\ export'.courseSeq = export.courseSeq
        /\ export'.validatedAt = export.validatedAt /\ export'.course = members
    BY <1>1, <2>1 DEF ExportRow
  <2>3. QED
    BY <1>1, <2>1, <2>2 DEF ExportInv, AgeInv, MembersInv, ExportMembershipStable, Anchored
<1>5. QED
  BY <1>2, <1>3, <1>4

\* The references are looked at, and refreshed where needed.
LEMMA BaselineKeeps ==
    ASSUME ExportInv, NEW r \in Ref, ExportBaseline(r) \/ ExportRefreshed
    PROVE  ExportInv'
<1>1. /\ Stamped /\ export \in ExportRow /\ AgeInv /\ MembersInv
      /\ UNCHANGED <<clock, target, members>> /\ Stamped' /\ Later
  BY Unmoved DEF ExportInv, ExportBaseline, ExportRefreshed, ExportOnly
<1>2. CASE ExportBaseline(r) /\ target[r].at = 0
  <2>1. export' = [export EXCEPT !.pc = "failed"]
    BY <1>2 DEF ExportBaseline
  <2>2. QED
    BY <1>1, <2>1, MovesOn DEF ExportRow
<1>3. CASE ExportBaseline(r) /\ target[r].at # 0
  <2>1. export.todo \ {r} \in SUBSET Ref /\ export.stale \in SUBSET Ref
    BY <1>1 DEF ExportRow
  <2>2. PICK st \in SUBSET Ref, pc \in {"refresh", "baseline"} :
           export' = [export EXCEPT !.todo = @ \ {r}, !.stale = st, !.pc = pc]
    <3> DEFINE st == IF target[r].usable THEN export.stale ELSE export.stale \cup {r}
               pc == IF export.todo = {r} THEN "refresh" ELSE "baseline"
    <3>1. export' = [export EXCEPT !.todo = @ \ {r}, !.stale = st, !.pc = pc]
      BY <1>3 DEF ExportBaseline
    <3>2. st \in SUBSET Ref /\ pc \in {"refresh", "baseline"}
      BY <2>1
    <3> HIDE DEF st, pc
    <3>3. QED
      BY <3>1, <3>2
  <2>3. /\ export' \in ExportRow /\ export'.pc \in {"refresh", "baseline"}
        /\ export'.courseSeq = export.courseSeq /\ export'.validatedAt = export.validatedAt
        /\ export'.course = export.course
    BY <1>1, <2>1, <2>2 DEF ExportRow
  <2>4. export.pc = "baseline"
    BY <1>3 DEF ExportBaseline, At
  <2>5. QED
    BY <1>1, <2>3, <2>4 DEF ExportInv, AgeInv, MembersInv, ExportMembershipStable, Anchored
<1>4. CASE ExportRefreshed
  <2>1. /\ export' = [export EXCEPT !.pc = "check", !.todo = export.course \cup {"profiles"}]
        /\ export.pc = "refresh" /\ export.course \cup {"profiles"} \in SUBSET Ref
    BY <1>1, <1>4 DEF ExportRefreshed, At, ExportRow, Ref
  <2>2. /\ export' \in ExportRow /\ export'.pc = "check" /\ export'.courseSeq = export.courseSeq
        /\ export'.validatedAt = export.validatedAt /\ export'.course = export.course
        /\ export'.todo = Sources'
    BY <1>1, <2>1 DEF ExportRow, Sources
  <2>3. QED
    BY <1>1, <2>1, <2>2 DEF ExportInv, AgeInv, MembersInv, ExportMembershipStable, Anchored
<1>5. QED
  BY <1>2, <1>3, <1>4

\* A reference is checked: the reported time becomes its own if that is older.
LEMMA CheckKeeps ==
    ASSUME ExportInv, NEW r \in Ref, ExportCheck(r)
    PROVE  ExportInv'
<1>1. /\ Stamped /\ export \in ExportRow /\ AgeInv /\ MembersInv
      /\ UNCHANGED <<clock, target, members>> /\ Stamped' /\ Later
      /\ export.pc = "check"
  BY Unmoved DEF ExportInv, ExportCheck, ExportOnly, At
<1>2. CASE ~target[r].usable
  <2>1. export' = [export EXCEPT !.pc = "failed"]
    BY <1>2 DEF ExportCheck
  <2>2. QED
    BY <1>1, <2>1, MovesOn DEF ExportRow
<1>3. CASE target[r].usable
  <2> DEFINE v == IF target[r].at < export.validatedAt THEN target[r].at ELSE export.validatedAt
             pc == IF export.todo = {r} THEN "restabilize" ELSE "check"
  <2>1. export' = [export EXCEPT !.todo = @ \ {r}, !.validatedAt = v, !.pc = pc]
    BY <1>3 DEF ExportCheck
  <2>2. /\ target[r].at \in Nat /\ target[r].at > 0 /\ export.validatedAt \in Nat
        /\ export.validatedAt > 0
    BY <1>1, <1>3, ExportNumbers DEF Stamped, AgeInv, Anchored
  <2>3. v \in Nat /\ v > 0 /\ v <= target[r].at /\ v <= export.validatedAt
    BY <2>2
  <2>4. v \in Time
    BY <1>1, ExportNumbers DEF Stamped, TargetRow, ExportRow
  <2>5. pc \in {"check", "restabilize"} /\ (pc = "restabilize" => export.todo = {r})
    OBVIOUS
  <2> HIDE DEF v, pc
  <2>6. /\ export' \in ExportRow /\ export'.pc = pc /\ export'.courseSeq = export.courseSeq
        /\ export'.validatedAt = v /\ export'.course = export.course
        /\ export'.todo = export.todo \ {r}
    BY <1>1, <2>1, <2>4, <2>5 DEF ExportRow
  <2>7. ASSUME NEW q \in Sources PROVE (q \in export'.todo /\ pc = "check") \/ target[q].at >= v
    <3>1. target[q].at \in Nat
      BY <1>1, ExportNumbers
    <3>2. q \in export.todo \/ target[q].at >= export.validatedAt
      BY <1>1 DEF AgeInv
    <3>3. QED
      BY <2>2, <2>3, <2>5, <2>6, <3>1, <3>2
  <2>8. AgeInv'
    BY <1>1, <2>3, <2>5, <2>6, <2>7 DEF AgeInv, Sources
  <2>9. MembersInv'
    BY <1>1, <2>5, <2>6 DEF MembersInv, ExportMembershipStable
  <2>10. QED
    BY <1>1, <2>6, <2>8, <2>9 DEF ExportInv
<1>4. QED
  BY <1>2, <1>3

\* The course has not been validated again, or the export starts again or fails.
LEMMA RestabilizeKeeps ==
    ASSUME ExportInv, ExportRestabilize
    PROVE  ExportInv'
<1>1. /\ Stamped /\ export \in ExportRow /\ AgeInv /\ MembersInv
      /\ UNCHANGED <<clock, target, members>> /\ Stamped' /\ Later
      /\ export.pc = "restabilize"
  BY Unmoved DEF ExportInv, ExportRestabilize, ExportOnly, At
<1>2. CASE target["course"].at > export.courseSeq
  <2>1. \/ export' = [export EXCEPT !.pc = "failed"]
        \/ export' = [export EXCEPT !.pc = "begin", !.restarts = 1]
    BY <1>2 DEF ExportRestabilize
  <2>2. /\ export' \in ExportRow /\ export'.pc \in {"failed", "begin"}
        /\ export'.courseSeq = export.courseSeq /\ export'.course = export.course
        /\ export'.todo = export.todo /\ export'.validatedAt = export.validatedAt
        /\ export'.used = export.used /\ export'.stable = export.stable
    <3>1. CASE export' = [export EXCEPT !.pc = "failed"]
      BY <1>1, <3>1 DEF ExportRow
    <3>2. CASE export' = [export EXCEPT !.pc = "begin", !.restarts = 1]
      <4>1. 1 \in 0..1
        OBVIOUS
      <4>2. PICK n \in 0..1 : export' = [export EXCEPT !.pc = "begin", !.restarts = n]
        BY <3>2, <4>1
      <4>3. QED
        BY <1>1, <4>2 DEF ExportRow
    <3>3. QED
      BY <2>1, <3>1, <3>2
  <2>3. QED
    BY <1>1, <2>2, MovesOn
<1>3. CASE ~(target["course"].at > export.courseSeq)
  <2>1. export.course = members
    BY <1>1, <1>3 DEF MembersInv
  <2>2. PICK b \in BOOLEAN :
           /\ b /\ export' = [export EXCEPT !.pc = "compute", !.todo = export.course, !.stable = b]
    BY <1>3, <2>1 DEF ExportRestabilize
  <2>3. export.course \in SUBSET Ref
    BY <1>1 DEF ExportRow, Ref
  <2>4. /\ export' \in ExportRow /\ export'.pc = "compute" /\ export'.todo = export'.course
        /\ export'.stable = b /\ export'.courseSeq = export.courseSeq
        /\ export'.validatedAt = export.validatedAt /\ export'.course = export.course
    BY <1>1, <2>2, <2>3 DEF ExportRow
  <2>5. AgeInv'
    BY <1>1, <2>4 DEF AgeInv, Sources, Anchored
  <2>6. MembersInv'
    BY <1>1, <2>2, <2>4 DEF MembersInv, ExportMembershipStable
  <2>7. QED
    BY <1>1, <2>4, <2>5, <2>6 DEF ExportInv
<1>4. QED
  BY <1>2, <1>3

\* A source is read: it is at least as young as it was when it was checked.
LEMMA ReadsKeep ==
    ASSUME ExportInv, NEW r \in Ref, ExportCompute(r) \/ ExportComputed \/ ExportProfiles
    PROVE  ExportInv'
<1>1. /\ Stamped /\ export \in ExportRow /\ AgeInv /\ MembersInv
      /\ UNCHANGED <<clock, target, members>> /\ Stamped' /\ Later
  BY Unmoved DEF ExportInv, ExportCompute, ExportComputed, ExportProfiles, ExportOnly
<1>2. /\ export.used \in [Ref -> Time] /\ \A q \in Ref : target[q].at \in Time
      /\ "profiles" \in Ref /\ export.course \subseteq Ref
  BY <1>1, ExportNumbers DEF ExportRow, Stamped, TargetRow, Sources
<1>3. CASE ExportCompute(r)
  <2> DEFINE u == [export.used EXCEPT ![r] = target[r].at]
  <2>1. /\ export' = [export EXCEPT !.todo = @ \ {r}, !.used = u]
        /\ export.pc = "compute" /\ r \in export.todo
    BY <1>3 DEF ExportCompute, At
  <2>2. /\ u \in [Ref -> Time] /\ u[r] = target[r].at /\ \A q \in Ref \ {r} : u[q] = export.used[q]
    BY <1>2
  <2> HIDE DEF u
  <2>3. /\ export' \in ExportRow /\ export'.pc = "compute" /\ export'.used = u
        /\ export'.todo = export.todo \ {r} /\ export'.courseSeq = export.courseSeq
        /\ export'.validatedAt = export.validatedAt /\ export'.course = export.course
        /\ export'.stable = export.stable
    BY <1>1, <2>1, <2>2 DEF ExportRow
  <2>4. \A q \in export.course : q \in export'.todo \/ u[q] >= export.validatedAt
    BY <1>1, <1>2, <2>1, <2>2, <2>3 DEF AgeInv, Sources
  <2>5. AgeInv'
    BY <1>1, <2>1, <2>3, <2>4 DEF AgeInv, Sources, Anchored
  <2>6. MembersInv'
    BY <1>1, <2>1, <2>3 DEF MembersInv, ExportMembershipStable
  <2>7. QED
    BY <1>1, <2>3, <2>5, <2>6 DEF ExportInv
<1>4. CASE ExportComputed
  <2>1. export' = [export EXCEPT !.pc = "profiles"] /\ export.pc = "compute" /\ export.todo = {}
    BY <1>4 DEF ExportComputed, Goes, At
  <2>2. /\ export' \in ExportRow /\ export'.pc = "profiles" /\ export'.used = export.used
        /\ export'.courseSeq = export.courseSeq /\ export'.stable = export.stable
        /\ export'.validatedAt = export.validatedAt /\ export'.course = export.course
    BY <1>1, <2>1 DEF ExportRow
  <2>3. AgeInv'
    BY <1>1, <2>1, <2>2 DEF AgeInv, Sources, Anchored
  <2>4. MembersInv'
    BY <1>1, <2>1, <2>2 DEF MembersInv, ExportMembershipStable
  <2>5. QED
    BY <1>1, <2>2, <2>3, <2>4 DEF ExportInv
<1>5. CASE ExportProfiles
  <2> DEFINE u == [export.used EXCEPT !["profiles"] = target["profiles"].at]
  <2>1. export' = [export EXCEPT !.pc = "done", !.used = u] /\ export.pc = "profiles"
    BY <1>5 DEF ExportProfiles, At
  <2>2. /\ u \in [Ref -> Time] /\ u["profiles"] = target["profiles"].at
        /\ \A q \in Ref \ {"profiles"} : u[q] = export.used[q]
    BY <1>2
  <2> HIDE DEF u
  <2>3. /\ export' \in ExportRow /\ export'.pc = "done" /\ export'.used = u
        /\ export'.courseSeq = export.courseSeq /\ export'.stable = export.stable
        /\ export'.validatedAt = export.validatedAt /\ export'.course = export.course
    BY <1>1, <2>1, <2>2 DEF ExportRow
  <2>4. \A q \in Sources : u[q] >= export.validatedAt
    BY <1>1, <1>2, <2>1, <2>2 DEF AgeInv, Sources
  <2>5. AgeInv'
    BY <1>1, <2>1, <2>3, <2>4 DEF AgeInv, Sources, Anchored
  <2>6. MembersInv'
    BY <1>1, <2>1, <2>3 DEF MembersInv, ExportMembershipStable
  <2>7. QED
    BY <1>1, <2>3, <2>5, <2>6 DEF ExportInv
<1>6. QED
  BY <1>3, <1>4, <1>5

LEMMA ExportStepInv == ExportInv /\ [ExportNext]_exportVars => ExportInv'
<1> SUFFICES ASSUME ExportInv, [ExportNext]_exportVars PROVE ExportInv'
  OBVIOUS
<1>1. Stamped /\ export \in ExportRow
  BY DEF ExportInv
<1>2. CASE Stamped' /\ Later /\ export' = export
  BY <1>1, <1>2, MovesOn
<1>3. CASE UNCHANGED <<clock, target, members, export>>
  BY <1>1, <1>2, <1>3, Unmoved
<1>4. ASSUME NEW t \in Target, ScraperCommits(t) PROVE ExportInv'
  BY <1>1, <1>2, <1>4, ValidatedStamps DEF ScraperCommits
<1>5. ASSUME NEW t \in Target, Degrades(t) PROVE ExportInv'
  <2>1. /\ target' = [target EXCEPT ![t].usable = FALSE]
        /\ UNCHANGED <<clock, members, export>>
    BY <1>5 DEF Degrades
  <2>2. target' \in [Target -> TargetRow] /\ \A u \in Target : target'[u].at = target[u].at
    BY <1>1, <2>1 DEF Stamped, TargetRow
  <2>3. \A u \in Target : target'[u].usable => target[u].usable
    BY <1>1, <2>1 DEF Stamped, TargetRow
  <2>4. Stamped' /\ Later
    BY <1>1, <2>1, <2>2, <2>3, ExportNumbers DEF Stamped, Later
  <2>5. QED
    BY <1>2, <2>1, <2>4
<1>6. CASE ExportFails \/ ExportBegin
  <2>1. PICK pc \in {"failed", "courseMetadata", "refreshCourse"} :
           export' = [export EXCEPT !.pc = pc] /\ UNCHANGED <<clock, target, members>>
    BY <1>6 DEF ExportFails, ExportBegin, Goes, ExportOnly
  <2>2. /\ export' \in ExportRow /\ export'.pc = pc
        /\ export'.courseSeq = export.courseSeq /\ export'.course = export.course
        /\ export'.todo = export.todo /\ export'.validatedAt = export.validatedAt
        /\ export'.used = export.used /\ export'.stable = export.stable
    BY <1>1, <2>1 DEF ExportRow
  <2>3. QED
    BY <1>1, <2>1, <2>2, Unmoved, MovesOn
<1>7. CASE ExportRefreshCourse
  <2>1. export' = [export EXCEPT !.pc = "courseMetadata"] /\ Validated("course")
    BY <1>7 DEF ExportRefreshCourse, Goes
  <2>2. /\ export' \in ExportRow /\ export'.pc = "courseMetadata"
        /\ export'.courseSeq = export.courseSeq /\ export'.course = export.course
        /\ export'.todo = export.todo /\ export'.validatedAt = export.validatedAt
        /\ export'.used = export.used /\ export'.stable = export.stable
    BY <1>1, <2>1 DEF ExportRow
  <2>3. QED
    BY <1>1, <2>1, <2>2, ValidatedStamps, MovesOn DEF Target
<1>8. ASSUME NEW r \in Ref, ExportRefresh(r) PROVE ExportInv'
  <2>1. export' = [export EXCEPT !.stale = @ \ {r}] /\ Validated(r)
    BY <1>8 DEF ExportRefresh
  <2>2. /\ export' \in ExportRow /\ export'.pc = export.pc
        /\ export'.courseSeq = export.courseSeq /\ export'.course = export.course
        /\ export'.todo = export.todo /\ export'.validatedAt = export.validatedAt
        /\ export'.used = export.used /\ export'.stable = export.stable
    <3>1. export.stale \ {r} \in SUBSET Ref
      BY <1>1 DEF ExportRow
    <3>2. QED
      BY <1>1, <2>1, <3>1 DEF ExportRow
  <2>3. QED
    BY <1>1, <2>1, <2>2, ValidatedStamps, MovesOn DEF Target
<1>9. CASE ReportStep \/ UNCHANGED exportVars
  BY <1>3, <1>9 DEF ReportStep, ReportBegin, FetchProfiles, ReportDetail, ReportJoin,
     ReportCourseMetadata, ReportAgain, ReportCompute, ReportMetadata, ReportOnly, exportVars
<1>10. CASE ExportStep
  BY <1>6, <1>7, <1>8, <1>10, CourseKeeps, BaselineKeeps, CheckKeeps, RestabilizeKeeps, ReadsKeep
     DEF ExportStep, Ref
<1>11. QED
  BY <1>4, <1>5, <1>6, <1>9, <1>10 DEF ExportNext

LEMMA ExportStart == ExportInit => ExportInv
<1> SUFFICES ASSUME ExportInit PROVE ExportInv
  OBVIOUS
<1>1. 0 \in Time /\ 1 \in Time /\ clock = 1
  BY ExportAssumption DEF Time, ExportInit
<1>2. /\ target \in [Target -> {[at |-> 1, usable |-> TRUE], [at |-> 0, usable |-> FALSE]}]
      /\ members \in (IF target["course"].at = 0 THEN {{}} ELSE SUBSET Session)
  BY DEF ExportInit
<1>3. Stamped
  <2>1. \A t \in Target : /\ target[t] \in TargetRow /\ target[t].at \in {0, 1}
                          /\ target[t].usable => target[t].at = 1
    <3>1. ASSUME NEW t \in Target, target[t] = [at |-> 1, usable |-> TRUE]
          PROVE  target[t] \in TargetRow /\ target[t].at = 1
      BY <1>1, <3>1 DEF TargetRow
    <3>2. ASSUME NEW t \in Target, target[t] = [at |-> 0, usable |-> FALSE]
          PROVE  target[t] \in TargetRow /\ target[t].at = 0 /\ ~target[t].usable
      BY <1>1, <3>2 DEF TargetRow
    <3>3. QED
      BY <1>2, <3>1, <3>2
  <2>2. target \in [Target -> TargetRow]
    BY <1>2, <2>1
  <2>3. members \subseteq Session
    BY <1>2
  <2>4. QED
    BY <1>1, <2>1, <2>2, <2>3 DEF Stamped
<1>4. PICK pc \in {"begin", "off"} :
         export = [pc |-> pc, restarts |-> 0, courseSeq |-> 0, course |-> {}, todo |-> {},
                   stale |-> {}, validatedAt |-> 0, used |-> None, stable |-> FALSE]
  BY DEF ExportInit
<1>5. None \in [Ref -> Time]
  BY <1>1 DEF None
<1>6. export \in ExportRow /\ export.pc \in {"begin", "off"} /\ export.courseSeq = 0
  BY <1>1, <1>4, <1>5 DEF ExportRow
<1>7. QED
  BY <1>1, <1>3, <1>6 DEF ExportInv, AgeInv, MembersInv, ExportMembershipStable, Anchored

(* GetFreshAttendanceExport: the export never claims to be younger than its *)
(* oldest source, and its sessions are the course's at the last check,      *)
(* whatever the scraper commits between the checks and the reads.           *)
THEOREM ExportHonest == ExportSpec => [](ExportAgeHonest /\ ExportMembershipStable)
<1>1. ExportInv => ExportAgeHonest /\ ExportMembershipStable
  BY DEF ExportInv, AgeInv, MembersInv, ExportAgeHonest, Anchored
<1>2. QED
  BY <1>1, ExportStart, ExportStepInv, PTL DEF ExportSpec
===============================================================================
