----------------------------- MODULE CourseReport -----------------------------
(***************************************************************************)
(* ComputeCourseAttendanceReport: a few workers take the sessions of a     *)
(* course from a shared counter (runBoundedIndices), fetch the student     *)
(* list of each, retry a rate-limited fetch within a budget of the whole   *)
(* report, and the results are folded into one row per student.            *)
(***************************************************************************)
EXTENDS Naturals, FiniteSets

CONSTANTS
  Student, Worker,
  Sessions,     \* number of distinct sessions of the course
  MaxRetries,   \* maxReportRateLimitRetries
  Cancels       \* whether the request may be cancelled

ASSUME ReportAssumption ==
  /\ IsFiniteSet(Student) /\ IsFiniteSet(Worker)
  /\ Sessions \in Nat \ {0} /\ MaxRetries \in Nat /\ Cancels \in BOOLEAN

Index == 1..Sessions

(* What a student list says of each student *)
Roster == [Student -> {"unlisted", "absent", "checkedIn"}]
Empty == [s \in Student |-> "unlisted"]

VARIABLES
  done,       \* the sessions whose status is done
  next,       \* the shared counter
  worker,
  results,    \* state is "" until a worker has set it
  budget,     \* tokens of retryBudget taken
  retries,    \* second fetches so far
  cancelled,  \* the request's context is done
  report      \* {} until the report is returned

reportVars == <<done, next, worker, results, budget, retries, cancelled, report>>

Results == [state: {"", "ok", "empty", "error"}, roster: Roster]

ReportTypeOK ==
  /\ done \subseteq Index
  /\ next \in 1..(Sessions + Cardinality(Worker) + 1)
  /\ worker \in [Worker -> [pc: {"take", "fetch", "limited", "backoff", "retry", "exit"}, index: 0..Sessions]]
  /\ results \in [Index -> Results]
  /\ budget \in 0..MaxRetries /\ retries \in Nat /\ cancelled \in BOOLEAN
  /\ Cardinality(report) <= 1

ReportInit ==
  /\ done \in SUBSET Index
  /\ next = 1
  /\ worker = [w \in Worker |-> [pc |-> "take", index |-> 0]]
  /\ results = [i \in Index |-> [state |-> "", roster |-> Empty]]
  /\ budget = 0 /\ retries = 0 /\ cancelled = FALSE /\ report = {}

----------------------------------------------------------------------------
(* The request is cancelled or its deadline passes *)
CancelRequest ==
  /\ Cancels /\ ~cancelled /\ report = {}
  /\ cancelled' = TRUE
  /\ UNCHANGED <<done, next, worker, results, budget, retries, report>>

Exits(w) == worker' = [worker EXCEPT ![w] = [pc |-> "exit", index |-> 0]]

(* next.Add(1) - 1: a worker leaves when no index is left or the request is *)
(* cancelled, also with the index it has just taken                         *)
Take(w) ==
  /\ worker[w].pc = "take"
  /\ next' = next + 1
  /\ IF next > Sessions \/ cancelled
       THEN Exits(w)
       ELSE worker' = [worker EXCEPT ![w] = [pc |-> "fetch", index |-> next]]
  /\ UNCHANGED <<done, results, budget, retries, cancelled, report>>

(* The worker's result for its session; it takes the next index *)
Ends(w, state, roster) ==
  /\ results' = [results EXCEPT ![worker[w].index] = [state |-> state, roster |-> roster]]
  /\ worker' = [worker EXCEPT ![w] = [pc |-> "take", index |-> 0]]

(* A fetch that answers: a nil detail is an error, a list without students is empty *)
Answers(w) ==
  \/ Ends(w, "error", Empty)
  \/ \E roster \in Roster : Ends(w, IF roster = Empty THEN "empty" ELSE "ok", roster)

(* The first fetch: a rate limit is retried unless the request is cancelled *)
Fetch(w) ==
  /\ worker[w].pc = "fetch"
  /\ \/ Answers(w)
     \/ /\ ~cancelled
        /\ worker' = [worker EXCEPT ![w].pc = "limited"]
        /\ UNCHANGED results
  /\ UNCHANGED <<done, next, budget, retries, cancelled, report>>

(* Variant: the worker waits for a token *)
AcquireRetryWaits(w) ==
  /\ worker[w].pc = "limited"
  /\ \/ /\ budget < MaxRetries
        /\ budget' = budget + 1
        /\ worker' = [worker EXCEPT ![w].pc = "backoff"] /\ UNCHANGED results
     \/ cancelled /\ Ends(w, "error", Empty) /\ UNCHANGED budget
  /\ UNCHANGED <<done, next, retries, cancelled, report>>

(* select over the budget: a token, the cancellation, or an error at once *)
AcquireRetry(w) ==
  /\ worker[w].pc = "limited"
  /\ \/ /\ budget < MaxRetries
        /\ budget' = budget + 1
        /\ worker' = [worker EXCEPT ![w].pc = "backoff"] /\ UNCHANGED results
     \/ /\ cancelled \/ budget = MaxRetries
        /\ Ends(w, "error", Empty) /\ UNCHANGED budget
  /\ UNCHANGED <<done, next, retries, cancelled, report>>

(* The pause ends by its timer or by the cancellation; the token is kept *)
Backoff(w) ==
  /\ worker[w].pc = "backoff"
  /\ \/ worker' = [worker EXCEPT ![w].pc = "retry"] /\ UNCHANGED results
     \/ cancelled /\ Ends(w, "error", Empty)
  /\ UNCHANGED <<done, next, budget, retries, cancelled, report>>

(* The second fetch is the last one *)
Retry(w) ==
  /\ worker[w].pc = "retry"
  /\ retries' = retries + 1
  /\ Answers(w)
  /\ UNCHANGED <<done, next, budget, cancelled, report>>

----------------------------------------------------------------------------
(* The report of a set of results *)
Listed(res, s) == {i \in Index : res[i].state = "ok" /\ res[i].roster[s] # "unlisted"}
Counted(res, s) == Listed(res, s) \cap done
Attended(res, s) == {i \in Counted(res, s) : res[i].roster[s] = "checkedIn"}

(* 20% of the sessions, rounded up *)
Threshold == (Sessions + 4) \div 5

Row(res, s) ==
  [total |-> Cardinality(Counted(res, s)),
   attended |-> Cardinality(Attended(res, s)),
   atRisk |-> Cardinality(Counted(res, s) \ Attended(res, s)) >= Threshold,
   cells |-> [i \in Index |-> IF i \in Listed(res, s) THEN "ok" ELSE "error"]]

Compute(res, cut) ==
  LET rows == {s \in Student : Counted(res, s) # {}}
  IN  [students |-> [s \in rows |-> Row(res, s)],
       errors |-> {i \in Index : res[i].state = "error"},
       truncated |-> cut]

(* Variant: the sessions never taken are left without a result *)
ReturnUnfilled ==
  /\ report = {} /\ \A w \in Worker : worker[w].pc = "exit"
  /\ report' = {Compute(results, cancelled)}
  /\ UNCHANGED <<done, next, worker, results, budget, retries, cancelled>>

(* workers.Wait returns; after a cancellation a missing result is an error *)
Return ==
  /\ report = {} /\ \A w \in Worker : worker[w].pc = "exit"
  /\ results' = [i \in Index |-> IF cancelled /\ results[i].state = ""
                                   THEN [state |-> "error", roster |-> Empty]
                                   ELSE results[i]]
  /\ report' = {Compute(results', cancelled)}
  /\ UNCHANGED <<done, next, worker, budget, retries, cancelled>>

WorkerStep(w) == Take(w) \/ Fetch(w) \/ AcquireRetry(w) \/ Backoff(w) \/ Retry(w)

ReportNext == CancelRequest \/ Return \/ \E w \in Worker : WorkerStep(w)

ReportSpec == ReportInit /\ [][ReportNext]_reportVars

(* Goroutines run, every fetch has a timeout and the backoff a timer *)
FairReportSpec == ReportSpec /\ WF_reportVars(Return) /\ \A w \in Worker : WF_reportVars(WorkerStep(w))

----------------------------------------------------------------------------
(* "Keeping the tokens acquired for the lifetime of this report bounds      *)
(* total retry amplification": no more second fetches than the budget,      *)
(* however many workers are rate limited and when.                          *)
RetriesBounded == retries <= MaxRetries

(* No silent gap: every session of a returned report was read or is among   *)
(* its errors.                                                             *)
NoSilentGap ==
  \A r \in report : \A i \in Index : results[i].state \in {"ok", "empty"} \/ i \in r.errors

(* No two workers fetch the same session: a result is written once, and a   *)
(* session is never read twice outside the retry.                           *)
OneWorkerPerSession ==
  \A v, w \in Worker :
    /\ v # w /\ worker[v].index # 0 => worker[v].index # worker[w].index
    /\ worker[v].index # 0 => results[worker[v].index].state = ""

(* A report that was begun returns: a rate-limited worker never waits for a *)
(* token that another one holds for good.                                   *)
ReportReturns == next > 1 ~> report # {}

(* "The denominator for each student is the number of sessions where they   *)
(* appeared (sessions_student_appeared_in)".                                *)
DenominatorIsAppearances ==
  \A r \in report : \A s \in DOMAIN r.students :
    r.students[s].total = Cardinality(Listed(results, s))

(* A cell is "ok" | "error" | "empty": a cell says error only of a session  *)
(* the report could not fetch.                                              *)
CellErrorIsError ==
  \A r \in report : \A s \in DOMAIN r.students : \A i \in Index :
    r.students[s].cells[i] = "error" => i \in r.errors
=============================================================================
