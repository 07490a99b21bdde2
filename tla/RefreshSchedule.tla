-------------------------- MODULE RefreshSchedule --------------------------
(***************************************************************************)
(* When a target is fetched next, and whether its snapshot can still be    *)
(* served then: the policies and the adaptive interval of                  *)
(* scraper/policy.go, the back-off of the coordinator's failed runs, and   *)
(* the re-seeding of a session by every run of its course, which may       *)
(* change the session's policy (upsertSeeds in db/snapshot_repository.go). *)
(* Times are counted in ticks from the last event of the target, Minute of *)
(* them to a minute (the table stores seconds, 60 to a minute), and are    *)
(* rounded to whole ticks.  A run starts when the target is due.           *)
(***************************************************************************)
EXTENDS Naturals

CONSTANTS
    Minute,       \* ticks in a minute
    Classes,      \* the policy classes the target may have
    RetryAfters,  \* what Warwick may put in a Retry-After header, 0 for none
    InFlight,     \* TRUE: the course may commit between a run's claim and its end
    MaxSeeds      \* bound: how often the course re-seeds the target

ASSUME ScheduleAssumption ==
    /\ Minute \in Nat \ {0}
    /\ Classes \subseteq {"course", "not_started", "in_progress", "done", "profiles"}
    /\ RetryAfters \subseteq Nat /\ 0 \in RetryAfters
    /\ InFlight \in BOOLEAN /\ MaxSeeds \in Nat

VARIABLES
    target,  \* the row: class, interval, calm, failures
    due,     \* ticks from the last event to next_run_at
    age,     \* ticks from the last validation to the last event, as long
             \* as at most one run has failed in between (MaxAge afterwards)
    grave,   \* since then: a failure that asks for a long wait, or a new class
    claimed, \* the claimed copy of the row while a run is in progress
    seeds    \* re-seedings so far

vars == <<target, due, age, grave, claimed, seeds>>

-----------------------------------------------------------------------------
(* Policies *)

Hour == 60 * Minute
Day == 24 * Hour

Least(a, b) == IF a <= b THEN a ELSE b
Most(a, b) == IF a <= b THEN b ELSE a

PolicyFor(class) ==
    CASE class = "course" ->
            [initial |-> Hour, min |-> 15 * Minute, max |-> Day, serve |-> 2 * Day]
      [] class = "done" ->
            [initial |-> 12 * Hour, min |-> Hour, max |-> 30 * Day, serve |-> 45 * Day]
      [] class = "not_started" ->
            [initial |-> Hour, min |-> 15 * Minute, max |-> 12 * Hour, serve |-> Day]
      [] class = "in_progress" ->
            [initial |-> 5 * Minute, min |-> Minute, max |-> 30 * Minute, serve |-> 2 * Hour]
      [] class = "profiles" ->
            [initial |-> Day, min |-> 6 * Hour, max |-> 7 * Day, serve |-> 14 * Day]

Sessions == {"not_started", "in_progress", "done"}

Clamped(policy, interval) == Least(policy.max, Most(policy.min, interval))

\* calm counts the unchanged runs at the end of the ten remembered ones.
Calm(calm, changed) == IF changed THEN 0 ELSE Least(10, calm + 1)

NextSchedule(policy, current, calm, changed) ==
    Clamped(policy, IF changed THEN current \div 2
                    ELSE IF Calm(calm, changed) = 10 THEN 2 * current
                    ELSE (3 * current) \div 2)

\* ApplyJitter: a tenth more or less; the two extremes.
Jittered(interval) == {(9 * interval) \div 10, (11 * interval + 9) \div 10}

-----------------------------------------------------------------------------
(* Failures *)

FailureDelay(n) ==
    IF n <= 1 THEN Minute
    ELSE IF n > 7 THEN Hour
    ELSE Least(Hour, Minute * 2^(n - 1))

\* Variant: a quarantined run waits as long as one that found nothing.
FailureWaitsLong(outcome, n, retryAfter) ==
    CASE outcome = "rate_limited" -> {Most(15 * Minute, retryAfter)}
      [] outcome = "auth_error" -> {15 * Minute}
      [] outcome \in {"not_found", "permanent_error", "quarantined"} -> {Day}
      [] outcome = "invalid_payload" -> {Hour}
      [] outcome = "transient_error" ->
            {Most(wait, retryAfter) : wait \in {0, FailureDelay(n)}}

\* How long after a failed run the next one may be due (failureNextRun).
FailureWaits(outcome, n, retryAfter) ==
    CASE outcome = "rate_limited" -> {Most(15 * Minute, retryAfter)}
      [] outcome = "auth_error" -> {15 * Minute}
      [] outcome \in {"not_found", "permanent_error"} -> {Day}
      [] outcome \in {"invalid_payload", "quarantined"} -> {Hour}
      [] outcome = "transient_error" ->
            {Most(wait, retryAfter) : wait \in {0, FailureDelay(n)}}

Failures == {"rate_limited", "auth_error", "not_found", "permanent_error",
             "invalid_payload", "quarantined", "transient_error"}

\* Failures that ask for a wait of hours, whatever the target's policy.
LongWait(outcome, retryAfter) ==
    outcome \in {"not_found", "permanent_error"} \/ retryAfter > Hour

-----------------------------------------------------------------------------
(* The target *)

Unclaimed == [pc |-> "none"]
MaxFailures == 8
MaxAge == 45 * Day + 1

Init ==
    /\ target \in {[class |-> c, interval |-> PolicyFor(c).initial,
                    calm |-> 0, failures |-> 0] : c \in Classes}
    /\ due = 0 /\ age = 0
    /\ grave = FALSE
    /\ claimed = Unclaimed
    /\ seeds = 0

\* A worker claims the target when it is due and works on a copy of the row.
ClaimDue ==
    /\ claimed = Unclaimed
    /\ claimed' = [pc |-> "running", row |-> target]
    /\ age' = Least(MaxAge, age + due)
    /\ due' = 0
    /\ UNCHANGED <<target, grave, seeds>>

\* Changed, unchanged and not modified runs: interval and history come from
\* the claimed copy, policyForTarget included.
Succeed ==
    /\ claimed # Unclaimed
    /\ \E changed \in BOOLEAN :
          LET row == claimed.row
              interval == NextSchedule(PolicyFor(row.class), row.interval, row.calm, changed)
          IN /\ target' = [target EXCEPT !.interval = interval,
                                         !.calm = Calm(row.calm, changed),
                                         !.failures = 0]
             /\ due' \in Jittered(interval)
    /\ age' = 0 /\ grave' = FALSE
    /\ claimed' = Unclaimed
    /\ UNCHANGED seeds

Fail ==
    /\ claimed # Unclaimed
    /\ \E outcome \in Failures, retryAfter \in RetryAfters :
          LET n == Least(MaxFailures, claimed.row.failures + 1)
          IN /\ due' \in FailureWaits(outcome, n, retryAfter)
             /\ grave' = (grave \/ LongWait(outcome, retryAfter))
             /\ target' = [target EXCEPT !.interval = claimed.row.interval,
                                         !.calm = claimed.row.calm, !.failures = n]
             /\ age' = IF n <= 1 THEN age ELSE MaxAge
    /\ claimed' = Unclaimed
    /\ UNCHANGED seeds

\* The interval an existing row keeps when it is seeded again.
Seeded(class, interval) == Clamped(PolicyFor(class), interval)

\* Discovery spreads its seeds over this long.
DiscoveryJitter == 5 * Minute

\* The course's run commits: the session takes the policy of its new status
\* and is due within the discovery jitter at the latest.
Seed ==
    /\ seeds < MaxSeeds
    /\ InFlight \/ claimed = Unclaimed
    /\ target.class \in Sessions
    /\ \E class \in Sessions \cap Classes, passed \in {0, due}, jitter \in {0, DiscoveryJitter} :
          /\ target' = [target EXCEPT !.class = class, !.interval = Seeded(class, @)]
          /\ age' = Least(MaxAge, age + passed)
          /\ due' = Least(due - passed, jitter)
          /\ grave' = (grave \/ class # target.class)
    /\ seeds' = seeds + 1
    /\ UNCHANGED claimed

Next == ClaimDue \/ Succeed \/ Fail \/ Seed

Spec == Init /\ [][Next]_vars

-----------------------------------------------------------------------------
(* Properties *)

\* The row is well formed: whatever the runs and the re-seedings did, the
\* interval lies within the policy of the class the row has now.
ScheduleTypeOK ==
    /\ target.class \in Classes /\ target.calm \in 0..10 /\ target.failures \in 0..MaxFailures
    /\ target.interval >= PolicyFor(target.class).min
    /\ target.interval <= PolicyFor(target.class).max
    /\ age \in 0..MaxAge /\ due \in Nat /\ grave \in BOOLEAN /\ seeds \in 0..MaxSeeds

\* A snapshot outlives one failed run: after a validation, and after one
\* failure that does not itself ask for a wait of hours, the next attempt is
\* due before the maximum serve age is reached.  A new status may shorten that
\* age to less than what has passed; the next attempt is then due within the
\* discovery jitter.
NextAttemptInTime ==
    claimed = Unclaimed /\ target.failures <= 1 =>
        \/ age + due <= PolicyFor(target.class).serve
        \/ grave /\ target.failures = 1
        \/ grave /\ due <= DiscoveryJitter
=============================================================================
