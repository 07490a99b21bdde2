---------------------------- MODULE HostControl ----------------------------
(***************************************************************************)
(* Admission to the upstream host: the row of scrape_host_state with its   *)
(* token bucket, AIMD limits and pause, the permits of                     *)
(* scrape_host_permits, and the runs that ask for them (AcquireHostPermit, *)
(* ReleaseHostPermit, ObserveHost and SeedHost in                          *)
(* internal/db/snapshot_repository.go; scraper/host_controller.go and the  *)
(* permit loop of scraper/scheduler.go).                                   *)
(*                                                                         *)
(* Time is absolute here, in ticks of one second: the bucket multiplies    *)
(* with it.  Tokens and rates are in 1/1000, the scale of the columns.     *)
(* A run is one claim of a target; when leases expire is left open (module *)
(* ScrapeRun), so a target may be claimed again at any time.               *)
(***************************************************************************)
EXTENDS Integers, FiniteSets

CONSTANTS
  Run, Target, Worker, NoRun,
  TargetOf, WorkerOf,    \* [Run -> Target], [Run -> Worker]
  Ahead,                 \* clock offset of every instance, in ticks
  BaseRate, BaseConc,    \* baseline_requests_per_second, baseline_concurrency
  Burst, MinRate, RateStep, Unit,
  HealthyRun,            \* successes before an increase (20 in the code)
  Threshold,             \* failures that trigger the decrease (3 in the code)
  ShortPause, LongPause, \* 15 minutes and one hour
  RetryAfter,            \* Retry-After values an answer may carry
  FetchTimeout, Grace,   \* a permit lives FetchTimeout + Grace
  Outcomes,              \* outcomes a fetch may have
  MaxNow                 \* bound on time

Never == -1
(* Variant: no grace *)
PermitTTLTight == FetchTimeout
PermitTTL == FetchTimeout + Grace
Success == {"changed", "unchanged", "not_modified"}
Outcome == Success \cup {"rate_limited", "auth_error", "transient_error", "rejected"}

ASSUME HostAssumption ==
  /\ NoRun \notin Run
  /\ IsFiniteSet(Run)
  /\ TargetOf \in [Run -> Target] /\ WorkerOf \in [Run -> Worker]
  /\ Ahead \in [Worker -> Nat]
  /\ \A w \in Worker : Ahead[w] < Grace
  /\ MinRate \in Nat \ {0} /\ BaseRate \in Nat /\ MinRate <= BaseRate
  /\ RateStep \in Nat /\ Unit \in Nat \ {0}
  /\ Burst \in Nat \ {0} /\ BaseConc \in Nat \ {0}
  /\ HealthyRun \in Nat \ {0} /\ Threshold \in Nat
  /\ ShortPause \in Nat /\ LongPause \in Nat /\ RetryAfter \subseteq Nat
  /\ FetchTimeout \in Nat \ {0} /\ Grace \in Nat /\ MaxNow \in Nat
  /\ Outcomes \subseteq Outcome

VARIABLES
  now,       \* the slowest clock
  host,      \* the row of scrape_host_state
  permits,   \* rows of scrape_host_permits: [run, expires]
  run,       \* the claimed work items
  failures,  \* [Target -> Nat]: consecutive_failures
  holder,    \* [Target -> Run]: the claim with the current generation
  granted,   \* history: permits handed out
  cuts       \* history: AIMD decreases since a success of the target was observed

hostVars == <<now, host, permits, run, failures, holder, granted, cuts>>

Phase == {"new", "claimed", "fetching", "confirming", "fetched", "observed", "committed", "done"}

(* A work item that is not under way *)
Idle(phase) ==
  [phase |-> phase, failures |-> 0, outcome |-> "unchanged", started |-> 0, finished |-> 0]

HostTypeOK ==
  /\ now \in 0..MaxNow
  /\ host \in [tokens: 0..(Burst * Unit), updated: Nat, rate: MinRate..BaseRate,
               conc: 1..BaseConc, healthy: Nat, last429: Nat \cup {Never}, paused: Nat]
  /\ permits \subseteq [run: Run, expires: Nat]
  /\ run \in [Run -> [phase: Phase, failures: Nat, outcome: Outcome,
                   started: Nat, finished: Nat]]
  /\ failures \in [Target -> Nat]
  /\ holder \in [Target -> Run \cup {NoRun}]
  /\ granted \in Nat
  /\ cuts \in [Target -> Nat]

(* SeedHost on an empty table: a full bucket *)
HostInit ==
  /\ now = 0
  /\ host = [tokens |-> Burst * Unit, updated |-> 0, rate |-> BaseRate, conc |-> BaseConc,
             healthy |-> 0, last429 |-> Never, paused |-> 0]
  /\ permits = {}
  /\ run = [r \in Run |-> Idle("new")]
  /\ failures = [t \in Target |-> 0]
  /\ holder = [t \in Target |-> NoRun]
  /\ granted = 0
  /\ cuts = [t \in Target |-> 0]

AtMost(a, b) == IF a <= b THEN a ELSE b
AtLeast(a, b) == IF a >= b THEN a ELSE b

In(r, phases) == run[r].phase \in phases
Clock(r) == now + Ahead[WorkerOf[r]]
Goto(r, phase) == run' = [run EXCEPT ![r].phase = phase]
End(r) == run' = [run EXCEPT ![r] = Idle("done")]

(* Variant: the bucket is brought to the time the caller sent *)
BucketTimeOfCaller(t) == t

(* "Never move the token-bucket clock backwards" *)
BucketTime(t) == AtLeast(t, host.updated)

Elapsed(n) == AtLeast(n - host.updated, 0)

(* refillTokens *)
Refill(n) == AtMost(host.tokens + Elapsed(n) * host.rate, Burst * Unit)

(* persistTokens *)
WithTokens(k, n) == [host EXCEPT !.tokens = k, !.updated = n]

----------------------------------------------------------------------------
(* The permit loop of executeClaimed *)

Claim(r) ==
  /\ In(r, {"new"})
  /\ host.paused <= Clock(r)
  /\ run' = [run EXCEPT ![r].phase = "claimed", ![r].failures = failures[TargetOf[r]]]
  /\ holder' = [holder EXCEPT ![TargetOf[r]] = r]
  /\ UNCHANGED <<now, host, permits, failures, granted, cuts>>

(* AcquireHostPermit deletes what expired before it counts.  A permit the   *)
(* run has already (the INSERT is idempotent per claim) is given again.     *)
Active(n) == {p \in permits : p.expires > n}
Current(r) == holder[TargetOf[r]] = r

Denied(r) ==
  LET n == BucketTime(Clock(r)) IN
  /\ In(r, {"claimed"})
  /\ Current(r)
  /\ permits' = Active(n)
  /\ \/ host.paused > n /\ UNCHANGED host
     \/ /\ host.paused <= n
        /\ Cardinality(Active(n)) >= host.conc \/ Refill(n) < Unit
        /\ host' = WithTokens(Refill(n), n)
  /\ \/ UNCHANGED run       \* wait until RetryAt and ask again
     \/ End(r)     \* the lease would not last: RescheduleLease
  /\ UNCHANGED <<now, failures, holder, granted, cuts>>

(* The answer may be lost: the run gives up and its permit stays *)
Granted(r) ==
  LET n == BucketTime(Clock(r)) IN
  /\ In(r, {"claimed"})
  /\ Current(r)
  /\ host.paused <= n
  /\ Cardinality(Active(n)) < host.conc
  /\ Refill(n) >= Unit
  /\ host' = WithTokens(Refill(n) - Unit, n)
  /\ permits' = Active(n) \cup {[run |-> r, expires |-> n + PermitTTL]}
  /\ granted' = granted + 1
  /\ \/ run' = [run EXCEPT ![r].phase = "fetching", ![r].started = now]
     \/ End(r)
  /\ UNCHANGED <<now, failures, holder, cuts>>

(* ErrLeaseLost, a cancelled context, or a failing query *)
GivenUp(r) ==
  /\ In(r, {"claimed"})
  /\ End(r)
  /\ UNCHANGED <<now, host, permits, failures, holder, granted, cuts>>

----------------------------------------------------------------------------
(* RunClaimedWithRelease, as far as the host sees it *)

FetchEnds(r, o) ==
  /\ In(r, {"fetching"})
  /\ run' = [run EXCEPT ![r].phase = "fetched", ![r].outcome = o, ![r].finished = Clock(r)]
  /\ UNCHANGED <<now, host, permits, failures, holder, granted, cuts>>

(* The parent context is cancelled: nothing to observe or to commit *)
FetchCanceled(r) ==
  /\ In(r, {"fetching"})
  /\ Goto(r, "committed")
  /\ UNCHANGED <<now, host, permits, failures, holder, granted, cuts>>

(* A suspicious change is fetched again, under the same permit; finishedAt   *)
(* stays the end of the first fetch                                         *)
Confirm(r) ==
  /\ In(r, {"fetching"})
  /\ run' = [run EXCEPT ![r].phase = "confirming", ![r].started = now, ![r].finished = Clock(r)]
  /\ UNCHANGED <<now, host, permits, failures, holder, granted, cuts>>

ConfirmEnds(r, o) ==
  /\ In(r, {"confirming"})
  /\ o \in Success \cup {"rejected"}
  /\ run' = [run EXCEPT ![r].phase = "fetched", ![r].outcome = o]
  /\ UNCHANGED <<now, host, permits, failures, holder, granted, cuts>>

Pause(n, ra) ==
  AtLeast(AtLeast(ShortPause, ra),
          IF host.last429 # Never /\ n - host.last429 <= LongPause THEN LongPause ELSE 0)

(* Halving in NUMERIC(8,3) *)
HalfRate == AtLeast(MinRate, (host.rate + 1) \div 2)

(* Variant: the pause ends with the first success *)
HealthierUnpaused(h, n) ==
  LET up == h.healthy + 1 >= HealthyRun IN
  [h EXCEPT !.healthy = IF up THEN 0 ELSE @ + 1,
            !.rate = IF up THEN AtMost(@ + RateStep, BaseRate) ELSE @,
            !.conc = IF up THEN AtMost(@ + 1, BaseConc) ELSE @,
            !.paused = 0]

Healthier(h, n) ==
  LET up == h.healthy + 1 >= HealthyRun IN
  [h EXCEPT !.healthy = IF up THEN 0 ELSE @ + 1,
            !.rate = IF up THEN AtMost(@ + RateStep, BaseRate) ELSE @,
            !.conc = IF up THEN AtMost(@ + 1, BaseConc) ELSE @,
            !.paused = IF @ > n THEN @ ELSE 0]

(* The row after ObserveHost of outcome o, with f failures in a row *)
Observed(o, f, ra, n) ==
  LET h == WithTokens(Refill(n), n) IN
  CASE o = "rate_limited" ->
         [h EXCEPT !.rate = HalfRate, !.conc = 1, !.last429 = n, !.healthy = 0,
                   !.paused = n + Pause(n, ra)]
    [] o = "auth_error" -> [h EXCEPT !.healthy = 0, !.paused = n + ShortPause]
    [] o \in Success -> Healthier(h, n)
    [] o = "transient_error" /\ f = Threshold ->
         [h EXCEPT !.rate = HalfRate, !.conc = AtLeast(@ - 1, 1), !.healthy = 0]
    [] OTHER -> [h EXCEPT !.healthy = 0]

CutsAfter(t, o, f) ==
  CASE o \in Success -> 0
    [] o = "transient_error" /\ f = Threshold -> cuts[t] + 1
    [] OTHER -> cuts[t]

(* f counts on from the claimed copy; the lease is not looked at.  When the  *)
(* observation fails the run goes on to its commit.                         *)
Observe(r, ra) ==
  LET o == run[r].outcome
      f == IF o \in Success THEN 0 ELSE run[r].failures + 1 IN
  /\ In(r, {"fetched"})
  /\ Goto(r, "observed")
  /\ \/ /\ host' = Observed(o, f, ra, BucketTime(run[r].finished))
        /\ cuts' = [cuts EXCEPT ![TargetOf[r]] = CutsAfter(TargetOf[r], o, f)]
     \/ UNCHANGED <<host, cuts>>
  /\ UNCHANGED <<now, permits, failures, holder, granted>>

(* Commit, or its loss: a lost lease or a failing transaction *)
Commit(r) ==
  /\ In(r, {"observed"})
  /\ Goto(r, "committed")
  /\ \/ /\ Current(r)
        /\ failures' = [failures EXCEPT ![TargetOf[r]] =
                          IF run[r].outcome \in Success THEN 0 ELSE run[r].failures + 1]
     \/ UNCHANGED failures
  /\ UNCHANGED <<now, host, permits, holder, granted, cuts>>

(* The deferred release; when it fails the permit stays until its TTL *)
Release(r) ==
  /\ In(r, {"committed"})
  /\ End(r)
  /\ permits' \in {{p \in permits : p.run # r}, permits}
  /\ UNCHANGED <<now, host, failures, holder, granted, cuts>>

----------------------------------------------------------------------------
(* The instance of w stops; a new one seeds the host again *)
Restart(w) ==
  /\ \E r \in Run : WorkerOf[r] = w /\ ~In(r, {"new", "done"})
  /\ run' = [r \in Run |-> IF WorkerOf[r] = w /\ ~In(r, {"new"})
                             THEN Idle("done") ELSE run[r]]
  /\ host' = [host EXCEPT !.rate = AtMost(@, BaseRate), !.conc = AtMost(@, BaseConc),
                          !.tokens = AtMost(@, Burst * Unit)]
  /\ UNCHANGED <<now, permits, failures, holder, granted, cuts>>

(* context.WithTimeout: no fetch outlasts FetchTimeout *)
Tick ==
  /\ now < MaxNow
  /\ \A r \in Run : In(r, {"fetching", "confirming"}) => now < run[r].started + FetchTimeout
  /\ now' = now + 1
  /\ UNCHANGED <<host, permits, run, failures, holder, granted, cuts>>

RunNext(r) ==
  \/ Claim(r) \/ Denied(r) \/ Granted(r) \/ GivenUp(r)
  \/ FetchCanceled(r) \/ Confirm(r) \/ Commit(r) \/ Release(r)
  \/ \E o \in Outcomes : FetchEnds(r, o) \/ ConfirmEnds(r, o)
  \/ \E ra \in RetryAfter : Observe(r, ra)

HostNext == Tick \/ (\E w \in Worker : Restart(w)) \/ (\E r \in Run : RunNext(r))

HostSpec == HostInit /\ [][HostNext]_hostVars

----------------------------------------------------------------------------
(* However the clocks of the instances differ and in whichever order their  *)
(* observations get the row lock, the permits handed out never exceed what  *)
(* a bucket of size Burst refilled at the baseline rate could give: no      *)
(* second is counted twice (the clamp in AcquireHostPermit and ObserveHost).*)
RateBound == granted * Unit + host.tokens <= Burst * Unit + BaseRate * host.updated

(* As long as every run does a single fetch under its permit, the requests  *)
(* under way never exceed the baseline concurrency, across all instances:   *)
(* the permit outlives the fetch even for the clock that is furthest ahead, *)
(* and after decreases, leaked permits and restarts.                        *)
SingleFetchesBounded ==
  Cardinality({r \in Run : In(r, {"fetching"})}) <= BaseConc

(* No permit is handed out within ShortPause of the last 429: answers of    *)
(* other runs that come in later, and restarts, do not lift the pause.      *)
PauseRespected ==
  [][granted' # granted /\ host.last429 # Never =>
       host'.updated >= host.last429 + ShortPause]_hostVars

(* ADR 009: "host permits enforce Warwick rate and concurrency limits       *)
(* across all application instances".  The confirmation fetch may outlive   *)
(* the permit it runs under.                                                *)
FetchesBounded ==
  Cardinality({r \in Run : In(r, {"fetching", "confirming"})}) <= BaseConc

(* ADR 009: "Three consecutive transient failures for one target trigger    *)
(* one AIMD host decrease for that failure streak".  The observation comes  *)
(* before the commit that would count the failure.                          *)
OneCutPerStreak == \A t \in Target : cuts[t] <= 1
============================================================================
