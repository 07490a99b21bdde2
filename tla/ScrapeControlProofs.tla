------------------------- MODULE ScrapeControlProofs --------------------------
(*****************************************************************************)
(* When a target may be fetched.  The host row and its permits, for any      *)
(* number of runs, instances and limits; and the schedule, for every policy  *)
(* class and every unit of time: the run of TLC counts in minutes and leaves *)
(* out the long policies.  The schedule is kept where a course does not      *)
(* commit during a run of its session; with InFlight TLC shows it broken.    *)
(*****************************************************************************)
EXTENDS HostControl, RefreshSchedule, FiniteSetTheorems, TLAPS

----------------------------------------------------------------------------
\* Admission to the host

HostRow == [tokens : 0..(Burst * Unit), updated : Nat, rate : MinRate..BaseRate,
            conc : 1..BaseConc, healthy : Nat, last429 : Nat \cup {Never}, paused : Nat]

Item == [phase : Phase, failures : Nat, outcome : Outcome, started : Nat, finished : Nat]

\* The times the instances write: none is further ahead than a permit's grace.
Near(t) == t < now + Grace \/ t <= now

\* The pause of the last 429 lasts until the bucket's clock has passed its end.
PauseKept(h) ==
    h.last429 # Never =>
        /\ h.last429 <= h.updated
        /\ h.paused >= h.last429 + ShortPause \/ h.updated >= h.last429 + ShortPause

\* A fetch under way has a permit that outlives it.
Covered(r) ==
    In(r, {"fetching"}) =>
        /\ run[r].started <= now /\ now <= run[r].started + FetchTimeout
        /\ \E p \in permits : p.run = r /\ p.expires >= run[r].started + PermitTTL

PermitsOK == IsFiniteSet(permits) /\ Cardinality(permits) <= BaseConc

HostInv ==
    /\ HostTypeOK
    /\ RateBound
    /\ PauseKept(host)
    /\ Near(host.updated)
    /\ \A r \in Run : Near(run[r].finished) /\ Covered(r)
    /\ PermitsOK

\* The numbers among the constants.
LEMMA HostNumbers ==
    /\ MinRate \in Nat \ {0} /\ BaseRate \in Nat /\ MinRate <= BaseRate /\ RateStep \in Nat
    /\ Unit \in Nat \ {0} /\ Burst \in Nat \ {0} /\ Burst * Unit \in Nat \ {0}
    /\ BaseConc \in Nat \ {0} /\ ShortPause \in Nat /\ LongPause \in Nat
    /\ FetchTimeout \in Nat \ {0} /\ Grace \in Nat /\ MaxNow \in Nat
    /\ PermitTTL \in Nat /\ PermitTTL = FetchTimeout + Grace
    /\ \A r \in Run : Ahead[WorkerOf[r]] \in Nat /\ Ahead[WorkerOf[r]] < Grace
<1>1. \A r \in Run : Ahead[WorkerOf[r]] \in Nat /\ Ahead[WorkerOf[r]] < Grace
  BY HostAssumption
<1>2. ASSUME NEW a \in Nat \ {0}, NEW b \in Nat \ {0} PROVE a * b \in Nat \ {0}
  OBVIOUS
<1>3. QED
  BY <1>1, <1>2, HostAssumption DEF PermitTTL

\* refillTokens: the bucket gains at most the baseline rate for every second
\* that its clock moves, and never overflows.
LEMMA RefillBounded ==
    ASSUME HostTypeOK, NEW n \in Nat, n >= host.updated
    PROVE  /\ Refill(n) \in 0..(Burst * Unit)
           /\ Refill(n) <= host.tokens + BaseRate * (n - host.updated)
           /\ BaseRate * n = BaseRate * host.updated + BaseRate * (n - host.updated)
<1> DEFINE d == n - host.updated
           B == Burst * Unit
<1>1. /\ d \in Nat /\ Elapsed(n) = d
      /\ host.tokens \in 0..B /\ host.updated \in Nat /\ host.rate \in 0..BaseRate
      /\ B \in Nat /\ BaseRate \in Nat
  BY HostNumbers DEF HostTypeOK, Elapsed, AtLeast
<1>2. ASSUME NEW a \in Nat, NEW b \in Nat, NEW c \in 0..b PROVE a * c \in Nat /\ a * c <= b * a
  OBVIOUS
<1>3. d * host.rate \in Nat /\ d * host.rate <= BaseRate * d
  BY <1>1, <1>2
<1>4. Refill(n) = IF host.tokens + d * host.rate <= B THEN host.tokens + d * host.rate ELSE B
  BY <1>1 DEF Refill, AtMost
<1>5. BaseRate * d \in Nat
  BY <1>1, <1>2
<1>6. BaseRate * (host.updated + d) = BaseRate * host.updated + BaseRate * d
  BY <1>1
<1>7. host.updated + d = n
  BY <1>1
<1> HIDE DEF d, B
<1>8. Refill(n) \in 0..B /\ Refill(n) <= host.tokens + BaseRate * d
  BY <1>1, <1>3, <1>4, <1>5
<1>9. QED
  BY <1>6, <1>7, <1>8 DEF d, B

\* The clamp "Never move the token-bucket clock backwards" with the clock of any
\* instance, and with the end of a fetch.
LEMMA ClampedTimes ==
    ASSUME HostInv, NEW r \in Run
    PROVE  /\ BucketTime(Clock(r)) \in Nat /\ BucketTime(Clock(r)) >= host.updated
           /\ BucketTime(Clock(r)) >= now /\ BucketTime(Clock(r)) < now + Grace
           /\ BucketTime(run[r].finished) \in Nat /\ BucketTime(run[r].finished) >= host.updated
           /\ BucketTime(run[r].finished) < now + Grace
           /\ Clock(r) \in Nat /\ Clock(r) < now + Grace
<1>1. now \in Nat /\ host.updated \in Nat /\ run[r].finished \in Nat
  BY HostNumbers DEF HostInv, HostTypeOK
<1>2. Clock(r) \in Nat /\ Clock(r) >= now /\ Clock(r) < now + Grace
  BY <1>1, HostNumbers DEF Clock
<1>3. host.updated < now + Grace /\ run[r].finished < now + Grace
  BY <1>1, HostNumbers DEF HostInv, Near
<1>4. QED
  BY <1>1, <1>2, <1>3 DEF BucketTime, AtLeast

\* A step that brings the bucket to time n and hands out g permits.
LEMMA BucketKeeps ==
    ASSUME HostTypeOK, RateBound, NEW n \in Nat, n >= host.updated, NEW g \in {0, 1},
           host' \in HostRow, host'.updated = n, host'.tokens = Refill(n) - g * Unit,
           granted' = granted + g
    PROVE  RateBound'
<1>1. /\ Refill(n) \in 0..(Burst * Unit)
      /\ Refill(n) <= host.tokens + BaseRate * (n - host.updated)
      /\ BaseRate * n = BaseRate * host.updated + BaseRate * (n - host.updated)
  BY RefillBounded
<1>2. Unit \in Nat /\ granted \in Nat /\ host.tokens \in Nat /\ host.updated \in Nat /\ BaseRate \in Nat
      /\ Burst * Unit \in Nat
  BY HostNumbers DEF HostTypeOK
<1>3. granted' * Unit = granted * Unit + g * Unit
  <2>1. CASE g = 0
    BY <1>2, <2>1
  <2>2. CASE g = 1
    BY <1>2, <2>2
  <2>3. QED
    BY <2>1, <2>2
<1>4. ASSUME NEW a \in Nat, NEW b \in Nat PROVE a * b \in Nat
  OBVIOUS
<1>5. granted * Unit \in Nat /\ g * Unit \in Nat /\ BaseRate * host.updated \in Nat
      /\ n - host.updated \in Nat /\ BaseRate * (n - host.updated) \in Nat
  BY <1>2, <1>4
<1>6. granted * Unit + host.tokens <= Burst * Unit + BaseRate * host.updated
  BY DEF RateBound
<1>7. granted' * Unit + host'.tokens <= Burst * Unit + BaseRate * n
  BY <1>1, <1>2, <1>3, <1>5, <1>6
<1>8. QED
  BY <1>7 DEF RateBound

\* ObserveHost brings the bucket to its time, keeps the limits within their
\* bounds and never shortens the pause of a 429.
LEMMA ObservedRow ==
    ASSUME HostTypeOK, PauseKept(host), NEW o \in Outcome, NEW f, NEW ra \in RetryAfter,
           NEW n \in Nat, n >= host.updated
    PROVE  /\ Observed(o, f, ra, n) \in HostRow
           /\ Observed(o, f, ra, n).updated = n
           /\ Observed(o, f, ra, n).tokens = Refill(n)
           /\ PauseKept(Observed(o, f, ra, n))
<1> DEFINE h == WithTokens(Refill(n), n)
<1>1. /\ host \in HostRow /\ Refill(n) \in 0..(Burst * Unit) /\ ra \in Nat
  BY RefillBounded, HostAssumption DEF HostTypeOK, HostRow
<1>2. /\ h \in HostRow /\ h.updated = n /\ h.tokens = Refill(n) /\ h.paused = host.paused
      /\ h.last429 = host.last429
  BY <1>1 DEF WithTokens, HostRow
<1>3. HalfRate \in MinRate..BaseRate
  <2>1. host.rate \in MinRate..BaseRate
    BY DEF HostTypeOK
  <2>2. (host.rate + 1) \div 2 \in Nat /\ (host.rate + 1) \div 2 <= host.rate
    BY <2>1, HostNumbers
  <2>3. QED
    BY <2>1, <2>2, HostNumbers DEF HalfRate, AtLeast
<1>4. Pause(n, ra) \in Nat /\ Pause(n, ra) >= ShortPause
  BY <1>1, HostNumbers DEF Pause, AtLeast
<1>5. PauseKept(h)
  BY <1>1, <1>2, HostNumbers DEF PauseKept, HostRow
<1> HIDE DEF h
<1>6. CASE o = "rate_limited"
  <2> DEFINE x == [h EXCEPT !.rate = HalfRate, !.conc = 1, !.last429 = n, !.healthy = 0,
                            !.paused = n + Pause(n, ra)]
  <2>1. Observed(o, f, ra, n) = x
    BY <1>6 DEF Observed, h, Success
  <2>2. PICK q \in Nat : q = n + Pause(n, ra) /\ q >= n + ShortPause
    BY <1>4, HostNumbers
  <2>3. 1 \in 1..BaseConc
    BY HostNumbers
  <2>4. x = [h EXCEPT !.rate = HalfRate, !.conc = 1, !.last429 = n, !.healthy = 0, !.paused = q]
    BY <2>2
  <2>5. /\ x \in HostRow /\ x.updated = n /\ x.tokens = Refill(n) /\ x.last429 = n
        /\ x.paused = q
    BY <1>2, <1>3, <2>3, <2>4 DEF HostRow
  <2> HIDE DEF x
  <2>6. PauseKept(x)
    BY <2>2, <2>5, HostNumbers DEF PauseKept
  <2>7. QED
    BY <2>1, <2>5, <2>6
<1>7. CASE o = "auth_error"
  <2> DEFINE x == [h EXCEPT !.healthy = 0, !.paused = n + ShortPause]
  <2>1. Observed(o, f, ra, n) = x
    BY <1>7 DEF Observed, h, Success
  <2>2. PICK q \in Nat : q = n + ShortPause
    BY HostNumbers
  <2>3. x = [h EXCEPT !.healthy = 0, !.paused = q]
    BY <2>2
  <2>4. /\ x \in HostRow /\ x.updated = n /\ x.tokens = Refill(n) /\ x.last429 = h.last429
        /\ x.paused = q
    BY <1>2, <2>3 DEF HostRow
  <2> HIDE DEF x
  <2>5. h.last429 # Never => h.last429 \in Nat /\ h.last429 <= n
    BY <1>2, <1>5 DEF PauseKept, HostRow
  <2>6. PauseKept(x)
    BY <2>2, <2>4, <2>5, HostNumbers DEF PauseKept
  <2>7. QED
    BY <2>1, <2>4, <2>6
<1>8. CASE o \in Success
  <2> DEFINE up == h.healthy + 1 >= HealthyRun
             x == [h EXCEPT !.healthy = IF up THEN 0 ELSE h.healthy + 1,
                            !.rate = IF up THEN AtMost(h.rate + RateStep, BaseRate) ELSE h.rate,
                            !.conc = IF up THEN AtMost(h.conc + 1, BaseConc) ELSE h.conc,
                            !.paused = IF h.paused > n THEN h.paused ELSE 0]
  <2>1. Observed(o, f, ra, n) = x
    BY <1>8 DEF Observed, h, Success, Healthier
  <2>2. /\ h.healthy \in Nat /\ h.rate \in MinRate..BaseRate /\ h.conc \in 1..BaseConc
        /\ h.paused \in Nat
    BY <1>2 DEF HostRow
  <2>3. /\ AtMost(h.rate + RateStep, BaseRate) \in MinRate..BaseRate
        /\ AtMost(h.conc + 1, BaseConc) \in 1..BaseConc
    BY <2>2, HostNumbers DEF AtMost
  <2> DEFINE a == IF up THEN 0 ELSE h.healthy + 1
             b == IF up THEN AtMost(h.rate + RateStep, BaseRate) ELSE h.rate
             c == IF up THEN AtMost(h.conc + 1, BaseConc) ELSE h.conc
             q == IF h.paused > n THEN h.paused ELSE 0
  <2> HIDE DEF up
  <2>4. a \in Nat /\ b \in MinRate..BaseRate /\ c \in 1..BaseConc /\ q \in Nat
    BY <2>2, <2>3
  <2> HIDE DEF a, b, c, q
  <2>5. x = [h EXCEPT !.healthy = a, !.rate = b, !.conc = c, !.paused = q]
    BY DEF a, b, c, q
  <2>6. /\ x \in HostRow /\ x.updated = n /\ x.tokens = Refill(n) /\ x.last429 = h.last429
        /\ x.paused = IF h.paused > n THEN h.paused ELSE 0
    <3>1. /\ x \in HostRow /\ x.updated = n /\ x.tokens = Refill(n) /\ x.last429 = h.last429
          /\ x.paused = q
      BY <1>2, <2>4, <2>5 DEF HostRow
    <3>2. QED
      BY <3>1 DEF q
  <2> HIDE DEF x
  <2>7. PauseKept(x)
    <3>1. SUFFICES ASSUME x.last429 # Never
                   PROVE  /\ x.last429 <= x.updated
                          /\ x.paused >= x.last429 + ShortPause \/ x.updated >= x.last429 + ShortPause
      BY DEF PauseKept
    <3>2. /\ h.last429 \in Nat /\ h.last429 <= n
          /\ h.paused >= h.last429 + ShortPause \/ n >= h.last429 + ShortPause
      BY <1>2, <1>5, <2>6, <3>1 DEF PauseKept, HostRow
    <3>3. QED
      BY <2>2, <2>6, <3>2, HostNumbers
  <2>8. QED
    BY <2>1, <2>6, <2>7
<1>9. CASE o \notin Success \cup {"rate_limited", "auth_error"}
  <2> DEFINE x == [h EXCEPT !.rate = HalfRate, !.conc = AtLeast(h.conc - 1, 1), !.healthy = 0]
             y == [h EXCEPT !.healthy = 0]
  <2>1. Observed(o, f, ra, n) = x \/ Observed(o, f, ra, n) = y
    BY <1>9 DEF Observed, h, Success
  <2>2. AtLeast(h.conc - 1, 1) \in 1..BaseConc
    BY <1>2, HostNumbers DEF AtLeast, HostRow
  <2>3. /\ x \in HostRow /\ x.updated = n /\ x.tokens = Refill(n) /\ x.last429 = h.last429
        /\ x.paused = h.paused
    BY <1>2, <1>3, <2>2 DEF HostRow
  <2>4. /\ y \in HostRow /\ y.updated = n /\ y.tokens = Refill(n) /\ y.last429 = h.last429
        /\ y.paused = h.paused
    BY <1>2 DEF HostRow
  <2> HIDE DEF x, y
  <2>5. PauseKept(x) /\ PauseKept(y)
    BY <1>2, <1>5, <2>3, <2>4 DEF PauseKept
  <2>6. QED
    BY <2>1, <2>3, <2>4, <2>5
<1>10. QED
  BY <1>6, <1>7, <1>8, <1>9 DEF Success

\* A step of one work item that is not fetching afterwards.
LEMMA ItemKeeps ==
    ASSUME HostInv, HostTypeOK', UNCHANGED <<now, host, permits, granted>>, NEW r \in Run,
           \A q \in Run \ {r} : run'[q] = run[q],
           ~In(r, {"fetching"})', run'[r].finished = run[r].finished \/ run'[r].finished < now + Grace
    PROVE  HostInv'
<1>1. RateBound' /\ PauseKept(host)' /\ Near(host.updated)' /\ PermitsOK'
  BY DEF HostInv, RateBound, PauseKept, Near, PermitsOK
<1>2. \A q \in Run : Near(run[q].finished)'
  BY DEF HostInv, Near
<1>3. \A q \in Run : Covered(q)'
  BY DEF HostInv, Covered, In
<1>4. QED
  BY <1>1, <1>2, <1>3 DEF HostInv

\* AcquireHostPermit deletes only permits whose fetch is over.
LEMMA ActiveCovers ==
    ASSUME HostInv, NEW r \in Run, NEW q \in Run, In(q, {"fetching"})
    PROVE  \E p \in Active(BucketTime(Clock(r))) : p.run = q /\ p.expires >= run[q].started + PermitTTL
<1>1. PICK p \in permits : p.run = q /\ p.expires >= run[q].started + PermitTTL
  BY DEF HostInv, Covered
<1>2. now <= run[q].started + FetchTimeout /\ now \in Nat /\ run[q].started \in Nat /\ p.expires \in Nat
  BY DEF HostInv, Covered, HostTypeOK
<1>3. BucketTime(Clock(r)) \in Nat /\ BucketTime(Clock(r)) < now + Grace
  BY ClampedTimes
<1>4. p.expires > BucketTime(Clock(r))
  BY <1>1, <1>2, <1>3, HostNumbers
<1>5. QED
  BY <1>1, <1>4 DEF Active

\* The permits that are left can be counted.
LEMMA ActiveCounted ==
    ASSUME HostInv, NEW n
    PROVE  /\ IsFiniteSet(Active(n)) /\ Cardinality(Active(n)) \in Nat
           /\ Cardinality(Active(n)) <= Cardinality(permits) /\ Cardinality(permits) \in Nat
           /\ Active(n) \subseteq permits
<1>1. IsFiniteSet(permits) /\ Active(n) \in SUBSET permits
  BY DEF HostInv, PermitsOK, Active
<1>2. QED
  BY <1>1, FS_Subset, FS_CardinalityType

\* AcquireHostPermit denies.
LEMMA DeniedKeeps ==
    ASSUME HostInv, NEW r \in Run, Denied(r)
    PROVE  HostInv'
<1> DEFINE n == BucketTime(Clock(r))
<1>1. n \in Nat /\ n >= host.updated /\ n < now + Grace
  BY ClampedTimes
<1>2. /\ permits' = Active(n) /\ In(r, {"claimed"})
      /\ run' = run \/ End(r)
      /\ UNCHANGED <<now, failures, holder, granted, cuts>>
      /\ host' = host \/ host' = WithTokens(Refill(n), n)
  BY DEF Denied
<1> HIDE DEF n
<1>3. HostTypeOK /\ host \in HostRow /\ PauseKept(host) /\ Refill(n) \in 0..(Burst * Unit)
  BY <1>1, RefillBounded DEF HostInv, HostTypeOK, HostRow
<1>4. /\ host' \in HostRow /\ RateBound' /\ PauseKept(host)' /\ Near(host.updated)'
  <2>1. CASE host' = host
    BY <1>2, <1>3, <2>1 DEF HostInv, RateBound, PauseKept, Near
  <2>2. CASE host' = WithTokens(Refill(n), n)
    <3>1. /\ host' \in HostRow /\ host'.updated = n /\ host'.tokens = Refill(n)
          /\ host'.paused = host.paused /\ host'.last429 = host.last429
      BY <1>1, <1>3, <2>2 DEF WithTokens, HostRow
    <3>2. RateBound'
      <4>1. host'.tokens = Refill(n) - 0 * Unit /\ granted' = granted + 0
        BY <1>2, <1>3, <3>1, HostNumbers DEF HostTypeOK
      <4>2. QED
        BY <1>1, <1>3, <3>1, <4>1, BucketKeeps DEF HostInv
    <3>3. PauseKept(host')
      BY <1>1, <1>3, <3>1, HostNumbers DEF PauseKept, HostRow
    <3>4. QED
      BY <1>1, <1>2, <3>1, <3>2, <3>3 DEF Near, PauseKept
  <2>3. QED
    BY <1>2, <2>1, <2>2
<1>5. permits' \subseteq [run: Run, expires: Nat] /\ PermitsOK'
  <2>1. permits' \subseteq permits /\ IsFiniteSet(permits') /\ Cardinality(permits') \in Nat
        /\ Cardinality(permits') <= Cardinality(permits) /\ Cardinality(permits) \in Nat
    BY <1>2, ActiveCounted
  <2>2. QED
    BY <1>3, <2>1, HostNumbers DEF HostInv, HostTypeOK, PermitsOK
<1>6. /\ run' \in [Run -> Item] /\ ~In(r, {"fetching"})' /\ run'[r].finished \in {run[r].finished, 0}
      /\ \A q \in Run \ {r} : run'[q] = run[q]
  <2>1. Idle("done") \in Item /\ Idle("done").phase = "done" /\ Idle("done").finished = 0
    BY DEF Idle, Item, Phase, Outcome, Success
  <2>2. run \in [Run -> Item]
    BY <1>3 DEF HostTypeOK, Item
  <2>3. QED
    BY <1>2, <2>1, <2>2 DEF End, In
<1>7. HostTypeOK'
  BY <1>2, <1>3, <1>4, <1>5, <1>6 DEF HostTypeOK, HostRow, Item
<1>8. ASSUME NEW q \in Run PROVE Near(run[q].finished)' /\ Covered(q)'
  <2>1. Near(run[q].finished)'
    BY <1>2, <1>3, <1>6, HostNumbers DEF HostInv, Near, HostTypeOK
  <2>2. Covered(q)'
    <3>1. SUFFICES ASSUME In(q, {"fetching"})' PROVE Covered(q)'
      BY DEF Covered
    <3>2. q # r /\ run'[q] = run[q] /\ In(q, {"fetching"})
      BY <1>6, <3>1 DEF In
    <3>3. \E p \in permits' : p.run = q /\ p.expires >= run[q].started + PermitTTL
      BY <1>2, <3>2, ActiveCovers DEF n
    <3>4. QED
      BY <1>2, <3>2, <3>3 DEF Covered, HostInv
  <2>3. QED
    BY <2>1, <2>2
<1>9. QED
  BY <1>4, <1>5, <1>7, <1>8 DEF HostInv

\* AcquireHostPermit grants.
LEMMA GrantedKeeps ==
    ASSUME HostInv, NEW r \in Run, Granted(r)
    PROVE  HostInv'
<1> DEFINE n == BucketTime(Clock(r))
           new == [run |-> r, expires |-> n + PermitTTL]
<1>1. n \in Nat /\ n >= host.updated /\ n >= now /\ n < now + Grace
  BY ClampedTimes
<1>2. /\ permits' = Active(n) \cup {new} /\ Cardinality(Active(n)) < host.conc
      /\ run' = [run EXCEPT ![r].phase = "fetching", ![r].started = now] \/ End(r)
      /\ UNCHANGED <<now, failures, holder, cuts>> /\ granted' = granted + 1
      /\ host' = WithTokens(Refill(n) - Unit, n) /\ Refill(n) >= Unit
  BY DEF Granted
<1> HIDE DEF n
<1>3. HostTypeOK /\ host \in HostRow /\ PauseKept(host) /\ Refill(n) \in 0..(Burst * Unit)
  BY <1>1, RefillBounded DEF HostInv, HostTypeOK, HostRow
<1>4. /\ host' \in HostRow /\ host'.updated = n /\ host'.tokens = Refill(n) - Unit
      /\ host'.paused = host.paused /\ host'.last429 = host.last429
  <2>1. Refill(n) - Unit \in 0..(Burst * Unit)
    BY <1>2, <1>3, HostNumbers
  <2>2. QED
    BY <1>1, <1>2, <1>3, <2>1 DEF WithTokens, HostRow
<1>5. RateBound'
  <2>1. host'.tokens = Refill(n) - 1 * Unit
    BY <1>4, HostNumbers
  <2>2. QED
    BY <1>1, <1>2, <1>3, <1>4, <2>1, BucketKeeps DEF HostInv
<1>6. PauseKept(host)' /\ Near(host.updated)'
  <2>1. PauseKept(host')
    BY <1>1, <1>3, <1>4, HostNumbers DEF PauseKept, HostRow
  <2>2. QED
    BY <1>1, <1>2, <1>4, <2>1 DEF PauseKept, Near
<1>7. new \in [run: Run, expires: Nat] /\ permits' \subseteq [run: Run, expires: Nat]
  <2>1. new \in [run: Run, expires: Nat]
    BY <1>1, HostNumbers
  <2>2. QED
    BY <1>2, <1>3, <2>1, ActiveCounted DEF HostTypeOK
<1>8. PermitsOK'
  <2>1. IsFiniteSet(Active(n)) /\ Cardinality(Active(n)) \in Nat
    BY ActiveCounted
  <2>2. host.conc \in 1..BaseConc /\ BaseConc \in Nat
    BY <1>3, HostNumbers DEF HostRow
  <2>3. /\ IsFiniteSet(permits')
        /\ Cardinality(permits') = Cardinality(Active(n)) \/ Cardinality(permits') = Cardinality(Active(n)) + 1
    BY <1>2, <2>1, FS_AddElement
  <2>4. QED
    BY <1>2, <2>1, <2>2, <2>3 DEF PermitsOK
<1>9. /\ run' \in [Run -> Item] /\ run'[r].finished \in {run[r].finished, 0}
      /\ In(r, {"fetching"})' => run'[r].started = now
      /\ \A q \in Run \ {r} : run'[q] = run[q]
  <2>1. Idle("done") \in Item /\ Idle("done").phase = "done" /\ Idle("done").finished = 0
    BY DEF Idle, Item, Phase, Outcome, Success
  <2>2. run \in [Run -> Item] /\ now \in Nat
    BY <1>3, HostNumbers DEF HostTypeOK, Item
  <2>3. CASE End(r)
    BY <2>1, <2>2, <2>3 DEF End, In
  <2>4. CASE run' = [run EXCEPT ![r].phase = "fetching", ![r].started = now]
    BY <2>2, <2>4 DEF In, Item, Phase
  <2>5. QED
    BY <1>2, <2>3, <2>4
<1>10. HostTypeOK'
  BY <1>2, <1>3, <1>4, <1>7, <1>9 DEF HostTypeOK, HostRow, Item
<1>11. ASSUME NEW q \in Run PROVE Near(run[q].finished)' /\ Covered(q)'
  <2>1. Near(run[q].finished)'
    BY <1>2, <1>3, <1>9, HostNumbers DEF HostInv, Near, HostTypeOK
  <2>2. ASSUME In(q, {"fetching"})' PROVE Covered(q)'
    <3>1. CASE q = r
      <4>1. new \in permits' /\ new.run = r /\ new.expires >= now + PermitTTL
        BY <1>1, <1>2, <1>3, HostNumbers DEF HostTypeOK
      <4>2. run'[r].started = now /\ now' = now /\ now \in Nat
        BY <1>2, <1>3, <1>9, <2>2, <3>1, HostNumbers DEF HostTypeOK
      <4> HIDE DEF new
      <4>3. QED
        BY <3>1, <4>1, <4>2, HostNumbers DEF Covered
    <3>2. CASE q # r
      <4>1. run'[q] = run[q] /\ In(q, {"fetching"})
        BY <1>9, <2>2, <3>2 DEF In
      <4>2. \E p \in permits' : p.run = q /\ p.expires >= run[q].started + PermitTTL
        BY <1>2, <4>1, ActiveCovers DEF n
      <4>3. QED
        BY <1>2, <4>1, <4>2 DEF Covered, HostInv
    <3>3. QED
      BY <3>1, <3>2
  <2>3. QED
    BY <2>1, <2>2 DEF Covered
<1>12. QED
  BY <1>5, <1>6, <1>8, <1>10, <1>11 DEF HostInv

\* ObserveHost.
LEMMA ObserveKeeps ==
    ASSUME HostInv, NEW r \in Run, NEW ra \in RetryAfter, Observe(r, ra)
    PROVE  HostInv'
<1> DEFINE n == BucketTime(run[r].finished)
           o == run[r].outcome
           f == IF o \in Success THEN 0 ELSE run[r].failures + 1
<1>1. n \in Nat /\ n >= host.updated /\ n < now + Grace
  BY ClampedTimes
<1>2. /\ run' = [run EXCEPT ![r].phase = "observed"]
      /\ UNCHANGED <<now, permits, failures, holder, granted>>
      /\ \/ host' = Observed(o, f, ra, n) /\ cuts' = [cuts EXCEPT ![TargetOf[r]] = CutsAfter(TargetOf[r], o, f)]
         \/ host' = host /\ cuts' = cuts
  BY DEF Observe, Goto
<1>3. HostTypeOK /\ PauseKept(host) /\ host \in HostRow /\ o \in Outcome
  BY DEF HostInv, HostTypeOK, HostRow
<1> HIDE DEF n, o, f
<1>4. /\ host' \in HostRow /\ RateBound' /\ PauseKept(host)' /\ Near(host.updated)'
  <2>1. CASE host' = host
    BY <1>2, <1>3, <2>1 DEF HostInv, RateBound, PauseKept, Near
  <2>2. CASE host' = Observed(o, f, ra, n)
    <3>1. /\ host' \in HostRow /\ host'.updated = n /\ host'.tokens = Refill(n) /\ PauseKept(host')
      BY <1>1, <1>3, <2>2, ObservedRow
    <3>2. RateBound'
      <4>1. host'.tokens = Refill(n) - 0 * Unit /\ granted' = granted + 0
        BY <1>1, <1>2, <1>3, <3>1, HostNumbers, RefillBounded DEF HostTypeOK
      <4>2. QED
        BY <1>1, <1>3, <3>1, <4>1, BucketKeeps DEF HostInv
    <3>3. QED
      BY <1>1, <1>2, <3>1, <3>2 DEF Near, PauseKept
  <2>3. QED
    BY <1>2, <2>1, <2>2
<1>5. /\ run' \in [Run -> Item] /\ ~In(r, {"fetching"})'
      /\ \A q \in Run : run'[q].finished = run[q].finished
      /\ \A q \in Run \ {r} : run'[q] = run[q]
  BY <1>2, <1>3 DEF HostTypeOK, Item, Phase, In
<1>6. cuts' \in [Target -> Nat]
  <2>1. cuts \in [Target -> Nat] /\ TargetOf[r] \in Target
    BY <1>3, HostAssumption DEF HostTypeOK
  <2>2. CutsAfter(TargetOf[r], o, f) \in Nat
    BY <2>1 DEF CutsAfter
  <2>3. QED
    BY <1>2, <2>1, <2>2
<1>7. HostTypeOK'
  BY <1>2, <1>3, <1>4, <1>5, <1>6 DEF HostTypeOK, HostRow, Item
<1>8. ASSUME NEW q \in Run PROVE Near(run[q].finished)' /\ Covered(q)'
  BY <1>2, <1>5 DEF HostInv, Near, Covered, In
<1>9. PermitsOK'
  BY <1>2 DEF HostInv, PermitsOK
<1>10. QED
  BY <1>4, <1>7, <1>8, <1>9 DEF HostInv

\* The steps of a run that touch neither the row of the host nor the permits.
LEMMA OwnStepKeeps ==
    ASSUME HostInv, NEW r \in Run,
           \/ Claim(r) \/ GivenUp(r) \/ FetchCanceled(r) \/ Confirm(r) \/ Commit(r)
           \/ \E o \in Outcomes : FetchEnds(r, o) \/ ConfirmEnds(r, o)
    PROVE  HostInv'
<1>1. /\ HostTypeOK /\ run \in [Run -> Item] /\ now \in Nat
      /\ failures \in [Target -> Nat] /\ TargetOf[r] \in Target
      /\ holder \in [Target -> Run \cup {NoRun}] /\ Outcomes \subseteq Outcome
  BY HostAssumption DEF HostInv, HostTypeOK, Item
<1>2. Clock(r) \in Nat /\ Clock(r) < now + Grace
  BY ClampedTimes
<1>3. SUFFICES ASSUME /\ UNCHANGED <<now, host, permits, granted, cuts>>
                      /\ run' \in [Run -> Item] /\ ~In(r, {"fetching"})'
                      /\ failures' \in [Target -> Nat] /\ holder' \in [Target -> Run \cup {NoRun}]
                      /\ \A q \in Run \ {r} : run'[q] = run[q]
                      /\ run'[r].finished = run[r].finished \/ run'[r].finished < now + Grace
               PROVE  HostInv'
  <2>1. CASE Claim(r)
    BY <1>1, <2>1, <1>3 DEF Claim, In, Item, Phase
  <2>2. CASE GivenUp(r)
    <3>1. Idle("done") \in Item /\ Idle("done").phase = "done" /\ Idle("done").finished = 0
      BY DEF Idle, Item, Phase, Outcome, Success
    <3>2. 0 < now + Grace
      BY <1>1, <1>2, HostNumbers
    <3>3. QED
      BY <1>1, <1>3, <2>2, <3>1, <3>2 DEF GivenUp, End, In
  <2>3. CASE FetchCanceled(r)
    BY <1>1, <1>3, <2>3 DEF FetchCanceled, Goto, In, Item, Phase
  <2>4. CASE Confirm(r)
    <3> DEFINE e == [run[r] EXCEPT !.phase = "confirming", !.started = now, !.finished = Clock(r)]
    <3>1. /\ run' = [run EXCEPT ![r].phase = "confirming", ![r].started = now, ![r].finished = Clock(r)]
          /\ UNCHANGED <<now, host, permits, failures, holder, granted, cuts>>
      BY <2>4 DEF Confirm
    <3>2. e \in Item /\ e.phase # "fetching" /\ e.finished = Clock(r)
      BY <1>1, <1>2 DEF Item, Phase
    <3>3. run' = [run EXCEPT ![r] = e]
      BY <1>1, <3>1
    <3> HIDE DEF e
    <3>4. QED
      BY <1>1, <1>2, <1>3, <3>1, <3>2, <3>3 DEF In
  <2>5. CASE Commit(r)
    <3>1. run[r].failures + 1 \in Nat
      BY <1>1 DEF Item
    <3>2. failures' \in [Target -> Nat]
      BY <1>1, <2>5, <3>1 DEF Commit
    <3>3. QED
      BY <1>1, <1>3, <2>5, <3>2 DEF Commit, Goto, In, Item, Phase
  <2>6. ASSUME NEW o \in Outcomes, FetchEnds(r, o) PROVE HostInv'
    <3> DEFINE e == [run[r] EXCEPT !.phase = "fetched", !.outcome = o, !.finished = Clock(r)]
    <3>1. /\ run' = [run EXCEPT ![r].phase = "fetched", ![r].outcome = o, ![r].finished = Clock(r)]
          /\ UNCHANGED <<now, host, permits, failures, holder, granted, cuts>>
      BY <2>6 DEF FetchEnds
    <3>2. e \in Item /\ e.phase # "fetching" /\ e.finished = Clock(r)
      BY <1>1, <1>2 DEF Item, Phase
    <3>3. run' = [run EXCEPT ![r] = e]
      BY <1>1, <3>1
    <3> HIDE DEF e
    <3>4. QED
      BY <1>1, <1>2, <1>3, <3>1, <3>2, <3>3 DEF In
  <2>7. ASSUME NEW o \in Outcomes, ConfirmEnds(r, o) PROVE HostInv'
    <3>1. /\ run' = [run EXCEPT ![r].phase = "fetched", ![r].outcome = o]
          /\ UNCHANGED <<now, host, permits, failures, holder, granted, cuts>>
      BY <2>7 DEF ConfirmEnds
    <3>2. QED
      BY <1>1, <1>3, <3>1 DEF In, Item, Phase
  <2>8. QED
    BY <2>1, <2>2, <2>3, <2>4, <2>5, <2>6, <2>7
<1>4. HostTypeOK'
  BY <1>1, <1>3 DEF HostTypeOK, Item
<1>5. QED
  BY <1>3, <1>4, ItemKeeps

\* ReleaseHostPermit.
LEMMA ReleaseKeeps ==
    ASSUME HostInv, NEW r \in Run, Release(r)
    PROVE  HostInv'
<1>1. /\ HostTypeOK /\ run \in [Run -> Item] /\ now \in Nat
      /\ run' = [run EXCEPT ![r] = Idle("done")]
      /\ UNCHANGED <<now, host, failures, holder, granted, cuts>>
  BY HostNumbers DEF HostInv, HostTypeOK, Item, Release, End
<1>2. permits' \subseteq permits /\ \A p \in permits : p.run # r => p \in permits'
  BY DEF Release
<1>3. /\ run' \in [Run -> Item] /\ ~In(r, {"fetching"})' /\ run'[r].finished = 0
      /\ \A q \in Run \ {r} : run'[q] = run[q]
  <2>1. Idle("done") \in Item /\ Idle("done").phase = "done" /\ Idle("done").finished = 0
    BY DEF Idle, Item, Phase, Outcome, Success
  <2>2. QED
    BY <1>1, <2>1 DEF In
<1>4. HostTypeOK'
  BY <1>1, <1>2, <1>3 DEF HostTypeOK, Item
<1>5. RateBound' /\ PauseKept(host)' /\ Near(host.updated)'
  BY <1>1 DEF HostInv, RateBound, PauseKept, Near
<1>6. PermitsOK'
  <2>1. IsFiniteSet(permits) /\ permits' \in SUBSET permits
    BY <1>2 DEF HostInv, PermitsOK
  <2>2. IsFiniteSet(permits') /\ Cardinality(permits') <= Cardinality(permits)
    BY <2>1, FS_Subset
  <2>3. Cardinality(permits') \in Nat /\ Cardinality(permits) \in Nat
    BY <2>1, <2>2, FS_CardinalityType
  <2>4. QED
    BY <2>2, <2>3, HostNumbers DEF HostInv, PermitsOK
<1>7. ASSUME NEW q \in Run PROVE Near(run[q].finished)' /\ Covered(q)'
  <2>1. Near(run[q].finished)'
    BY <1>1, <1>3, HostNumbers DEF HostInv, Near
  <2>2. Covered(q)'
    BY <1>1, <1>2, <1>3 DEF HostInv, Covered, In
  <2>3. QED
    BY <2>1, <2>2
<1>8. QED
  BY <1>4, <1>5, <1>6, <1>7 DEF HostInv

\* An instance stops, and SeedHost lowers what exceeds the baseline: nothing.
LEMMA RestartKeeps ==
    ASSUME HostInv, NEW w \in Worker, Restart(w)
    PROVE  HostInv'
<1>1. /\ HostTypeOK /\ run \in [Run -> Item] /\ now \in Nat /\ host \in HostRow
      /\ UNCHANGED <<now, permits, failures, holder, granted, cuts>>
  BY HostNumbers DEF HostInv, HostTypeOK, Item, HostRow, Restart
<1>2. host' = host
  <2>1. /\ AtMost(host.rate, BaseRate) = host.rate /\ AtMost(host.conc, BaseConc) = host.conc
        /\ AtMost(host.tokens, Burst * Unit) = host.tokens
    BY <1>1, HostNumbers DEF HostRow, AtMost
  <2>2. host' = [host EXCEPT !.rate = host.rate, !.conc = host.conc, !.tokens = host.tokens]
    BY <2>1 DEF Restart
  <2>3. QED
    BY <1>1, <2>2 DEF HostRow
<1>3. \A q \in Run : run'[q] = run[q] \/ run'[q] = Idle("done")
  BY DEF Restart
<1>4. Idle("done") \in Item /\ Idle("done").phase = "done" /\ Idle("done").finished = 0
  BY DEF Idle, Item, Phase, Outcome, Success
<1>5. run' \in [Run -> Item]
  <2>1. run' = [r \in Run |-> run'[r]]
    BY DEF Restart
  <2>2. \A r \in Run : run'[r] \in Item
    BY <1>1, <1>3, <1>4
  <2>3. QED
    BY <2>1, <2>2
<1>6. HostTypeOK'
  BY <1>1, <1>2, <1>5 DEF HostTypeOK, Item
<1>7. RateBound' /\ PauseKept(host)' /\ Near(host.updated)' /\ PermitsOK'
  BY <1>1, <1>2 DEF HostInv, RateBound, PauseKept, Near, PermitsOK
<1>8. ASSUME NEW q \in Run PROVE Near(run[q].finished)' /\ Covered(q)'
  BY <1>1, <1>3, <1>4, HostNumbers DEF HostInv, Near, Covered, In
<1>9. QED
  BY <1>6, <1>7, <1>8 DEF HostInv

\* Time passes, but not beyond the timeout of a fetch.
LEMMA TickKeeps ==
    ASSUME HostInv, Tick
    PROVE  HostInv'
<1>1. /\ HostTypeOK /\ run \in [Run -> Item] /\ now \in Nat /\ now < MaxNow /\ now' = now + 1
      /\ UNCHANGED <<host, permits, run, failures, holder, granted, cuts>> /\ host.updated \in Nat
  BY HostNumbers DEF HostInv, HostTypeOK, Item, Tick
<1>2. HostTypeOK'
  BY <1>1, HostNumbers DEF HostTypeOK
<1>3. RateBound' /\ PauseKept(host)' /\ PermitsOK'
  BY <1>1 DEF HostInv, RateBound, PauseKept, PermitsOK
<1>4. Near(host.updated)'
  BY <1>1, HostNumbers DEF HostInv, Near
<1>5. ASSUME NEW q \in Run PROVE Near(run[q].finished)' /\ Covered(q)'
  <2>1. run[q].finished \in Nat /\ run[q].started \in Nat
    BY <1>1 DEF Item
  <2>2. Near(run[q].finished)'
    BY <1>1, <2>1, HostNumbers DEF HostInv, Near
  <2>3. In(q, {"fetching"}) => now < run[q].started + FetchTimeout
    BY DEF Tick, In
  <2>4. Covered(q)'
    BY <1>1, <2>1, <2>3, HostNumbers DEF HostInv, Covered, In
  <2>5. QED
    BY <2>2, <2>4
<1>6. QED
  BY <1>2, <1>3, <1>4, <1>5 DEF HostInv

LEMMA HostInitInv == HostInit => HostInv
<1> SUFFICES ASSUME HostInit PROVE HostInv
  OBVIOUS
<1>1. \A r \in Run : run[r] = Idle("new")
  BY DEF HostInit
<1>2. Idle("new") \in Item /\ Idle("new").phase = "new" /\ Idle("new").finished = 0
  BY DEF Idle, Item, Phase, Outcome, Success
<1>3. HostTypeOK
  <2>1. host \in HostRow
    BY HostNumbers DEF HostInit, HostRow
  <2>2. QED
    BY <1>2, <2>1, HostNumbers DEF HostInit, HostTypeOK, HostRow, Item
<1>4. RateBound /\ PauseKept(host) /\ Near(host.updated)
  BY HostNumbers DEF HostInit, RateBound, PauseKept, Near
<1>5. PermitsOK
  BY FS_EmptySet, HostNumbers DEF HostInit, PermitsOK
<1>6. \A r \in Run : Near(run[r].finished) /\ Covered(r)
  BY <1>1, <1>2, HostNumbers DEF HostInit, Near, Covered, In
<1>7. QED
  BY <1>3, <1>4, <1>5, <1>6 DEF HostInv

LEMMA HostStepInv == HostInv /\ [HostNext]_hostVars => HostInv'
<1> SUFFICES ASSUME HostInv, [HostNext]_hostVars PROVE HostInv'
  OBVIOUS
<1>1. CASE Tick
  BY <1>1, TickKeeps
<1>2. ASSUME NEW w \in Worker, Restart(w) PROVE HostInv'
  BY <1>2, RestartKeeps
<1>3. ASSUME NEW r \in Run, RunNext(r) PROVE HostInv'
  <2>1. CASE Denied(r)
    BY <2>1, DeniedKeeps
  <2>2. CASE Granted(r)
    BY <2>2, GrantedKeeps
  <2>3. CASE Release(r)
    BY <2>3, ReleaseKeeps
  <2>4. ASSUME NEW ra \in RetryAfter, Observe(r, ra) PROVE HostInv'
    BY <2>4, ObserveKeeps
  <2>5. QED
    BY <1>3, <2>1, <2>2, <2>3, <2>4, OwnStepKeeps DEF RunNext
<1>4. CASE UNCHANGED hostVars
  BY <1>4 DEF hostVars, HostInv, HostTypeOK, RateBound, PauseKept, Near, Covered, In, PermitsOK
<1>5. QED
  BY <1>1, <1>2, <1>3, <1>4 DEF HostNext

\* A fetch under way has a permit of its own, and there are at most BaseConc.
LEMMA FetchesHavePermits == HostInv => SingleFetchesBounded
<1> SUFFICES ASSUME HostInv PROVE SingleFetchesBounded
  OBVIOUS
<1> DEFINE F == {r \in Run : In(r, {"fetching"})}
           g == [r \in F |-> CHOOSE p \in permits : p.run = r]
<1>1. ASSUME NEW r \in F PROVE g[r] \in permits /\ g[r].run = r
  <2>1. \E p \in permits : p.run = r
    BY DEF HostInv, Covered
  <2>2. QED
    BY <2>1
<1>2. g \in Injection(F, permits)
  <2>1. g \in [F -> permits]
    BY <1>1
  <2>2. \A q, r \in F : g[q] = g[r] => q = r
    BY <1>1
  <2>3. QED
    BY <2>1, <2>2 DEF Injection, IsInjective
<1>3. IsFiniteSet(permits) /\ Cardinality(permits) <= BaseConc
  BY DEF HostInv, PermitsOK
<1>4. IsFiniteSet(F) /\ Cardinality(F) <= Cardinality(permits)
  BY <1>2, <1>3, FS_Injection
<1>5. Cardinality(F) \in Nat /\ Cardinality(permits) \in Nat
  BY <1>3, <1>4, FS_CardinalityType
<1>6. QED
  BY <1>3, <1>4, <1>5, HostNumbers DEF SingleFetchesBounded

\* For any number of instances with clocks apart by less than the grace of a
\* permit, any limits and any order of requests, observations, expiries and
\* restarts: the permits handed out stay within the bucket of the baseline rate,
\* and the first fetches under way within the baseline concurrency
\* (AcquireHostPermit, ObserveHost, ReleaseHostPermit).
THEOREM HostBounds == HostSpec => [](HostTypeOK /\ RateBound /\ SingleFetchesBounded)
<1>1. HostInv => HostTypeOK /\ RateBound /\ SingleFetchesBounded
  BY FetchesHavePermits DEF HostInv
<1>2. QED
  BY <1>1, HostInitInv, HostStepInv, PTL DEF HostSpec

\* AcquireHostPermit hands out nothing within ShortPause of the last 429: later
\* observations of other runs, and restarts, do not lift the pause.
THEOREM PauseIsRespected == HostSpec => PauseRespected
<1> DEFINE Kept == granted' # granted /\ host.last429 # Never => host'.updated >= host.last429 + ShortPause
<1>1. HostInv /\ [HostNext]_hostVars => [Kept]_hostVars
  <2> SUFFICES ASSUME HostInv, HostNext, granted' # granted, host.last429 # Never
               PROVE  host'.updated >= host.last429 + ShortPause
    OBVIOUS
  <2>1. PICK r \in Run : Granted(r)
    BY DEF HostNext, Tick, Restart, RunNext, Claim, Denied, GivenUp, FetchCanceled, Confirm, Commit,
           Release, FetchEnds, ConfirmEnds, Observe
  <2>2. PICK n \in Nat : n = BucketTime(Clock(r)) /\ n >= host.updated
    BY ClampedTimes
  <2>3. host.paused <= n /\ host' = WithTokens(Refill(n) - Unit, n)
    BY <2>1, <2>2 DEF Granted
  <2>4. host'.updated = n /\ host.paused \in Nat /\ host.last429 \in Nat /\ host.updated \in Nat
    BY <2>3 DEF WithTokens, HostInv, HostTypeOK
  <2>5. QED
    BY <2>2, <2>3, <2>4, HostNumbers DEF HostInv, PauseKept
<1>2. QED
  BY <1>1, HostInitInv, HostStepInv, PTL DEF HostSpec, PauseRespected

-----------------------------------------------------------------------------
\* The schedule

ScheduleRow == [class : Classes, interval : Nat, calm : 0..10, failures : 0..MaxFailures]

ScheduleShape ==
    /\ target \in ScheduleRow
    /\ target.interval >= PolicyFor(target.class).min
    /\ target.interval <= PolicyFor(target.class).max
    /\ age \in 0..MaxAge /\ due \in Nat /\ grave \in BOOLEAN /\ seeds \in 0..MaxSeeds
    /\ claimed = Unclaimed \/ claimed = [pc |-> "running", row |-> target]

\* Until something out of the ordinary happens, an attempt after a validation
\* comes at most a tenth after the longest interval.
Ordinary ==
    ~grave /\ target.failures = 0 =>
        10 * (age + due) <= 11 * PolicyFor(target.class).max + 9

ScheduleInv == ScheduleShape /\ Ordinary /\ NextAttemptInTime

\* What the policies have in common: an interval, a tenth of it and an hour
\* fit in the serve age.
LEMMA PolicyBounds ==
    ASSUME NEW c \in Classes
    PROVE  LET p == PolicyFor(c)
           IN /\ p.initial \in Nat /\ p.min \in Nat /\ p.max \in Nat /\ p.serve \in Nat
              /\ p.min <= p.initial /\ p.initial <= p.max
              /\ 11 * p.max + 9 + 10 * Hour <= 10 * p.serve
              /\ p.serve <= MaxAge
<1>1. Minute \in Nat /\ Minute >= 1
  BY ScheduleAssumption
<1>2. CASE c = "course"
  BY <1>1, <1>2 DEF PolicyFor, Hour, Day, MaxAge
<1>3. CASE c = "done"
  BY <1>1, <1>3 DEF PolicyFor, Hour, Day, MaxAge
<1>4. CASE c = "not_started"
  BY <1>1, <1>4 DEF PolicyFor, Hour, Day, MaxAge
<1>5. CASE c = "in_progress"
  BY <1>1, <1>5 DEF PolicyFor, Hour, Day, MaxAge
<1>6. CASE c = "profiles"
  BY <1>1, <1>6 DEF PolicyFor, Hour, Day, MaxAge
<1> QED
  BY <1>2, <1>3, <1>4, <1>5, <1>6, ScheduleAssumption

\* Clamping puts any interval within the policy.
LEMMA ClampedWithin ==
    ASSUME NEW c \in Classes, NEW i \in Nat
    PROVE  /\ Clamped(PolicyFor(c), i) \in Nat
           /\ PolicyFor(c).min <= Clamped(PolicyFor(c), i)
           /\ Clamped(PolicyFor(c), i) <= PolicyFor(c).max
<1> DEFINE p == PolicyFor(c)
<1>1. p.min \in Nat /\ p.max \in Nat /\ p.min <= p.max
  BY PolicyBounds
<1> HIDE DEF p
<1>2. /\ Clamped(p, i) \in Nat /\ p.min <= Clamped(p, i) /\ Clamped(p, i) <= p.max
  BY <1>1 DEF Clamped, Least, Most
<1> QED
  BY <1>2 DEF p

\* The wait after a failure is a number; after a first failure that does not
\* ask for a wait of hours it is at most an hour.
LEMMA WaitBounds ==
    ASSUME NEW outcome \in Failures, NEW n \in 1..MaxFailures, NEW ra \in RetryAfters,
           NEW wait \in FailureWaits(outcome, n, ra)
    PROVE  /\ wait \in Nat
           /\ n = 1 /\ ~LongWait(outcome, ra) => wait <= Hour
<1>1. Minute \in Nat /\ Minute >= 1 /\ ra \in Nat
  BY ScheduleAssumption
<1>2. FailureDelay(n) \in Nat /\ (n = 1 => FailureDelay(n) = Minute)
  <2>1. CASE n <= 1 \/ n > 7
    BY <1>1, <2>1 DEF FailureDelay, Hour, MaxFailures
  <2>2. CASE n \in 2..7
    <3>1. n = 2 \/ n = 3 \/ n = 4 \/ n = 5 \/ n = 6 \/ n = 7
      BY <2>2
    <3>2. 2^(n - 1) \in Nat
      <4>1. 2^1 \in Nat /\ 2^2 \in Nat /\ 2^3 \in Nat /\ 2^4 \in Nat /\ 2^5 \in Nat /\ 2^6 \in Nat
        OBVIOUS
      <4>2. n - 1 = 1 \/ n - 1 = 2 \/ n - 1 = 3 \/ n - 1 = 4 \/ n - 1 = 5 \/ n - 1 = 6
        BY <3>1
      <4> QED
        BY <4>1, <4>2
    <3>3. Minute * 2^(n - 1) \in Nat
      BY <1>1, <3>2
    <3> QED
      BY <1>1, <2>2, <3>3 DEF FailureDelay, Least, Hour
  <2> QED
    BY <2>1, <2>2 DEF MaxFailures
<1>3. CASE outcome = "transient_error"
  BY <1>1, <1>2, <1>3 DEF FailureWaits, LongWait, Most, Hour
<1>4. CASE outcome # "transient_error"
  BY <1>1, <1>4 DEF FailureWaits, LongWait, Most, Hour, Day, Failures
<1> QED
  BY <1>3, <1>4

LEMMA ScheduleInit == Init => ScheduleInv
<1> SUFFICES ASSUME Init PROVE ScheduleInv
  OBVIOUS
<1>1. PICK c \in Classes : target = [class |-> c, interval |-> PolicyFor(c).initial,
                                     calm |-> 0, failures |-> 0]
  BY DEF Init
<1> DEFINE p == PolicyFor(c)
<1>2. /\ p.initial \in Nat /\ p.min <= p.initial /\ p.initial <= p.max
      /\ p.max \in Nat /\ p.serve \in Nat
  BY PolicyBounds
<1>3. MaxAge \in Nat
  BY ScheduleAssumption DEF MaxAge, Day, Hour
<1>4. target = [class |-> c, interval |-> p.initial, calm |-> 0, failures |-> 0]
  BY <1>1
<1> HIDE DEF p
<1>5. target \in ScheduleRow /\ target.class = c /\ target.interval = p.initial /\ target.failures = 0
  BY <1>2, <1>4 DEF ScheduleRow, MaxFailures
<1>6. PolicyFor(target.class) = p
  BY <1>5 DEF p
<1>7. ScheduleShape
  <2>1. age \in 0..MaxAge /\ due \in Nat /\ seeds \in 0..MaxSeeds
    BY <1>3, ScheduleAssumption DEF Init
  <2>2. grave \in BOOLEAN /\ claimed = Unclaimed
    BY DEF Init
  <2> QED
    BY <1>2, <1>5, <1>6, <2>1, <2>2 DEF ScheduleShape
<1>8. Ordinary /\ NextAttemptInTime
  BY <1>2, <1>5, <1>6 DEF Init, Ordinary, NextAttemptInTime
<1> QED
  BY <1>7, <1>8 DEF ScheduleInv

LEMMA ClaimKeeps == ASSUME ScheduleInv, ClaimDue PROVE ScheduleInv'
<1>1. /\ age \in 0..MaxAge /\ due \in Nat /\ MaxAge \in Nat
      /\ age' \in 0..MaxAge /\ age' <= age + due /\ due' = 0
  BY ScheduleAssumption DEF ScheduleInv, ScheduleShape, ClaimDue, Least, MaxAge, Day, Hour
<1>2. claimed' # Unclaimed
  BY DEF ClaimDue, Unclaimed
<1>3. ScheduleShape'
  BY <1>1 DEF ScheduleInv, ScheduleShape, ClaimDue, ScheduleRow
<1>4. Ordinary'
  <2>1. PolicyFor(target.class).max \in Nat
    BY PolicyBounds DEF ScheduleInv, ScheduleShape, ScheduleRow
  <2> QED
    BY <1>1, <2>1 DEF ScheduleInv, Ordinary, ClaimDue
<1>5. NextAttemptInTime'
  BY <1>2 DEF NextAttemptInTime
<1> QED
  BY <1>3, <1>4, <1>5 DEF ScheduleInv

LEMMA SucceedKeeps == ASSUME ScheduleInv, Succeed PROVE ScheduleInv'
<1>1. claimed.row = target
  BY DEF ScheduleInv, ScheduleShape, Succeed
<1>2. PICK changed \in BOOLEAN :
        LET interval == NextSchedule(PolicyFor(target.class), target.interval, target.calm, changed)
        IN /\ target' = [target EXCEPT !.interval = interval,
                                       !.calm = Calm(target.calm, changed), !.failures = 0]
           /\ due' \in Jittered(interval)
  BY <1>1 DEF Succeed
<1> DEFINE p == PolicyFor(target.class)
           interval == NextSchedule(p, target.interval, target.calm, changed)
<1>3. target \in ScheduleRow /\ target.class \in Classes /\ target.interval \in Nat /\ target.calm \in 0..10
  BY DEF ScheduleInv, ScheduleShape, ScheduleRow
<1>4. /\ p.max \in Nat /\ p.serve \in Nat /\ 11 * p.max + 9 + 10 * Hour <= 10 * p.serve
      /\ Hour \in Nat
  <2>1. Hour \in Nat
    BY ScheduleAssumption DEF Hour
  <2> QED
    BY <1>3, <2>1, PolicyBounds
<1>5. interval \in Nat /\ p.min <= interval /\ interval <= p.max
  <2>1. target.interval \div 2 \in Nat /\ 2 * target.interval \in Nat
        /\ (3 * target.interval) \div 2 \in Nat
    BY <1>3
  <2> QED
    BY <1>3, <2>1, ClampedWithin DEF NextSchedule
<1>6. Calm(target.calm, changed) \in 0..10
  BY <1>3 DEF Calm, Least
<1>7. due' \in Nat /\ 10 * due' <= 11 * p.max + 9
  <2> HIDE DEF interval, p
  <2>1. /\ (9 * interval) \div 10 \in Nat /\ 10 * ((9 * interval) \div 10) <= 11 * interval + 9
        /\ (11 * interval + 9) \div 10 \in Nat
        /\ 10 * ((11 * interval + 9) \div 10) <= 11 * interval + 9
    BY <1>5
  <2>2. due' \in Jittered(interval)
    BY <1>2 DEF interval, p
  <2> QED
    BY <1>4, <1>5, <2>1, <2>2 DEF Jittered
<1>8. /\ target' \in ScheduleRow /\ target'.class = target.class /\ target'.interval = interval
      /\ target'.failures = 0
  <2>1. target' = [target EXCEPT !.interval = interval,
                                 !.calm = Calm(target.calm, changed), !.failures = 0]
    BY <1>2
  <2>2. interval \in Nat
    BY <1>5
  <2> HIDE DEF interval, p
  <2>3. 0 \in 0..MaxFailures
    BY DEF MaxFailures
  <2> QED
    BY <1>3, <1>6, <2>1, <2>2, <2>3 DEF ScheduleRow
<1>9. age' = 0 /\ grave' = FALSE /\ claimed' = Unclaimed /\ seeds' = seeds
  BY DEF Succeed
<1> HIDE DEF interval, p
<1>10. PolicyFor(target'.class) = p
  BY <1>8 DEF p
<1>11. ScheduleShape'
  <2>1. 0 \in 0..MaxAge
    BY ScheduleAssumption DEF MaxAge, Day, Hour
  <2> QED
    BY <1>5, <1>7, <1>8, <1>9, <1>10, <2>1 DEF ScheduleShape, ScheduleInv, ScheduleRow
<1>12. Ordinary' /\ NextAttemptInTime'
  BY <1>4, <1>7, <1>8, <1>9, <1>10 DEF Ordinary, NextAttemptInTime
<1> QED
  BY <1>11, <1>12 DEF ScheduleInv

LEMMA FailKeeps == ASSUME ScheduleInv, Fail PROVE ScheduleInv'
<1>1. claimed.row = target
  BY DEF ScheduleInv, ScheduleShape, Fail
<1> DEFINE n == Least(MaxFailures, target.failures + 1)
           p == PolicyFor(target.class)
<1>2. PICK outcome \in Failures, ra \in RetryAfters :
        /\ due' \in FailureWaits(outcome, n, ra)
        /\ grave' = (grave \/ LongWait(outcome, ra))
        /\ target' = [target EXCEPT !.interval = target.interval,
                                    !.calm = target.calm, !.failures = n]
        /\ age' = IF n <= 1 THEN age ELSE MaxAge
  BY <1>1 DEF Fail
<1>3. /\ target \in ScheduleRow /\ target.class \in Classes /\ target.failures \in 0..MaxFailures
      /\ age \in 0..MaxAge /\ due \in Nat
      /\ target.interval >= p.min /\ target.interval <= p.max
  BY DEF ScheduleInv, ScheduleShape, ScheduleRow
<1>4. n \in 1..MaxFailures /\ (n = 1 => target.failures = 0)
  BY <1>3 DEF Least, MaxFailures
<1> HIDE DEF n, p
<1>5. due' \in Nat /\ (n = 1 /\ ~LongWait(outcome, ra) => due' <= Hour)
  BY <1>2, <1>4, WaitBounds
<1>6. /\ target' \in ScheduleRow /\ target'.class = target.class
      /\ target'.interval = target.interval /\ target'.failures = n
  <2>1. n \in 0..MaxFailures
    BY <1>4 DEF MaxFailures
  <2> QED
    BY <1>2, <1>3, <2>1 DEF ScheduleRow
<1>7. PolicyFor(target'.class) = p
  BY <1>6 DEF p
<1>8. MaxAge \in Nat
  BY ScheduleAssumption DEF MaxAge, Day, Hour
<1>9. ScheduleShape'
  <2>1. age' \in 0..MaxAge
    BY <1>2, <1>3, <1>8
  <2>2. grave' \in BOOLEAN
    BY <1>2 DEF LongWait
  <2>3. claimed' = Unclaimed /\ seeds' = seeds
    BY DEF Fail
  <2>4. seeds \in 0..MaxSeeds
    BY DEF ScheduleInv, ScheduleShape
  <2> QED
    BY <1>3, <1>5, <1>6, <1>7, <2>1, <2>2, <2>3, <2>4 DEF ScheduleShape, ScheduleRow
<1>10. Ordinary'
  BY <1>4, <1>6 DEF Ordinary
<1>11. NextAttemptInTime'
  <2>1. CASE n # 1
    BY <2>1, <1>4, <1>6 DEF NextAttemptInTime
  <2>2. CASE n = 1 /\ grave'
    BY <2>2, <1>6 DEF NextAttemptInTime
  <2>3. CASE n = 1 /\ ~grave'
    <3>1. ~grave /\ due' <= Hour /\ age' = age
      <4>1. ~grave /\ ~LongWait(outcome, ra)
        BY <2>3, <1>2, Zenon
      <4>2. age' = age
        BY <2>3, <1>2
      <4> QED
        BY <2>3, <4>1, <4>2, <1>5
    <3>2. 10 * (age + due) <= 11 * p.max + 9
      <4>1. target.failures = 0
        BY <2>3, <1>4
      <4> QED
        BY <4>1, <3>1 DEF ScheduleInv, Ordinary, p
    <3>3. /\ p.max \in Nat /\ p.serve \in Nat /\ Hour \in Nat
          /\ 11 * p.max + 9 + 10 * Hour <= 10 * p.serve
      <4>1. Hour \in Nat
        BY ScheduleAssumption DEF Hour
      <4> QED
        BY <4>1, <1>3, PolicyBounds DEF p
    <3>4. age' + due' <= p.serve
      BY <3>1, <3>2, <3>3, <1>3, <1>5
    <3> QED
      BY <3>4, <1>7 DEF NextAttemptInTime
  <2> QED
    BY <2>1, <2>2, <2>3, <1>9 DEF ScheduleShape
<1> QED
  BY <1>9, <1>10, <1>11 DEF ScheduleInv

LEMMA LessStill ==
    ASSUME NEW a \in Nat, NEW b \in Nat, NEW k \in Nat, b <= a
    PROVE  (10 * a <= 11 * k + 9 => 10 * b <= 11 * k + 9) /\ (a <= k => b <= k)
OBVIOUS

\* An attempt that comes sooner, with nothing else changed, is as good.
LEMMA SoonerKeeps ==
    ASSUME ScheduleInv, ScheduleShape', claimed = Unclaimed, claimed' = Unclaimed, grave' = grave,
           target'.class = target.class, target'.failures = target.failures,
           age' + due' <= age + due, due' <= DiscoveryJitter
    PROVE  Ordinary' /\ NextAttemptInTime'
<1> DEFINE q == PolicyFor(target.class)
<1>1. q.max \in Nat /\ q.serve \in Nat
  BY PolicyBounds DEF ScheduleInv, ScheduleShape, ScheduleRow
<1>2. PolicyFor(target'.class) = q
  OBVIOUS
<1>3. age + due \in Nat /\ age' + due' \in Nat
  <2>1. age \in Nat /\ due \in Nat
    BY ScheduleAssumption DEF ScheduleInv, ScheduleShape, MaxAge, Day, Hour
  <2>2. age' \in Nat /\ due' \in Nat
    BY ScheduleAssumption DEF ScheduleShape, MaxAge, Day, Hour
  <2>3. \A a, b \in Nat : a + b \in Nat
    OBVIOUS
  <2> QED
    BY <2>1, <2>2, <2>3, Zenon
<1> HIDE DEF q
<1>4. 10 * (age + due) <= 11 * q.max + 9 => 10 * (age' + due') <= 11 * q.max + 9
  BY <1>1, <1>3, LessStill, Zenon
<1>5. age + due <= q.serve => age' + due' <= q.serve
  BY <1>1, <1>3, LessStill, Zenon
<1>6. Ordinary'
  BY <1>2, <1>4, Zenon DEF ScheduleInv, Ordinary, q
<1> QED
  BY <1>2, <1>5, <1>6, Zenon DEF ScheduleInv, NextAttemptInTime, q

LEMMA SeedKeeps == ASSUME ~InFlight, ScheduleInv, Seed PROVE ScheduleInv'
<1>1. PICK class \in Sessions \cap Classes, passed \in {0, due}, jitter \in {0, DiscoveryJitter} :
        /\ target' = [target EXCEPT !.class = class, !.interval = Seeded(class, @)]
        /\ age' = Least(MaxAge, age + passed)
        /\ due' = Least(due - passed, jitter)
        /\ grave' = (grave \/ class # target.class)
  BY DEF Seed
<1>2. /\ target \in ScheduleRow /\ target.interval \in Nat /\ target.class \in Classes
      /\ age \in 0..MaxAge /\ due \in Nat /\ MaxAge \in Nat
      /\ target.failures \in Nat
  BY ScheduleAssumption DEF ScheduleInv, ScheduleShape, ScheduleRow, MaxAge, Day, Hour, MaxFailures
<1>3. jitter \in Nat /\ jitter <= DiscoveryJitter
  BY ScheduleAssumption DEF DiscoveryJitter
<1>4. /\ Seeded(class, target.interval) \in Nat
      /\ PolicyFor(class).min <= Seeded(class, target.interval)
      /\ Seeded(class, target.interval) <= PolicyFor(class).max
  BY <1>2, ClampedWithin DEF Seeded
<1>5. /\ target' \in ScheduleRow /\ target'.class = class /\ target'.failures = target.failures
      /\ target'.interval = Seeded(class, target.interval)
  BY <1>1, <1>2, <1>4 DEF ScheduleRow
<1>6. /\ age' \in 0..MaxAge /\ due' \in Nat
      /\ age' + due' <= age + due /\ due' <= DiscoveryJitter
  <2>1. DiscoveryJitter \in Nat
    BY ScheduleAssumption DEF DiscoveryJitter
  <2> QED
    BY <1>1, <1>2, <1>3, <2>1 DEF Least
<1>7. claimed = Unclaimed /\ claimed' = Unclaimed
  BY DEF Seed
<1>8. ScheduleShape'
  <2>1. seeds' \in 0..MaxSeeds
    BY ScheduleAssumption DEF Seed, ScheduleInv, ScheduleShape
  <2>2. grave' \in BOOLEAN
    BY <1>1
  <2> QED
    BY <1>4, <1>5, <1>6, <1>7, <2>1, <2>2 DEF ScheduleShape, ScheduleRow
<1>9. CASE class = target.class
  <2>1. grave' = grave
    BY <1>1, <1>9 DEF ScheduleInv, ScheduleShape
  <2>2. Ordinary' /\ NextAttemptInTime'
    BY <2>1, <1>5, <1>6, <1>7, <1>8, <1>9, SoonerKeeps
  <2> QED
    BY <1>8, <2>2 DEF ScheduleInv
<1>10. CASE class # target.class
  <2>1. grave' = TRUE
    BY <1>1, <1>10
  <2>2. Ordinary'
    BY <2>1 DEF Ordinary
  <2>3. NextAttemptInTime'
    BY <2>1, <1>6 DEF NextAttemptInTime
  <2> QED
    BY <1>8, <2>2, <2>3 DEF ScheduleInv
<1> QED
  BY <1>9, <1>10

\* Without a course's commit during the run of its session, the interval
\* always respects the policy and the snapshot always outlives one ordinary
\* failure, for every class of target and every resolution of time.
THEOREM ScheduleKept ==
    ASSUME ~InFlight
    PROVE  Spec => [](ScheduleTypeOK /\ NextAttemptInTime)
<1>1. ScheduleInv /\ [Next]_vars => ScheduleInv'
  <2> SUFFICES ASSUME ScheduleInv, [Next]_vars PROVE ScheduleInv'
    OBVIOUS
  <2>1. CASE ClaimDue
    BY <2>1, ClaimKeeps
  <2>2. CASE Succeed
    BY <2>2, SucceedKeeps
  <2>3. CASE Fail
    BY <2>3, FailKeeps
  <2>4. CASE Seed
    BY <2>4, SeedKeeps
  <2>5. CASE UNCHANGED vars
    BY <2>5 DEF vars, ScheduleInv, ScheduleShape, Ordinary, NextAttemptInTime
  <2> QED
    BY <2>1, <2>2, <2>3, <2>4, <2>5 DEF Next
<1>2. ScheduleInv => ScheduleTypeOK /\ NextAttemptInTime
  BY DEF ScheduleInv, ScheduleShape, ScheduleRow, ScheduleTypeOK
<1> QED
  BY <1>1, <1>2, ScheduleInit, PTL DEF Spec
===============================================================================
