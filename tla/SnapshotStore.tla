--------------------------- MODULE SnapshotStore ---------------------------
(***************************************************************************)
(* The PostgreSQL side of the snapshot scraper: the columns of             *)
(* scrape_targets that carry a target's lease, schedule and published      *)
(* version, and the tables scrape_runs, scrape_snapshots and               *)
(* snapshot_commit_events.  Every action below is one statement or one     *)
(* transaction of internal/db/snapshot_repository.go; the callers that     *)
(* decide when to issue them are in module ScrapeRun.                      *)
(*                                                                         *)
(* Timestamps are kept as the time left until they pass on the slowest     *)
(* clock of the cluster.  Ahead[w] is how far the clock of instance w runs *)
(* ahead of that one: the repository never reads the database clock for a  *)
(* lease, it compares with the request.Now its caller sends.               *)
(***************************************************************************)
EXTENDS Integers, FiniteSets

CONSTANTS
  Target,         \* rows of scrape_targets
  Worker,         \* application instances (lease_owner values)
  NoWorker,       \* NULL lease_owner
  Content,        \* canonical payloads, identified by their content hash
  NoContent,      \* NULL current_content_hash
  LeaseDuration,  \* SCRAPER lease, in ticks
  Ahead,          \* clock offset of every instance, in ticks
  Delay,          \* delays the scheduling policy may pick for next_run_at
  OrphanAge,      \* watchdog: how long past expiry a lease counts as orphaned
  FarFuture,      \* watchdog: next_run_at further away than this is impossible
  KeepVersions,   \* Prune keeps this many newest versions (3 in the code)
  MaxGen          \* bound on lease_generation

Gen == 1..MaxGen

ASSUME StoreAssumption ==
  /\ NoWorker \notin Worker
  /\ NoContent \notin Content
  /\ LeaseDuration \in Nat \ {0}
  /\ Ahead \in [Worker -> Nat]
  /\ Delay \subseteq Nat
  /\ OrphanAge \in Nat
  /\ FarFuture \in Nat
  /\ KeepVersions \in Nat \ {0}
  /\ MaxGen \in Nat

VARIABLES
  lease,   \* [Target -> [owner, gen, ttl]]: lease_owner, lease_generation, lease_expires_at
  sched,   \* [Target -> [due, presence, failures]]: next_run_at, lifecycle, consecutive_failures
  pub,     \* [Target -> [version, hash, seq, quality]]: the published pointer and validation_seq
  runs,    \* rows of scrape_runs
  snaps,   \* rows of scrape_snapshots
  events   \* rows of snapshot_commit_events

storeVars == <<lease, sched, pub, runs, snaps, events>>

(* "rejected" stands for not_found, permanent_error and invalid_payload,    *)
(* which the transaction treats alike.                                      *)
Success == {"changed", "unchanged", "not_modified"}
Failure == {"rate_limited", "auth_error", "transient_error", "rejected", "quarantined"}
Outcome == Success \cup Failure

(* What the claim queries can tell of enabled and lifecycle_state: an active *)
(* row is claimed by both, a missing one (still enabled) only by ClaimOne.   *)
Presence == {"active", "missing", "disabled"}
Quality  == {"verified_fresh", "degraded", "unavailable"}

Lease   == [owner: Worker \cup {NoWorker}, gen: 0..MaxGen, ttl: Int]
Sched   == [due: Nat, presence: Presence, failures: Nat]
Pub     == [version: Nat, hash: Content \cup {NoContent}, seq: Nat, quality: Quality]
RunRow  == [target: Target, gen: Gen, worker: Worker, outcome: Outcome, seq: Nat]
SnapRow == [target: Target, version: Nat \ {0}, hash: Content, gen: Gen]
Event   == [target: Target, version: Nat \ {0}]

StoreTypeOK ==
  /\ lease \in [Target -> Lease]
  /\ sched \in [Target -> Sched]
  /\ pub \in [Target -> Pub]
  /\ runs \subseteq RunRow
  /\ snaps \subseteq SnapRow
  /\ events \subseteq Event

(* A freshly seeded target: the column defaults of the migrations. *)
StoreInit ==
  /\ lease = [t \in Target |-> [owner |-> NoWorker, gen |-> 0, ttl |-> 0]]
  /\ sched = [t \in Target |-> [due |-> 0, presence |-> "active", failures |-> 0]]
  /\ pub = [t \in Target |-> [version |-> 0, hash |-> NoContent, seq |-> 0,
                              quality |-> "unavailable"]]
  /\ runs = {}
  /\ snaps = {}
  /\ events = {}

Least(a, b) == IF a <= b THEN a ELSE b

----------------------------------------------------------------------------
(* Leases *)

(* Variant: a lease that nobody gives back is never free again. *)
LeaseFreeIfReturned(t, w) == lease[t].owner = NoWorker

(* lease_expires_at IS NULL OR lease_expires_at <= now, on w's clock *)
LeaseFree(t, w) == lease[t].owner = NoWorker \/ lease[t].ttl <= Ahead[w]

(* The UPDATE shared by both claims: a new owner, the next generation. *)
TakeLease(t, w) ==
  /\ LeaseFree(t, w)
  /\ lease[t].gen < MaxGen
  /\ lease' = [lease EXCEPT ![t] = [owner |-> w, gen |-> lease[t].gen + 1,
                                    ttl |-> LeaseDuration + Ahead[w]]]
  /\ UNCHANGED <<sched, pub, runs, snaps, events>>

(* ClaimDue, for one row of its batch *)
StoreClaimDue(t, w, hostPaused) ==
  /\ sched[t].presence = "active"
  /\ sched[t].due <= Ahead[w]
  /\ ~hostPaused
  /\ TakeLease(t, w)

(* ClaimOne looks neither at next_run_at nor at lifecycle_state *)
StoreClaimOne(t, w, hostPaused) ==
  /\ sched[t].presence # "disabled"
  /\ ~hostPaused
  /\ TakeLease(t, w)

Unleased(t) == [owner |-> NoWorker, gen |-> lease[t].gen, ttl |-> 0]

(* ReleaseLease and RescheduleLease compare the generation only *)
StoreReleaseLease(t, g) ==
  /\ lease' = IF lease[t].gen = g THEN [lease EXCEPT ![t] = Unleased(t)] ELSE lease
  /\ UNCHANGED <<sched, pub, runs, snaps, events>>

StoreRescheduleLease(t, g, due) ==
  /\ IF lease[t].gen = g
       THEN /\ lease' = [lease EXCEPT ![t] = Unleased(t)]
            /\ sched' = [sched EXCEPT ![t].due = due]
       ELSE UNCHANGED <<lease, sched>>
  /\ UNCHANGED <<pub, runs, snaps, events>>

(* RenewLease does not look at the expiry: an expired lease that nobody     *)
(* claimed yet is renewed.                                                  *)
StoreRenewLease(t, g, w) ==
  /\ lease[t].owner = w
  /\ lease[t].gen = g
  /\ lease' = [lease EXCEPT ![t].ttl = LeaseDuration + Ahead[w]]
  /\ UNCHANGED <<sched, pub, runs, snaps, events>>

StoreSetDueNow(t, w) ==
  /\ sched' = [sched EXCEPT ![t].due = Least(sched[t].due, Ahead[w])]
  /\ UNCHANGED <<lease, pub, runs, snaps, events>>

(* FindStaleTargets *)
Orphaned(t, w) == lease[t].owner # NoWorker /\ lease[t].ttl < Ahead[w] - OrphanAge

Stale(t, w) ==
  /\ sched[t].presence = "active"
  /\ sched[t].due > Ahead[w] + FarFuture \/ Orphaned(t, w)

(* RepairStaleTargets, for one id of its list: the ids were read earlier,   *)
(* only the lease columns are tested again.                                 *)
StoreRepair(t, w) ==
  /\ sched' = [sched EXCEPT ![t].due = Least(sched[t].due, Ahead[w])]
  /\ lease' = IF Orphaned(t, w) THEN [lease EXCEPT ![t] = Unleased(t)] ELSE lease
  /\ UNCHANGED <<pub, runs, snaps, events>>

----------------------------------------------------------------------------
(* Commit.  "in" is the part of CommitInput the transaction looks at:       *)
(* outcome, hash, seq (ValidationSeqAfter), failures, due (NextRunAt).      *)

ExistingRun(t, g) == \E r \in runs : r.target = t /\ r.gen = g

(* Variant: commits without the lease fence *)
CommitUnfenced(t, g, w, in) ==
  /\ ~ExistingRun(t, g)
  /\ in.outcome \in Success => in.seq = pub[t].seq + 1

(* Variant: commits with neither the fence nor the sequence check *)
CommitOncePerRun(t, g, w, in) == ~ExistingRun(t, g)

CommitAccepted(t, g, w, in) ==
  /\ ~ExistingRun(t, g)
  /\ lease[t].gen = g
  /\ lease[t].owner = w
  /\ in.outcome \in Success => in.seq = pub[t].seq + 1

(* Variant: a new version number for every successful validation *)
PubAfterEverySuccess(t, in) ==
  LET p == pub[t] IN
  [version |-> IF in.outcome \in Success THEN p.version + 1 ELSE p.version,
   hash    |-> IF in.outcome = "changed" THEN in.hash ELSE p.hash,
   seq     |-> IF in.outcome \in Success THEN p.seq + 1 ELSE p.seq,
   quality |-> IF in.outcome \in Success THEN "verified_fresh"
               ELSE IF p.version = 0 THEN "unavailable" ELSE "degraded"]

(* Variant: validation_seq counts changes, not validations *)
PubAfterSeqOfChanges(t, in) ==
  LET p == pub[t] IN
  [version |-> IF in.outcome = "changed" THEN p.version + 1 ELSE p.version,
   hash    |-> IF in.outcome = "changed" THEN in.hash ELSE p.hash,
   seq     |-> IF in.outcome = "changed" THEN p.seq + 1 ELSE p.seq,
   quality |-> IF in.outcome \in Success THEN "verified_fresh"
               ELSE IF p.version = 0 THEN "unavailable" ELSE "degraded"]

(* The row's columns after the update: the pointer moves on a change only   *)
PubAfter(t, in) ==
  LET p == pub[t] IN
  [version |-> IF in.outcome = "changed" THEN p.version + 1 ELSE p.version,
   hash    |-> IF in.outcome = "changed" THEN in.hash ELSE p.hash,
   seq     |-> IF in.outcome \in Success THEN p.seq + 1 ELSE p.seq,
   quality |-> IF in.outcome \in Success THEN "verified_fresh"
               ELSE IF p.version = 0 THEN "unavailable" ELSE "degraded"]

(* Variant: the generation decides whether the lease is cleared, not        *)
(* whether the result is accepted                                           *)
StoreCommitLateFence(t, g, w, in) ==
  /\ ~ExistingRun(t, g)
  /\ lease' = IF lease[t].gen = g THEN [lease EXCEPT ![t] = Unleased(t)] ELSE lease
  /\ sched' = [sched EXCEPT ![t].due = in.due, ![t].failures = in.failures]
  /\ pub' = [pub EXCEPT ![t] = PubAfter(t, in)]
  /\ runs' = runs \cup {[target |-> t, gen |-> g, worker |-> w, outcome |-> in.outcome,
                         seq |-> PubAfter(t, in).seq]}
  /\ UNCHANGED <<snaps, events>>

StoreCommit(t, g, w, in) ==
  /\ CommitAccepted(t, g, w, in)
  /\ lease' = [lease EXCEPT ![t] = Unleased(t)]
  /\ sched' = [sched EXCEPT ![t].due = in.due, ![t].failures = in.failures]
  /\ pub' = [pub EXCEPT ![t] = PubAfter(t, in)]
  /\ runs' = runs \cup {[target |-> t, gen |-> g, worker |-> w, outcome |-> in.outcome,
                         seq |-> PubAfter(t, in).seq]}
  /\ IF in.outcome = "changed"
       THEN /\ snaps' = snaps \cup {[target |-> t, version |-> pub[t].version + 1,
                                     hash |-> in.hash, gen |-> g]}
            /\ events' = events \cup {[target |-> t, version |-> pub[t].version + 1]}
       ELSE UNCHANGED <<snaps, events>>

(* The idempotent result of an earlier commit of (target, generation),      *)
(* ErrLeaseLost, and a validation_seq that did not advance by one           *)
StoreCommitRefused(t, g, w, in) ==
  /\ ~CommitAccepted(t, g, w, in)
  /\ UNCHANGED storeVars

----------------------------------------------------------------------------
(* Child presence: what a parent's commit or reconciliation does to one     *)
(* child row.  The counters that decide it are in module ChildLifecycle.    *)

(* upsertSeeds, at startup and in the parent's commit: it enables the row   *)
(* and leaves lifecycle_state as it was.                                    *)
StoreChildSeeded(t, due, p) ==
  /\ p \in IF sched[t].presence = "disabled" THEN {"active", "missing"} ELSE {sched[t].presence}
  /\ sched' = [sched EXCEPT ![t].presence = p, ![t].due = Least(sched[t].due, due)]
  /\ UNCHANGED <<lease, pub, runs, snaps, events>>

(* ReconcileLifecycle, for a listed child: a reactivated tombstone is due   *)
(* at once and forgets its failures.                                        *)
StoreChildSeen(t, due, tombstoned) ==
  /\ tombstoned => sched[t].presence # "active"
  /\ sched' = [sched EXCEPT ![t] =
       [presence |-> "active",
        due |-> IF tombstoned THEN 0 ELSE Least(sched[t].due, due),
        failures |-> IF tombstoned THEN 0 ELSE sched[t].failures]]
  /\ UNCHANGED <<lease, pub, runs, snaps, events>>

(* applyChildPresence and ReconcileLifecycle, for a child that is not       *)
(* listed: neither enables a row.                                           *)
StoreChildMissing(t, p) ==
  /\ sched[t].presence = "disabled" => p = "disabled"
  /\ sched' = [sched EXCEPT ![t].presence = p]
  /\ UNCHANGED <<lease, pub, runs, snaps, events>>

----------------------------------------------------------------------------
(* Retention: Prune deletes old versions that are not the current one, then *)
(* runs that no remaining snapshot refers to.                               *)

Newer(s) == {x \in snaps : x.target = s.target /\ x.version > s.version}

StorePruneSnapshot(s) ==
  /\ s \in snaps
  /\ Cardinality(Newer(s)) >= KeepVersions
  /\ s.version # pub[s.target].version
  /\ snaps' = snaps \ {s}
  /\ UNCHANGED <<lease, sched, pub, runs, events>>

StorePruneRun(r) ==
  /\ r \in runs
  /\ ~\E s \in snaps : s.target = r.target /\ s.gen = r.gen
  /\ runs' = runs \ {r}
  /\ UNCHANGED <<lease, sched, pub, snaps, events>>

(* One tick of the slowest clock *)
StoreTick ==
  /\ lease' = [t \in Target |->
       IF lease[t].owner # NoWorker /\ lease[t].ttl >= -OrphanAge
         THEN [lease[t] EXCEPT !.ttl = @ - 1] ELSE lease[t]]
  /\ sched' = [t \in Target |->
       IF sched[t].due > 0 THEN [sched[t] EXCEPT !.due = @ - 1] ELSE sched[t]]
  /\ UNCHANGED <<pub, runs, snaps, events>>
============================================================================
