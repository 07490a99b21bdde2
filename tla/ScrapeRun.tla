----------------------------- MODULE ScrapeRun -----------------------------
(***************************************************************************)
(* The scraper's control: the scheduler that claims targets and carries    *)
(* every claim through permit, fetch, host observation and commit          *)
(* (internal/scraper/scheduler.go and coordinator.go), on top of the       *)
(* transactions of SnapshotStore.  Several application instances run it    *)
(* at once, each with its own clock; any of them may crash; leases expire  *)
(* under running work.                                                     *)
(*                                                                         *)
(* A run is named by the pair (target, lease generation) of the claim that *)
(* started it.  The permit decision is left open here: module HostControl  *)
(* models it.                                                              *)
(***************************************************************************)
EXTENDS SnapshotStore

CONSTANTS
  MaxRev,    \* bound on upstream changes
  Body,      \* [0..MaxRev -> Content]: what Warwick serves at each revision
  Fault,     \* the failing outcomes a fetch may have
  Activity   \* what happens around the runs: a subset of Activities

Rev == 0..MaxRev
Activities == {"refresh", "watchdog", "prune", "parents"}

ASSUME RunAssumption ==
  /\ MaxRev \in Nat
  /\ Body \in [Rev -> Content]
  /\ Fault \subseteq Failure \ {"quarantined"}
  /\ Activity \subseteq Activities

VARIABLES
  up,         \* [Target -> Rev]: the upstream resource, by revision
  run,        \* [Target -> [Gen -> Run]]: the claimed work items in memory
  paused,     \* scrape_host_state.paused_until lies in the future
  found,      \* ids the watchdog read and has not repaired yet
  validated,  \* history: revision behind the last accepted success
  accepted    \* history: generation of the last accepted commit

runVars == <<up, run, paused, found, validated, accepted>>
vars == <<lease, sched, pub, runs, snaps, events, up, run, paused, found,
          validated, accepted>>

(* fetching .. observed: inside RunClaimedWithRelease, heartbeat running;   *)
(* received: a body is there, not compared with the previous one yet;       *)
(* committed: commit acknowledged, lifecycle reconciliation to come.        *)
BeforeOutcome == {"claimed", "fetching", "received", "confirming"}
WithOutcomeKnown == {"fetched", "observed"}
ActivePhase == BeforeOutcome \cup WithOutcomeKnown \cup {"committed"}

(* A claimed ScrapeTarget as the claim returned it, plus the run's progress *)
RunIn(phases, outcomes) ==
  [phase: phases, worker: Worker,
   version: Nat, hash: Content \cup {NoContent}, seq: Nat, failures: Nat,
   outcome: outcomes, got: Rev]

ActiveRun == RunIn(BeforeOutcome \cup {"committed"}, {"none"}) \cup RunIn(WithOutcomeKnown, Outcome)

NoRun == [phase |-> "idle", worker |-> NoWorker, version |-> 0, hash |-> NoContent,
          seq |-> 0, failures |-> 0, outcome |-> "none", got |-> 0]
DoneRun == [NoRun EXCEPT !.phase = "done"]

Run == ActiveRun \cup {NoRun, DoneRun}

TypeOK ==
  /\ StoreTypeOK
  /\ up \in [Target -> Rev]
  /\ run \in [Target -> [Gen -> Run]]
  /\ paused \in BOOLEAN
  /\ found \subseteq Target
  /\ validated \in [Target -> Rev]
  /\ accepted \in [Target -> 0..MaxGen]

Init ==
  /\ StoreInit
  /\ up = [t \in Target |-> 0]
  /\ run = [t \in Target |-> [g \in Gen |-> NoRun]]
  /\ paused = FALSE
  /\ found = {}
  /\ validated = [t \in Target |-> 0]
  /\ accepted = [t \in Target |-> 0]

In(t, g, phases) == run[t][g].phase \in phases
Beating == {"fetching", "received", "confirming", "fetched", "observed", "committed"}

(* The run leaves memory, whatever it had read or learnt. *)
Ended(t, g) == [run EXCEPT ![t][g] = DoneRun]
SetRun(t, g, r) == run' = [run EXCEPT ![t][g] = r]

----------------------------------------------------------------------------
(* Claiming: RunDue, RefreshNow *)

StartRun(t, w) ==
  /\ SetRun(t, lease'[t].gen,
            [phase |-> "claimed", worker |-> w, version |-> pub[t].version,
             hash |-> pub[t].hash, seq |-> pub[t].seq, failures |-> sched[t].failures,
             outcome |-> "none", got |-> 0])
  /\ UNCHANGED <<up, paused, found, validated, accepted>>

ClaimDue(t, w) == StoreClaimDue(t, w, paused) /\ StartRun(t, w)

ClaimOne(t, w) == StoreClaimOne(t, w, paused) /\ StartRun(t, w)

SetDueNow(t, w) ==
  /\ StoreSetDueNow(t, w)
  /\ UNCHANGED <<up, run, paused, found, validated, accepted>>

----------------------------------------------------------------------------
(* executeClaimed: what happens before the runner gets the target *)

(* AcquireHostPermit refuses a generation that is no longer current *)
PermitGranted(t, g) ==
  /\ In(t, g, {"claimed"})
  /\ lease[t].gen = g
  /\ SetRun(t, g, [run[t][g] EXCEPT !.phase = "fetching"])
  /\ UNCHANGED storeVars
  /\ UNCHANGED <<up, paused, found, validated, accepted>>

(* The next permit comes too close to the end of the lease *)
Reschedule(t, g, d) ==
  /\ In(t, g, {"claimed"})
  /\ StoreRescheduleLease(t, g, d)
  /\ run' = Ended(t, g)
  /\ UNCHANGED <<up, paused, found, validated, accepted>>

(* releaseUnstarted and the release of a cancelled fetch: the context ended *)
(* (before, during the fetch, or during the commit) or the permit request   *)
(* failed                                                                   *)
Released(t, g) ==
  /\ In(t, g, {"claimed", "fetching", "observed"})
  /\ StoreReleaseLease(t, g)
  /\ run' = Ended(t, g)
  /\ UNCHANGED <<up, paused, found, validated, accepted>>

(* The statement that should end the run fails: the error is dropped or     *)
(* returned and the lease stays until it expires                            *)
Abandoned(t, g) ==
  /\ In(t, g, {"claimed", "fetching", "observed"})
  /\ run' = Ended(t, g)
  /\ UNCHANGED storeVars
  /\ UNCHANGED <<up, paused, found, validated, accepted>>

(* leaseHeartbeat *)
Heartbeat(t, g) ==
  /\ In(t, g, Beating)
  /\ StoreRenewLease(t, g, run[t][g].worker)
  /\ UNCHANGED runVars

----------------------------------------------------------------------------
(* RunClaimedWithRelease *)

(* Variant: the first body is new, every later one is taken for the same *)
ClassifiedByPresence(t, g) == {IF run[t][g].version = 0 THEN "changed" ELSE "unchanged"}

(* Variant: every body is taken for new content *)
ClassifiedAsNew(t, g) == {"changed"}

(* changed = no content hash yet, or a different one than the claim saw;    *)
(* the raw-hash fast path compares with the snapshot that is current now.   *)
Classified(t, g) ==
  LET body == Body[run[t][g].got] IN
  {IF body = run[t][g].hash THEN "unchanged" ELSE "changed"}
    \cup (IF body = pub[t].hash THEN {"unchanged"} ELSE {})

WithOutcome(t, g, o, rev) ==
  SetRun(t, g, [run[t][g] EXCEPT !.phase = "fetched", !.outcome = o, !.got = rev])

InMemoryOnly ==
  /\ UNCHANGED storeVars
  /\ UNCHANGED <<up, paused, found, validated, accepted>>

FetchBody(t, g) ==
  /\ In(t, g, {"fetching"})
  /\ SetRun(t, g, [run[t][g] EXCEPT !.phase = "received", !.got = up[t]])
  /\ InMemoryOnly

(* The body is valid and not suspicious; the previous snapshot is read only *)
(* now, after the fetch                                                     *)
Classify(t, g) ==
  /\ In(t, g, {"received"})
  /\ \E o \in Classified(t, g) : WithOutcome(t, g, o, run[t][g].got)
  /\ InMemoryOnly

(* ClassifyChangeAgainst says "suspicious": a second, independent fetch *)
Suspect(t, g) ==
  /\ In(t, g, {"received"})
  /\ SetRun(t, g, [run[t][g] EXCEPT !.phase = "confirming"])
  /\ InMemoryOnly

(* confirmChange *)
Confirm(t, g) ==
  /\ In(t, g, {"confirming"})
  /\ LET rev == run[t][g].got IN
     \/ /\ Body[up[t]] = Body[rev]
        /\ WithOutcome(t, g, IF Body[rev] = run[t][g].hash THEN "unchanged" ELSE "changed", rev)
     \/ WithOutcome(t, g, "quarantined", rev)
  /\ InMemoryOnly

(* A 304: validators are sent only when the claim saw a snapshot *)
FetchNotModified(t, g) ==
  /\ In(t, g, {"fetching"})
  /\ run[t][g].version > 0
  /\ Body[up[t]] = run[t][g].hash
  /\ WithOutcome(t, g, "not_modified", up[t])
  /\ InMemoryOnly

(* The request failed, or the body does not pass validation *)
FetchFailed(t, g, o) ==
  /\ In(t, g, {"fetching"}) \/ (In(t, g, {"received"}) /\ o = "rejected")
  /\ WithOutcome(t, g, o, 0)
  /\ InMemoryOnly

(* The observation is sent before the commit and whether or not the lease   *)
(* still holds; its error is only reported                                  *)
Observe(t, g) ==
  /\ In(t, g, {"fetched"})
  /\ SetRun(t, g, [run[t][g] EXCEPT !.phase = "observed"])
  /\ \/ paused' = (paused \/ run[t][g].outcome \in {"rate_limited", "auth_error"})
     \/ paused' = paused
  /\ UNCHANGED storeVars
  /\ UNCHANGED <<up, found, validated, accepted>>

(* Variant: a success takes back one failure instead of all *)
CommitInputDecay(t, g, d) ==
  LET r == run[t][g] IN
  [outcome |-> r.outcome, hash |-> Body[r.got], seq |-> r.seq + 1,
   failures |-> IF r.outcome \in Success THEN r.failures - 1 ELSE r.failures + 1, due |-> d]

CommitInput(t, g, d) ==
  LET r == run[t][g] IN
  [outcome |-> r.outcome, hash |-> Body[r.got], seq |-> r.seq + 1,
   failures |-> IF r.outcome \in Success THEN 0 ELSE r.failures + 1, due |-> d]

(* The transaction is applied; the acknowledgement may still be lost *)
Commit(t, g, d) ==
  /\ In(t, g, {"observed"})
  /\ StoreCommit(t, g, run[t][g].worker, CommitInput(t, g, d))
  /\ \/ SetRun(t, g, [NoRun EXCEPT !.phase = "committed", !.worker = run[t][g].worker])
     \/ run' = Ended(t, g)
  /\ accepted' = [accepted EXCEPT ![t] = g]
  /\ validated' = IF run[t][g].outcome \in Success
                    THEN [validated EXCEPT ![t] = run[t][g].got] ELSE validated
  /\ UNCHANGED <<up, paused, found>>

CommitRefused(t, g) ==
  /\ In(t, g, {"observed"})
  /\ StoreCommitRefused(t, g, run[t][g].worker, CommitInput(t, g, 0))
  /\ run' = Ended(t, g)
  /\ UNCHANGED <<up, paused, found, validated, accepted>>

(* Reconciliation changes child rows (ChildMissing, ChildSeen), not this one *)
Finish(t, g) ==
  /\ In(t, g, {"committed"})
  /\ run' = Ended(t, g)
  /\ UNCHANGED storeVars
  /\ UNCHANGED <<up, paused, found, validated, accepted>>

RunStep(t, g) ==
  \/ PermitGranted(t, g) \/ Released(t, g) \/ Abandoned(t, g)
  \/ FetchBody(t, g) \/ Classify(t, g) \/ Suspect(t, g) \/ FetchNotModified(t, g)
  \/ Confirm(t, g) \/ Observe(t, g) \/ CommitRefused(t, g) \/ Finish(t, g)
  \/ \E o \in Fault : FetchFailed(t, g, o)
  \/ \E d \in Delay : Commit(t, g, d) \/ Reschedule(t, g, d)

----------------------------------------------------------------------------
(* Environment: crashes, the watchdog, retention, parents, Warwick, time *)

(* An instance stops; its runs are lost, its leases stay in the table *)
Crash(w) ==
  /\ run' = [t \in Target |-> [g \in Gen |->
               IF run[t][g].worker = w THEN DoneRun ELSE run[t][g]]]
  /\ run' # run
  /\ UNCHANGED storeVars
  /\ UNCHANGED <<up, paused, found, validated, accepted>>

WatchdogFind(w) ==
  /\ found' = {t \in Target : Stale(t, w)}
  /\ found' # found
  /\ UNCHANGED storeVars
  /\ UNCHANGED <<up, run, paused, validated, accepted>>

WatchdogRepair(t, w) ==
  /\ t \in found
  /\ StoreRepair(t, w)
  /\ found' = found \ {t}
  /\ UNCHANGED <<up, run, paused, validated, accepted>>

Prune ==
  /\ (\E s \in snaps : StorePruneSnapshot(s)) \/ (\E r \in runs : StorePruneRun(r))
  /\ UNCHANGED runVars

(* The parent commits its discovered seeds first and reconciles after *)
ChildSeen(t) ==
  /\ \E d \in Delay :
       \/ \E p \in Presence : StoreChildSeeded(t, d, p)
       \/ \E b \in BOOLEAN : StoreChildSeen(t, d, b)
  /\ UNCHANGED runVars

ChildMissing(t) ==
  /\ \E p \in {"missing", "disabled"} : StoreChildMissing(t, p)
  /\ UNCHANGED runVars

UpstreamChange(t) ==
  /\ up[t] < MaxRev
  /\ up' = [up EXCEPT ![t] = @ + 1]
  /\ UNCHANGED storeVars
  /\ UNCHANGED <<run, paused, found, validated, accepted>>

PauseElapses ==
  /\ paused
  /\ paused' = FALSE
  /\ UNCHANGED storeVars
  /\ UNCHANGED <<up, run, found, validated, accepted>>

Tick == StoreTick /\ UNCHANGED runVars

Around(act) == act \in Activity

Next ==
  \/ \E t \in Target, w \in Worker : ClaimDue(t, w)
  \/ \E t \in Target, g \in Gen : RunStep(t, g) \/ Heartbeat(t, g)
  \/ \E w \in Worker : Crash(w)
  \/ Around("refresh") /\ \E t \in Target, w \in Worker : ClaimOne(t, w) \/ SetDueNow(t, w)
  \/ Around("watchdog") /\ \E w \in Worker :
       WatchdogFind(w) \/ \E t \in Target : WatchdogRepair(t, w)
  \/ Around("parents") /\ \E t \in Target : ChildSeen(t) \/ ChildMissing(t)
  \/ Around("prune") /\ Prune
  \/ \E t \in Target : UpstreamChange(t)
  \/ PauseElapses \/ Tick

Spec == Init /\ [][Next]_vars

----------------------------------------------------------------------------
(* Safety *)

(* The run whose commit the store would still accept *)
Holds(t, g) ==
  /\ In(t, g, {"claimed", "fetching", "received", "confirming", "fetched", "observed"})
  /\ lease[t].gen = g
  /\ lease[t].owner # NoWorker

(* What a run read when it claimed its target is still what the row says as *)
(* long as its commit can be accepted: RunClaimedWithRelease decides        *)
(* "changed" and the next validation_seq from that copy, minutes earlier.   *)
ViewFresh ==
  \A t \in Target, g \in Gen :
    Holds(t, g) => /\ run[t][g].worker = lease[t].owner
                   /\ run[t][g].version = pub[t].version
                   /\ run[t][g].hash = pub[t].hash
                   /\ run[t][g].seq = pub[t].seq

(* The published pointer, the version table and the outbox agree: versions  *)
(* are numbered without gaps, each has its event, the current one is never  *)
(* pruned and carries the hash of the pointer (Commit and Prune).           *)
PointerConsistent ==
  \A t \in Target :
    /\ {e.version : e \in {x \in events : x.target = t}} = 1..pub[t].version
    /\ pub[t].version = 0 => pub[t].hash = NoContent /\ pub[t].quality = "unavailable"
    /\ pub[t].version > 0 =>
         \E s \in snaps : s.target = t /\ s.version = pub[t].version /\ s.hash = pub[t].hash

(* Only changed canonical content creates a version: neighbours differ. *)
VersionsDiffer ==
  \A s, x \in snaps :
    s.target = x.target /\ x.version = s.version + 1 => s.hash # x.hash

(* What is published is what Warwick served at the revision that the last   *)
(* successful validation saw.                                               *)
PublishedWasServed ==
  \A t \in Target : pub[t].version > 0 => pub[t].hash = Body[validated[t]]

(* A slow run never replaces newer data by older data: the revision behind  *)
(* the accepted validations only grows, however leases expire and clocks    *)
(* disagree.                                                                *)
NeverRegresses ==
  [][\A t \in Target : validated'[t] >= validated[t]]_vars

(* At most one commit is accepted for a generation, and generations are     *)
(* accepted in order, also after Prune removed the scrape_runs row that     *)
(* recorded it.                                                             *)
AcceptedInOrder ==
  [][\A t \in Target : accepted'[t] # accepted[t] => accepted'[t] > accepted[t]]_vars

(* The published columns implement a feed that never goes back in time and  *)
(* whose version moves exactly with the content (ADR 009: "only changed     *)
(* canonical content creates a new version").                               *)
feed == [t \in Target |-> [version |-> pub[t].version, hash |-> pub[t].hash,
                          seq |-> pub[t].seq, rev |-> validated[t]]]

Feed == INSTANCE VersionedFeed WITH source <- up

ImplementsFeed == Feed!Spec

----------------------------------------------------------------------------
(* Liveness *)

(* Every instance polls (Scheduler.Run), a started run goes on to its end   *)
(* (fetch timeout, bounded permit wait), clocks advance and pauses elapse.  *)
Fairness ==
  /\ \A t \in Target, w \in Worker : WF_vars(ClaimDue(t, w))
  /\ \A t \in Target, g \in Gen : WF_vars(RunStep(t, g))
  /\ WF_vars(PauseElapses)
  /\ WF_vars(Tick)

FairSpec == Spec /\ Fairness

(* Whatever happened to the last run (crash, lost commit, lease left        *)
(* behind, backoff, host pause), an active target is claimed again.         *)
ScheduledAgain ==
  \A t \in Target, g \in 0..(MaxGen - 1) : lease[t].gen = g ~> lease[t].gen > g
============================================================================
