--------------------------- MODULE ScrapeRunProofs ----------------------------
(*****************************************************************************)
(* The safety of ScrapeRun, for any set of targets, any number of instances  *)
(* with any clock offsets, and any bounds: type correctness, the inductive   *)
(* invariant with one lemma per group of actions that disturb it alike, the  *)
(* properties that follow, and the refinement of VersionedFeed.              *)
(*****************************************************************************)
EXTENDS ScrapeRun, TLAPS

-----------------------------------------------------------------------------
\* Type correctness

(* The disjuncts of Next, one per action *)
LEMMA NextCases ==
  ASSUME Next
  PROVE  \/ \E t \in Target, w \in Worker : ClaimDue(t, w) \/ ClaimOne(t, w) \/ SetDueNow(t, w)
         \/ \E t \in Target, g \in Gen :
              \/ PermitGranted(t, g) \/ Released(t, g) \/ Abandoned(t, g) \/ Heartbeat(t, g)
              \/ FetchBody(t, g) \/ Classify(t, g) \/ Suspect(t, g) \/ FetchNotModified(t, g)
              \/ Confirm(t, g) \/ Observe(t, g) \/ CommitRefused(t, g) \/ Finish(t, g)
              \/ \E o \in Fault : FetchFailed(t, g, o)
              \/ \E d \in Delay : Commit(t, g, d) \/ Reschedule(t, g, d)
         \/ \E w \in Worker : Crash(w) \/ WatchdogFind(w)
         \/ \E t \in Target, w \in Worker : WatchdogRepair(t, w)
         \/ \E t \in Target : ChildSeen(t) \/ ChildMissing(t) \/ UpstreamChange(t)
         \/ Prune \/ PauseElapses \/ Tick
  BY DEF Next, RunStep

LEMMA NoRunType ==
  /\ NoRun \in Run
  /\ DoneRun \in Run
  /\ 0 \in Rev
  /\ \A w \in Worker : [NoRun EXCEPT !.phase = "committed", !.worker = w] \in ActiveRun
  <1>1. 0 \in Rev
    BY RunAssumption DEF Rev
  <1>2. ASSUME NEW w \in Worker
        PROVE  [NoRun EXCEPT !.phase = "committed", !.worker = w] \in ActiveRun
    BY Zenon, <1>1 DEF NoRun, ActiveRun, RunIn, ActivePhase, BeforeOutcome, WithOutcomeKnown
  <1> QED BY Zenon, <1>1, <1>2 DEF Run

(* A run in one of the active phases is a well-typed active run. *)
LEMMA ActiveType ==
  ASSUME TypeOK, NEW t \in Target, NEW g \in Gen, NEW P \in SUBSET ActivePhase, In(t, g, P)
  PROVE  run[t][g] \in ActiveRun /\ run[t][g].worker \in Worker
  BY DEF TypeOK, In, Run, ActiveRun, RunIn, ActivePhase, BeforeOutcome, WithOutcomeKnown, NoRun, DoneRun

LEMMA GotType ==
  ASSUME TypeOK, NEW t \in Target, NEW g \in Gen, NEW P \in SUBSET ActivePhase, In(t, g, P)
  PROVE  run[t][g].got \in Rev /\ run[t][g].got \in Int
  <1>1. run[t][g].got \in Rev
    BY ActiveType DEF ActiveRun, RunIn
  <1> QED BY <1>1, RunAssumption DEF Rev

(* Writing a well-typed record at one run keeps the table of runs typed. *)
LEMMA Numbers ==
  ASSUME TypeOK, NEW t \in Target
  PROVE  /\ up[t] \in Int /\ validated[t] \in Int
         /\ accepted[t] \in Int /\ lease[t].gen \in Int
  <1>1. up[t] \in Rev /\ validated[t] \in Rev
    BY DEF TypeOK
  <1>2. accepted[t] \in 0..MaxGen /\ lease[t].gen \in 0..MaxGen
    BY DEF TypeOK, StoreTypeOK, Lease
  <1> QED BY <1>1, <1>2, RunAssumption, StoreAssumption DEF Rev

LEMMA SetRunType ==
  ASSUME run \in [Target -> [Gen -> Run]], NEW t \in Target, NEW g \in Gen, NEW r \in Run,
         run' = [run EXCEPT ![t][g] = r]
  PROVE  /\ run' \in [Target -> [Gen -> Run]]
         /\ run'[t][g] = r
         /\ \A u \in Target, h \in Gen : <<u, h>> # <<t, g>> => run'[u][h] = run[u][h]
  OBVIOUS

LEMMA UnleasedType ==
  ASSUME TypeOK, NEW t \in Target
  PROVE  /\ Unleased(t) \in Lease
         /\ Unleased(t).owner = NoWorker
         /\ Unleased(t).gen = lease[t].gen
  BY DEF Unleased, TypeOK, StoreTypeOK, Lease

LEMMA TypeStep ==
  ASSUME TypeOK, Next
  PROVE  TypeOK'
  <1> USE StoreAssumption, RunAssumption
  <1>1. ASSUME NEW t \in Target, NEW w \in Worker, TakeLease(t, w), StartRun(t, w)
        PROVE  TypeOK'
    <2> DEFINE g == lease[t].gen + 1
               r == [phase |-> "claimed", worker |-> w, version |-> pub[t].version,
                     hash |-> pub[t].hash, seq |-> pub[t].seq, failures |-> sched[t].failures,
                     outcome |-> "none", got |-> 0]
    <2>1. g \in Gen
      BY <1>1 DEF TakeLease, TypeOK, StoreTypeOK, Lease, Gen
    <2>2. lease' \in [Target -> Lease] /\ lease'[t].gen = g
      BY <1>1, <2>1 DEF TakeLease, TypeOK, StoreTypeOK, Lease, Gen
    <2>3. r \in Run
      BY Zenon, NoRunType DEF TypeOK, StoreTypeOK, Run, ActiveRun, RunIn, ActivePhase, BeforeOutcome, WithOutcomeKnown, Pub, Sched
    <2>4. run' = [run EXCEPT ![t][g] = r]
      BY <1>1, <2>2 DEF StartRun, SetRun
    <2>5. run' \in [Target -> [Gen -> Run]]
      <3> HIDE DEF g, r
      <3> QED BY <2>1, <2>3, <2>4, SetRunType DEF TypeOK
    <2> QED BY <1>1, <2>2, <2>5 DEF TakeLease, StartRun, TypeOK, StoreTypeOK
  <1>2. ASSUME NEW t \in Target, NEW w \in Worker,
               ClaimDue(t, w) \/ ClaimOne(t, w) \/ SetDueNow(t, w)
        PROVE  TypeOK'
    <2>1. CASE ClaimDue(t, w)
      BY <1>1, <2>1 DEF ClaimDue, StoreClaimDue
    <2>2. CASE ClaimOne(t, w)
      BY <1>1, <2>2 DEF ClaimOne, StoreClaimOne
    <2>3. CASE SetDueNow(t, w)
      BY Zenon, <2>3 DEF SetDueNow, StoreSetDueNow, TypeOK, StoreTypeOK, Sched, Least
    <2> QED BY <1>2, <2>1, <2>2, <2>3
  <1>3. ASSUME NEW t \in Target, NEW g \in Gen, run' = Ended(t, g)
        PROVE  run' \in [Target -> [Gen -> Run]]
    BY Zenon, <1>3, NoRunType, SetRunType DEF Ended, TypeOK
  <1>4. ASSUME NEW t \in Target, NEW g \in Gen,
               \/ PermitGranted(t, g) \/ Released(t, g) \/ Abandoned(t, g)
               \/ Heartbeat(t, g) \/ CommitRefused(t, g) \/ Finish(t, g)
        PROVE  TypeOK'
    <2>1. CASE PermitGranted(t, g)
      <3>1. run[t][g] \in ActiveRun
        BY <2>1, ActiveType DEF PermitGranted, ActivePhase, BeforeOutcome, WithOutcomeKnown
      <3>2. [run[t][g] EXCEPT !.phase = "fetching"] \in Run
        BY <2>1, <3>1 DEF PermitGranted, In, Run, ActiveRun, RunIn, ActivePhase, BeforeOutcome, WithOutcomeKnown
      <3> QED BY <2>1, <3>2, SetRunType DEF PermitGranted, SetRun, TypeOK, StoreTypeOK, storeVars
    <2>2. CASE Released(t, g)
      <3>1. lease' \in [Target -> Lease]
        BY <2>2, UnleasedType DEF Released, StoreReleaseLease, TypeOK, StoreTypeOK
      <3> QED BY <1>3, <2>2, <3>1 DEF Released, StoreReleaseLease, TypeOK, StoreTypeOK
    <2>3. CASE Abandoned(t, g)
      BY <1>3, <2>3 DEF Abandoned, TypeOK, StoreTypeOK, storeVars
    <2>4. CASE Heartbeat(t, g)
      <3>1. run[t][g].worker \in Worker
        BY <2>4, ActiveType DEF Heartbeat, Beating, ActivePhase, BeforeOutcome, WithOutcomeKnown
      <3>2. LeaseDuration + Ahead[run[t][g].worker] \in Int
        BY <3>1
      <3> QED BY <2>4, <3>2 DEF Heartbeat, StoreRenewLease, runVars, TypeOK, StoreTypeOK, Lease
    <2>5. CASE CommitRefused(t, g)
      BY <1>3, <2>5 DEF CommitRefused, StoreCommitRefused, TypeOK, StoreTypeOK, storeVars
    <2>6. CASE Finish(t, g)
      BY <1>3, <2>6 DEF Finish, TypeOK, StoreTypeOK, storeVars
    <2> QED BY <1>4, <2>1, <2>2, <2>3, <2>4, <2>5, <2>6
  <1>5. ASSUME NEW t \in Target, NEW g \in Gen, NEW o \in Outcome, NEW rev \in Rev,
               In(t, g, {"fetching", "received", "confirming"}), WithOutcome(t, g, o, rev)
        PROVE  run' \in [Target -> [Gen -> Run]]
    <2>1. run[t][g] \in ActiveRun
      BY <1>5, ActiveType DEF ActivePhase, BeforeOutcome, WithOutcomeKnown
    <2>2. [run[t][g] EXCEPT !.phase = "fetched", !.outcome = o, !.got = rev] \in Run
      BY Zenon, <2>1 DEF Run, ActiveRun, RunIn, ActivePhase, BeforeOutcome, WithOutcomeKnown
    <2> QED BY <1>5, <2>2, SetRunType DEF WithOutcome, SetRun, TypeOK
  <1>6. ASSUME NEW t \in Target, NEW g \in Gen,
               \/ FetchBody(t, g) \/ Classify(t, g) \/ Suspect(t, g) \/ FetchNotModified(t, g)
               \/ Confirm(t, g) \/ Observe(t, g) \/ \E o \in Fault : FetchFailed(t, g, o)
        PROVE  TypeOK'
    <2>1. up[t] \in Rev /\ Fault \subseteq Outcome /\ Success \subseteq Outcome
      BY DEF TypeOK, Outcome
    <2>2. CASE FetchBody(t, g)
      <3>1. run[t][g] \in ActiveRun
        BY <2>2, ActiveType DEF FetchBody, ActivePhase, BeforeOutcome, WithOutcomeKnown
      <3>2. [run[t][g] EXCEPT !.phase = "received", !.got = up[t]] \in Run
        BY Zenon, <2>1, <2>2, <3>1 DEF FetchBody, In, Run, ActiveRun, RunIn, ActivePhase, BeforeOutcome, WithOutcomeKnown
      <3>3. run' \in [Target -> [Gen -> Run]]
        BY <2>2, <3>2, SetRunType DEF FetchBody, SetRun, TypeOK
      <3> QED BY <2>2, <3>3 DEF FetchBody, InMemoryOnly, TypeOK, StoreTypeOK, storeVars
    <2>3. CASE Suspect(t, g)
      <3>1. run[t][g] \in ActiveRun
        BY <2>3, ActiveType DEF Suspect, ActivePhase, BeforeOutcome, WithOutcomeKnown
      <3>2. [run[t][g] EXCEPT !.phase = "confirming"] \in Run
        BY <2>3, <3>1 DEF Suspect, In, Run, ActiveRun, RunIn, ActivePhase, BeforeOutcome, WithOutcomeKnown
      <3>3. run' \in [Target -> [Gen -> Run]]
        BY <2>3, <3>2, SetRunType DEF Suspect, SetRun, TypeOK
      <3> QED BY <2>3, <3>3 DEF Suspect, InMemoryOnly, TypeOK, StoreTypeOK, storeVars
    <2>4. CASE FetchNotModified(t, g)
      <3>1. run' \in [Target -> [Gen -> Run]]
        BY <1>5, <2>1, <2>4 DEF FetchNotModified, In, Success
      <3> QED BY <2>4, <3>1 DEF FetchNotModified, InMemoryOnly, TypeOK, StoreTypeOK, storeVars
    <2>5. CASE Confirm(t, g)
      <3>1. run[t][g].got \in Rev
        BY <2>5, ActiveType DEF Confirm, ActiveRun, RunIn, ActivePhase, BeforeOutcome, WithOutcomeKnown
      <3>2. "quarantined" \in Outcome /\ "changed" \in Outcome /\ "unchanged" \in Outcome
        BY DEF Outcome, Success, Failure
      <3>3. PICK o \in Outcome : WithOutcome(t, g, o, run[t][g].got)
        BY <2>5, <3>2 DEF Confirm
      <3>4. run' \in [Target -> [Gen -> Run]]
        BY <1>5, <2>5, <3>1, <3>3 DEF Confirm, In
      <3> QED BY <2>5, <3>4 DEF Confirm, InMemoryOnly, TypeOK, StoreTypeOK, storeVars
    <2>6. CASE Observe(t, g)
      <3>1. run[t][g] \in ActiveRun
        BY <2>6, ActiveType DEF Observe, ActivePhase, BeforeOutcome, WithOutcomeKnown
      <3>2. [run[t][g] EXCEPT !.phase = "observed"] \in Run
        BY <2>6, <3>1 DEF Observe, In, Run, ActiveRun, RunIn, ActivePhase, BeforeOutcome, WithOutcomeKnown
      <3>3. run' \in [Target -> [Gen -> Run]]
        BY <2>6, <3>2, SetRunType DEF Observe, SetRun, TypeOK
      <3>4. paused' \in BOOLEAN
        BY Zenon, <2>6 DEF Observe, TypeOK
      <3> QED BY <2>6, <3>3, <3>4 DEF Observe, TypeOK, StoreTypeOK, storeVars
    <2>7. CASE \E o \in Fault : FetchFailed(t, g, o)
      <3>1. run' \in [Target -> [Gen -> Run]]
        BY Zenon, <1>5, <2>1, <2>7, NoRunType DEF FetchFailed, In
      <3> QED BY <2>7, <3>1 DEF FetchFailed, InMemoryOnly, TypeOK, StoreTypeOK, storeVars
    <2>8. CASE Classify(t, g)
      <3>1. run[t][g].got \in Rev
        BY <2>8, ActiveType DEF Classify, ActiveRun, RunIn, ActivePhase, BeforeOutcome, WithOutcomeKnown
      <3>2. Classified(t, g) \subseteq Outcome
        BY DEF Classified, Outcome, Success
      <3>3. run' \in [Target -> [Gen -> Run]]
        BY <1>5, <2>8, <3>1, <3>2 DEF Classify, In
      <3> QED BY <2>8, <3>3 DEF Classify, InMemoryOnly, TypeOK, StoreTypeOK, storeVars
    <2> QED BY <1>6, <2>2, <2>3, <2>4, <2>5, <2>6, <2>7, <2>8
  <1>7. ASSUME NEW t \in Target, NEW g \in Gen, NEW d \in Delay,
               Commit(t, g, d) \/ Reschedule(t, g, d)
        PROVE  TypeOK'
    <2> d \in Nat
      OBVIOUS
    <2>1. CASE Reschedule(t, g, d)
      <3>1. lease' \in [Target -> Lease]
        BY ZenonT(30), <2>1, UnleasedType DEF Reschedule, StoreRescheduleLease, TypeOK, StoreTypeOK
      <3>2. [sched EXCEPT ![t].due = d] \in [Target -> Sched]
        BY Zenon DEF TypeOK, StoreTypeOK, Sched
      <3>3. sched' \in [Target -> Sched]
        BY Zenon, <2>1, <3>2 DEF Reschedule, StoreRescheduleLease, TypeOK, StoreTypeOK
      <3> QED BY <1>3, <2>1, <3>1, <3>3 DEF Reschedule, StoreRescheduleLease, TypeOK, StoreTypeOK
    <2>2. CASE Commit(t, g, d)
      <3> DEFINE r == run[t][g]
                 in == CommitInput(t, g, d)
      <3>1. r \in ActiveRun /\ r.worker \in Worker
        BY <2>2, ActiveType DEF Commit, ActivePhase, WithOutcomeKnown
      <3>2. in.outcome = r.outcome /\ in.hash \in Content /\ in.failures \in Nat /\ in.due = d
        BY <3>1 DEF CommitInput, ActiveRun, RunIn
      <3>3. lease' \in [Target -> Lease]
        BY <2>2, UnleasedType DEF Commit, StoreCommit, TypeOK, StoreTypeOK
      <3>4. sched' \in [Target -> Sched]
        BY ZenonT(30), <2>2, <3>2 DEF Commit, StoreCommit, TypeOK, StoreTypeOK, Sched
      <3>5. PubAfter(t, in) \in Pub
        <4>1. pub[t] \in Pub
          BY DEF TypeOK, StoreTypeOK
        <4> HIDE DEF in
        <4> QED BY <3>2, <4>1 DEF PubAfter, Pub, Quality
      <3>6. pub' \in [Target -> Pub]
        BY <2>2, <3>5 DEF Commit, StoreCommit, TypeOK, StoreTypeOK
      <3>7. run' \in [Target -> [Gen -> Run]]
        BY Zenon, <1>3, <2>2, <3>1, NoRunType, SetRunType DEF Commit, SetRun, TypeOK, Run
      <3>8. runs' \subseteq RunRow
        <4>1. in.outcome \in Outcome
          BY <2>2, <3>1, <3>2 DEF Commit, In, ActiveRun, RunIn, BeforeOutcome
        <4>2. [target |-> t, gen |-> g, worker |-> r.worker, outcome |-> in.outcome,
               seq |-> PubAfter(t, in).seq] \in RunRow
          BY <3>1, <3>5, <4>1 DEF RunRow, Pub
        <4> QED BY <2>2, <4>2 DEF Commit, StoreCommit, TypeOK, StoreTypeOK
      <3>9. snaps' \subseteq SnapRow /\ events' \subseteq Event
        <4>1. pub[t].version + 1 \in Nat \ {0}
          BY DEF TypeOK, StoreTypeOK, Pub
        <4>2. [target |-> t, version |-> pub[t].version + 1, hash |-> in.hash, gen |-> g] \in SnapRow
          BY <3>2, <4>1 DEF SnapRow
        <4>3. [target |-> t, version |-> pub[t].version + 1] \in Event
          BY <4>1 DEF Event
        <4> QED BY <2>2, <4>2, <4>3 DEF Commit, StoreCommit, TypeOK, StoreTypeOK
      <3>10. validated' \in [Target -> Rev] /\ accepted' \in [Target -> 0..MaxGen]
        BY SMTT(30), <2>2, <3>1 DEF Commit, TypeOK, ActiveRun, RunIn, Gen
      <3> QED BY <2>2, <3>3, <3>4, <3>6, <3>7, <3>8, <3>9, <3>10 DEF Commit, TypeOK, StoreTypeOK
    <2> QED BY <1>7, <2>1, <2>2
  <1>8. ASSUME NEW w \in Worker, Crash(w) \/ WatchdogFind(w)
        PROVE  TypeOK'
    <2>1. CASE Crash(w)
      <3>1. DoneRun \in Run
        BY Zenon, NoRunType
      <3>2. \A t \in Target : run[t] \in [Gen -> Run]
        BY DEF TypeOK
      <3>3. \A t \in Target : run'[t] \in [Gen -> Run]
        BY <2>1, <3>1, <3>2 DEF Crash
      <3>4. run' \in [Target -> [Gen -> Run]]
        BY <2>1, <3>3 DEF Crash
      <3> QED BY <2>1, <3>4 DEF Crash, TypeOK, StoreTypeOK, storeVars
    <2>2. CASE WatchdogFind(w)
      BY <2>2 DEF WatchdogFind, TypeOK, StoreTypeOK, storeVars
    <2> QED BY <1>8, <2>1, <2>2
  <1>9. ASSUME NEW t \in Target, NEW w \in Worker, WatchdogRepair(t, w)
        PROVE  TypeOK'
    <2>1. lease' \in [Target -> Lease]
      BY <1>9, UnleasedType DEF WatchdogRepair, StoreRepair, TypeOK, StoreTypeOK
    <2>2. sched' \in [Target -> Sched]
      BY ZenonT(30), <1>9 DEF WatchdogRepair, StoreRepair, TypeOK, StoreTypeOK, Sched, Least
    <2> QED BY <1>9, <2>1, <2>2 DEF WatchdogRepair, StoreRepair, TypeOK, StoreTypeOK
  <1>10. ASSUME NEW t \in Target, ChildSeen(t) \/ ChildMissing(t) \/ UpstreamChange(t)
         PROVE  TypeOK'
    <2>1. CASE ChildSeen(t)
      <3>0. PICK d \in Delay : \/ \E p \in Presence : StoreChildSeeded(t, d, p)
                               \/ \E b \in BOOLEAN : StoreChildSeen(t, d, b)
        BY <2>1 DEF ChildSeen
      <3>1. d \in Nat /\ sched[t].due \in Nat /\ sched[t].failures \in Nat
        BY StoreAssumption DEF TypeOK, StoreTypeOK, Sched
      <3>2. Least(sched[t].due, d) \in Nat
        BY <3>1 DEF Least
      <3>3. ASSUME NEW p \in Presence
            PROVE  [sched EXCEPT ![t].presence = p, ![t].due = Least(sched[t].due, d)]
                     \in [Target -> Sched]
        BY <3>2 DEF TypeOK, StoreTypeOK, Sched
      <3>4. ASSUME NEW b \in BOOLEAN
            PROVE  [presence |-> "active",
                    due |-> IF b THEN 0 ELSE Least(sched[t].due, d),
                    failures |-> IF b THEN 0 ELSE sched[t].failures] \in Sched
        BY <3>1, <3>2 DEF Sched, Presence
      <3>5. sched' \in [Target -> Sched]
        <4>1. CASE \E p \in Presence : StoreChildSeeded(t, d, p)
          BY <3>3, <4>1 DEF StoreChildSeeded
        <4>2. CASE \E b \in BOOLEAN : StoreChildSeen(t, d, b)
          BY <3>4, <4>2 DEF StoreChildSeen, TypeOK, StoreTypeOK
        <4> QED BY <3>0, <4>1, <4>2
      <3> QED BY Zenon, <2>1, <3>5 DEF ChildSeen, StoreChildSeen, StoreChildSeeded, runVars, TypeOK, StoreTypeOK
    <2>2. CASE ChildMissing(t)
      <3>1. PICK p \in {"missing", "disabled"} : StoreChildMissing(t, p)
        BY <2>2 DEF ChildMissing
      <3>2. [sched EXCEPT ![t].presence = p] \in [Target -> Sched]
        BY DEF TypeOK, StoreTypeOK, Sched, Presence
      <3> QED BY Zenon, <2>2, <3>1, <3>2 DEF ChildMissing, StoreChildMissing, runVars, TypeOK, StoreTypeOK
    <2>3. CASE UpstreamChange(t)
      <3>1. up' \in [Target -> Rev]
        BY <2>3 DEF UpstreamChange, TypeOK, Rev
      <3> QED BY <2>3, <3>1 DEF UpstreamChange, TypeOK, StoreTypeOK, storeVars
    <2> QED BY <1>10, <2>1, <2>2, <2>3
  <1>11. CASE Prune
    BY <1>11 DEF Prune, StorePruneSnapshot, StorePruneRun, runVars, TypeOK, StoreTypeOK
  <1>12. CASE PauseElapses
    BY Zenon, <1>12 DEF PauseElapses, TypeOK, StoreTypeOK, storeVars
  <1>13. CASE Tick
    <2>1. ASSUME NEW t \in Target
          PROVE  [lease[t] EXCEPT !.ttl = @ - 1] \in Lease
      <3>1. lease[t] \in Lease
        BY DEF TypeOK, StoreTypeOK
      <3> QED BY <3>1 DEF Lease
    <2>2. ASSUME NEW t \in Target, sched[t].due > 0
          PROVE  [sched[t] EXCEPT !.due = @ - 1] \in Sched
      <3>1. sched[t] \in Sched
        BY DEF TypeOK, StoreTypeOK
      <3> QED BY <2>2, <3>1 DEF Sched
    <2>3. lease' \in [Target -> Lease] /\ sched' \in [Target -> Sched]
      BY <1>13, <2>1, <2>2 DEF Tick, StoreTick, TypeOK, StoreTypeOK
    <2> QED BY <1>13, <2>3 DEF Tick, StoreTick, runVars, TypeOK, StoreTypeOK
  <1> QED BY NextCases, <1>2, <1>4, <1>6, <1>7, <1>8, <1>9, <1>10, <1>11, <1>12, <1>13

LEMMA InitType ==
  ASSUME Init
  PROVE  TypeOK
  <1>1. StoreTypeOK
    BY StoreAssumption DEF Init, StoreInit, StoreTypeOK, Lease, Sched, Pub, Presence, Quality
  <1>2. run \in [Target -> [Gen -> Run]]
    BY Zenon, NoRunType DEF Init
  <1>3. up \in [Target -> Rev] /\ validated \in [Target -> Rev] /\ accepted \in [Target -> 0..MaxGen]
    <2>1. 0 \in Rev
      BY Zenon, NoRunType
    <2>2. 0 \in 0..MaxGen
      BY StoreAssumption
    <2> QED BY <2>1, <2>2 DEF Init
  <1> QED BY Zenon, <1>1, <1>2, <1>3 DEF Init, TypeOK

(* Every row, run and history record keeps its type: in particular leases   *)
(* never pass the generation bound and timers of the row stay natural.      *)
THEOREM TypeCorrect == Spec => []TypeOK
  <1>1. Init => TypeOK
    BY InitType
  <1>2. TypeOK /\ [Next]_vars => TypeOK'
    BY TypeStep DEF vars, TypeOK, StoreTypeOK
  <1> QED BY <1>1, <1>2, PTL DEF Spec

-----------------------------------------------------------------------------
\* The invariant, and the steps other than commits

(* What a run that still holds its lease has learnt, compared with the row: *)
(* its body is no older than the last accepted validation, and its outcome  *)
(* says correctly whether that body differs from the published one.         *)
Knows(t, g) ==
  LET r == run[t][g] IN
  /\ r.phase \in {"received", "confirming"} => validated[t] <= r.got /\ r.got <= up[t]
  /\ r.phase \in WithOutcomeKnown /\ r.outcome \in Success =>
       /\ validated[t] <= r.got /\ r.got <= up[t]
       /\ r.outcome = "changed" <=> Body[r.got] # pub[t].hash

(* Accepted commits belong to past generations, or to the current one once  *)
(* its lease is gone.                                                       *)
AcceptedPast(t) ==
  /\ accepted[t] <= lease[t].gen
  /\ accepted[t] = lease[t].gen => lease[t].owner = NoWorker

(* The pointer of t against the version table and the outbox *)
PointerOK(t) ==
  /\ pub[t].version = 0 => pub[t].hash = NoContent /\ pub[t].quality = "unavailable"
  /\ pub[t].version > 0 =>
       /\ pub[t].hash = Body[validated[t]]
       /\ \E s \in snaps : s.target = t /\ s.version = pub[t].version
  /\ \A s \in snaps : s.target = t =>
       /\ s.version <= pub[t].version
       /\ s.version = pub[t].version => s.hash = pub[t].hash
  /\ \A e \in events : e.target = t => e.version <= pub[t].version
  /\ \A v \in 1..pub[t].version : [target |-> t, version |-> v] \in events

IInv ==
  /\ TypeOK
  /\ ViewFresh
  /\ \A t \in Target : validated[t] <= up[t] /\ AcceptedPast(t) /\ PointerOK(t)
  /\ \A t \in Target, g \in Gen : Holds(t, g) => Knows(t, g)
  /\ VersionsDiffer

(* Steps that publish nothing, and where runs can only end and leases can   *)
(* only be given up.                                                        *)
LEMMA Harmless ==
  ASSUME IInv, TypeOK', UNCHANGED <<pub, snaps, events, validated, accepted>>,
         \A t \in Target : /\ up'[t] >= up[t]
                          /\ lease'[t].gen = lease[t].gen
                          /\ lease'[t].owner \in {lease[t].owner, NoWorker},
         \A t \in Target, g \in Gen : run'[t][g] \in {run[t][g], DoneRun}
  PROVE  IInv'
  <1>0. TypeOK
    BY DEF IInv
  <1>1. ASSUME NEW t \in Target, NEW g \in Gen, Holds(t, g)'
        PROVE  Holds(t, g) /\ run'[t][g] = run[t][g] /\ lease'[t].owner = lease[t].owner
    BY <1>1 DEF Holds, In, DoneRun, NoRun
  <1>2. ViewFresh'
    BY <1>1 DEF IInv, ViewFresh
  <1>3. ASSUME NEW t \in Target
        PROVE  (validated[t] <= up[t] /\ AcceptedPast(t) /\ PointerOK(t))'
    <2>1. up[t] \in Int /\ validated[t] \in Int /\ up'[t] \in Rev
      BY <1>0, Numbers DEF TypeOK
    <2>2. (validated[t] <= up[t])'
      BY <2>1, RunAssumption DEF IInv, Rev
    <2>3. AcceptedPast(t)'
      BY DEF IInv, AcceptedPast
    <2>4. PointerOK(t)'
      BY DEF IInv, PointerOK
    <2> QED BY <2>2, <2>3, <2>4
  <1>4. ASSUME NEW t \in Target, NEW g \in Gen, Holds(t, g)'
        PROVE  Knows(t, g)'
    <2>1. Knows(t, g) /\ run'[t][g] = run[t][g]
      BY <1>1, <1>4 DEF IInv
    <2>2. up[t] \in Int /\ up'[t] \in Rev /\ up'[t] >= up[t]
      BY <1>0, Numbers DEF TypeOK
    <2>3. ASSUME In(t, g, {"received", "confirming", "fetched", "observed"})
          PROVE  run[t][g].got \in Int
      BY <1>0, <2>3, GotType DEF ActivePhase, BeforeOutcome, WithOutcomeKnown
    <2>4. run[t][g].got \in Int /\ run[t][g].got <= up[t] => run[t][g].got <= up'[t]
      BY <2>2, RunAssumption DEF Rev
    <2> QED BY <2>1, <2>3, <2>4 DEF Knows, WithOutcomeKnown, In
  <1> QED BY <1>2, <1>3, <1>4 DEF IInv, VersionsDiffer

(* Steps of one run inside its instance: only its record changes, and the   *)
(* copy of the row it claimed stays as it is.                               *)
LEMMA InMemory ==
  ASSUME IInv, TypeOK', NEW t \in Target, NEW g \in Gen, NEW r \in Run,
         UNCHANGED <<lease, pub, snaps, events, up, validated, accepted>>,
         run' = [run EXCEPT ![t][g] = r],
         In(t, g, BeforeOutcome \cup WithOutcomeKnown),
         r.worker = run[t][g].worker, r.version = run[t][g].version,
         r.hash = run[t][g].hash, r.seq = run[t][g].seq,
         Holds(t, g) => Knows(t, g)'
  PROVE  IInv'
  <1>1. /\ run'[t][g] = r
        /\ \A u \in Target, h \in Gen : <<u, h>> # <<t, g>> => run'[u][h] = run[u][h]
    <2>1. run \in [Target -> [Gen -> Run]]
      BY DEF IInv, TypeOK
    <2> QED BY <2>1
  <1>2. ASSUME NEW u \in Target, NEW h \in Gen, Holds(u, h)'
        PROVE  Holds(u, h)
    BY <1>1, <1>2 DEF Holds, In, BeforeOutcome, WithOutcomeKnown
  <1>3. ViewFresh'
    <2>1. ViewFresh
      BY DEF IInv
    <2> QED BY <1>1, <1>2, <2>1 DEF ViewFresh
  <1>4. ASSUME NEW u \in Target, NEW h \in Gen, Holds(u, h)'
        PROVE  Knows(u, h)'
    <2>1. CASE <<u, h>> = <<t, g>>
      BY <1>2, <1>4, <2>1
    <2>2. CASE <<u, h>> # <<t, g>>
      <3>1. Knows(u, h) /\ run'[u][h] = run[u][h]
        BY <1>1, <1>2, <1>4, <2>2 DEF IInv
      <3> QED BY Zenon, <3>1 DEF Knows
    <2> QED BY <2>1, <2>2
  <1>5. ASSUME NEW u \in Target
        PROVE  (validated[u] <= up[u] /\ AcceptedPast(u) /\ PointerOK(u))'
    BY DEF IInv, AcceptedPast, PointerOK
  <1> QED BY <1>3, <1>4, <1>5 DEF IInv, VersionsDiffer
(* A claim: the new run copies the row it was claimed from. *)
LEMMA ClaimStep ==
  ASSUME IInv, TypeOK', NEW t \in Target, NEW w \in Worker, TakeLease(t, w), StartRun(t, w)
  PROVE  IInv'
  <1> DEFINE n == lease[t].gen + 1
             r == [phase |-> "claimed", worker |-> w, version |-> pub[t].version,
                   hash |-> pub[t].hash, seq |-> pub[t].seq, failures |-> sched[t].failures,
                   outcome |-> "none", got |-> 0]
  <1>1. n \in Gen /\ lease[t].gen \in Int /\ accepted[t] \in Int
    BY StoreAssumption DEF IInv, TakeLease, TypeOK, StoreTypeOK, Lease, Gen
  <1>2. /\ lease'[t] = [owner |-> w, gen |-> n, ttl |-> LeaseDuration + Ahead[w]]
        /\ \A u \in Target : u # t => lease'[u] = lease[u]
        /\ lease'[t].gen = n /\ lease'[t].owner = w
    BY DEF TakeLease, IInv, TypeOK, StoreTypeOK
  <1>3. /\ run'[t][n] = r
        /\ \A u \in Target, h \in Gen : <<u, h>> # <<t, n>> => run'[u][h] = run[u][h]
    <2>1. run' = [run EXCEPT ![t][n] = r]
      BY <1>2 DEF StartRun, SetRun
    <2> HIDE DEF n, r
    <2> QED BY <1>1, <2>1 DEF IInv, TypeOK
  <1>4. UNCHANGED <<pub, snaps, events, up, validated, accepted>>
    BY DEF TakeLease, StartRun
  <1>5. ASSUME NEW u \in Target, NEW h \in Gen, Holds(u, h)'
        PROVE  <<u, h>> = <<t, n>> \/ (u # t /\ Holds(u, h) /\ run'[u][h] = run[u][h])
    BY <1>2, <1>3, <1>5 DEF Holds, In
  <1> DEFINE View(u, h) == /\ run[u][h].worker = lease[u].owner
                           /\ run[u][h].version = pub[u].version
                           /\ run[u][h].hash = pub[u].hash /\ run[u][h].seq = pub[u].seq
  <1>6. ASSUME NEW u \in Target, NEW h \in Gen, Holds(u, h)'
        PROVE  View(u, h)'
    <2>1. /\ run'[t][n].worker = lease'[t].owner /\ run'[t][n].version = pub'[t].version
          /\ run'[t][n].hash = pub'[t].hash /\ run'[t][n].seq = pub'[t].seq
      BY <1>2, <1>3, <1>4
    <2>2. CASE u # t /\ Holds(u, h) /\ run'[u][h] = run[u][h]
      <3>1. View(u, h)
        BY <2>2 DEF IInv, ViewFresh
      <3> QED BY <1>2, <1>4, <2>2, <3>1
    <2> HIDE DEF n, r
    <2>3. CASE u = t /\ h = n
      BY <2>1, <2>3
    <2> QED BY <1>5, <1>6, <2>2, <2>3
  <1>7. ASSUME NEW u \in Target, NEW h \in Gen, Holds(u, h)'
        PROVE  Knows(u, h)'
    <2>1. run'[t][n].phase = "claimed"
      BY <1>3
    <2> HIDE DEF n, r
    <2>2. CASE <<u, h>> = <<t, n>>
      BY <2>1, <2>2 DEF Knows, WithOutcomeKnown
    <2>3. CASE Holds(u, h) /\ run'[u][h] = run[u][h]
      <3>1. Knows(u, h)
        BY Zenon, <2>3 DEF IInv
      <3> QED BY Zenon, <1>4, <2>3, <3>1 DEF Knows
    <2> QED BY <1>5, <1>7, <2>2, <2>3
  <1>8. ASSUME NEW u \in Target
        PROVE  (validated[u] <= up[u] /\ AcceptedPast(u) /\ PointerOK(u))'
    <2>1. AcceptedPast(u)'
      <3>1. CASE u = t
        BY <1>1, <1>2, <1>4, <3>1 DEF IInv, AcceptedPast
      <3>2. CASE u # t
        BY <1>2, <1>4, <3>2 DEF IInv, AcceptedPast
      <3> QED BY <3>1, <3>2
    <2>2. PointerOK(u)' /\ (validated[u] <= up[u])'
      BY Zenon, <1>4 DEF IInv, PointerOK
    <2> QED BY <2>1, <2>2
  <1>9. ViewFresh' /\ VersionsDiffer'
    BY Zenon, <1>4, <1>6 DEF IInv, ViewFresh, VersionsDiffer
  <1> HIDE DEF n, r, View
  <1> QED BY <1>7, <1>8, <1>9 DEF IInv

(* The steps of a run between its permit and its commit *)
LEMMA FetchSteps ==
  ASSUME IInv, TypeOK', NEW t \in Target, NEW g \in Gen,
         \/ PermitGranted(t, g) \/ FetchBody(t, g) \/ Classify(t, g) \/ Suspect(t, g)
         \/ FetchNotModified(t, g) \/ Confirm(t, g) \/ Observe(t, g)
         \/ \E o \in Fault : FetchFailed(t, g, o)
  PROVE  IInv'
  <1> USE DEF BeforeOutcome, WithOutcomeKnown
  <1> DEFINE c == run[t][g]
  <1>1. In(t, g, BeforeOutcome \cup WithOutcomeKnown)
    BY Zenon DEF PermitGranted, FetchBody, Classify, Suspect, FetchNotModified, Confirm, Observe, FetchFailed, In
  <1>2. c \in ActiveRun /\ c.got \in Int
    BY Zenon, <1>1, ActiveType, GotType DEF IInv, ActivePhase
  <1>3. UNCHANGED <<lease, pub, snaps, events, up, validated, accepted>>
    BY DEF PermitGranted, FetchBody, Classify, Suspect, FetchNotModified, Confirm, Observe, FetchFailed,
           InMemoryOnly, storeVars
  <1>4. /\ validated[t] <= up[t] /\ up[t] \in Int /\ validated[t] \in Int
        /\ Holds(t, g) => Knows(t, g) /\ c.hash = pub[t].hash /\ c.version = pub[t].version
    <2>1. TypeOK /\ validated[t] <= up[t] /\ ViewFresh /\ (Holds(t, g) => Knows(t, g))
      BY DEF IInv
    <2>2. up[t] \in Int /\ validated[t] \in Int
      BY <2>1, Numbers
    <2>3. Holds(t, g) => c.hash = pub[t].hash /\ c.version = pub[t].version
      BY Zenon, <2>1 DEF ViewFresh
    <2> QED BY Zenon, <2>1, <2>2, <2>3
  <1>5. run' \in [Target -> [Gen -> Run]] /\ run \in [Target -> [Gen -> Run]]
    BY DEF IInv, TypeOK
  <1>6. ASSUME NEW r, SetRun(t, g, r), r.worker = c.worker, r.version = c.version,
               r.hash = c.hash, r.seq = c.seq, Holds(t, g) => Knows(t, g)'
        PROVE  IInv'
    <2>1. run' = [run EXCEPT ![t][g] = r] /\ r \in Run
      BY <1>5, <1>6 DEF SetRun
    <2> QED BY Zenon, <1>1, <1>3, <1>6, <2>1, InMemory
  <1>7. ASSUME NEW r, SetRun(t, g, r)
        PROVE  run'[t][g] = r
    BY <1>5, <1>7 DEF SetRun
  <1>8. ASSUME NEW o, NEW rev, WithOutcome(t, g, o, rev),
               Holds(t, g) /\ o \in Success =>
                 /\ validated[t] <= rev /\ rev <= up[t]
                 /\ o = "changed" <=> Body[rev] # pub[t].hash
        PROVE  IInv'
    <2> DEFINE r == [c EXCEPT !.phase = "fetched", !.outcome = o, !.got = rev]
    <2>1. /\ r.worker = c.worker /\ r.version = c.version /\ r.hash = c.hash /\ r.seq = c.seq
          /\ r.phase = "fetched" /\ r.outcome = o /\ r.got = rev
      BY <1>2 DEF ActiveRun, RunIn
    <2>2. SetRun(t, g, r)
      BY <1>8 DEF WithOutcome
    <2> HIDE DEF r
    <2>3. run'[t][g] = r
      BY <1>7, <2>2
    <2>4. Holds(t, g) => Knows(t, g)'
      BY Zenon, <1>3, <1>8, <2>1, <2>3 DEF Knows
    <2> QED BY Zenon, <1>6, <2>1, <2>2, <2>4
  <1>9. ASSUME NEW r, SetRun(t, g, r), r.worker = c.worker, r.version = c.version,
               r.hash = c.hash, r.seq = c.seq, r.phase \notin WithOutcomeKnown,
               Holds(t, g) /\ r.phase \in {"received", "confirming"} =>
                 validated[t] <= r.got /\ r.got <= up[t]
        PROVE  IInv'
    <2>1. run'[t][g] = r
      BY Zenon, <1>7, <1>9
    <2>2. Holds(t, g) => Knows(t, g)'
      BY Zenon, <1>3, <1>9, <2>1 DEF Knows
    <2> QED BY Zenon, <1>6, <1>9, <2>2
  <1>10. \A p : LET r == [c EXCEPT !.phase = p] IN
           /\ r.worker = c.worker /\ r.version = c.version /\ r.hash = c.hash
           /\ r.seq = c.seq /\ r.phase = p /\ r.got = c.got
    BY <1>2 DEF ActiveRun, RunIn
  <1>11. CASE PermitGranted(t, g)
    <2> DEFINE r == [c EXCEPT !.phase = "fetching"]
    <2>1. SetRun(t, g, r) /\ r.phase = "fetching"
      BY <1>10, <1>11 DEF PermitGranted
    <2>2. r.worker = c.worker /\ r.version = c.version /\ r.hash = c.hash /\ r.seq = c.seq
      BY <1>10
    <2> HIDE DEF r
    <2> QED BY Zenon, <1>9, <2>1, <2>2
  <1>12. CASE FetchBody(t, g)
    <2> DEFINE r == [c EXCEPT !.phase = "received", !.got = up[t]]
    <2>1. SetRun(t, g, r)
      BY <1>12 DEF FetchBody
    <2>2. /\ r.worker = c.worker /\ r.version = c.version /\ r.hash = c.hash /\ r.seq = c.seq
          /\ r.phase = "received" /\ r.got = up[t]
      BY <1>2 DEF ActiveRun, RunIn
    <2> HIDE DEF r
    <2>3. up[t] <= up[t]
      BY <1>4
    <2> QED BY Zenon, <1>4, <1>9, <2>1, <2>2, <2>3
  <1>13. CASE Suspect(t, g)
    <2> DEFINE r == [c EXCEPT !.phase = "confirming"]
    <2>1. SetRun(t, g, r) /\ r.phase = "confirming" /\ r.got = c.got
      BY <1>10, <1>13 DEF Suspect
    <2>2. r.worker = c.worker /\ r.version = c.version /\ r.hash = c.hash /\ r.seq = c.seq
      BY <1>10
    <2>3. Holds(t, g) => validated[t] <= c.got /\ c.got <= up[t]
      BY <1>4, <1>13 DEF Suspect, In, Knows
    <2> HIDE DEF r
    <2> QED BY Zenon, <1>9, <2>1, <2>2, <2>3
  <1>14. CASE Classify(t, g)
    <2>1. PICK o \in Classified(t, g) : WithOutcome(t, g, o, c.got)
      BY <1>14 DEF Classify
    <2>2. Holds(t, g) =>
            /\ validated[t] <= c.got /\ c.got <= up[t]
            /\ o = "changed" <=> Body[c.got] # pub[t].hash
      BY Zenon, <1>4, <1>14 DEF Classify, In, Knows, Classified
    <2> QED BY Zenon, <1>8, <2>1, <2>2
  <1>15. CASE FetchNotModified(t, g)
    <2>1. WithOutcome(t, g, "not_modified", up[t]) /\ Body[up[t]] = c.hash
      BY Zenon, <1>15 DEF FetchNotModified
    <2>2. up[t] <= up[t]
      BY <1>4
    <2> QED BY Zenon, <1>4, <1>8, <2>1, <2>2
  <1>16. CASE Confirm(t, g)
    <2>1. Holds(t, g) => validated[t] <= c.got /\ c.got <= up[t]
      BY Zenon, <1>4, <1>16 DEF Confirm, In, Knows
    <2>2. "quarantined" \notin Success
      BY DEF Success
    <2>3. CASE WithOutcome(t, g, "quarantined", c.got)
      BY Zenon, <1>8, <2>2, <2>3
    <2>4. CASE WithOutcome(t, g, IF Body[c.got] = c.hash THEN "unchanged" ELSE "changed", c.got)
      BY Zenon, <1>4, <1>8, <2>1, <2>4
    <2> QED BY Zenon, <1>16, <2>3, <2>4 DEF Confirm
  <1>17. CASE Observe(t, g)
    <2> DEFINE r == [c EXCEPT !.phase = "observed"]
    <2>1. /\ r.worker = c.worker /\ r.version = c.version /\ r.hash = c.hash /\ r.seq = c.seq
          /\ r.phase = "observed" /\ r.outcome = c.outcome /\ r.got = c.got
      BY <1>2 DEF ActiveRun, RunIn
    <2>2. SetRun(t, g, r) /\ c.phase = "fetched"
      BY <1>17 DEF Observe, In
    <2> HIDE DEF r
    <2>3. run'[t][g] = r
      BY Zenon, <1>7, <2>2
    <2>4. Holds(t, g) => Knows(t, g)'
      BY Zenon, <1>3, <1>4, <2>1, <2>2, <2>3 DEF Knows
    <2> QED BY Zenon, <1>6, <2>1, <2>2, <2>4
  <1>18. CASE \E o \in Fault : FetchFailed(t, g, o)
    <2>1. \A o \in Fault : o \notin Success
      BY RunAssumption DEF Failure, Success
    <2> QED BY Zenon, <1>8, <1>18, <2>1 DEF FetchFailed
  <1> QED BY <1>11, <1>12, <1>13, <1>14, <1>15, <1>16, <1>17, <1>18

(* Steps that end a run, touch a lease without taking it, or happen outside *)
LEMMA HarmlessSteps ==
  ASSUME IInv, TypeOK',
         \/ \E t \in Target, w \in Worker : SetDueNow(t, w) \/ WatchdogRepair(t, w)
         \/ \E t \in Target, g \in Gen :
              \/ Released(t, g) \/ Abandoned(t, g) \/ Heartbeat(t, g)
              \/ CommitRefused(t, g) \/ Finish(t, g) \/ \E d \in Delay : Reschedule(t, g, d)
         \/ \E w \in Worker : Crash(w) \/ WatchdogFind(w)
         \/ \E t \in Target : ChildSeen(t) \/ ChildMissing(t) \/ UpstreamChange(t)
         \/ PauseElapses \/ Tick
  PROVE  IInv'
  <1> USE DEF storeVars, runVars
  <1>1. lease \in [Target -> Lease] /\ up \in [Target -> Rev] /\ run \in [Target -> [Gen -> Run]]
    BY DEF IInv, TypeOK, StoreTypeOK
  <1>2. UNCHANGED <<pub, snaps, events, validated, accepted>>
    BY Zenon DEF SetDueNow, StoreSetDueNow, Released, StoreReleaseLease, Abandoned, Heartbeat,
           StoreRenewLease, CommitRefused, StoreCommitRefused, Finish, Reschedule,
           StoreRescheduleLease, Crash, WatchdogFind, WatchdogRepair, StoreRepair, ChildSeen,
           StoreChildSeen, StoreChildSeeded, ChildMissing, StoreChildMissing, UpstreamChange, PauseElapses,
           Tick, StoreTick
  <1>3. \A u \in Target : up'[u] >= up[u]
    <2>1. \A u \in Target : up[u] \in Int
      BY Zenon, Numbers DEF IInv
    <2>2. CASE up' = up
      BY <2>1, <2>2
    <2>3. CASE \E t \in Target : UpstreamChange(t)
      BY <1>1, <2>1, <2>3 DEF UpstreamChange
    <2> QED BY <2>2, <2>3 DEF SetDueNow, Released, Abandoned, Heartbeat, CommitRefused, Finish,
          Reschedule, Crash, WatchdogFind, WatchdogRepair, ChildSeen, ChildMissing,
          PauseElapses, Tick
  <1>4. ASSUME NEW u \in Target
        PROVE  lease'[u].gen = lease[u].gen /\ lease'[u].owner \in {lease[u].owner, NoWorker}
    <2>1. CASE lease' = lease \/ \E t \in Target : lease' = [lease EXCEPT ![t] = Unleased(t)]
      BY <1>1, <2>1 DEF Unleased
    <2>2. CASE \E t \in Target, g \in Gen : Heartbeat(t, g)
      BY <1>1, <2>2 DEF Heartbeat, StoreRenewLease, Lease
    <2>3. CASE Tick
      BY <1>1, <2>3 DEF Tick, StoreTick, Lease
    <2> QED BY <2>1, <2>2, <2>3 DEF SetDueNow, StoreSetDueNow, Released, StoreReleaseLease,
          Abandoned, CommitRefused, StoreCommitRefused, Finish, Reschedule,
          StoreRescheduleLease, Crash, WatchdogFind, WatchdogRepair, StoreRepair, ChildSeen,
          StoreChildSeen, StoreChildSeeded, ChildMissing, StoreChildMissing, UpstreamChange, PauseElapses
  <1>5. ASSUME NEW u \in Target, NEW h \in Gen
        PROVE  run'[u][h] \in {run[u][h], DoneRun}
    <2>1. CASE run' = run \/ \E t \in Target, g \in Gen : run' = Ended(t, g)
      BY <1>1, <2>1 DEF Ended
    <2>2. CASE \E w \in Worker : Crash(w)
      BY <2>2 DEF Crash
    <2> QED BY Zenon, <2>1, <2>2 DEF SetDueNow, Released, Abandoned, Heartbeat, CommitRefused, Finish,
          Reschedule, WatchdogFind, WatchdogRepair, ChildSeen, ChildMissing, UpstreamChange,
          PauseElapses, Tick
  <1> QED BY Zenon, <1>2, <1>3, <1>4, <1>5, Harmless

(* Retention deletes old versions, never the current one *)
LEMMA PruneStep ==
  ASSUME IInv, TypeOK', Prune
  PROVE  IInv'
  <1>1. UNCHANGED <<lease, sched, pub, events, up, run, validated, accepted>>
    BY Zenon DEF Prune, StorePruneSnapshot, StorePruneRun, runVars
  <1>2. /\ snaps' \subseteq snaps
        /\ \A s \in snaps : s.version = pub[s.target].version => s \in snaps'
    BY Zenon DEF Prune, StorePruneSnapshot, StorePruneRun
  <1>3. ASSUME NEW t \in Target
        PROVE  PointerOK(t)'
    <2>1. PointerOK(t)
      BY DEF IInv
    <2>2. \A s \in snaps : s.target = t /\ s.version = pub[t].version => s \in snaps'
      BY <1>2
    <2> QED BY Zenon, <1>1, <1>2, <2>1, <2>2 DEF PointerOK
  <1>4. ASSUME NEW t \in Target
        PROVE  (validated[t] <= up[t] /\ AcceptedPast(t))'
    BY Zenon, <1>1 DEF IInv, AcceptedPast
  <1>5. ASSUME NEW t \in Target, NEW g \in Gen, Holds(t, g)'
        PROVE  Holds(t, g) /\ Knows(t, g)'
    <2>1. Holds(t, g)
      BY Zenon, <1>1, <1>5 DEF Holds, In
    <2>2. Knows(t, g)
      BY <2>1 DEF IInv
    <2> QED BY Zenon, <1>1, <2>1, <2>2 DEF Knows
  <1>6. ViewFresh' /\ VersionsDiffer'
    BY Zenon, <1>1, <1>2, <1>5 DEF IInv, ViewFresh, VersionsDiffer
  <1> QED BY Zenon, <1>3, <1>4, <1>5, <1>6 DEF IInv

-----------------------------------------------------------------------------
\* Commits, and the theorems

(* An accepted commit: its run still held the lease, so what it learnt is   *)
(* still true of the row.                                                   *)
CommitEffect(t, g) ==
  LET c == run[t][g]
      ch == c.outcome = "changed"
      ok == c.outcome \in Success IN
  /\ lease[t].gen = g /\ lease[t].owner # NoWorker
  /\ c.got \in Rev /\ c.got \in Int
  /\ ch => ok
  /\ ok => /\ validated[t] <= c.got /\ c.got <= up[t]
           /\ ch <=> Body[c.got] # pub[t].hash
           /\ ~ch => pub[t].version > 0
  /\ pub'[t].version = IF ch THEN pub[t].version + 1 ELSE pub[t].version
  /\ pub'[t].hash = IF ch THEN Body[c.got] ELSE pub[t].hash
  /\ pub'[t].seq = IF ok THEN pub[t].seq + 1 ELSE pub[t].seq
  /\ pub'[t].quality = IF ok THEN "verified_fresh"
                       ELSE IF pub[t].version = 0 THEN "unavailable" ELSE "degraded"
  /\ accepted'[t] = g /\ up' = up
  /\ validated'[t] = IF ok THEN c.got ELSE validated[t]
  /\ \A u \in Target : u # t => /\ pub'[u] = pub[u]
                                /\ accepted'[u] = accepted[u]
                                /\ validated'[u] = validated[u]

LEMMA CommitFacts ==
  ASSUME IInv, NEW t \in Target, NEW g \in Gen, NEW d \in Delay, Commit(t, g, d)
  PROVE  CommitEffect(t, g)
  <1> USE DEF WithOutcomeKnown
  <1> DEFINE c == run[t][g]
             in == CommitInput(t, g, d)
  <1>1. c.phase = "observed"
    BY DEF Commit, In
  <1>2. c \in ActiveRun /\ c.worker \in Worker /\ c.got \in Rev /\ c.got \in Int
    BY Zenon, <1>1, ActiveType, GotType DEF IInv, In, ActivePhase
  <1>3. c.worker # NoWorker /\ Body[c.got] \in Content
    BY <1>2, StoreAssumption, RunAssumption
  <1>4. lease[t].gen = g /\ lease[t].owner = c.worker
    BY DEF Commit, StoreCommit, CommitAccepted
  <1>5. Knows(t, g)
    BY <1>1, <1>3, <1>4 DEF Holds, In, IInv
  <1>6. in.outcome = c.outcome /\ in.hash = Body[c.got]
    BY DEF CommitInput
  <1>7. pub'[t] = PubAfter(t, in) /\ \A u \in Target : u # t => pub'[u] = pub[u]
    BY DEF Commit, StoreCommit, IInv, TypeOK, StoreTypeOK
  <1>8. /\ accepted'[t] = g /\ up' = up
        /\ validated'[t] = IF c.outcome \in Success THEN c.got ELSE validated[t]
        /\ \A u \in Target : u # t => accepted'[u] = accepted[u] /\ validated'[u] = validated[u]
    BY DEF Commit, IInv, TypeOK
  <1>9. c.outcome \in Success =>
          /\ validated[t] <= c.got /\ c.got <= up[t]
          /\ c.outcome = "changed" <=> Body[c.got] # pub[t].hash
    BY <1>1, <1>5 DEF Knows
  <1>10. Body[c.got] = pub[t].hash => pub[t].version > 0
    <2>1. PointerOK(t) /\ pub[t].version \in Nat
      BY DEF IInv, TypeOK, StoreTypeOK, Pub
    <2> QED BY <1>3, <2>1, StoreAssumption DEF PointerOK
  <1>11. "changed" \in Success
    BY DEF Success
  <1> HIDE DEF in
  <1>12. /\ pub'[t].version = IF c.outcome = "changed" THEN pub[t].version + 1 ELSE pub[t].version
         /\ pub'[t].hash = IF c.outcome = "changed" THEN Body[c.got] ELSE pub[t].hash
         /\ pub'[t].seq = IF c.outcome \in Success THEN pub[t].seq + 1 ELSE pub[t].seq
         /\ pub'[t].quality = IF c.outcome \in Success THEN "verified_fresh"
                              ELSE IF pub[t].version = 0 THEN "unavailable" ELSE "degraded"
    <2>1. PubAfter(t, in) =
            [version |-> IF c.outcome = "changed" THEN pub[t].version + 1 ELSE pub[t].version,
             hash |-> IF c.outcome = "changed" THEN Body[c.got] ELSE pub[t].hash,
             seq |-> IF c.outcome \in Success THEN pub[t].seq + 1 ELSE pub[t].seq,
             quality |-> IF c.outcome \in Success THEN "verified_fresh"
                         ELSE IF pub[t].version = 0 THEN "unavailable" ELSE "degraded"]
      BY <1>6 DEF PubAfter
    <2> QED BY <1>7, <2>1
  <1>13. lease[t].owner # NoWorker
    BY Zenon, <1>3, <1>4
  <1>14. \A u \in Target : u # t => pub'[u] = pub[u]
    BY <1>7
  <1> QED BY Zenon, <1>2, <1>4, <1>8, <1>9, <1>10, <1>11, <1>12, <1>13, <1>14 DEF CommitEffect

LEMMA CommitStep ==
  ASSUME IInv, TypeOK', NEW t \in Target, NEW g \in Gen, NEW d \in Delay, Commit(t, g, d)
  PROVE  IInv'
  <1> DEFINE c == run[t][g]
             v == pub[t].version
             ch == c.outcome = "changed"
  <1>1. CommitEffect(t, g)
    BY CommitFacts
  <1>2. /\ lease'[t].owner = NoWorker /\ lease'[t].gen = g
        /\ \A u \in Target : u # t => lease'[u] = lease[u]
    BY <1>1 DEF CommitEffect, Commit, StoreCommit, Unleased, IInv, TypeOK, StoreTypeOK
  <1>3. \A u \in Target : u # t => pub'[u] = pub[u]
    BY <1>1 DEF CommitEffect
  <1>4. /\ pub'[t].version = IF ch THEN v + 1 ELSE v
        /\ pub'[t].hash = IF ch THEN Body[c.got] ELSE pub[t].hash
        /\ pub'[t].quality = IF c.outcome \in Success THEN "verified_fresh"
                             ELSE IF v = 0 THEN "unavailable" ELSE "degraded"
    BY <1>1 DEF CommitEffect
  <1>5. /\ snaps' = IF ch THEN snaps \cup {[target |-> t, version |-> v + 1,
                                            hash |-> Body[c.got], gen |-> g]} ELSE snaps
        /\ events' = IF ch THEN events \cup {[target |-> t, version |-> v + 1]} ELSE events
    <2>1. CommitInput(t, g, d).outcome = c.outcome /\ CommitInput(t, g, d).hash = Body[c.got]
      BY DEF CommitInput
    <2> QED BY <2>1 DEF Commit, StoreCommit
  <1>6. /\ accepted'[t] = g /\ up' = up
        /\ validated'[t] = IF c.outcome \in Success THEN c.got ELSE validated[t]
        /\ \A u \in Target : u # t => accepted'[u] = accepted[u] /\ validated'[u] = validated[u]
    BY <1>1 DEF CommitEffect
  <1>7. \A u \in Target, h \in Gen : u # t => run'[u][h] = run[u][h]
    BY DEF Commit, SetRun, Ended, IInv, TypeOK
  <1>8. ASSUME NEW u \in Target, NEW h \in Gen, Holds(u, h)'
         PROVE  u # t /\ Holds(u, h) /\ run'[u][h] = run[u][h]
    BY <1>2, <1>7, <1>8 DEF Holds, In
  <1> HIDE DEF c, v, ch
  <1>9. ViewFresh'
    <2> SUFFICES ASSUME NEW u \in Target, NEW h \in Gen, Holds(u, h)'
                 PROVE  /\ run'[u][h].worker = lease'[u].owner
                        /\ run'[u][h].version = pub'[u].version
                        /\ run'[u][h].hash = pub'[u].hash
                        /\ run'[u][h].seq = pub'[u].seq
      BY DEF ViewFresh
    <2>1. u # t /\ Holds(u, h) /\ run'[u][h] = run[u][h]
      BY <1>8
    <2>2. lease'[u] = lease[u] /\ pub'[u] = pub[u]
      BY <1>2, <1>3, <2>1
    <2>3. /\ run[u][h].worker = lease[u].owner /\ run[u][h].version = pub[u].version
          /\ run[u][h].hash = pub[u].hash /\ run[u][h].seq = pub[u].seq
      BY <2>1 DEF IInv, ViewFresh
    <2> QED BY <2>1, <2>2, <2>3
  <1>10. ASSUME NEW u \in Target, NEW h \in Gen, Holds(u, h)'
         PROVE  Knows(u, h)'
    <2>1. Knows(u, h) /\ u # t /\ run'[u][h] = run[u][h]
      BY <1>8, <1>10 DEF IInv
    <2>2. pub'[u] = pub[u] /\ validated'[u] = validated[u] /\ up' = up
      BY <1>3, <1>6, <2>1
    <2> QED BY <2>1, <2>2 DEF Knows
  <1>11. v \in Nat /\ PointerOK(t) /\ snaps \subseteq SnapRow /\ events \subseteq Event
    BY DEF v, IInv, TypeOK, StoreTypeOK, Pub
  <1>12. c.outcome \in Success =>
           /\ c.got <= up[t]
           /\ ch <=> Body[c.got] # pub[t].hash
           /\ ~ch => v > 0 /\ pub[t].hash = Body[c.got]
    BY Zenon, <1>1 DEF CommitEffect, c, v, ch
  <1>13. ch => c.outcome \in Success
    BY <1>1 DEF CommitEffect, c, ch
  <1>14. ASSUME NEW u \in Target, u # t
         PROVE  (validated[u] <= up[u] /\ AcceptedPast(u) /\ PointerOK(u))'
    <2>1. /\ \A s \in snaps' : s.target = u => s \in snaps
          /\ \A e \in events' : e.target = u => e \in events
          /\ snaps \subseteq snaps' /\ events \subseteq events'
      <3>1. CASE ch
        BY <1>5, <1>14, <3>1
      <3>2. CASE ~ch
        BY <1>5, <3>2
      <3> QED BY <3>1, <3>2
    <2>2. PointerOK(u)
      BY DEF IInv
    <2>3. PointerOK(u)'
      BY <1>3, <1>6, <1>14, <2>1, <2>2 DEF PointerOK
    <2> QED BY <1>2, <1>6, <1>14, <2>3 DEF IInv, AcceptedPast
  <1>15. (validated[t] <= up[t] /\ AcceptedPast(t))'
    <2>1. g \in Int
      BY StoreAssumption DEF Gen
    <2>2. AcceptedPast(t)'
      BY <1>2, <1>6, <2>1 DEF AcceptedPast
    <2>3. (validated[t] <= up[t])'
      BY <1>6, <1>12 DEF IInv
    <2> QED BY <2>2, <2>3
  <1>16. PointerOK(t)'
    <2>1. /\ \A s \in snaps : s.target = t =>
               /\ s.version \in Nat /\ s.version <= v
               /\ s.version = v => s.hash = pub[t].hash
          /\ \A e \in events : e.target = t => e.version \in Nat /\ e.version <= v
          /\ \A i \in 1..v : [target |-> t, version |-> i] \in events
      BY <1>11 DEF PointerOK, SnapRow, Event, v
    <2>2. CASE ch
      <3> DEFINE s0 == [target |-> t, version |-> v + 1, hash |-> Body[c.got], gen |-> g]
                 e0 == [target |-> t, version |-> v + 1]
      <3>1. /\ snaps' = snaps \cup {s0} /\ events' = events \cup {e0}
            /\ pub'[t].version = v + 1 /\ pub'[t].hash = Body[c.got] /\ validated'[t] = c.got
        BY <1>4, <1>5, <1>6, <1>13, <2>2
      <3>2. s0.target = t /\ s0.version = v + 1 /\ s0.hash = Body[c.got] /\ e0.version = v + 1
        OBVIOUS
      <3>3. \A i \in 1..(v + 1) : i \in 1..v \/ [target |-> t, version |-> i] = e0
        BY <1>11
      <3> HIDE DEF s0, e0
      <3>4. \E s \in snaps' : s.target = t /\ s.version = v + 1
        BY <3>1, <3>2
      <3>5. \A s \in snaps' : s.target = t =>
              s.version <= v + 1 /\ (s.version = v + 1 => s.hash = Body[c.got])
        BY <1>11, <2>1, <3>1, <3>2
      <3>6. \A e \in events' : e.target = t => e.version <= v + 1
        BY <1>11, <2>1, <3>1, <3>2
      <3>7. \A i \in 1..(v + 1) : [target |-> t, version |-> i] \in events'
        BY <2>1, <3>1, <3>3
      <3>8. v + 1 > 0 /\ v + 1 # 0
        BY <1>11
      <3>9. pub'[t].version = v + 1 /\ pub'[t].hash = Body[validated'[t]] /\ validated'[t] = c.got
        BY <3>1
      <3> QED BY <3>4, <3>5, <3>6, <3>7, <3>8, <3>9 DEF PointerOK
    <2>3. CASE ~ch
      <3>1. /\ pub'[t].version = pub[t].version /\ pub'[t].hash = pub[t].hash
            /\ snaps' = snaps /\ events' = events
        BY Zenon, <1>4, <1>5, <2>3 DEF v
      <3>2. pub[t].version = 0 => pub'[t].quality = "unavailable"
        BY <1>4, <1>12, <2>3 DEF v
      <3>3. pub[t].version > 0 => pub[t].hash = Body[validated'[t]]
        <4>1. CASE c.outcome \in Success
          BY <1>6, <1>12, <2>3, <4>1
        <4>2. CASE c.outcome \notin Success
          BY <1>6, <1>11, <4>2 DEF PointerOK
        <4> QED BY <4>1, <4>2
      <3> QED BY Zenon, <1>11, <3>1, <3>2, <3>3 DEF PointerOK
    <2> QED BY <2>2, <2>3
  <1>17. VersionsDiffer'
    <2>1. CASE ch
      <3> DEFINE s0 == [target |-> t, version |-> v + 1, hash |-> Body[c.got], gen |-> g]
      <3>1. snaps' = snaps \cup {s0} /\ Body[c.got] # pub[t].hash
        BY <1>5, <1>12, <1>13, <2>1
      <3>2. ASSUME NEW s \in snaps', NEW x \in snaps', s.target = x.target, x.version = s.version + 1
            PROVE  s.hash # x.hash
        <4>1. \A y \in snaps : y.target = t =>
                y.version <= v /\ y.version \in Nat /\ (y.version = v => y.hash = pub[t].hash)
          BY <1>11 DEF PointerOK, SnapRow, v
        <4>2. s0.target = t /\ s0.version = v + 1 /\ s0.hash = Body[c.got]
          OBVIOUS
        <4> HIDE DEF s0
        <4>3. CASE x = s0
          BY <1>11, <3>1, <3>2, <4>1, <4>2, <4>3
        <4>4. CASE x \in snaps /\ s = s0
          BY <1>11, <3>1, <3>2, <4>1, <4>2, <4>4
        <4>5. CASE x \in snaps /\ s \in snaps
          BY <3>2, <4>5 DEF IInv, VersionsDiffer
        <4> QED BY <3>1, <4>3, <4>4, <4>5
      <3> QED BY <3>2 DEF VersionsDiffer
    <2>2. CASE ~ch
      BY Zenon, <1>5, <2>2 DEF IInv, VersionsDiffer
    <2> QED BY <2>1, <2>2
  <1> QED BY <1>9, <1>10, <1>14, <1>15, <1>16, <1>17 DEF IInv

(* Every step keeps the invariant. *)
LEMMA InvStep ==
  ASSUME IInv, Next
  PROVE  IInv'
  <1>1. TypeOK'
    BY TypeStep DEF IInv
  <1>2. CASE \E t \in Target, w \in Worker : ClaimDue(t, w) \/ ClaimOne(t, w)
    BY Zenon, <1>1, <1>2, ClaimStep DEF ClaimDue, StoreClaimDue, ClaimOne, StoreClaimOne
  <1>3. CASE \E t \in Target, g \in Gen :
               \/ PermitGranted(t, g) \/ FetchBody(t, g) \/ Classify(t, g) \/ Suspect(t, g)
               \/ FetchNotModified(t, g) \/ Confirm(t, g) \/ Observe(t, g)
               \/ \E o \in Fault : FetchFailed(t, g, o)
    BY <1>1, <1>3, FetchSteps
  <1>4. CASE \E t \in Target, g \in Gen, d \in Delay : Commit(t, g, d)
    BY <1>1, <1>4, CommitStep
  <1>5. CASE Prune
    BY <1>1, <1>5, PruneStep
  <1> QED BY NextCases, <1>1, <1>2, <1>3, <1>4, <1>5, HarmlessSteps

(* The inductive invariant holds in every reachable state of the scraper:   *)
(* seeding establishes it, and every transaction of the repository and      *)
(* every step of RunClaimedWithRelease preserves it.                        *)
THEOREM Invariance == Spec => []IInv
  <1>1. Init => IInv
    <2> SUFFICES ASSUME Init PROVE IInv
      OBVIOUS
    <2>1. TypeOK
      BY InitType
    <2>2. ASSUME NEW t \in Target, NEW g \in Gen
          PROVE  ~Holds(t, g)
      BY <2>2 DEF Init, Holds, In, NoRun
    <2>3. ASSUME NEW t \in Target
          PROVE  validated[t] <= up[t] /\ AcceptedPast(t) /\ PointerOK(t)
      <3>1. /\ pub[t].version = 0 /\ pub[t].hash = NoContent /\ pub[t].quality = "unavailable"
            /\ lease[t].owner = NoWorker /\ lease[t].gen = 0 /\ snaps = {} /\ events = {}
            /\ validated[t] = 0 /\ up[t] = 0 /\ accepted[t] = 0
        BY DEF Init, StoreInit
      <3>2. PointerOK(t)
        BY <3>1 DEF PointerOK
      <3> QED BY <3>1, <3>2 DEF AcceptedPast
    <2>4. VersionsDiffer
      BY DEF Init, StoreInit, VersionsDiffer
    <2> QED BY <2>1, <2>2, <2>3, <2>4 DEF IInv, ViewFresh
  <1>2. IInv /\ UNCHANGED vars => IInv'
    <2> SUFFICES ASSUME IInv, UNCHANGED vars PROVE IInv'
      OBVIOUS
    <2>1. TypeOK'
      BY DEF vars, IInv, TypeOK, StoreTypeOK
    <2>2. UNCHANGED <<pub, snaps, events, validated, accepted, up, lease, run>>
      BY DEF vars
    <2>3. \A t \in Target : up[t] \in Int
      BY Numbers DEF IInv
    <2>4. \A t \in Target : up'[t] >= up[t]
      BY <2>2, <2>3
    <2> QED BY <2>1, <2>2, <2>4, Harmless
  <1> QED BY <1>1, <1>2, InvStep, PTL DEF Spec

----------------------------------------------------------------------------
(* What follows *)

(* The copy a run made of its target when it claimed it is still the row as *)
(* long as the lease allows its commit: the fence that Commit applies at    *)
(* the end protects the comparison RunClaimedWithRelease made earlier.      *)
THEOREM ViewsStayFresh == Spec => []ViewFresh
  <1>1. IInv => ViewFresh
    BY DEF IInv
  <1> QED BY <1>1, Invariance, PTL

(* Pointer, version table and outbox agree after every Commit and Prune. *)
THEOREM PointersConsistent == Spec => []PointerConsistent
  <1>1. ASSUME IInv
        PROVE  PointerConsistent
    <2>1. ASSUME NEW t \in Target
          PROVE  {e.version : e \in {x \in events : x.target = t}} = 1..pub[t].version
      <3> DEFINE E == {e.version : e \in {x \in events : x.target = t}}
      <3>1. PointerOK(t) /\ events \subseteq Event /\ pub[t].version \in Nat
        BY <1>1 DEF IInv, TypeOK, StoreTypeOK, Pub
      <3>2. ASSUME NEW v \in E
            PROVE  v \in 1..pub[t].version
        BY <3>1, <3>2 DEF PointerOK, Event
      <3>3. ASSUME NEW v \in 1..pub[t].version
            PROVE  v \in E
        <4>1. [target |-> t, version |-> v] \in events
          BY <3>1, <3>3 DEF PointerOK
        <4> QED BY <4>1
      <3> QED BY <3>2, <3>3
    <2>2. ASSUME NEW t \in Target
          PROVE  /\ pub[t].version = 0 => pub[t].hash = NoContent /\ pub[t].quality = "unavailable"
                 /\ pub[t].version > 0 =>
                      \E s \in snaps : s.target = t /\ s.version = pub[t].version /\ s.hash = pub[t].hash
      BY <1>1 DEF IInv, PointerOK
    <2> QED BY <2>1, <2>2 DEF PointerConsistent
  <1> QED BY <1>1, Invariance, PTL

(* Neighbouring versions never carry the same content. *)
THEOREM NeighboursDiffer == Spec => []VersionsDiffer
  <1>1. IInv => VersionsDiffer
    BY DEF IInv
  <1> QED BY <1>1, Invariance, PTL

(* The published payload is the body of the revision validated last. *)
THEOREM PublishedIsServed == Spec => []PublishedWasServed
  <1>1. IInv => PublishedWasServed
    BY DEF IInv, PointerOK, PublishedWasServed
  <1> QED BY <1>1, Invariance, PTL

(* Commits are the only steps that publish or accept anything. *)
LEMMA OnlyCommitsPublish ==
  ASSUME Next, ~\E t \in Target, g \in Gen, d \in Delay : Commit(t, g, d)
  PROVE  UNCHANGED <<pub, validated, accepted>> /\ (UNCHANGED up \/ \E t \in Target : UpstreamChange(t))
  <1> DEFINE Still == pub' = pub /\ validated' = validated /\ accepted' = accepted
             Same == up' = up
  <1>1. ASSUME NEW t \in Target, NEW w \in Worker,
               \/ ClaimDue(t, w) \/ ClaimOne(t, w) \/ SetDueNow(t, w)
               \/ WatchdogRepair(t, w)
        PROVE  Still /\ Same
    BY <1>1 DEF ClaimDue, ClaimOne, StoreClaimDue, StoreClaimOne, TakeLease, StartRun, SetDueNow,
           StoreSetDueNow, WatchdogRepair, StoreRepair
  <1>2. ASSUME NEW t \in Target, NEW g \in Gen,
               \/ PermitGranted(t, g) \/ Released(t, g) \/ Abandoned(t, g) \/ Heartbeat(t, g)
               \/ FetchBody(t, g) \/ Classify(t, g) \/ Suspect(t, g) \/ FetchNotModified(t, g)
               \/ Confirm(t, g) \/ Observe(t, g) \/ CommitRefused(t, g) \/ Finish(t, g)
        PROVE  Still /\ Same
    BY Zenon, <1>2 DEF PermitGranted, Released, Abandoned, Heartbeat, FetchBody, Classify, Suspect,
           FetchNotModified, Confirm, Observe, CommitRefused, Finish, InMemoryOnly, runVars,
           storeVars, StoreReleaseLease, StoreRenewLease, StoreCommitRefused
  <1>3. ASSUME NEW t \in Target, NEW g \in Gen, NEW o, FetchFailed(t, g, o) \/ Reschedule(t, g, o)
        PROVE  Still /\ Same
    BY <1>3 DEF FetchFailed, Reschedule, StoreRescheduleLease, InMemoryOnly, storeVars
  <1>4. ASSUME NEW t \in Target, ChildSeen(t) \/ ChildMissing(t)
        PROVE  Still /\ Same
    BY <1>4 DEF ChildSeen, StoreChildSeen, StoreChildSeeded, ChildMissing, StoreChildMissing, runVars
  <1>5. ASSUME Prune \/ PauseElapses \/ Tick
        PROVE  Still /\ Same
    BY <1>5 DEF Prune, StorePruneSnapshot, StorePruneRun, PauseElapses, Tick, StoreTick, runVars, storeVars
  <1>6. ASSUME NEW w \in Worker, Crash(w) \/ WatchdogFind(w)
        PROVE  Still /\ Same
    BY <1>6 DEF Crash, WatchdogFind, storeVars
  <1>7. ASSUME NEW t \in Target, UpstreamChange(t)
        PROVE  Still
    BY <1>7 DEF UpstreamChange, storeVars
  <1> HIDE DEF Still, Same
  <1>8. Still /\ (Same \/ \E t \in Target : UpstreamChange(t))
    BY <1>1, <1>2, <1>3, <1>4, <1>5, <1>6, <1>7, NextCases
  <1> QED BY <1>8 DEF Still, Same

(* They move both the generation and the validated revision forward. *)
LEMMA CommitForward ==
  ASSUME IInv, [Next]_vars, NEW u \in Target
  PROVE  /\ validated'[u] >= validated[u]
         /\ accepted'[u] # accepted[u] => accepted'[u] > accepted[u]
  <1>1. validated[u] \in Int /\ validated \in [Target -> Rev]
        /\ accepted[u] \in Int /\ accepted \in [Target -> 0..MaxGen]
    BY Numbers DEF IInv, TypeOK
  <1>2. CASE UNCHANGED <<validated, accepted>>
    BY <1>1, <1>2
  <1>3. ASSUME NEW t \in Target, NEW g \in Gen, NEW d \in Delay, Commit(t, g, d)
        PROVE  /\ validated'[u] >= validated[u]
               /\ accepted'[u] # accepted[u] => accepted'[u] > accepted[u]
    <2>0. CommitEffect(t, g)
      BY <1>3, CommitFacts
    <2>1. accepted[t] < g
      <3>1. AcceptedPast(t) /\ accepted[t] \in Int /\ lease[t].gen \in Int
        BY Numbers DEF IInv
      <3>2. lease[t].gen = g /\ lease[t].owner # NoWorker
        BY Zenon, <2>0 DEF CommitEffect
      <3> QED BY <3>1, <3>2 DEF AcceptedPast
    <2>2. run[t][g].outcome \in Success => run[t][g].got >= validated[t]
      <3>1. validated[t] \in Int
        BY Numbers DEF IInv
      <3>2. run[t][g].got \in Int /\ (run[t][g].outcome \in Success => validated[t] <= run[t][g].got)
        BY Zenon, <2>0 DEF CommitEffect
      <3> QED BY <3>1, <3>2
    <2>3. /\ accepted'[t] = g
          /\ validated'[t] = IF run[t][g].outcome \in Success THEN run[t][g].got ELSE validated[t]
          /\ \A x \in Target : x # t => accepted'[x] = accepted[x] /\ validated'[x] = validated[x]
      BY Zenon, <2>0 DEF CommitEffect
    <2> QED BY <1>1, <2>1, <2>2, <2>3
  <1>4. CASE Next
    <2>1. CASE \E t \in Target, g \in Gen, d \in Delay : Commit(t, g, d)
      BY Zenon, <1>3, <2>1
    <2>2. CASE ~\E t \in Target, g \in Gen, d \in Delay : Commit(t, g, d)
      BY <1>2, <1>4, <2>2, OnlyCommitsPublish
    <2> QED BY Zenon, <2>1, <2>2
  <1> QED BY <1>2, <1>4 DEF vars

(* A late run never puts older data over newer data. *)
THEOREM NoRegression == Spec => NeverRegresses
  <1>1. ASSUME IInv, [Next]_vars
        PROVE  \A t \in Target : validated'[t] >= validated[t]
    BY <1>1, CommitForward
  <1> QED BY <1>1, Invariance, PTL DEF Spec, NeverRegresses

(* Generations are accepted at most once and in increasing order, although  *)
(* Prune forgets the scrape_runs rows that make Commit idempotent.          *)
THEOREM AcceptanceInOrder == Spec => AcceptedInOrder
  <1>1. ASSUME IInv, [Next]_vars
        PROVE  \A t \in Target : accepted'[t] # accepted[t] => accepted'[t] > accepted[t]
    BY <1>1, CommitForward
  <1> QED BY <1>1, Invariance, PTL DEF Spec, AcceptedInOrder

(* The published columns of the scraper implement the versioned feed: an    *)
(* accepted success is one validation, every other step is invisible.       *)
THEOREM Refinement == Spec => ImplementsFeed
  <1>1. ASSUME Init
        PROVE  Feed!Init
    <2>1. /\ up = [t \in Target |-> 0]
          /\ \A t \in Target : pub[t] = [version |-> 0, hash |-> NoContent, seq |-> 0,
                                         quality |-> "unavailable"]
          /\ \A t \in Target : validated[t] = 0
      BY <1>1 DEF Init, StoreInit
    <2> QED BY <2>1 DEF Feed!Init, feed
  <1>2. ASSUME IInv, [Next]_vars
        PROVE  [Feed!Next]_(Feed!feedVars)
    <2>1. CASE UNCHANGED <<up, pub, validated>>
      BY <2>1 DEF Feed!feedVars, feed
    <2>2. ASSUME NEW t \in Target, UpstreamChange(t), UNCHANGED <<pub, validated>>
          PROVE  Feed!Next
      <3>1. Feed!Change(t)
        BY Zenon, <2>2 DEF UpstreamChange, Feed!Change, feed
      <3> QED BY <3>1 DEF Feed!Next
    <2>3. ASSUME NEW t \in Target, NEW g \in Gen, NEW d \in Delay, Commit(t, g, d)
          PROVE  [Feed!Next]_(Feed!feedVars)
      <3> DEFINE c == run[t][g]
      <3>0. CommitEffect(t, g)
        BY <1>2, <2>3, CommitFacts
      <3>1. CASE c.outcome \notin Success
        <4>1. /\ pub'[t].version = pub[t].version /\ pub'[t].hash = pub[t].hash
              /\ pub'[t].seq = pub[t].seq /\ validated'[t] = validated[t] /\ up' = up
              /\ \A u \in Target : u # t => pub'[u] = pub[u] /\ validated'[u] = validated[u]
          BY Zenon, <3>0, <3>1 DEF CommitEffect
        <4>2. feed' = feed
          BY Zenon, <4>1 DEF feed
        <4> QED BY <4>1, <4>2 DEF Feed!feedVars
      <3>2. CASE c.outcome \in Success
        <4>1. /\ c.got \in 0..MaxRev /\ validated[t] <= c.got /\ c.got <= up[t] /\ up' = up
              /\ pub'[t].version = IF Body[c.got] = pub[t].hash THEN pub[t].version ELSE pub[t].version + 1
              /\ pub'[t].hash = Body[c.got] /\ pub'[t].seq = pub[t].seq + 1 /\ validated'[t] = c.got
              /\ \A u \in Target : u # t => pub'[u] = pub[u] /\ validated'[u] = validated[u]
          BY Zenon, <3>0, <3>2 DEF CommitEffect, Rev
        <4>2. Feed!Validate(t, c.got)
          BY ZenonT(30), <4>1 DEF Feed!Validate, feed
        <4> QED BY <4>1, <4>2 DEF Feed!Next
      <3> QED BY <3>1, <3>2
    <2>4. CASE Next
      <3>1. CASE \E t \in Target, g \in Gen, d \in Delay : Commit(t, g, d)
        BY <2>3, <3>1
      <3>2. CASE ~\E t \in Target, g \in Gen, d \in Delay : Commit(t, g, d)
        BY <2>1, <2>2, <2>4, <3>2, OnlyCommitsPublish
      <3> QED BY <3>1, <3>2
    <2> QED BY <1>2, <2>1, <2>4 DEF vars
  <1> QED BY <1>1, <1>2, Invariance, PTL DEF Spec, ImplementsFeed, Feed!Spec
===============================================================================
