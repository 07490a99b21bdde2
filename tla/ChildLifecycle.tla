--------------------------- MODULE ChildLifecycle ---------------------------
(***************************************************************************)
(* The children of one parent target (the courses of the catalog, or the   *)
(* sessions of a course).  A parent run reads the listing, its commit      *)
(* seeds the listed children and counts the absent ones                    *)
(* (upsertSeeds, applyChildPresence), and after the commit, in a second    *)
(* transaction that no lease fences, ReconcileLifecycle counts them again  *)
(* in columns of its own.                                                  *)
(*                                                                         *)
(* A slot is a worker's parent run.  holder is the slot with the current   *)
(* lease generation; leases, clocks and the scheduling columns are those   *)
(* of SnapshotStore.                                                       *)
(***************************************************************************)
EXTENDS Integers, FiniteSets

CONSTANTS
  Child, Slot, NoSlot,
  Threshold     \* tombstoneThresholdForChildKind: 2 for sessions, 3 for courses

ASSUME LifecycleAssumption ==
  /\ NoSlot \notin Slot
  /\ Threshold \in Nat \ {0}

VARIABLES
  listed,   \* upstream: the children the parent page lists
  etag,     \* validators of the last committed body: {} or {its listing}
  holder,   \* the slot that holds the parent's lease
  slot,     \* the parent runs
  row,      \* the children's rows of scrape_targets
  absent,   \* history: committed bodies without the child since one had it
  plain     \* history: no run has started under another, been answered 304 or
            \* failed to reconcile

lifeVars == <<listed, etag, holder, slot, row, absent, plain>>

Phase == {"idle", "claimed", "body", "not_modified", "committed"}
State == {"none", "active", "missing", "tombstoned"}

AtMost(a, b) == IF a <= b THEN a ELSE b
Far == Threshold + 1     \* bound of the history counter

LifecycleTypeOK ==
  /\ listed \subseteq Child
  /\ etag \in {{}} \cup {{s} : s \in SUBSET Child}
  /\ holder \in Slot \cup {NoSlot}
  /\ slot \in [Slot -> [phase: Phase, seen: SUBSET Child, changed: BOOLEAN]]
  /\ row \in [Child -> [state: State, enabled: BOOLEAN, missing: 0..2, misses: 0..Threshold]]
  /\ absent \in [Child -> 0..Far] /\ plain \in BOOLEAN

IdleSlot == [phase |-> "idle", seen |-> {}, changed |-> FALSE]
Row(state, enabled) == [state |-> state, enabled |-> enabled, missing |-> 0, misses |-> 0]

LifecycleInit ==
  /\ listed \in SUBSET Child
  /\ etag = {}
  /\ holder = NoSlot
  /\ slot = [s \in Slot |-> IdleSlot]
  /\ row = [c \in Child |-> Row("none", FALSE)]
  /\ absent = [c \in Child |-> 0] /\ plain = TRUE

In(s, phase) == slot[s].phase = phase

----------------------------------------------------------------------------
(* The statements on the children's rows *)

(* upsertSeeds *)
Seeded(c) == IF c.state = "none" THEN Row("active", TRUE)
                                 ELSE [c EXCEPT !.missing = 0, !.enabled = TRUE]

(* applyChildPresence, for a child that is not listed *)
Unlisted(c) ==
  IF c.state = "none" THEN c
  ELSE [c EXCEPT !.missing = AtMost(2, @ + 1), !.enabled = @ /\ c.missing = 0]

(* Variant: only active and missing children are activated *)
ActivatedUnlessTombstoned(c) ==
  IF c.state = "tombstoned" THEN c ELSE [c EXCEPT !.state = "active", !.misses = 0, !.enabled = TRUE]

(* ReconcileLifecycle, for a listed child *)
Activated(c) == [c EXCEPT !.state = "active", !.misses = 0, !.enabled = TRUE]

(* ReconcileLifecycle, for a child that is not listed *)
MarkedMissing(c) ==
  LET last == c.misses + 1 >= Threshold IN
  IF c.state \notin {"active", "missing"} THEN c
  ELSE [c EXCEPT !.state = IF last THEN "tombstoned" ELSE "missing",
                 !.misses = @ + 1,
                 !.enabled = @ /\ ~last]

----------------------------------------------------------------------------
(* The parent's run *)

(* The lease is free; the run that had it may still be under way, or have   *)
(* its reconciliation before it                                             *)
Claim(s) ==
  /\ In(s, "idle")
  /\ holder = NoSlot
  /\ plain' = (plain /\ \A other \in Slot : In(other, "idle"))
  /\ holder' = s
  /\ slot' = [slot EXCEPT ![s].phase = "claimed"]
  /\ UNCHANGED <<listed, etag, row, absent>>

(* The lease expires under its run *)
Expire ==
  /\ holder # NoSlot
  /\ holder' = NoSlot
  /\ UNCHANGED <<listed, etag, slot, row, absent, plain>>

(* The body has changed if the listing has; other content may have *)
FetchBody(s) ==
  /\ In(s, "claimed")
  /\ \E changed \in BOOLEAN :
       /\ changed \/ listed \in etag
       /\ slot' = [slot EXCEPT ![s] = [phase |-> "body", seen |-> listed, changed |-> changed]]
  /\ UNCHANGED <<listed, etag, holder, row, absent, plain>>

(* 304: discoverTargets is not called, the run has seen nothing *)
FetchNotModified(s) ==
  /\ In(s, "claimed")
  /\ listed \in etag
  /\ plain' = FALSE
  /\ slot' = [slot EXCEPT ![s] = [phase |-> "not_modified", seen |-> {}, changed |-> FALSE]]
  /\ UNCHANGED <<listed, etag, holder, row, absent>>

(* A failed fetch, a refused or failing commit, a crash *)
RunFails(s) ==
  /\ slot[s].phase \in {"claimed", "body", "not_modified"}
  /\ slot' = [slot EXCEPT ![s] = IdleSlot]
  /\ holder' = IF holder = s THEN NoSlot ELSE holder
  /\ UNCHANGED <<listed, etag, row, absent, plain>>

(* Variant: the children are counted after every success *)
CommitCountsAlways(s) ==
  LET seen == slot[s].seen IN
  /\ slot[s].phase \in {"body", "not_modified"}
  /\ holder = s
  /\ holder' = NoSlot
  /\ slot' = [slot EXCEPT ![s].phase = "committed"]
  /\ row' = [c \in Child |-> IF c \in seen THEN Seeded(row[c]) ELSE Unlisted(row[c])]
  /\ IF In(s, "body")
       THEN /\ etag' = {seen}
            /\ absent' = [c \in Child |-> IF c \in seen THEN 0 ELSE AtMost(Far, absent[c] + 1)]
       ELSE UNCHANGED <<etag, absent>>
  /\ UNCHANGED <<listed, plain>>

(* The fenced transaction: a body seeds the listed children, a changed body *)
(* counts the absent ones                                                   *)
CommitParent(s) ==
  LET seen == slot[s].seen IN
  /\ slot[s].phase \in {"body", "not_modified"}
  /\ holder = s
  /\ holder' = NoSlot
  /\ slot' = [slot EXCEPT ![s].phase = "committed"]
  /\ IF In(s, "body")
       THEN /\ row' = [c \in Child |-> IF c \in seen THEN Seeded(row[c])
                                    ELSE IF slot[s].changed THEN Unlisted(row[c]) ELSE row[c]]
            /\ etag' = {seen}
            /\ absent' = [c \in Child |-> IF c \in seen THEN 0 ELSE AtMost(Far, absent[c] + 1)]
       ELSE UNCHANGED <<row, etag, absent>>
  /\ UNCHANGED <<listed, plain>>

(* After the commit, without a lease *)
Reconcile(s) ==
  LET seen == slot[s].seen IN
  /\ In(s, "committed")
  /\ slot' = [slot EXCEPT ![s] = IdleSlot]
  /\ row' = [c \in Child |-> IF c \in seen THEN Activated(Seeded(row[c]))
                                           ELSE MarkedMissing(row[c])]
  /\ UNCHANGED <<listed, etag, holder, absent, plain>>

(* lifecycle_reconciliation_failed is only logged; or the process dies *)
ReconcileFails(s) ==
  /\ In(s, "committed")
  /\ slot' = [slot EXCEPT ![s] = IdleSlot]
  /\ plain' = FALSE
  /\ UNCHANGED <<listed, etag, holder, row, absent>>

UpstreamChange ==
  /\ listed' \in SUBSET Child
  /\ UNCHANGED <<etag, holder, slot, row, absent, plain>>

SlotNext(s) ==
  \/ Claim(s) \/ FetchBody(s) \/ FetchNotModified(s) \/ RunFails(s)
  \/ CommitParent(s) \/ Reconcile(s) \/ ReconcileFails(s)

LifecycleNext == UpstreamChange \/ Expire \/ \E s \in Slot : SlotNext(s)

LifecycleSpec == LifecycleInit /\ [][LifecycleNext]_lifeVars

(* The parent is scraped again and again, started runs come to an end, and  *)
(* what is tried infinitely often succeeds at some time: a fetch within its *)
(* lease, a commit, a reconciliation                                        *)
LifecycleFairness ==
  \A s \in Slot :
    /\ WF_lifeVars(Claim(s))
    /\ WF_lifeVars(FetchBody(s) \/ FetchNotModified(s) \/ RunFails(s) \/ CommitParent(s))
    /\ WF_lifeVars(Reconcile(s) \/ ReconcileFails(s))
    /\ SF_lifeVars(holder = s /\ (FetchBody(s) \/ FetchNotModified(s)))
    /\ SF_lifeVars(CommitParent(s))
    /\ SF_lifeVars(Reconcile(s))

FairLifecycleSpec == LifecycleSpec /\ LifecycleFairness

----------------------------------------------------------------------------
(* missing_count, on which a child is switched off, never exceeds the       *)
(* number of committed bodies in a row that did not list the child: 304     *)
(* answers, failed and late reconciliations do not add to it                *)
(* (applyChildPresence is called for changed bodies only).                  *)
MissingCountObserved == \A c \in Child : row[c].missing <= absent[c]

(* A child is tombstoned only after Threshold consecutive parent bodies     *)
(* that do not list it ("the number of consecutive missing observations     *)
(* required before a child target is tombstoned",                           *)
(* tombstoneThresholdForChildKind), and is switched off only after two, as  *)
(* long as parent runs do not overlap, no reconciliation fails and no run   *)
(* is answered with 304, which ReconcileLifecycle takes for a listing       *)
(* without children.                                                        *)
TombstonedWasAbsent ==
  [][plain' => \A c \in Child :
       /\ row[c].state # "tombstoned" /\ row'[c].state = "tombstoned" => absent[c] >= Threshold
       /\ row[c].enabled /\ ~row'[c].enabled => absent'[c] >= AtMost(2, Threshold)]_lifeVars

(* A child that upstream lists for good is active and enabled for good,     *)
(* even if it was tombstoned, and even if a run that overlapped counts it   *)
(* as missing once more after it came back (RunClaimedWithRelease:          *)
(* "reactivates any previously tombstoned children that reappear"), unless  *)
(* the parent is answered with 304 for ever.                                *)
ReappearedIsActive ==
  \A c \in Child :
    <>[](c \in listed /\ \A s \in Slot : ~In(s, "not_modified"))
      => <>[](row[c].state = "active" /\ row[c].enabled)
=============================================================================
