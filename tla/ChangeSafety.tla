---------------------------- MODULE ChangeSafety ----------------------------
(***************************************************************************)
(* How the scrape coordinator decides whether a fetched body may replace   *)
(* the published snapshot of one target (scraper/coordinator.go,           *)
(* scraper/validation.go, scraper/canonical.go): the raw-hash fast path,   *)
(* validation against the requested resource, the three rules that make a  *)
(* change suspicious, and the second fetch that has to agree with it.      *)
(*                                                                         *)
(* A body is the set of record identities it lists, an interval of 1..N.   *)
(* Warwick may answer with a short list that is consistent in itself (its  *)
(* own totals agree, so validateCompleteDataTable accepts it) and with the *)
(* list of another resource.  The target is leased for the whole run, so   *)
(* nothing else changes its row.                                           *)
(***************************************************************************)
EXTENDS Naturals, FiniteSets

CONSTANTS
    Kinds,          \* the snapshot kinds the target may have
    N,              \* records Warwick can list
    MaxChanges,     \* bound: how often Warwick's own list changes
    MaxShort,       \* bound: short answers
    MaxForeign,     \* bound: answers for another resource
    MaxUnreadable,  \* bound: failed reads of the previous snapshot
    Days            \* bound: how often the date moves past a course's end

ASSUME SafetyAssumption ==
    /\ Kinds \subseteq {"course_catalog", "course_detail", "session_detail", "student_profiles"}
    /\ N \in Nat \ {0}
    /\ {MaxChanges, MaxShort, MaxForeign, MaxUnreadable, Days} \subseteq Nat

VARIABLES
    kind,    \* target.Ref.Kind
    truth,   \* the records Warwick has for the resource
    day,     \* the date the course status is computed from
    target,  \* the scrape_targets row with its current snapshot
    run,     \* the coordinator's run of the target
    spent    \* how much of each bound is used

vars == <<kind, truth, day, target, run, spent>>

Lists == {lo..hi : lo \in 1..N, hi \in 0..N}
Foreign == {N + 1, N + 2}
Bodies == Lists \cup {Foreign}

-----------------------------------------------------------------------------
(* Fetching and canonicalising *)

\* fetchCourse and fetchSession fill CourseID and SessionID from the request.
Requested == "requested"
Parsed(body) == [key |-> Requested, ids |-> body]

\* Only the catalog's rows carry a value computed from the date.
Canonical(body, d) ==
    [ids |-> body, status |-> IF kind = "course_catalog" THEN d ELSE 0]

\* The kinds that are a plain list.
Counted == {"course_catalog", "student_profiles"}

\* The count that is stored: zero for every kind that is not a plain list.
countRecords(body) ==
    IF kind \in Counted THEN Cardinality(body) ELSE 0

Valid(payload) == payload.key = Requested

\* A profile list may take several pages; the raw hash covers the first one.
PageCounts == IF kind = "student_profiles" THEN {1, 2} ELSE {1}

-----------------------------------------------------------------------------
(* The rules of ClassifyChangeAgainst, with DefaultChangeSafetyPolicy *)

MinimumPreviousCount == 2
DropTooLarge(before, after) == 5 * before > 5 * after + before
MissingTooMany(before, after) == 10 * Cardinality(before \ after) > Cardinality(before)

\* Variant: the empty list is only suspicious from the minimum count on.
SuspiciousFromMinimum(count, known, body) ==
    /\ count >= MinimumPreviousCount
    /\ \/ body = {}
       \/ DropTooLarge(count, Cardinality(body))
       \/ MissingTooMany(known, body)

Suspicious(count, known, body) ==
    /\ count > 0
    /\ \/ body = {}
       \/ /\ count >= MinimumPreviousCount
          /\ \/ DropTooLarge(count, Cardinality(body))
             \/ MissingTooMany(known, body)

-----------------------------------------------------------------------------
(* The run *)

Idle == [pc |-> "idle", body |-> {}, day |-> 0, faults |-> 0,
         steady |-> {}, readable |-> TRUE, confirmed |-> FALSE]

Init ==
    /\ kind \in Kinds
    /\ truth \in {1..n : n \in 0..N}
    /\ day = 0
    /\ target = [has |-> FALSE, ids |-> {}, status |-> 0, count |-> 0]
    /\ run = Idle
    /\ spent = [changes |-> 0, short |-> 0, foreign |-> 0, unreadable |-> 0]

\* Warwick's own list changes; steady keeps what it had all along the run.
Change ==
    /\ spent.changes < MaxChanges
    /\ truth' \in Lists \ {truth}
    /\ run' = [run EXCEPT !.steady = @ \cap truth']
    /\ spent' = [spent EXCEPT !.changes = @ + 1]
    /\ UNCHANGED <<kind, day, target>>

NextDay ==
    /\ day < Days
    /\ day' = day + 1
    /\ UNCHANGED <<kind, truth, target, run, spent>>

\* The ways Warwick may answer a request.
Honest(body) == body = truth /\ UNCHANGED spent
Short(body) ==
    /\ spent.short < MaxShort
    /\ body \in Lists /\ body \subseteq truth /\ body # truth
    /\ spent' = [spent EXCEPT !.short = @ + 1]
OfAnother(body) ==
    /\ kind \in {"course_detail", "session_detail"}
    /\ spent.foreign < MaxForeign
    /\ body = Foreign
    /\ spent' = [spent EXCEPT !.foreign = @ + 1]

Answer(body, faults) ==
    \/ Honest(body) /\ faults = 0
    \/ (Short(body) \/ OfAnother(body)) /\ faults = 1

Fetch ==
    /\ run.pc = "idle"
    /\ \E body \in Bodies, faults \in 0..1 :
          /\ Answer(body, faults)
          /\ run' = [Idle EXCEPT !.pc = "fetched", !.body = body, !.day = day,
                                 !.faults = faults, !.steady = truth]
    /\ UNCHANGED <<kind, truth, day, target>>

\* store.Current, the raw-hash fast path, validation and classification.
Classify ==
    /\ run.pc = "fetched"
    /\ \E readable \in BOOLEAN, pages \in PageCounts :
          /\ ~readable => spent.unreadable < MaxUnreadable
          /\ spent' = [spent EXCEPT !.unreadable = IF readable THEN @ ELSE @ + 1]
          /\ LET known == IF readable /\ target.has THEN target.ids ELSE {}
                 count == IF target.has THEN target.count ELSE 0
                 same == readable /\ target.has /\ run.body = target.ids /\ pages <= 1
             IN run' = IF same
                         THEN [run EXCEPT !.pc = "skipped"]
                       ELSE IF ~Valid(Parsed(run.body))
                         THEN Idle
                       ELSE [run EXCEPT !.readable = readable,
                               !.pc = IF Suspicious(count, known, run.body)
                                        THEN "confirming" ELSE "accepted"]
    /\ UNCHANGED <<kind, truth, day, target>>

\* Variant: the second fetch is compared with what is published.
ConfirmPublished ==
    /\ run.pc = "confirming"
    /\ \E body \in Bodies, faults \in 0..1 :
          /\ Answer(body, faults)
          /\ run' = IF Canonical(body, day) = [ids |-> target.ids, status |-> target.status]
                      THEN [run EXCEPT !.pc = "accepted", !.confirmed = TRUE,
                                       !.faults = @ + faults]
                      ELSE Idle
    /\ UNCHANGED <<kind, truth, day, target>>

\* confirmChange: the second fetch must canonicalise to the same content.
Confirm ==
    /\ run.pc = "confirming"
    /\ \E body \in Bodies, faults \in 0..1 :
          /\ Answer(body, faults)
          /\ run' = IF /\ Canonical(body, day) = Canonical(run.body, run.day)
                       /\ countRecords(body) = countRecords(run.body)
                      THEN [run EXCEPT !.pc = "accepted", !.confirmed = TRUE,
                                       !.faults = @ + faults]
                      ELSE Idle
    /\ UNCHANGED <<kind, truth, day, target>>

\* The confirmation fetch fails: quarantined, the target runs again later.
ConfirmFails ==
    /\ run.pc = "confirming"
    /\ run' = Idle
    /\ UNCHANGED <<kind, truth, day, target, spent>>

\* The commit publishes the body when its hash is a new one.
Commit ==
    /\ run.pc \in {"skipped", "accepted"}
    /\ target' =
         LET new == Canonical(run.body, run.day)
         IN IF /\ run.pc = "accepted"
               /\ ~target.has \/ new # [ids |-> target.ids, status |-> target.status]
              THEN [has |-> TRUE, ids |-> new.ids, status |-> new.status,
                    count |-> countRecords(run.body)]
              ELSE target
    /\ run' = Idle
    /\ UNCHANGED <<kind, truth, day, spent>>

Next == Change \/ NextDay \/ Fetch \/ Classify \/ Confirm \/ ConfirmFails \/ Commit

Spec == Init /\ [][Next]_vars

\* A due target is claimed again and again, and a confirmation fetch that is
\* tried without end does not fail every time.
FairSafetySpec == Spec /\ WF_vars(Fetch \/ Classify \/ Commit) /\ SF_vars(Confirm)

-----------------------------------------------------------------------------
(* Properties *)

\* The state is well formed, and the count a list target is judged by next
\* time is the number of records of the snapshot it serves.
SafetyTypeOK ==
    /\ kind \in Kinds /\ truth \in Lists /\ day \in 0..Days
    /\ target.ids \in Bodies /\ target.status \in 0..Days
    /\ run.pc \in {"idle", "fetched", "skipped", "confirming", "accepted"}
    /\ run.body \in Bodies /\ run.steady \in Lists /\ run.faults \in 0..2
    /\ kind \in Counted => target.count = Cardinality(target.ids)

Lost == (target.ids \cap run.steady) \ target'.ids

LossWithin ==
    kind \in Counted /\ target.has /\ target' # target /\ run.faults <= 1 =>
        /\ target'.ids = {} => Lost = {}
        /\ Cardinality(target.ids) >= MinimumPreviousCount =>
             IF run.readable
               THEN 10 * Cardinality(Lost) <= Cardinality(target.ids)
               ELSE \/ Lost = {}
                    \/ 5 * Cardinality(target'.ids) >= 4 * Cardinality(target.ids)

\* What one wrong answer can do to a published list: of the records that
\* Warwick had throughout the run, a run in which at most one answer was wrong
\* takes away at most a tenth; when the previous snapshot could not be read it
\* still never shrinks the list by more than a fifth; and it never empties it.
\* This is said of the kinds whose records are counted (countRecords).
LossBounded == [][LossWithin]_vars

\* A drop that is real is not quarantined for ever: if the target is run again
\* and again, then once Warwick's list and the date stop changing the snapshot
\* becomes that list and stays it.
TruthPublished == []<>(run.pc = "fetched") => <>[](target.has /\ target.ids = truth)

\* "A previously non-empty dataset becoming empty is never published without
\* an independent confirmation fetch" (ClassifyChangeAgainst).
EmptyIsConfirmed ==
    [][target.ids # {} /\ target'.ids = {} => run.confirmed]_vars

\* The validators "reject a response that was served for a different
\* resource" (ValidatePayload): no such body is ever published.
OwnResourceOnly == target.ids # Foreign

\* On the fast path "the canonical payload cannot have changed": skipping the
\* parser never hides a payload that differs from the published one.
FastPathHidesNothing ==
    run.pc = "skipped" =>
        Canonical(run.body, run.day) = [ids |-> target.ids, status |-> target.status]
=============================================================================
