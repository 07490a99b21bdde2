---------------------------- MODULE ListingProofs -----------------------------
(*****************************************************************************)
(* Lists that Warwick answers.  LossBounded for every number of records and  *)
(* every bound on changes, short answers and failed reads: an accepted body  *)
(* either was not suspicious, or two answers agreed on it and one of them was*)
(* Warwick's own list.  The lifecycle of children for every threshold and any*)
(* number of overlapping parent runs.                                        *)
(*****************************************************************************)
EXTENDS ChangeSafety, ChildLifecycle, FiniteSetTheorems, TLAPS

-----------------------------------------------------------------------------
\* What a commit may take away

Records == SUBSET (1..N)

\* The run's and the target's shape, for targets of a list kind.
Shape ==
    /\ kind \in Counted
    /\ truth \in Records
    /\ target \in [has : BOOLEAN, ids : Records, status : Nat, count : Nat]
    /\ target.count = Cardinality(target.ids)
    /\ run \in [pc : {"idle", "fetched", "skipped", "confirming", "accepted"},
                body : Records, day : Nat, faults : 0..2, steady : Records,
                readable : BOOLEAN, confirmed : BOOLEAN]
    /\ day \in Nat
    /\ spent \in [changes : Nat, short : Nat, foreign : Nat, unreadable : Nat]

\* steady is what Warwick still has, and an honest first answer covers it.
Covered ==
    /\ run.pc # "idle" => run.steady \subseteq truth
    /\ run.pc # "idle" /\ run.faults = 0 => run.steady \subseteq run.body
    /\ run.pc \in {"fetched", "confirming"} => ~run.confirmed /\ run.faults <= 1

Known == IF run.readable /\ target.has THEN target.ids ELSE {}
Count == IF target.has THEN target.count ELSE 0

\* Why an accepted body may be published.
Accepted ==
    run.pc = "accepted" =>
        \/ ~Suspicious(Count, Known, run.body)
        \/ run.confirmed /\ (run.faults <= 1 => run.steady \subseteq run.body)

SafetyInv == Shape /\ Covered /\ Accepted

\* An interval of record numbers is a set of record numbers.
LEMMA ListsAreRecords == Lists \subseteq Records
BY SafetyAssumption DEF Lists, Records

\* An answer to a request about a list is a set of records; an answer without
\* fault is all that Warwick has.
LEMMA AnswerKnown ==
    ASSUME NEW body \in Bodies, NEW faults \in 0..1, Shape, Answer(body, faults)
    PROVE  /\ body \in Records
           /\ faults = 0 => body = truth
           /\ spent' \in [changes : Nat, short : Nat, foreign : Nat, unreadable : Nat]
<1>1. ~OfAnother(body)
  BY DEF Shape, Counted, OfAnother
<1>2. CASE Honest(body) /\ faults = 0
  BY <1>2 DEF Honest, Shape
<1>3. CASE Short(body) /\ faults = 1
  BY <1>3, ListsAreRecords DEF Short, Shape
<1> QED
  BY <1>1, <1>2, <1>3 DEF Answer

\* A set of record numbers is finite and its size is a number.
LEMMA RecordsFinite ==
    ASSUME NEW s \in Records
    PROVE  IsFiniteSet(s) /\ Cardinality(s) \in Nat
<1>1. IsFiniteSet(1..N)
  BY FS_Interval, SafetyAssumption
<1>2. IsFiniteSet(s)
  BY <1>1, FS_Subset DEF Records
<1> QED
  BY <1>2, FS_CardinalityType

LEMMA SafetyInit ==
    ASSUME kind \in Counted, Init
    PROVE  SafetyInv
<1>1. truth \in Records
  BY SafetyAssumption DEF Init, Records
<1>2. Cardinality({}) = 0
  BY FS_EmptySet
<1>3. Shape
  BY <1>1, <1>2 DEF Init, Shape, Idle, Records
<1> QED
  BY <1>3 DEF Init, Idle, SafetyInv, Covered, Accepted

LEMMA ChangeKeeps == ASSUME SafetyInv, Change PROVE SafetyInv'
<1> USE DEF SafetyInv
<1>1. truth' \in Records
  BY ListsAreRecords DEF Change
<1>2. Shape'
  BY <1>1 DEF Change, Shape, Records
<1>3. /\ run'.steady = run.steady \cap truth' /\ run'.pc = run.pc /\ run'.body = run.body
      /\ run'.faults = run.faults /\ run'.confirmed = run.confirmed
      /\ run'.readable = run.readable /\ target' = target
  BY DEF Change, Shape
<1>4. Covered'
  BY <1>3 DEF Covered
<1>5. Count' = Count /\ Known' = Known
  BY <1>3 DEF Count, Known
<1>6. Accepted'
  BY <1>3, <1>5 DEF Accepted, Suspicious
<1> QED
  BY <1>2, <1>4, <1>6

LEMMA FetchKeeps == ASSUME SafetyInv, Fetch PROVE SafetyInv'
<1> USE DEF SafetyInv
<1>1. PICK body \in Bodies, faults \in 0..1 :
        /\ Answer(body, faults)
        /\ run' = [Idle EXCEPT !.pc = "fetched", !.body = body, !.day = day,
                               !.faults = faults, !.steady = truth]
  BY DEF Fetch
<1>2. /\ body \in Records
      /\ faults = 0 => body = truth
      /\ spent' \in [changes : Nat, short : Nat, foreign : Nat, unreadable : Nat]
  BY <1>1, AnswerKnown
<1>3. run' = [pc |-> "fetched", body |-> body, day |-> day, faults |-> faults,
              steady |-> truth, readable |-> TRUE, confirmed |-> FALSE]
  BY <1>1 DEF Idle
<1>4. run' \in [pc : {"idle", "fetched", "skipped", "confirming", "accepted"},
               body : Records, day : Nat, faults : 0..2, steady : Records,
               readable : BOOLEAN, confirmed : BOOLEAN]
  BY <1>2, <1>3 DEF Shape
<1>7. Shape'
  BY <1>2, <1>4 DEF Shape, Fetch, Records
<1>5. Covered'
  <2>1. faults <= 1
    OBVIOUS
  <2> QED
    BY <1>2, <1>3, <2>1 DEF Covered, Fetch
<1>6. Accepted'
  BY <1>3 DEF Accepted
<1> QED
  BY <1>5, <1>6, <1>7

\* Whatever leaves the run idle and the rest alone keeps the invariant.
LEMMA IdleKeeps ==
    ASSUME SafetyInv, run' = Idle, UNCHANGED <<kind, truth, day, target>>,
           spent' \in [changes : Nat, short : Nat, foreign : Nat, unreadable : Nat]
    PROVE  SafetyInv'
<1>1. Idle \in [pc : {"idle", "fetched", "skipped", "confirming", "accepted"},
                body : Records, day : Nat, faults : 0..2, steady : Records,
                readable : BOOLEAN, confirmed : BOOLEAN]
  BY DEF Idle, Records
<1>2. Shape'
  BY <1>1 DEF SafetyInv, Shape
<1>3. run'.pc = "idle"
  BY DEF Idle
<1> QED
  BY <1>2, <1>3 DEF SafetyInv, Covered, Accepted

LEMMA ClassifyKeeps == ASSUME SafetyInv, Classify PROVE SafetyInv'
<1>1. PICK readable \in BOOLEAN, pages \in PageCounts :
        /\ spent' = [spent EXCEPT !.unreadable = IF readable THEN @ ELSE @ + 1]
        /\ LET known == IF readable /\ target.has THEN target.ids ELSE {}
               count == IF target.has THEN target.count ELSE 0
               same == readable /\ target.has /\ run.body = target.ids /\ pages <= 1
           IN run' = IF same
                       THEN [run EXCEPT !.pc = "skipped"]
                     ELSE IF ~Valid(Parsed(run.body))
                       THEN Idle
                     ELSE [run EXCEPT !.readable = readable,
                             !.pc = IF Suspicious(count, known, run.body)
                                      THEN "confirming" ELSE "accepted"]
  BY DEF Classify
<1> DEFINE known == IF readable /\ target.has THEN target.ids ELSE {}
           pc == IF Suspicious(Count, known, run.body) THEN "confirming" ELSE "accepted"
<1>2. spent' \in [changes : Nat, short : Nat, foreign : Nat, unreadable : Nat]
  BY <1>1 DEF SafetyInv, Shape
<1>3. Valid(Parsed(run.body))
  BY DEF Valid, Parsed
<1>4. \/ run' = [run EXCEPT !.pc = "skipped"]
      \/ run' = [run EXCEPT !.readable = readable, !.pc = pc]
  BY <1>1, <1>3 DEF Count
<1>5. CASE run' = [run EXCEPT !.pc = "skipped"]
  <2>1. Shape'
    BY <1>2, <1>5 DEF SafetyInv, Shape, Classify
  <2>2. Covered' /\ Accepted'
    BY <1>5 DEF SafetyInv, Shape, Classify, Covered, Accepted
  <2> QED
    BY <2>1, <2>2 DEF SafetyInv
<1>6. CASE run' = [run EXCEPT !.readable = readable, !.pc = pc]
  <2>1. /\ run'.pc = pc /\ run'.readable = readable /\ run'.body = run.body
        /\ run'.steady = run.steady /\ run'.faults = run.faults
        /\ run'.confirmed = run.confirmed /\ target' = target /\ truth' = truth
        /\ pc \in {"confirming", "accepted"} /\ run.pc = "fetched"
    BY <1>6 DEF SafetyInv, Shape, Classify
  <2>2. Shape'
    BY <1>2, <1>6 DEF SafetyInv, Shape, Classify
  <2>3. Covered'
    BY <2>1 DEF SafetyInv, Covered
  <2>4. Count' = Count /\ Known' = known
    BY <2>1 DEF Count, Known
  <2>5. Accepted'
    BY <2>1, <2>4 DEF Accepted
  <2> QED
    BY <2>2, <2>3, <2>5 DEF SafetyInv
<1> QED
  BY <1>4, <1>5, <1>6

LEMMA ConfirmKeeps == ASSUME SafetyInv, Confirm PROVE SafetyInv'
<1>1. PICK body \in Bodies, faults \in 0..1 :
        /\ Answer(body, faults)
        /\ run' = IF /\ Canonical(body, day) = Canonical(run.body, run.day)
                     /\ countRecords(body) = countRecords(run.body)
                    THEN [run EXCEPT !.pc = "accepted", !.confirmed = TRUE,
                                     !.faults = @ + faults]
                    ELSE Idle
  BY DEF Confirm
<1>2. /\ body \in Records
      /\ faults = 0 => body = truth
      /\ spent' \in [changes : Nat, short : Nat, foreign : Nat, unreadable : Nat]
  BY <1>1, AnswerKnown DEF SafetyInv
<1>3. CASE run' = Idle
  BY <1>2, <1>3, IdleKeeps DEF Confirm
<1>4. CASE /\ Canonical(body, day) = Canonical(run.body, run.day)
           /\ run' = [run EXCEPT !.pc = "accepted", !.confirmed = TRUE, !.faults = @ + faults]
  <2>1. body = run.body
    BY <1>4 DEF Canonical
  <2>2. /\ run'.pc = "accepted" /\ run'.confirmed /\ run'.body = run.body
        /\ run'.steady = run.steady /\ run'.faults = run.faults + faults
        /\ run.pc = "confirming" /\ run.faults \in 0..2 /\ truth' = truth
    BY <1>4 DEF SafetyInv, Shape, Confirm
  <2>3. run'.faults <= 1 => run.steady \subseteq run.body
    <3>1. CASE faults = 0
      BY <3>1, <1>2, <2>1, <2>2 DEF SafetyInv, Covered
    <3>2. CASE faults = 1
      BY <3>2, <2>2 DEF SafetyInv, Covered
    <3> QED
      BY <3>1, <3>2
  <2>4. run.faults + faults \in 0..2
    BY <2>2 DEF SafetyInv, Covered
  <2>5. Shape'
    BY <1>2, <1>4, <2>4 DEF SafetyInv, Shape, Confirm
  <2>6. Covered' /\ Accepted'
    BY <2>2, <2>3 DEF SafetyInv, Covered, Accepted
  <2> QED
    BY <2>5, <2>6 DEF SafetyInv
<1> QED
  BY <1>1, <1>3, <1>4

\* The only step that publishes: the snapshot becomes the accepted body.
LEMMA CommitStep ==
    ASSUME SafetyInv, Commit
    PROVE  \/ target' = target
           \/ /\ run.pc = "accepted"
              /\ target' = [has |-> TRUE, ids |-> run.body,
                            status |-> Canonical(run.body, run.day).status,
                            count |-> Cardinality(run.body)]
BY DEF Commit, Canonical, countRecords, Counted, SafetyInv, Shape

LEMMA CommitKeeps == ASSUME SafetyInv, Commit PROVE SafetyInv'
<1>1. /\ target' \in [has : BOOLEAN, ids : Records, status : Nat, count : Nat]
      /\ target'.count = Cardinality(target'.ids)
  <2>1. CASE target' = target
    BY <2>1 DEF SafetyInv, Shape
  <2>2. CASE target' = [has |-> TRUE, ids |-> run.body,
                        status |-> Canonical(run.body, run.day).status,
                        count |-> Cardinality(run.body)]
    <3>1. run.body \in Records /\ Cardinality(run.body) \in Nat
      BY RecordsFinite DEF SafetyInv, Shape
    <3>2. Canonical(run.body, run.day).status \in Nat
      BY DEF Canonical, SafetyInv, Shape
    <3> QED
      BY <2>2, <3>1, <3>2
  <2> QED
    BY <2>1, <2>2, CommitStep
<1>2. Idle \in [pc : {"idle", "fetched", "skipped", "confirming", "accepted"},
                body : Records, day : Nat, faults : 0..2, steady : Records,
                readable : BOOLEAN, confirmed : BOOLEAN]
  BY DEF Idle, Records
<1>3. Shape'
  BY <1>1, <1>2 DEF Commit, SafetyInv, Shape, Records
<1>4. run'.pc = "idle"
  BY DEF Commit, Idle
<1> QED
  BY <1>3, <1>4 DEF SafetyInv, Covered, Accepted

LEMMA NextKeeps == ASSUME SafetyInv, [Next]_vars PROVE SafetyInv'
<1>1. CASE Change
  BY <1>1, ChangeKeeps
<1>2. CASE NextDay
  BY <1>2 DEF NextDay, SafetyInv, Shape, Covered, Accepted, Suspicious, Count, Known
<1>3. CASE Fetch
  BY <1>3, FetchKeeps
<1>4. CASE Classify
  BY <1>4, ClassifyKeeps
<1>5. CASE Confirm
  BY <1>5, ConfirmKeeps
<1>6. CASE ConfirmFails
  BY <1>6, IdleKeeps DEF ConfirmFails, SafetyInv, Shape
<1>7. CASE Commit
  BY <1>7, CommitKeeps
<1>8. CASE UNCHANGED vars
  BY <1>8 DEF vars, SafetyInv, Shape, Covered, Accepted, Suspicious, Count, Known
<1> QED
  BY <1>1, <1>2, <1>3, <1>4, <1>5, <1>6, <1>7, <1>8 DEF Next

\* A published body satisfies the bound for one of the two reasons it was
\* accepted for.
LEMMA CommitBounded == ASSUME SafetyInv, Commit PROVE LossWithin
<1> SUFFICES ASSUME target.has, target' # target, run.faults <= 1
             PROVE  /\ target'.ids = {} => Lost = {}
                    /\ Cardinality(target.ids) >= MinimumPreviousCount =>
                         IF run.readable
                           THEN 10 * Cardinality(Lost) <= Cardinality(target.ids)
                           ELSE \/ Lost = {}
                                \/ 5 * Cardinality(target'.ids) >= 4 * Cardinality(target.ids)
  BY DEF LossWithin
<1>1. run.pc = "accepted" /\ target'.ids = run.body
  BY CommitStep
<1>2. /\ target.ids \in Records /\ run.body \in Records
      /\ target.count = Cardinality(target.ids)
  BY DEF SafetyInv, Shape
<1>3. /\ IsFiniteSet(target.ids) /\ Cardinality(target.ids) \in Nat
      /\ Cardinality(run.body) \in Nat
  BY <1>2, RecordsFinite
<1>4. Lost \subseteq target.ids \ run.body
  BY <1>1 DEF Lost
<1>5. CASE run.steady \subseteq run.body
  <2>1. Lost = {}
    BY <1>1, <1>5 DEF Lost
  <2>2. Cardinality(Lost) = 0
    BY <2>1, FS_EmptySet
  <2> QED
    BY <2>1, <2>2, <1>3 DEF MinimumPreviousCount
<1>6. CASE ~Suspicious(Count, Known, run.body)
  <2>1. Count = Cardinality(target.ids)
    BY <1>2 DEF Count
  <2>2. CASE Cardinality(target.ids) = 0
    <3>1. target.ids = {}
      BY <2>2, <1>3, FS_EmptySet
    <3> QED
      BY <3>1, <2>2, <1>4 DEF MinimumPreviousCount
  <2>3. CASE Cardinality(target.ids) > 0
    <3>1. run.body # {}
      BY <1>6, <2>1, <2>3 DEF Suspicious
    <3>2. CASE Cardinality(target.ids) >= MinimumPreviousCount
      <4>1. /\ ~DropTooLarge(Cardinality(target.ids), Cardinality(run.body))
            /\ ~MissingTooMany(Known, run.body)
        BY <1>6, <2>1, <2>3, <3>2 DEF Suspicious
      <4>2. 5 * Cardinality(run.body) >= 4 * Cardinality(target.ids)
        BY <4>1, <1>3 DEF DropTooLarge
      <4>3. CASE run.readable
        <5>1. 10 * Cardinality(target.ids \ run.body) <= Cardinality(target.ids)
          <6>1. Known = target.ids
            BY <4>3 DEF Known
          <6>2. Cardinality(target.ids \ run.body) \in Nat
            BY <1>3, FS_Difference, FS_CardinalityType
          <6> QED
            BY <4>1, <6>1, <6>2, <1>3 DEF MissingTooMany
        <5>2. IsFiniteSet(target.ids \ run.body)
          BY <1>3, FS_Subset
        <5>3. Cardinality(Lost) <= Cardinality(target.ids \ run.body)
          BY <5>2, <1>4, FS_Subset
        <5>4. Cardinality(Lost) \in Nat /\ Cardinality(target.ids \ run.body) \in Nat
          BY <5>2, <1>4, FS_Subset, FS_CardinalityType
        <5>5. 10 * Cardinality(Lost) <= Cardinality(target.ids)
          BY <5>1, <5>3, <5>4, <1>3
        <5> QED
          BY <5>5, <4>3, <3>1, <1>1
      <4>4. CASE ~run.readable
        BY <4>2, <4>4, <3>1, <1>1
      <4> QED
        BY <4>3, <4>4
    <3>3. CASE ~(Cardinality(target.ids) >= MinimumPreviousCount)
      BY <3>1, <3>3, <1>1
    <3> QED
      BY <3>2, <3>3
  <2> QED
    BY <2>2, <2>3, <1>3
<1> QED
  BY <1>1, <1>5, <1>6 DEF SafetyInv, Accepted

\* No run with at most one wrong answer takes more than the allowed part of a
\* published list away, whatever the size of the list.  A target keeps its kind,
\* and LossBounded is about the kinds whose records are counted.
THEOREM LossIsBounded == Spec => LossBounded
<1> DEFINE Inv == kind \in Counted => SafetyInv
<1>1. Init => Inv
  BY SafetyInit
<1>2. [Next]_vars => kind' = kind
  BY DEF Next, Change, NextDay, Fetch, Classify, Confirm, ConfirmFails, Commit, vars
<1>3. Inv /\ [Next]_vars => Inv'
  <2> SUFFICES ASSUME Inv, [Next]_vars, kind' \in Counted PROVE SafetyInv'
    BY DEF Counted
  <2> QED
    BY <1>2, NextKeeps DEF Counted
<1>4. Inv /\ [Next]_vars => [LossWithin]_vars
  <2> SUFFICES ASSUME Inv, Next, kind \in Counted PROVE LossWithin
    BY DEF LossWithin
  <2>1. CASE Commit
    BY <2>1, CommitBounded
  <2>2. CASE ~Commit
    BY <2>2 DEF Next, Change, NextDay, Fetch, Classify, Confirm, ConfirmFails, LossWithin
  <2> QED
    BY <2>1, <2>2
<1> QED
  BY <1>1, <1>3, <1>4, PTL DEF Spec, LossBounded

-----------------------------------------------------------------------------
\* The lifecycle of children

ChildRow == [state : State, enabled : BOOLEAN, missing : 0..2, misses : 0..Threshold]
SlotRow == [phase : Phase, seen : SUBSET Child, changed : BOOLEAN]

\* ReconcileLifecycle may still count the child.
Counting(c) == row[c].state \in {"active", "missing"}

\* While nothing unusual has happened one run is under way at a time, and the
\* lifecycle counter of a child is not ahead of the bodies that lacked it: it is
\* one behind between a commit and its reconciliation.
Orderly ==
    /\ \A s, t \in Slot : ~In(s, "idle") /\ ~In(t, "idle") => s = t
    /\ \A s \in Slot : ~In(s, "not_modified")
    /\ (\A s \in Slot : ~In(s, "committed")) =>
          \A c \in Child : Counting(c) => row[c].misses <= absent[c]
    /\ \A s \in Slot : In(s, "committed") =>
          \A c \in Child \ slot[s].seen : Counting(c) => row[c].misses < absent[c]

LifecycleInv ==
    /\ LifecycleTypeOK
    /\ MissingCountObserved
    /\ \A c \in Child : Counting(c) => row[c].misses < Threshold
    /\ plain => Orderly

\* upsertSeeds on one row.
LEMMA SeededRow ==
    ASSUME NEW c \in ChildRow
    PROVE  /\ Seeded(c) \in ChildRow /\ Seeded(c).missing = 0 /\ Seeded(c).enabled
           /\ IF c.state = "none" THEN Seeded(c).state = "active" /\ Seeded(c).misses = 0
              ELSE Seeded(c).state = c.state /\ Seeded(c).misses = c.misses
<1>1. CASE c.state = "none"
  <2>1. Seeded(c) = [state |-> "active", enabled |-> TRUE, missing |-> 0, misses |-> 0]
    BY <1>1 DEF Seeded, Row
  <2>2. 0 \in 0..Threshold
    BY LifecycleAssumption
  <2>3. QED
    BY <1>1, <2>1, <2>2 DEF ChildRow, State
<1>2. CASE c.state # "none"
  <2>1. PICK n \in 0..2, b \in BOOLEAN :
           n = 0 /\ b = TRUE /\ Seeded(c) = [c EXCEPT !.missing = n, !.enabled = b]
    <3>1. 0 \in 0..2 /\ Seeded(c) = [c EXCEPT !.missing = 0, !.enabled = TRUE]
      BY <1>2 DEF Seeded
    <3>2. QED
      BY <3>1
  <2> DEFINE d == [c EXCEPT !.missing = n, !.enabled = b]
  <2>2. d \in ChildRow /\ d.missing = n /\ d.enabled = b /\ d.state = c.state /\ d.misses = c.misses
    BY <2>1 DEF ChildRow
  <2>3. Seeded(c) = d
    BY <2>1
  <2> HIDE DEF d
  <2>4. QED
    BY <1>2, <2>1, <2>2, <2>3
<1>3. QED
  BY <1>1, <1>2

\* applyChildPresence on the row of a child that is not listed.
LEMMA UnlistedRow ==
    ASSUME NEW c \in ChildRow
    PROVE  /\ Unlisted(c) \in ChildRow /\ Unlisted(c).missing <= c.missing + 1
           /\ Unlisted(c).state = c.state /\ Unlisted(c).misses = c.misses
           /\ c.enabled /\ ~Unlisted(c).enabled => c.missing > 0
<1>1. CASE c.state = "none"
  BY <1>1 DEF Unlisted, ChildRow
<1>2. CASE c.state # "none"
  <2>1. PICK n \in 0..2 : n = AtMost(2, c.missing + 1) /\ n <= c.missing + 1
    BY DEF ChildRow, AtMost
  <2>2. PICK b \in BOOLEAN : b = (c.enabled /\ c.missing = 0)
    OBVIOUS
  <2> DEFINE d == [c EXCEPT !.missing = n, !.enabled = b]
  <2>3. Unlisted(c) = d
    BY <1>2, <2>1, <2>2 DEF Unlisted
  <2>4. d \in ChildRow /\ d.missing = n /\ d.enabled = b /\ d.state = c.state /\ d.misses = c.misses
    BY <2>1, <2>2 DEF ChildRow
  <2> HIDE DEF d
  <2>5. c.enabled /\ ~b => c.missing > 0
    BY <2>2 DEF ChildRow
  <2>6. QED
    BY <2>1, <2>3, <2>4, <2>5
<1>3. QED
  BY <1>1, <1>2

\* ReconcileLifecycle on the row of a listed child.
LEMMA ActivatedRow ==
    ASSUME NEW c \in ChildRow
    PROVE  /\ Activated(c) \in ChildRow /\ Activated(c).state = "active" /\ Activated(c).enabled
           /\ Activated(c).misses = 0 /\ Activated(c).missing = c.missing
<1>1. 0 \in 0..Threshold
  BY LifecycleAssumption
<1>2. QED
  BY <1>1 DEF Activated, ChildRow, State

\* ReconcileLifecycle on the row of a child that is not listed.
LEMMA MarkedRow ==
    ASSUME NEW c \in ChildRow, c.state \in {"active", "missing"} => c.misses < Threshold
    PROVE  /\ MarkedMissing(c) \in ChildRow /\ MarkedMissing(c).missing = c.missing
           /\ c.state \notin {"active", "missing"} => MarkedMissing(c) = c
           /\ c.state \in {"active", "missing"} =>
                 /\ MarkedMissing(c).misses = c.misses + 1
                 /\ MarkedMissing(c).state =
                       IF c.misses + 1 >= Threshold THEN "tombstoned" ELSE "missing"
                 /\ c.enabled /\ ~MarkedMissing(c).enabled => c.misses + 1 >= Threshold
<1>1. CASE c.state \notin {"active", "missing"}
  BY <1>1 DEF MarkedMissing
<1>2. CASE c.state \in {"active", "missing"}
  <2> DEFINE last == c.misses + 1 >= Threshold
             n == c.misses + 1
             st == IF last THEN "tombstoned" ELSE "missing"
  <2>1. n \in 0..Threshold /\ st \in State
    BY <1>2, LifecycleAssumption DEF ChildRow, State
  <2>2. PICK b \in BOOLEAN : b = (c.enabled /\ ~last)
    OBVIOUS
  <2>3. MarkedMissing(c) = [c EXCEPT !.state = st, !.misses = n, !.enabled = b]
    BY <1>2, <2>2 DEF MarkedMissing
  <2>4. c.enabled /\ ~b => last
    BY <2>2
  <2>5. st = IF c.misses + 1 >= Threshold THEN "tombstoned" ELSE "missing"
    OBVIOUS
  <2> HIDE DEF last, st, n
  <2> DEFINE d == [c EXCEPT !.state = st, !.misses = n, !.enabled = b]
  <2>6. d \in ChildRow /\ d.state = st /\ d.misses = n /\ d.enabled = b /\ d.missing = c.missing
    BY <2>1, <2>2 DEF ChildRow
  <2> HIDE DEF d
  <2>7. QED
    BY <1>2, <2>3, <2>4, <2>5, <2>6 DEF last, n, d
<1>3. QED
  BY <1>1, <1>2

\* What a step of LifecycleNext does to the children's rows and to absent, in
\* the way the invariant needs it.
LEMMA CommitCounts ==
    ASSUME LifecycleInv, NEW s \in Slot, CommitParent(s), In(s, "body"), NEW c \in Child
    PROVE  /\ row'[c] \in ChildRow /\ absent'[c] \in 0..Far
           /\ row'[c].missing <= absent'[c]
           /\ Counting(c)' => row'[c].misses < Threshold
           /\ c \notin slot[s].seen /\ Counting(c)' /\ (Counting(c) => row[c].misses <= absent[c])
                 => row'[c].misses < absent'[c]
           /\ row'[c].state = "tombstoned" => row[c].state = "tombstoned"
           /\ row[c].enabled /\ ~row'[c].enabled => absent'[c] >= 2
<1>1. /\ row[c] \in ChildRow /\ absent[c] \in 0..Far /\ row[c].missing <= absent[c]
      /\ Threshold \in Nat /\ Threshold >= 1 /\ Far = Threshold + 1
      /\ row[c].state \in {"active", "missing"} => row[c].misses < Threshold
  BY LifecycleAssumption DEF LifecycleInv, LifecycleTypeOK, ChildRow, MissingCountObserved,
                             Counting, Far
<1>2. CASE c \in slot[s].seen
  <2>1. row'[c] = Seeded(row[c]) /\ absent'[c] = 0
    BY <1>2 DEF CommitParent
  <2>2. QED
    BY <1>1, <1>2, <2>1, SeededRow DEF Counting
<1>3. CASE c \notin slot[s].seen
  <2>1. /\ row'[c] = row[c] \/ row'[c] = Unlisted(row[c])
        /\ absent'[c] = AtMost(Far, absent[c] + 1)
    BY <1>3 DEF CommitParent
  <2>2. absent'[c] \in 0..Far /\ (absent'[c] = absent[c] + 1 \/ absent'[c] = Threshold + 1)
    BY <1>1, <2>1 DEF AtMost
  <2>3. row[c].missing \in 0..2 /\ row[c].misses \in 0..Threshold
    BY <1>1 DEF ChildRow
  <2>4. /\ row'[c] \in ChildRow /\ row'[c].missing <= row[c].missing + 1
        /\ row'[c].state = row[c].state /\ row'[c].misses = row[c].misses
        /\ row[c].enabled /\ ~row'[c].enabled => row[c].missing > 0
    BY <1>1, <2>1, <2>3, UnlistedRow
  <2>5. row'[c].missing <= absent'[c]
    <3>1. row'[c].missing \in 0..2
      BY <2>4 DEF ChildRow
    <3>2. QED
      BY <1>1, <2>2, <2>3, <2>4, <3>1
  <2>6. Counting(c) = Counting(c)'
    BY <2>4 DEF Counting
  <2>7. Counting(c) => row[c].misses < Threshold
    BY <1>1 DEF Counting
  <2>8. (row[c].misses <= absent[c] /\ row[c].misses < Threshold) => row[c].misses < absent'[c]
    BY <1>1, <2>2, <2>3
  <2>9. row[c].missing > 0 => absent'[c] >= 2
    BY <1>1, <2>2, <2>3
  <2>10. QED
    BY <1>3, <2>2, <2>4, <2>5, <2>6, <2>7, <2>8, <2>9
<1>4. QED
  BY <1>2, <1>3

LEMMA ReconcileCounts ==
    ASSUME LifecycleInv, NEW s \in Slot, Reconcile(s), NEW c \in Child
    PROVE  /\ row'[c] \in ChildRow /\ row'[c].missing <= row[c].missing
           /\ Counting(c)' => row'[c].misses < Threshold
           /\ Counting(c)' => \/ row'[c].misses = 0
                              \/ /\ c \notin slot[s].seen /\ Counting(c)
                                 /\ row'[c].misses = row[c].misses + 1
           /\ \/ row[c].state # "tombstoned" /\ row'[c].state = "tombstoned"
              \/ row[c].enabled /\ ~row'[c].enabled
              => c \notin slot[s].seen /\ Counting(c) /\ row[c].misses + 1 >= Threshold
<1>1. /\ row[c] \in ChildRow /\ row[c].missing \in 0..2 /\ row[c].misses \in 0..Threshold
      /\ Threshold \in Nat /\ Threshold >= 1
      /\ row[c].state \in {"active", "missing"} => row[c].misses < Threshold
  BY LifecycleAssumption DEF LifecycleInv, LifecycleTypeOK, ChildRow, Counting
<1>2. CASE c \in slot[s].seen
  <2>1. row'[c] = Activated(Seeded(row[c]))
    BY <1>2 DEF Reconcile
  <2>2. Seeded(row[c]) \in ChildRow /\ Seeded(row[c]).missing = 0
    BY <1>1, SeededRow
  <2>3. row'[c] \in ChildRow /\ row'[c].state = "active" /\ row'[c].enabled /\ row'[c].misses = 0
        /\ row'[c].missing = 0
    BY <2>1, <2>2, ActivatedRow
  <2>4. QED
    BY <1>1, <2>3 DEF Counting
<1>3. CASE c \notin slot[s].seen
  <2>1. row'[c] = MarkedMissing(row[c])
    BY <1>3 DEF Reconcile
  <2>2. CASE row[c].state \notin {"active", "missing"}
    <3>1. row'[c] = row[c]
      BY <1>1, <2>1, <2>2, MarkedRow
    <3>2. QED
      BY <1>1, <2>2, <3>1 DEF Counting
  <2>3. CASE row[c].state \in {"active", "missing"}
    <3>1. /\ row'[c] \in ChildRow /\ row'[c].missing = row[c].missing
          /\ row'[c].misses = row[c].misses + 1
          /\ row'[c].state = IF row[c].misses + 1 >= Threshold THEN "tombstoned" ELSE "missing"
          /\ row[c].enabled /\ ~row'[c].enabled => row[c].misses + 1 >= Threshold
      BY <1>1, <2>1, <2>3, MarkedRow
    <3>2. QED
      BY <1>1, <1>3, <2>3, <3>1 DEF Counting
  <2>4. QED
    BY <2>2, <2>3
<1>4. QED
  BY <1>2, <1>3

\* A run that comes to rest, or moves on without a commit, leaves the children
\* as they are.
LEMMA SlotMoves ==
    ASSUME LifecycleInv, NEW s \in Slot, UNCHANGED <<row, absent>>,
           LifecycleTypeOK', plain' => plain,
           \A t \in Slot \ {s} : slot'[t] = slot[t],
           plain' => /\ slot'[s].phase \notin {"committed", "not_modified"}
                     /\ In(s, "idle") => \A t \in Slot : In(t, "idle")
                     /\ ~In(s, "committed")
    PROVE  LifecycleInv'
<1>1. ASSUME plain' PROVE Orderly'
  <2>1. Orderly /\ \A c \in Child : Counting(c)' = Counting(c)
    BY <1>1 DEF LifecycleInv, Counting
  <2>2. \A t, u \in Slot : ~In(t, "idle")' /\ ~In(u, "idle")' => t = u
    BY <1>1, <2>1 DEF Orderly, In
  <2>3. \A t \in Slot : ~In(t, "not_modified")'
    BY <1>1, <2>1 DEF Orderly, In
  <2>4. \A t \in Slot : In(t, "committed")' <=> In(t, "committed")
    BY <1>1 DEF In
  <2>5. \A t \in Slot : In(t, "committed") => slot'[t] = slot[t]
    BY <1>1 DEF In
  <2>6. QED
    BY <2>1, <2>2, <2>3, <2>4, <2>5 DEF Orderly
<1>2. QED
  BY <1>1 DEF LifecycleInv, MissingCountObserved, Counting

LEMMA LifecycleStep == LifecycleInv /\ [LifecycleNext]_lifeVars => LifecycleInv'
<1> SUFFICES ASSUME LifecycleInv, [LifecycleNext]_lifeVars PROVE LifecycleInv'
  OBVIOUS
<1>1. /\ LifecycleTypeOK /\ slot \in [Slot -> SlotRow] /\ row \in [Child -> ChildRow]
      /\ absent \in [Child -> 0..Far] /\ IdleSlot \in SlotRow /\ IdleSlot.phase = "idle"
  BY DEF LifecycleInv, LifecycleTypeOK, SlotRow, ChildRow, IdleSlot, Phase
<1>2. CASE UNCHANGED <<slot, row, absent, plain>> /\ LifecycleTypeOK'
  BY <1>2 DEF LifecycleInv, MissingCountObserved, Counting, Orderly, In
<1>3. CASE UpstreamChange \/ Expire \/ UNCHANGED lifeVars
  BY <1>1, <1>2, <1>3 DEF UpstreamChange, Expire, lifeVars, LifecycleTypeOK
<1>4. ASSUME NEW s \in Slot, Claim(s) PROVE LifecycleInv'
  <2>1. /\ slot' = [slot EXCEPT ![s].phase = "claimed"] /\ holder' = s
        /\ plain' = (plain /\ \A other \in Slot : In(other, "idle"))
        /\ UNCHANGED <<listed, etag, row, absent>>
    BY <1>4 DEF Claim
  <2>2. slot' \in [Slot -> SlotRow] /\ slot'[s].phase = "claimed"
        /\ \A t \in Slot \ {s} : slot'[t] = slot[t]
    BY <1>1, <2>1 DEF SlotRow, Phase
  <2>3. LifecycleTypeOK'
    BY <1>1, <2>1, <2>2 DEF LifecycleTypeOK, SlotRow
  <2>4. QED
    BY <1>4, <2>1, <2>2, <2>3, SlotMoves DEF Claim, In
<1>5. ASSUME NEW s \in Slot, FetchBody(s) PROVE LifecycleInv'
  <2>1. PICK changed \in BOOLEAN :
           slot' = [slot EXCEPT ![s] = [phase |-> "body", seen |-> listed, changed |-> changed]]
    BY <1>5 DEF FetchBody
  <2>2. listed \subseteq Child /\ UNCHANGED <<listed, etag, holder, row, absent, plain>>
        /\ In(s, "claimed")
    BY <1>1, <1>5 DEF FetchBody, LifecycleTypeOK
  <2>3. slot' \in [Slot -> SlotRow] /\ slot'[s].phase = "body"
        /\ \A t \in Slot \ {s} : slot'[t] = slot[t]
    BY <1>1, <2>1, <2>2 DEF SlotRow, Phase
  <2>4. LifecycleTypeOK'
    BY <1>1, <2>2, <2>3 DEF LifecycleTypeOK, SlotRow
  <2>5. QED
    BY <2>2, <2>3, <2>4, SlotMoves DEF In
<1>6. ASSUME NEW s \in Slot, FetchNotModified(s) PROVE LifecycleInv'
  <2>1. /\ slot' = [slot EXCEPT ![s] = [phase |-> "not_modified", seen |-> {}, changed |-> FALSE]]
        /\ plain' = FALSE /\ UNCHANGED <<listed, etag, holder, row, absent>>
    BY <1>6 DEF FetchNotModified
  <2>2. slot' \in [Slot -> SlotRow] /\ \A t \in Slot \ {s} : slot'[t] = slot[t]
    BY <1>1, <2>1 DEF SlotRow, Phase
  <2>3. LifecycleTypeOK'
    BY <1>1, <2>1, <2>2 DEF LifecycleTypeOK, SlotRow
  <2>4. QED
    BY <2>1, <2>2, <2>3, SlotMoves
<1>7. ASSUME NEW s \in Slot, RunFails(s) PROVE LifecycleInv'
  <2>1. /\ slot' = [slot EXCEPT ![s] = IdleSlot] /\ holder' \in {holder, NoSlot}
        /\ UNCHANGED <<listed, etag, row, absent, plain>>
        /\ slot[s].phase \in {"claimed", "body", "not_modified"}
    BY <1>7 DEF RunFails
  <2>2. slot' \in [Slot -> SlotRow] /\ slot'[s].phase = "idle"
        /\ \A t \in Slot \ {s} : slot'[t] = slot[t]
    BY <1>1, <2>1
  <2>3. LifecycleTypeOK'
    BY <1>1, <2>1, <2>2 DEF LifecycleTypeOK, SlotRow
  <2>4. QED
    BY <2>1, <2>2, <2>3, SlotMoves DEF In
<1>8. ASSUME NEW s \in Slot, ReconcileFails(s) PROVE LifecycleInv'
  <2>1. /\ slot' = [slot EXCEPT ![s] = IdleSlot] /\ plain' = FALSE
        /\ UNCHANGED <<listed, etag, holder, row, absent>>
    BY <1>8 DEF ReconcileFails
  <2>2. slot' \in [Slot -> SlotRow] /\ \A t \in Slot \ {s} : slot'[t] = slot[t]
    BY <1>1, <2>1
  <2>3. LifecycleTypeOK'
    BY <1>1, <2>1, <2>2 DEF LifecycleTypeOK, SlotRow
  <2>4. QED
    BY <2>1, <2>2, <2>3, SlotMoves
<1>9. ASSUME NEW s \in Slot, CommitParent(s) PROVE LifecycleInv'
  <2>1. /\ slot' = [slot EXCEPT ![s].phase = "committed"] /\ holder' = NoSlot
        /\ UNCHANGED <<listed, plain>> /\ slot[s].phase \in {"body", "not_modified"}
    BY <1>9 DEF CommitParent
  <2>2. /\ slot' \in [Slot -> SlotRow] /\ slot'[s].phase = "committed"
        /\ slot'[s].seen = slot[s].seen /\ \A t \in Slot \ {s} : slot'[t] = slot[t]
    BY <1>1, <2>1 DEF SlotRow, Phase
  <2>3. CASE In(s, "not_modified")
    <3>1. ~plain /\ UNCHANGED <<row, etag, absent>>
      BY <1>9, <2>3 DEF CommitParent, In, LifecycleInv, Orderly
    <3>2. LifecycleTypeOK'
      BY <1>1, <2>1, <2>2, <3>1 DEF LifecycleTypeOK, SlotRow
    <3>3. QED
      BY <2>1, <2>2, <3>1, <3>2, SlotMoves
  <2>4. CASE In(s, "body")
    <3>1. row' \in [Child -> ChildRow] /\ absent' \in [Child -> 0..Far] /\ etag' = {slot[s].seen}
      <4>1. row' = [c \in Child |-> row'[c]] /\ absent' = [c \in Child |-> absent'[c]]
            /\ etag' = {slot[s].seen}
        BY <1>9, <2>4 DEF CommitParent
      <4>2. QED
        BY <1>9, <2>4, <4>1, CommitCounts
    <3>2. LifecycleTypeOK'
      BY <1>1, <2>1, <2>2, <3>1 DEF LifecycleTypeOK, SlotRow, ChildRow
    <3>3. MissingCountObserved' /\ \A c \in Child : Counting(c)' => row'[c].misses < Threshold
      BY <1>9, <2>4, CommitCounts DEF MissingCountObserved
    <3>4. ASSUME plain PROVE Orderly'
      <4>1. Orderly /\ \A t \in Slot \ {s} : In(t, "idle")
        BY <2>4, <3>4 DEF LifecycleInv, Orderly, In
      <4>2. \A c \in Child : Counting(c) => row[c].misses <= absent[c]
        BY <2>4, <4>1 DEF Orderly, In
      <4>3. \A c \in Child \ slot[s].seen : Counting(c)' => row'[c].misses < absent'[c]
        BY <1>9, <2>4, <4>2, CommitCounts
      <4>4. \A t \in Slot \ {s} : In(t, "idle")'
        BY <2>2, <4>1 DEF In
      <4>5. QED
        BY <2>2, <4>3, <4>4 DEF Orderly, In
    <3>5. QED
      BY <2>1, <3>2, <3>3, <3>4 DEF LifecycleInv
  <2>5. QED
    BY <2>1, <2>3, <2>4 DEF In
<1>10. ASSUME NEW s \in Slot, Reconcile(s) PROVE LifecycleInv'
  <2>1. /\ slot' = [slot EXCEPT ![s] = IdleSlot] /\ In(s, "committed")
        /\ UNCHANGED <<listed, etag, holder, absent, plain>>
        /\ row' = [c \in Child |-> row'[c]]
    BY <1>10 DEF Reconcile
  <2>2. slot' \in [Slot -> SlotRow] /\ slot'[s].phase = "idle"
        /\ \A t \in Slot \ {s} : slot'[t] = slot[t]
    BY <1>1, <2>1
  <2>3. row' \in [Child -> ChildRow]
    BY <1>10, <2>1, ReconcileCounts
  <2>4. LifecycleTypeOK'
    BY <1>1, <2>1, <2>2, <2>3 DEF LifecycleTypeOK, SlotRow, ChildRow
  <2>5. MissingCountObserved' /\ \A c \in Child : Counting(c)' => row'[c].misses < Threshold
    <3>1. ASSUME NEW c \in Child PROVE row'[c].missing <= absent'[c]
      <4>1. /\ row'[c].missing \in 0..2 /\ row[c].missing \in 0..2 /\ absent[c] \in Nat
            /\ row[c].missing <= absent[c] /\ absent'[c] = absent[c]
        BY <1>1, <2>1, <2>3 DEF ChildRow, LifecycleInv, MissingCountObserved
      <4>2. QED
        BY <1>10, <4>1, ReconcileCounts
    <3>2. QED
      BY <1>10, <3>1, ReconcileCounts DEF MissingCountObserved
  <2>6. ASSUME plain PROVE Orderly'
    <3>1. Orderly /\ \A t \in Slot \ {s} : In(t, "idle")
      BY <2>1, <2>6 DEF LifecycleInv, Orderly, In
    <3>2. \A t \in Slot : In(t, "idle")'
      BY <2>2, <3>1 DEF In
    <3>3. ASSUME NEW c \in Child, Counting(c)' PROVE row'[c].misses <= absent'[c]
      <4>1. /\ absent'[c] = absent[c] /\ absent[c] \in Nat /\ row[c].misses \in Nat
        BY <1>1, <2>1 DEF ChildRow, Far
      <4>2. c \notin slot[s].seen /\ Counting(c) => row[c].misses < absent[c]
        BY <2>1, <3>1 DEF Orderly
      <4>3. QED
        BY <1>10, <3>3, <4>1, <4>2, ReconcileCounts
    <3>4. QED
      BY <3>2, <3>3 DEF Orderly, In
  <2>7. QED
    BY <2>1, <2>4, <2>5, <2>6 DEF LifecycleInv
<1>11. QED
  BY <1>3, <1>4, <1>5, <1>6, <1>7, <1>8, <1>9, <1>10 DEF LifecycleNext, SlotNext

LEMMA LifecycleStart == LifecycleInit => LifecycleInv
<1> SUFFICES ASSUME LifecycleInit PROVE LifecycleInv
  OBVIOUS
<1>1. 0 \in 0..Threshold /\ 0 \in 0..Far
  BY LifecycleAssumption DEF Far
<1>2. LifecycleTypeOK
  BY <1>1 DEF LifecycleInit, LifecycleTypeOK, IdleSlot, Phase, Row, State
<1>3. MissingCountObserved /\ \A c \in Child : ~Counting(c)
  BY DEF LifecycleInit, MissingCountObserved, Counting, Row
<1>4. Orderly
  BY <1>3 DEF LifecycleInit, Orderly, In, IdleSlot
<1>5. QED
  BY <1>2, <1>3, <1>4 DEF LifecycleInv

(* applyChildPresence and upsertSeeds: whatever overlaps, fails or is       *)
(* answered 304, missing_count never exceeds the number of committed bodies *)
(* in a row that did not list the child.                                    *)
THEOREM MissingIsObserved == LifecycleSpec => [](LifecycleTypeOK /\ MissingCountObserved)
<1>1. LifecycleInv => LifecycleTypeOK /\ MissingCountObserved
  BY DEF LifecycleInv
<1>2. QED
  BY <1>1, LifecycleStart, LifecycleStep, PTL DEF LifecycleSpec

(* tombstoneThresholdForChildKind and ReconcileLifecycle: while parent runs *)
(* do not overlap, none is answered 304 and no reconciliation fails, a      *)
(* child is tombstoned after Threshold bodies without it and switched off   *)
(* after two, never earlier.                                                *)
THEOREM TombstonesAreEarned == LifecycleSpec => TombstonedWasAbsent
<1> DEFINE Earned ==
       plain' => \A c \in Child :
         /\ row[c].state # "tombstoned" /\ row'[c].state = "tombstoned" => absent[c] >= Threshold
         /\ row[c].enabled /\ ~row'[c].enabled => absent'[c] >= AtMost(2, Threshold)
<1>1. LifecycleInv /\ [LifecycleNext]_lifeVars => [Earned]_lifeVars
  <2>1. SUFFICES ASSUME LifecycleInv, LifecycleNext, plain', NEW c \in Child
                 PROVE  /\ row[c].state # "tombstoned" /\ row'[c].state = "tombstoned"
                              => absent[c] >= Threshold
                        /\ row[c].enabled /\ ~row'[c].enabled => absent'[c] >= AtMost(2, Threshold)
    OBVIOUS
  <2>2. /\ absent[c] \in Nat /\ row[c].misses \in Nat /\ Threshold \in Nat /\ Threshold >= 1
    BY <2>1, LifecycleAssumption DEF LifecycleInv, LifecycleTypeOK, Far
  <2>3. CASE UNCHANGED row
    BY <2>3
  <2>4. ASSUME NEW s \in Slot, CommitParent(s), In(s, "body")
        PROVE  /\ row'[c].state = "tombstoned" => row[c].state = "tombstoned"
               /\ row[c].enabled /\ ~row'[c].enabled => absent'[c] >= AtMost(2, Threshold)
    <3>1. absent'[c] \in 0..Far /\ (row[c].enabled /\ ~row'[c].enabled => absent'[c] >= 2)
          /\ (row'[c].state = "tombstoned" => row[c].state = "tombstoned")
      BY <2>1, <2>4, CommitCounts
    <3>2. QED
      BY <2>2, <3>1 DEF AtMost, Far
  <2>5. ASSUME NEW s \in Slot, Reconcile(s)
        PROVE  /\ row[c].state # "tombstoned" /\ row'[c].state = "tombstoned" => absent[c] >= Threshold
               /\ row[c].enabled /\ ~row'[c].enabled => absent'[c] >= AtMost(2, Threshold)
    <3>1. plain /\ In(s, "committed") /\ absent' = absent
      BY <2>1, <2>5 DEF Reconcile
    <3>2. c \notin slot[s].seen /\ Counting(c) => row[c].misses < absent[c]
      BY <2>1, <3>1 DEF LifecycleInv, Orderly
    <3>3. c \notin slot[s].seen /\ Counting(c) /\ row[c].misses + 1 >= Threshold
             => absent[c] >= Threshold /\ absent[c] >= AtMost(2, Threshold)
      BY <2>2, <3>2 DEF AtMost
    <3>4. QED
      BY <2>1, <2>5, <3>1, <3>3, ReconcileCounts
  <2>6. QED
    BY <2>1, <2>3, <2>4, <2>5 DEF LifecycleNext, SlotNext, UpstreamChange, Expire, Claim,
       FetchBody, FetchNotModified, RunFails, CommitParent, ReconcileFails
<1>2. QED
  BY <1>1, LifecycleStart, LifecycleStep, PTL DEF LifecycleSpec, TombstonedWasAbsent, Earned
===============================================================================
