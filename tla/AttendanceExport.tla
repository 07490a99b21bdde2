--------------------------- MODULE AttendanceExport ---------------------------
(***************************************************************************)
(* The two readers that compose a course's attendance from many snapshots  *)
(* while the scraper commits new ones: GetFreshAttendanceExport checks the *)
(* snapshots and then reads them, the attendance report reads them and     *)
(* then describes them (CourseReportFreshness).  A target is the time of   *)
(* its last validation, which also orders its validation sequence, and     *)
(* whether it is verified fresh; 0 is a target with no snapshot.           *)
(***************************************************************************)
EXTENDS Naturals, FiniteSets

CONSTANTS
  Session,
  MaxCommits    \* bound on commits

ASSUME ExportAssumption ==
  IsFiniteSet(Session) /\ MaxCommits \in Nat \ {0}

Ref == Session \cup {"profiles"}
Target == Ref \cup {"course"}
Time == 0..MaxCommits

VARIABLES
  clock,     \* commits so far
  target,
  members,   \* the sessions of the course in its current snapshot
  export,
  attendance   \* the report

exportVars == <<clock, target, members, export, attendance>>

ExportTypeOK ==
  /\ clock \in Time
  /\ target \in [Target -> [at: Time, usable: BOOLEAN]]
  /\ members \subseteq Session
  /\ export \in [pc: {"off", "begin", "refreshCourse", "courseMetadata", "course", "baseline", "refresh", "check",
                      "restabilize", "compute", "profiles", "done", "failed"},
                 restarts: 0..1, courseSeq: Time, course: SUBSET Session, todo: SUBSET Ref,
                 stale: SUBSET Ref, validatedAt: Time, used: [Ref -> Time], stable: BOOLEAN]
  /\ attendance \in [pc: {"off", "begin", "detail", "compute", "courseMetadata", "again", "metadata",
                          "done", "failed"},
                     profiles: {"off", "running", "read"}, course: SUBSET Session, todo: SUBSET Ref,
                     used: [Target -> Time], validatedAt: Time]

None == [r \in Ref |-> 0]

(* One of the two readers runs *)
ExportInit == \E reader \in {"export", "report"} :
  /\ clock = 1
  /\ target \in [Target -> {[at |-> 1, usable |-> TRUE], [at |-> 0, usable |-> FALSE]}]
  /\ members \in (IF target["course"].at = 0 THEN {{}} ELSE SUBSET Session)
  /\ export = [pc |-> IF reader = "export" THEN "begin" ELSE "off", restarts |-> 0,
               courseSeq |-> 0, course |-> {}, todo |-> {}, stale |-> {},
               validatedAt |-> 0, used |-> None, stable |-> FALSE]
  /\ attendance = [pc |-> IF reader = "report" THEN "begin" ELSE "off", profiles |-> "off",
                   course |-> {}, todo |-> {}, used |-> [t \in Target |-> 0], validatedAt |-> 0]

----------------------------------------------------------------------------
(* A validated snapshot of t: the course's may list other sessions *)
Validated(t) ==
  /\ clock < MaxCommits
  /\ clock' = clock + 1
  /\ target' = [target EXCEPT ![t] = [at |-> clock + 1, usable |-> TRUE]]
  /\ IF t = "course" THEN members' \in SUBSET Session ELSE UNCHANGED members

(* Another run of the scraper commits *)
ScraperCommits(t) == Validated(t) /\ UNCHANGED <<export, attendance>>

(* The serve window of a snapshot elapses, or its quality is downgraded *)
Degrades(t) ==
  /\ target[t].usable
  /\ target' = [target EXCEPT ![t].usable = FALSE]
  /\ UNCHANGED <<clock, members, export, attendance>>

----------------------------------------------------------------------------
(* GetFreshAttendanceExport.  A step may fail for reasons of its own (the   *)
(* request is cancelled, a query fails).                                    *)
At(pc) == export.pc = pc
Goes(pc) == export' = [export EXCEPT !.pc = pc]
ExportOnly == UNCHANGED <<clock, target, members, attendance>>

ExportFails ==
  /\ export.pc \notin {"off", "done", "failed"}
  /\ Goes("failed") /\ ExportOnly

(* The course baseline: served as it is when usable, else refreshed *)
ExportBegin ==
  /\ At("begin")
  /\ Goes(IF target["course"].at = 0 THEN "failed"
          ELSE IF target["course"].usable THEN "courseMetadata" ELSE "refreshCourse")
  /\ ExportOnly

(* RefreshNow returns nil after a validation *)
ExportRefreshCourse ==
  /\ At("refreshCourse")
  /\ Goes("courseMetadata") /\ Validated("course") /\ UNCHANGED attendance

(* Variant: the sequence is taken when the sessions are read *)
ExportCourseMetadataLate ==
  /\ At("courseMetadata")
  /\ export' = [export EXCEPT !.pc = "course", !.courseSeq = MaxCommits, !.validatedAt = target["course"].at]
  /\ ExportOnly

ExportCourseMetadata ==
  /\ At("courseMetadata")
  /\ export' = IF target["course"].usable
                 THEN [export EXCEPT !.pc = "course", !.courseSeq = target["course"].at,
                                             !.validatedAt = target["course"].at]
                 ELSE [export EXCEPT !.pc = "failed"]
  /\ ExportOnly

(* The payload of the course gives the references to check *)
ExportReadCourse ==
  /\ At("course")
  /\ export' = [export EXCEPT !.pc = "baseline", !.course = members, !.todo = members \cup {"profiles"},
                              !.stale = {}]
  /\ ExportOnly

ExportBaseline(r) ==
  /\ At("baseline") /\ r \in export.todo
  /\ export' = IF target[r].at = 0
                 THEN [export EXCEPT !.pc = "failed"]
                 ELSE [export EXCEPT !.todo = @ \ {r},
                                             !.stale = IF target[r].usable THEN @ ELSE @ \cup {r},
                                             !.pc = IF export.todo = {r} THEN "refresh" ELSE "baseline"]
  /\ ExportOnly

(* runBoundedJobs refreshes the ones that are not usable, in any order *)
ExportRefresh(r) ==
  /\ At("refresh") /\ r \in export.stale
  /\ export' = [export EXCEPT !.stale = @ \ {r}]
  /\ Validated(r) /\ UNCHANGED attendance

ExportRefreshed ==
  /\ At("refresh") /\ export.stale = {}
  /\ export' = [export EXCEPT !.pc = "check", !.todo = export.course \cup {"profiles"}]
  /\ ExportOnly

(* Variant: the newest validation is reported *)
ExportCheckNewest(r) ==
  /\ At("check") /\ r \in export.todo
  /\ export' = IF ~target[r].usable
                 THEN [export EXCEPT !.pc = "failed"]
                 ELSE [export EXCEPT !.todo = @ \ {r},
                                             !.validatedAt = IF target[r].at > @ THEN target[r].at ELSE @,
                                             !.pc = IF export.todo = {r} THEN "restabilize" ELSE "check"]
  /\ ExportOnly

(* Every reference is usable, and the oldest validation is kept *)
ExportCheck(r) ==
  /\ At("check") /\ r \in export.todo
  /\ export' = IF ~target[r].usable
                 THEN [export EXCEPT !.pc = "failed"]
                 ELSE [export EXCEPT !.todo = @ \ {r},
                                             !.validatedAt = IF target[r].at < @ THEN target[r].at ELSE @,
                                             !.pc = IF export.todo = {r} THEN "restabilize" ELSE "check"]
  /\ ExportOnly

(* The course must not have advanced meanwhile; one restart is allowed *)
ExportRestabilize ==
  /\ At("restabilize")
  /\ export' = IF target["course"].at > export.courseSeq
                 THEN IF export.restarts > 0 THEN [export EXCEPT !.pc = "failed"]
                                             ELSE [export EXCEPT !.pc = "begin", !.restarts = 1]
                 ELSE [export EXCEPT !.pc = "compute", !.todo = export.course, !.stable = export.course = members]
  /\ ExportOnly

(* The report reads every session; an error of one fails the export *)
ExportCompute(s) ==
  /\ At("compute") /\ s \in export.todo
  /\ export' = [export EXCEPT !.todo = @ \ {s}, !.used[s] = target[s].at]
  /\ ExportOnly

ExportComputed ==
  /\ At("compute") /\ export.todo = {}
  /\ Goes("profiles") /\ ExportOnly

ExportProfiles ==
  /\ At("profiles")
  /\ export' = [export EXCEPT !.pc = "done", !.used["profiles"] = target["profiles"].at]
  /\ ExportOnly

ExportStep ==
  \/ ExportBegin \/ ExportRefreshCourse \/ ExportCourseMetadata \/ ExportReadCourse \/ ExportRefreshed
  \/ ExportRestabilize \/ ExportComputed \/ ExportProfiles
  \/ \E r \in Ref : ExportBaseline(r) \/ ExportRefresh(r) \/ ExportCheck(r) \/ ExportCompute(r)

----------------------------------------------------------------------------
(* GetAttendanceReport and then CourseReportFreshness *)
In(pc) == attendance.pc = pc
ReportOnly == UNCHANGED <<clock, target, members, export>>

(* The profiles are fetched beside the course *)
ReportBegin ==
  /\ In("begin")
  /\ attendance' = [attendance EXCEPT !.pc = "detail", !.profiles = "running"]
  /\ ReportOnly

FetchProfiles ==
  /\ attendance.profiles = "running"
  /\ attendance' = [attendance EXCEPT !.profiles = "read", !.used["profiles"] = target["profiles"].at]
  /\ ReportOnly

(* The course is read, or the report fails once the profiles are joined *)
ReportDetail ==
  /\ In("detail")
  /\ \/ /\ target["course"].at # 0
        /\ attendance' = [attendance EXCEPT !.pc = "compute", !.course = members, !.todo = members,
                                    !.used["course"] = target["course"].at]
     \/ /\ attendance.profiles = "read"
        /\ attendance' = [attendance EXCEPT !.pc = "failed"]
  /\ ReportOnly

(* A session is read, or is an error of the report *)
ReportCompute(s) ==
  /\ In("compute") /\ s \in attendance.todo
  /\ \E at \in {target[s].at, 0} :
       attendance' = [attendance EXCEPT !.todo = @ \ {s}, !.used[s] = at]
  /\ ReportOnly

ReportJoin ==
  /\ In("compute") /\ attendance.todo = {} /\ attendance.profiles = "read"
  /\ attendance' = [attendance EXCEPT !.pc = "courseMetadata"]
  /\ ReportOnly

(* The course's metadata anchors the envelope; without it the answer has none *)
ReportCourseMetadata ==
  /\ In("courseMetadata")
  /\ \/ attendance' = [attendance EXCEPT !.pc = "failed"]
     \/ attendance' = [attendance EXCEPT !.pc = "again", !.validatedAt = target["course"].at]
  /\ ReportOnly

(* The course is read again for the sessions to describe *)
ReportAgain ==
  /\ In("again")
  /\ attendance' = [attendance EXCEPT !.pc = "metadata", !.todo = members \cup {"profiles"}]
  /\ ReportOnly

ReportMetadata(r) ==
  /\ In("metadata") /\ r \in attendance.todo
  /\ attendance' = IF target[r].at = 0
                     THEN [attendance EXCEPT !.pc = "failed"]
                     ELSE [attendance EXCEPT !.todo = @ \ {r},
                                             !.validatedAt = IF target[r].at < @ THEN target[r].at ELSE @,
                                             !.pc = IF attendance.todo = {r} THEN "done" ELSE "metadata"]
  /\ ReportOnly

ReportStep ==
  \/ ReportBegin \/ FetchProfiles \/ ReportDetail \/ ReportJoin \/ ReportCourseMetadata \/ ReportAgain
  \/ \E r \in Ref : ReportCompute(r) \/ ReportMetadata(r)

ExportNext ==
  \/ \E t \in Target : ScraperCommits(t) \/ Degrades(t)
  \/ ExportStep \/ ExportFails
  \/ ReportStep

ExportSpec == ExportInit /\ [][ExportNext]_exportVars

----------------------------------------------------------------------------
(* SourceValidatedAt is never younger than the data: what the export holds  *)
(* of any source was validated at that time or later, whatever the scraper  *)
(* commits between the checks and the reads.                                *)
ExportAgeHonest ==
  export.pc = "done" =>
    /\ export.validatedAt > 0
    /\ \A r \in export.course \cup {"profiles"} : export.used[r] >= export.validatedAt

(* "Course membership must be stable across the session refresh phase": the *)
(* sessions exported are the course's at the last check.                    *)
ExportMembershipStable == export.pc \in {"compute", "profiles", "done"} => export.stable

(* "join before returning so no upstream work survives the request": the    *)
(* profile fetch has ended whenever the report returns, by any path.        *)
NoWorkSurvives ==
  attendance.pc \in {"courseMetadata", "again", "metadata", "done", "failed"} => attendance.profiles = "read"

(* "The composite SnapshotMetadata reports the oldest validation time (the  *)
(* data is only as fresh as its least-fresh source)": no source of the      *)
(* report was validated before the time its envelope states.                *)
ReportAgeHonest ==
  attendance.pc = "done" =>
    \A t \in Target : attendance.used[t] # 0 => attendance.used[t] >= attendance.validatedAt
=============================================================================
