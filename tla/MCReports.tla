----------------------------- MODULE MCReports -----------------------------
(***************************************************************************)
(* The readers that put a course's attendance together: the export and the *)
(* report from snapshots (AttendanceExport), and the report from live      *)
(* fetches (CourseReport).  The two modules have no state in common: part  *)
(* names the one that runs.                                                *)
(***************************************************************************)
EXTENDS AttendanceExport, CourseReport

VARIABLE part

allVars == <<part, exportVars, reportVars>>

Snapshots(A) == part = "snapshots" /\ A /\ UNCHANGED <<part, reportVars>>
Fetches(A) == part = "fetches" /\ A /\ UNCHANGED <<part, exportVars>>

ReadersInit ==
  /\ ExportInit /\ ReportInit
  /\ \/ part = "snapshots" /\ done = {}
     \/ /\ part = "fetches"
        /\ attendance.pc = "off" /\ \A t \in Target : target[t].at = 0

ReadersNext == Snapshots(ExportNext) \/ Fetches(ReportNext)

(* The fairness of FairReportSpec *)
ReadersSpec ==
  /\ ReadersInit /\ [][ReadersNext]_allVars
  /\ WF_allVars(Fetches(Return))
  /\ \A w \in Worker : WF_allVars(Fetches(WorkerStep(w)))
=============================================================================
