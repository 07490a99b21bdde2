-------------------------- MODULE MCScrapeControl --------------------------
(***************************************************************************)
(* What decides when a target is fetched: the limits all runs share        *)
(* (HostControl) and the schedule of one target (RefreshSchedule).  The    *)
(* modules have no state in common: part names the one that runs.          *)
(***************************************************************************)
EXTENDS HostControl, RefreshSchedule, TLC

CONSTANTS r1, r2, r3, t1, t2, w1, w2

VARIABLE part

MCTargetOf == r1 :> t1 @@ r2 :> t1 @@ r3 :> t2
MCWorkerOf == r1 :> w1 @@ r2 :> w2 @@ r3 :> w1
MCAhead == w1 :> 0 @@ w2 :> 1

LiveClasses == {"course", "not_started", "in_progress"}
Waits == {0, 2 * Hour}

controlVars == <<part, hostVars, vars>>

ControlInit ==
  /\ HostInit /\ Init
  /\ part = "schedule" \/ (part = "host" /\ target.class = "course")

ControlNext ==
  \/ part = "host" /\ HostNext /\ UNCHANGED <<part, vars>>
  \/ part = "schedule" /\ Next /\ UNCHANGED <<part, hostVars>>

ControlSpec == ControlInit /\ [][ControlNext]_controlVars
=============================================================================
