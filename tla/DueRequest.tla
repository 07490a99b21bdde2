----------------------------- MODULE DueRequest -----------------------------
(***************************************************************************)
(* ScrapeRun with the requests it gets from check-in writes: after a write *)
(* to Warwick, TeacherService.ToggleCheckin marks the session target due   *)
(* so that some later run picks the change up (service/teacher.go).        *)
(***************************************************************************)
EXTENDS ScrapeRun

VARIABLE asked  \* history: SetDueNow was called and not answered since

dueVars == <<lease, sched, pub, runs, snaps, events, up, run, paused, found,
             validated, accepted, asked>>

DueInit == Init /\ asked = [t \in Target |-> FALSE]

(* The upstream resource is read after the request, or the host has no      *)
(* permit to give and the request waits for one.                            *)
Answered(t) ==
  \/ \E g \in Gen : FetchBody(t, g) \/ FetchNotModified(t, g)
  \/ \E g \in Gen, d \in Delay : Reschedule(t, g, d)

DueNext ==
  \/ \E t \in Target, w \in Worker :
       SetDueNow(t, w) /\ asked' = [asked EXCEPT ![t] = TRUE]
  \/ Next /\ asked' = [t \in Target |-> asked[t] /\ ~Answered(t)]

DueSpec == DueInit /\ [][DueNext]_dueVars

(* "SetDueNow is idempotent and leaves the target available for a worker or *)
(* the next explicit coalesced refresh" (service/teacher.go, ToggleCheckin):*)
(* until upstream is read again, the target is due on some instance's clock *)
(* or a run is about to read it.  A run that had read upstream before the   *)
(* request overwrites next_run_at with its own schedule in Commit.          *)
DueRequestKept ==
  \A t \in Target : asked[t] =>
    \/ \E w \in Worker : sched[t].due <= Ahead[w]
    \/ \E g \in Gen : In(t, g, {"claimed", "fetching"})
=============================================================================
