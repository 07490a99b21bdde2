--------------------------- MODULE MCLiveUpdates ---------------------------
(***************************************************************************)
(* What keeps the pages of one instance current: the way of a commit to    *)
(* the browsers, the check-in sync of a room, and the controller that lets *)
(* both sleep.  They have no state in common, so a behaviour of all three  *)
(* is one of each: part names the one that runs, and the states TLC        *)
(* explores are those of the three one after another.                      *)
(***************************************************************************)
EXTENDS CommitFeed, SessionSync, ActivityController

VARIABLE part

updateVars == <<part, feedVars, syncVars, activityVars>>

Feed(A) == part = "feed" /\ A /\ UNCHANGED <<part, syncVars, activityVars>>
Sync(A) == part = "sync" /\ A /\ UNCHANGED <<part, feedVars, activityVars>>
Activity(A) == part = "activity" /\ A /\ UNCHANGED <<part, feedVars, syncVars>>

UpdateInit ==
  /\ part \in {"feed", "sync", "activity"}
  /\ FeedInit /\ SyncInit /\ ActivityInit
  /\ part = "feed" \/ store = Zero

UpdateNext == Feed(FeedNext) \/ Sync(SyncNext) \/ Activity(ActivityNext)

(* The fairness of FairFeedSpec, FairSyncSpec and FairActivitySpec *)
UpdateSpec ==
  /\ UpdateInit /\ [][UpdateNext]_updateVars
  /\ WF_updateVars(Feed(ListenerNext))
  /\ WF_updateVars(Feed(Dispatch))
  /\ \A c \in Client : WF_updateVars(Feed(SocketNext(c))) /\ WF_updateVars(Feed(Poll(c)))
  /\ \A c \in Client, t \in Target : WF_updateVars(Feed(Refetch(c, t)))
  /\ \A w \in Loop : WF_updateVars(Sync(LoopStep(w) \/ SeedFails(w))) /\ SF_updateVars(Sync(Fetch(w)))
  /\ WF_updateVars(Sync(Reconcile))
  /\ WF_updateVars(Activity(process # "exited" /\ RunStep))
  /\ SF_updateVars(Activity(process # "exited" /\ ReceiveActivity))
  /\ \A r \in Request : WF_updateVars(Activity(process # "exited" /\ RequestStep(r)))
============================================================================
