----------------------------- MODULE MCListings -----------------------------
(***************************************************************************)
(* What a fetched listing may do: replace the published one (ChangeSafety) *)
(* and switch the children off or on (ChildLifecycle).  The modules have   *)
(* no state in common: part names the one that runs.                       *)
(***************************************************************************)
EXTENDS ChangeSafety, ChildLifecycle

CONSTANTS c1, s1, s2

VARIABLE part

listingVars == <<part, vars, lifeVars>>

AllKinds == {"course_catalog", "course_detail", "session_detail", "student_profiles"}

Safety(A) == part = "safety" /\ A /\ UNCHANGED <<part, lifeVars>>
Children(A) == part = "children" /\ A /\ UNCHANGED <<part, vars>>

ListingInit ==
  /\ Init /\ LifecycleInit
  /\ \/ part = "safety" /\ listed = {}
     \/ part = "children" /\ kind = "course_catalog" /\ truth = {}

ListingNext == Safety(Next) \/ Children(LifecycleNext)

(* The fairness of FairSafetySpec and FairLifecycleSpec *)
ListingSpec ==
  /\ ListingInit /\ [][ListingNext]_listingVars
  /\ WF_listingVars(Safety(Fetch \/ Classify \/ Commit))
  /\ SF_listingVars(Safety(Confirm))
  /\ \A s \in Slot :
       /\ WF_listingVars(Children(Claim(s)))
       /\ WF_listingVars(Children(FetchBody(s) \/ FetchNotModified(s) \/ RunFails(s) \/ CommitParent(s)))
       /\ WF_listingVars(Children(Reconcile(s) \/ ReconcileFails(s)))
       /\ SF_listingVars(Children(holder = s /\ (FetchBody(s) \/ FetchNotModified(s))))
       /\ SF_listingVars(Children(CommitParent(s)))
       /\ SF_listingVars(Children(Reconcile(s)))
=============================================================================
