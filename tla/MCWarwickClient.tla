-------------------------- MODULE MCWarwickClient --------------------------
(***************************************************************************)
(* The three parts of the Warwick client: the session pool, the shared     *)
(* reads and the paginated profiles.  They have no state in common, so a   *)
(* behaviour of all three is one of each: part names the one that runs,    *)
(* and the states TLC explores are those of the three one after another.   *)
(***************************************************************************)
EXTENDS SessionPool, Inflight, ProfilePages

VARIABLE part

clientVars == <<part, poolVars, inflightVars, pageVars>>

MCTierOf == [i \in Session |-> "teacher"]

Pool(A) == part = "pool" /\ A /\ UNCHANGED <<part, inflightVars, pageVars>>
Reads(A) == part = "reads" /\ A /\ UNCHANGED <<part, poolVars, pageVars>>
Profiles(A) == part = "profiles" /\ A /\ UNCHANGED <<part, poolVars, inflightVars>>

ClientInit == part \in {"pool", "reads", "profiles"} /\ PoolInit /\ InflightInit /\ PagesInit

ClientNext == Pool(PoolNext) \/ Reads(InflightNext) \/ Profiles(PagesNext)

(* The fairness of FairPoolSpec, FairInflightSpec and FairPagesSpec *)
ClientSpec ==
  /\ ClientInit /\ [][ClientNext]_clientVars
  /\ \A c \in Caller : WF_clientVars(Pool(Working(c)))
  /\ \A c \in Waiter : WF_clientVars(Reads(Leave(c) \/ Receive(c)))
  /\ \A k \in 1..MaxCalls : WF_clientVars(Reads(Run(k)))
  /\ WF_clientVars(Profiles(FetchStep))
=============================================================================
