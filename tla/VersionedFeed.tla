--------------------------- MODULE VersionedFeed ---------------------------
(***************************************************************************)
(* What the snapshot scraper promises to the readers of a target: a cached *)
(* copy of a changing upstream resource that never goes back in time,      *)
(* where validation_seq counts the successful validations and the version  *)
(* moves exactly when a validation finds other content than the one that   *)
(* is published.  Workers, leases, retries and failures do not show.       *)
(***************************************************************************)
EXTENDS Integers

CONSTANTS Target, NoContent, MaxRev, Body

VARIABLES
  source,  \* [Target -> 0..MaxRev]: the upstream resource, by revision
  feed     \* [Target -> [version, hash, seq, rev]]: what readers are given

feedVars == <<source, feed>>

Init ==
  /\ source = [t \in Target |-> 0]
  /\ feed = [t \in Target |-> [version |-> 0, hash |-> NoContent, seq |-> 0, rev |-> 0]]

Change(t) ==
  /\ source[t] < MaxRev
  /\ source' = [source EXCEPT ![t] = source[t] + 1]
  /\ UNCHANGED feed

(* A validation that saw revision r, no older than the last one *)
Validate(t, r) ==
  /\ feed[t].rev <= r /\ r <= source[t]
  /\ feed' = [feed EXCEPT ![t] =
       [version |-> IF Body[r] = feed[t].hash THEN feed[t].version ELSE feed[t].version + 1,
        hash |-> Body[r], seq |-> feed[t].seq + 1, rev |-> r]]
  /\ UNCHANGED source

Next == \E t \in Target : Change(t) \/ \E r \in 0..MaxRev : Validate(t, r)

Spec == Init /\ [][Next]_feedVars
============================================================================
