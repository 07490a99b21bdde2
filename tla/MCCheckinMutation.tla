------------------------- MODULE MCCheckinMutation -------------------------
(* CheckinMutation for TLC *)
EXTENDS CheckinMutation, TLC

CONSTANTS q1, q2, k1, k2, s1, s2

MCKeyOf == q1 :> k1 @@ q2 :> k1
MCOneStudent == q1 :> s1 @@ q2 :> s1
MCTwoStudents == q1 :> s1 @@ q2 :> s2
MCDesired == q1 :> TRUE @@ q2 :> TRUE
MCAnyVersion == q1 :> {} @@ q2 :> {}
MCVersions == q1 :> {1} @@ q2 :> {1}
MCTwoKeys == q1 :> k1 @@ q2 :> k2
============================================================================
