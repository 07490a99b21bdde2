--------------------------- MODULE MCRoomManager ---------------------------
(***************************************************************************)
(* RoomManager for TLC.  The whole product of options is out of reach in   *)
(* minutes: the serverless program with a crash, the program with rooms    *)
(* deleted and created again, the one with attendance labels, and calls of *)
(* CreateRoom that race one another and DeleteRoom while no worker fetches *)
(* are explored one after another.                                         *)
(***************************************************************************)
EXTENDS RoomManager

LabelsUse == [serverless |-> FALSE, labels |-> TRUE, fetches |-> TRUE,
              creates |-> 0, objects |-> 1, crashes |-> 0]
ServerlessUse == [LabelsUse EXCEPT !.serverless = TRUE, !.labels = FALSE, !.crashes = 1]
DeletesUse == [LabelsUse EXCEPT !.labels = FALSE, !.creates = 1, !.objects = 2]
CreatesUse == [DeletesUse EXCEPT !.fetches = FALSE, !.creates = 2, !.objects = 3]

(* One worker of the serverless program, without a crash *)
StopAllUse == {[ServerlessUse EXCEPT !.crashes = 0]}

MCUses == {ServerlessUse, DeletesUse, LabelsUse, CreatesUse}
============================================================================
