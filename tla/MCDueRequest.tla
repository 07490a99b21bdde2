---------------------------- MODULE MCDueRequest ----------------------------
(* DueRequest for TLC, on the instance of MCScrapeRun. *)
EXTENDS MCScrapeRun, DueRequest
=============================================================================
