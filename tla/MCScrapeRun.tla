---------------------------- MODULE MCScrapeRun ----------------------------
(* ScrapeRun for TLC: one target, two instances whose clocks differ by one  *)
(* tick, upstream content A, B, A.                                          *)
EXTENDS ScrapeRun, TLC

CONSTANTS t1, w1, w2, a, b

MCAhead == w1 :> 0 @@ w2 :> 1
MCBody == [r \in Rev |-> IF r % 2 = 0 THEN a ELSE b]
============================================================================
