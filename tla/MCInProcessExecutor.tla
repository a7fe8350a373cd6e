------------------------- MODULE MCInProcessExecutor -------------------------
(* A small instance of InProcessExecutor for TLC.                          *)
EXTENDS InProcessExecutor, TLC

CONSTANTS l1, l2, l3, w1, w2
=============================================================================
