--------------------------- MODULE MCRemoteExecutor ---------------------------
(* A small instance of RemoteExecutor for TLC.                             *)
EXTENDS RemoteExecutor

CONSTANTS l1, l2
=============================================================================
