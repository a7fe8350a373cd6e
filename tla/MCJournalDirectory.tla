------------------------- MODULE MCJournalDirectory -------------------------
(* Small instances of JournalDirectory for TLC: two processes.             *)
EXTENDS JournalDirectory, TLC

CONSTANTS p1, p2

TwoProcesses == {p1, p2}
=============================================================================
