---------------------------- MODULE SyncClientMC -----------------------------
(***************************************************************************)
(* Two threads on one SyncClient.                                          *)
(***************************************************************************)
EXTENDS SyncClient, TLC

CONSTANTS t1, t2

TwoThreads == {t1, t2}
Symmetry   == Permutations(TwoThreads)

=============================================================================
