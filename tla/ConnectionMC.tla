---------------------------- MODULE ConnectionMC -----------------------------
(***************************************************************************)
(* Small instances of Connection: single-place queues, so that every one   *)
(* of them fills up, and both kinds of slot.                               *)
(***************************************************************************)
EXTENDS Connection

AllBackends == {"relayed", "direct"}
Relayed     == {"relayed"}

=============================================================================
