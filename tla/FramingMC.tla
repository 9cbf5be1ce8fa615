----------------------------- MODULE FramingMC ------------------------------
(***************************************************************************)
(* A cap of three bytes: a short message, one of exactly the cap whose     *)
(* bytes also read as a header, and one that is too long to be sent.       *)
(* Damage: a length beyond the cap whose low byte is zero, an empty        *)
(* payload, and a payload of the right length that is no message.          *)
(***************************************************************************)
EXTENDS Framing

CONSTANTS short, full, huge

Messages == {short, full, huge}

Payloads == [m \in Messages |-> CASE m = short -> <<1>>
                                  [] m = full  -> <<3, 0, 0>>
                                  [] m = huge  -> <<2, 0, 0, 0>>]

Damaged == {<<0, 1, 0, 0>>, <<0, 0, 0, 0>>, <<1, 0, 0, 0, 9>>}

=============================================================================
