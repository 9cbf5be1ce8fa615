----------------------------- MODULE MessageFifo -----------------------------
(***************************************************************************)
(* What the codec promises of one direction of a connection: messages      *)
(* arrive whole, once and in order; a clean end says that nothing is       *)
(* missing, and an error has a cause: bytes that are no message, or a      *)
(* sender that stopped inside one, which is then never delivered.  Framing *)
(* is shown to implement this.                                             *)
(***************************************************************************)
EXTENDS Integers, Sequences

CONSTANTS
  Message,   \* what the two sides exchange
  Damage     \* what can be on a connection and is no message

VARIABLES
  sent,      \* what the sender has put on the connection, at least in part
  open,      \* the sender may go on
  cut,       \* it stopped inside what it sent last
  received,  \* what the receiver was given
  outcome    \* "reading", "closed" or "failed"

vars == <<sent, open, cut, received, outcome>>

Init == sent = <<>> /\ open = TRUE /\ cut = FALSE /\ received = <<>> /\ outcome = "reading"

Send(x) ==
  /\ open
  /\ sent' = Append(sent, x)
  /\ UNCHANGED <<open, cut, received, outcome>>

Stop ==
  /\ open /\ open' = FALSE
  /\ cut' \in BOOLEAN /\ (cut' => sent # <<>>)
  /\ UNCHANGED <<sent, received, outcome>>

Upcoming == sent[Len(received) + 1]

(* Nothing behind what is upcoming, which stays incomplete *)
Missing == cut /\ Len(received) + 1 = Len(sent)

Deliver ==
  /\ outcome = "reading" /\ Len(received) < Len(sent)
  /\ Upcoming \in Message /\ ~Missing
  /\ received' = Append(received, Upcoming)
  /\ UNCHANGED <<sent, open, cut, outcome>>

Close ==
  /\ outcome = "reading" /\ ~open /\ received = sent
  /\ outcome' = "closed"
  /\ UNCHANGED <<sent, open, cut, received>>

Fail ==
  /\ outcome = "reading" /\ Len(received) < Len(sent)
  /\ Upcoming \in Damage \/ Missing
  /\ outcome' = "failed"
  /\ UNCHANGED <<sent, open, cut, received>>

Next == \/ \E x \in Message \cup Damage : Send(x)
        \/ Stop \/ Deliver \/ Close \/ Fail

Spec == Init /\ [][Next]_vars

=============================================================================
