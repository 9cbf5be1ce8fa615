---------------------------- MODULE StreamingRpc -----------------------------
(***************************************************************************)
(* What the model API promises a client on one connection: a greeting,     *)
(* then one request at a time, each answered by at most one reply, which   *)
(* comes after every event of that request.  Events may be missing, never  *)
(* repeated or reordered, and never mixed with those of another request.   *)
(* Connection.tla is shown to implement this.                              *)
(***************************************************************************)
EXTENDS Integers, Sequences

CONSTANT Numbers   \* what events are numbered with: positive naturals

VARIABLES
  wire,    \* the frames the server has written
  asked,   \* the requests it has accepted
  phase    \* "new", "idle", "busy" or "closed"

vars == <<wire, asked, phase>>

Greeting       == [type |-> "hello", req |-> 0, n |-> 0]
Mismatch       == [type |-> "error", req |-> 0, n |-> 0]
Farewell       == [type |-> "goodbye", req |-> 0, n |-> 0]
Event(i, n)    == [type |-> "event", req |-> i, n |-> n]
ReplyTypes     == {"complete", "error"}
Reply(type, i) == [type |-> type, req |-> i, n |-> 0]

Init == wire = <<>> /\ asked = 0 /\ phase = "new"

Greet ==
  /\ phase = "new" /\ phase' = "idle"
  /\ wire' = Append(wire, Greeting)
  /\ UNCHANGED asked

Reject ==
  /\ phase = "new" /\ phase' = "closed"
  /\ wire' = Append(wire, Mismatch)
  /\ UNCHANGED asked

Ask ==
  /\ phase = "idle" /\ phase' = "busy"
  /\ asked' = asked + 1
  /\ UNCHANGED wire

(* Later than every event of the request so far *)
Notify(n) ==
  /\ phase = "busy"
  /\ \A f \in DOMAIN wire : wire[f].req = asked => wire[f].n < n
  /\ wire' = Append(wire, Event(asked, n))
  /\ UNCHANGED <<asked, phase>>

Answer(type) ==
  /\ phase = "busy" /\ phase' = "idle"
  /\ wire' = Append(wire, Reply(type, asked))
  /\ UNCHANGED asked

Leave ==
  /\ phase = "idle" /\ phase' = "closed"
  /\ wire' = Append(wire, Farewell)
  /\ UNCHANGED asked

(* A connection may end at any time *)
Close ==
  /\ phase # "closed" /\ phase' = "closed"
  /\ UNCHANGED <<wire, asked>>

Next ==
  \/ Greet \/ Reject \/ Ask \/ Leave \/ Close
  \/ \E n \in Numbers : Notify(n)
  \/ \E type \in ReplyTypes : Answer(type)

Spec == Init /\ [][Next]_vars

=============================================================================
