----------------------------- MODULE Connection ------------------------------
(***************************************************************************)
(* handle_client (model_api_server/src/lib.rs): one connection, with the   *)
(* generation its current request runs.                                    *)
(*                                                                         *)
(* Four actors take turns at the await points: the handler, the slot task  *)
(* that run_stream executes in, the generator (the closure LiteRtLmSlot    *)
(* runs on the blocking pool, or the body of a slot that emits directly)   *)
(* and the client, which sends, reads and hangs up as it pleases.          *)
(*                                                                         *)
(*   generator --inner--> slot task --events--> handler --written--> client *)
(*              blocking             try_send            socket buffer     *)
(*                                                                         *)
(* Chunks of text are numbered as they are generated; what a frame says is *)
(* its type, the request it is about and, for an event, its number.        *)
(***************************************************************************)
EXTENDS Integers, FiniteSets, Sequences

CONSTANTS
  Backends,     \* the slots the server may run: "relayed" (litert-lm), "direct"
  EventCap,     \* async_channel::bounded::<SlotEvent>(64) of the handler
  InnerCap,     \* async_channel::bounded::<String>(64) of run_stream
  SocketCap,    \* frames the socket holds before a write has to wait
  MaxMessages,  \* bound: messages the client sends
  MaxChunks     \* bound: chunks of one generation

Backend == {"relayed", "direct"}

ASSUME ConnectionAssumption ==
  /\ Backends \subseteq Backend
  /\ EventCap \in Nat \ {0} /\ InnerCap \in Nat \ {0} /\ SocketCap \in Nat \ {0}
  /\ MaxMessages \in Nat /\ MaxChunks \in Nat

(* ClientMessage.  "hello-other" carries another protocol version; "garbage" *)
(* is a frame read_frame_async cannot decode.  "stream" is an Inference that *)
(* sets `stream' or `progress', "plain" one that sets neither.               *)
Message == {"hello", "hello-other", "stream", "plain", "cancel", "shutdown", "garbage"}

VARIABLES
  backend,   \* the slot this server was started with
  pc,        \* where handle_client is
  frame,     \* the frame being written
  inbox,     \* messages sent and not yet read
  sent,      \* how many the client has sent
  open,      \* the client still holds its end of the socket
  written,   \* every frame written to the socket
  taken,     \* how many of them the client has read
  asked,     \* Inference messages accepted
  gen,       \* the generator: off, on, sending a chunk, or ended ok or err
  made,      \* chunks it has produced
  inner,     \* chunks on their way to the slot task
  slot,      \* slot_task: none, running, ok, err, or dropped with the handler
  sink,      \* where the current request's events go: forward or discard
  events,    \* events on their way to the handler
  lost       \* events of the request try_send refused

vars == <<backend, pc, frame, inbox, sent, open, written, taken, asked, gen,
          made, inner, slot, sink, events, lost>>

client     == <<inbox, sent, open, taken>>
generation == <<gen, made, inner, slot, sink, events, lost>>

(* The handler's place as the client could describe it *)
Phase ==
  CASE pc \in {"hello", "writeHello", "writeMismatch"} -> "new"
    [] pc \in {"read", "writeGoodbye"} -> "idle"
    [] pc = "ended" -> "closed"
    [] OTHER -> "busy"

Rpc == INSTANCE StreamingRpc WITH
  Numbers <- 1..(MaxChunks + 1), wire <- written, phase <- Phase

NoFrame == [type |-> "none", req |-> 0, n |-> 0]

Frame == [type : {"none", "hello", "error", "goodbye", "event", "complete"},
          req : Nat, n : Nat]

(* Where handle_client goes on once the frame is written *)
After == [writeHello |-> "read", writeMismatch |-> "ended", writeEvent |-> "drain",
          writeTail |-> "tail", writeReply |-> "read", writeGoodbye |-> "ended"]

Place == DOMAIN After \cup {"hello", "read", "drain", "check", "tail", "await", "ended"}

Init ==
  /\ backend \in Backends
  /\ pc = "hello" /\ frame = NoFrame
  /\ inbox = <<>> /\ sent = 0 /\ open = TRUE
  /\ written = <<>> /\ taken = 0 /\ asked = 0
  /\ gen = "off" /\ made = 0 /\ inner = <<>>
  /\ slot = "none" /\ sink = "discard" /\ events = <<>> /\ lost = {}

-----------------------------------------------------------------------------
(***************************************************************************)
(* The handler: reading.                                                   *)
(***************************************************************************)

Read(from, kinds) ==
  /\ pc = from
  /\ inbox # <<>> /\ Head(inbox) \in kinds
  /\ inbox' = Tail(inbox)
  /\ UNCHANGED <<backend, sent, open, written, taken>>

Writing(place, f) == pc' = place /\ frame' = f

End == pc' = "ended" /\ UNCHANGED frame

Greet ==
  /\ Read("hello", {"hello"})
  /\ Writing("writeHello", Rpc!Greeting)
  /\ UNCHANGED <<asked, generation>>

RejectVersion ==
  /\ Read("hello", {"hello-other"})
  /\ Writing("writeMismatch", Rpc!Mismatch)
  /\ UNCHANGED <<asked, generation>>

(* Anything but Hello first, Hello again, or a frame that does not decode *)
RefuseMessage ==
  /\ \/ Read("hello", Message \ {"hello", "hello-other"})
     \/ Read("read", {"hello", "hello-other", "garbage"})
  /\ End
  /\ UNCHANGED <<asked, generation>>

(* Clean EOF, or a reset when the client left frames unread *)
EndOfInput ==
  /\ pc \in {"hello", "read"} /\ ~open
  /\ inbox = <<>> \/ taken < Len(written)
  /\ End
  /\ UNCHANGED <<backend, client, written, asked, generation>>

(* Both channels are new for each request *)
StartSlot(dest) ==
  /\ asked' = asked + 1
  /\ gen' = "on" /\ made' = 0 /\ inner' = <<>>
  /\ slot' = "running" /\ sink' = dest /\ events' = <<>> /\ lost' = {}

StartStream ==
  /\ Read("read", {"stream"})
  /\ pc' = "drain" /\ UNCHANGED frame
  /\ StartSlot("forward")

StartPlain ==
  /\ Read("read", {"plain"})
  /\ pc' = "await" /\ UNCHANGED frame
  /\ StartSlot("discard")

(* Mutant: a Cancel answered with InferenceError "cancelled" *)
IgnoreCancel_Answered ==
  /\ Read("read", {"cancel"})
  /\ Writing("writeReply", Rpc!Reply("error", asked))
  /\ UNCHANGED <<asked, generation>>

IgnoreCancel ==
  /\ Read("read", {"cancel"})
  /\ UNCHANGED <<pc, frame, asked, generation>>

Shutdown ==
  /\ Read("read", {"shutdown"})
  /\ Writing("writeGoodbye", Rpc!Farewell)
  /\ UNCHANGED <<asked, generation>>

-----------------------------------------------------------------------------
(***************************************************************************)
(* The handler: draining events until the slot has finished.               *)
(***************************************************************************)

Finished == slot \in {"ok", "err"}

TakeEvent(from, place) ==
  /\ pc = from
  /\ events # <<>>
  /\ Writing(place, Rpc!Event(asked, Head(events)))
  /\ events' = Tail(events)
  /\ UNCHANGED <<backend, client, written, asked, gen, made, inner, slot, sink, lost>>

HandlerGoto(from, to) ==
  /\ pc = from /\ pc' = to
  /\ UNCHANGED <<backend, frame, client, written, asked, generation>>

(* Mutant: recv().await for try_recv: `event_tx' is still in scope, so the *)
(* channel is never closed and the handler waits for one more event        *)
NothingPending_Awaits == events # <<>> /\ HandlerGoto("drain", "check")

NothingPending == events = <<>> /\ HandlerGoto("drain", "check")

(* is_finished is read after the queue was seen empty: the slot may have   *)
(* queued its last events in between                                       *)
CheckFinished == Finished /\ HandlerGoto("check", "tail")

YieldNow == ~Finished /\ HandlerGoto("check", "drain")

ReplyOf(outcome) ==
  IF outcome = "ok" THEN Rpc!Reply("complete", asked) ELSE Rpc!Reply("error", asked)

SendReply(from) ==
  /\ pc = from /\ Finished
  /\ Writing("writeReply", ReplyOf(slot))
  /\ UNCHANGED <<backend, client, written, asked, generation>>

(* Mutant: the tail queued since the last try_recv is not drained *)
TailDrained_Skipped == SendReply("tail")

TailDrained == events = <<>> /\ SendReply("tail")

(* The non-streaming path awaits `slot.run' *)
RunReturned == SendReply("await")

-----------------------------------------------------------------------------
(***************************************************************************)
(* The handler: writing.                                                   *)
(***************************************************************************)

WriteFrame ==
  /\ pc \in DOMAIN After /\ pc' = After[pc]
  /\ open /\ Len(written) - taken < SocketCap
  /\ written' = Append(written, frame)
  /\ frame' = NoFrame
  /\ UNCHANGED <<backend, client, asked, generation>>

(* The `?' returns from handle_client: dropping slot_task cancels it, which *)
(* drops the receiver the generator sends to.  A closure that had not begun *)
(* never runs; one that has goes on to its end                              *)
WriteFails ==
  /\ pc \in DOMAIN After /\ pc' = "ended"
  /\ ~open
  /\ frame' = NoFrame
  /\ slot' = IF slot = "running" THEN "dropped" ELSE slot
  /\ inner' = <<>> /\ events' = <<>>
  /\ gen' \in {gen} \cup (IF slot = "running" /\ gen = "on" /\ made = 0 THEN {"off"} ELSE {})
  /\ UNCHANGED <<backend, client, written, asked, made, sink, lost>>

Handler ==
  \/ Greet \/ RejectVersion \/ RefuseMessage \/ EndOfInput
  \/ StartStream \/ StartPlain \/ IgnoreCancel \/ Shutdown
  \/ TakeEvent("drain", "writeEvent") \/ NothingPending \/ CheckFinished \/ YieldNow
  \/ TakeEvent("tail", "writeTail") \/ TailDrained \/ RunReturned
  \/ WriteFrame \/ WriteFails

-----------------------------------------------------------------------------
(***************************************************************************)
(* The generator and the slot task.                                        *)
(***************************************************************************)

(* Mutant: an unbounded event channel *)
Emit_Unbounded(n) ==
  /\ events' = IF sink = "forward" THEN Append(events, n) ELSE events
  /\ UNCHANGED lost

(* Mutant: a sink that waits for room instead of dropping *)
Emit_Blocking(n) ==
  /\ Len(events) < EventCap
  /\ events' = IF sink = "forward" THEN Append(events, n) ELSE events
  /\ UNCHANGED lost

(* Forward is a try_send whose error is ignored; DiscardSink does nothing *)
Emit(n) ==
  IF sink = "discard" THEN UNCHANGED <<events, lost>>
  ELSE IF Len(events) < EventCap THEN events' = Append(events, n) /\ UNCHANGED lost
  ELSE lost' = lost \cup {n} /\ UNCHANGED events

(* The engine has a chunk and calls back with it *)
Produce ==
  /\ gen = "on" /\ gen' = "sending"
  /\ made < MaxChunks /\ made' = made + 1
  /\ UNCHANGED <<backend, pc, frame, client, written, asked, inner, slot, sink, events, lost>>

(* The callback returns.  With litert-lm it sends to the inner channel and   *)
(* waits while that is full, and a send whose receiver was dropped fails at  *)
(* once; the other slots call the sink themselves                            *)
Deliver ==
  /\ gen = "sending" /\ gen' = "on"
  /\ \/ /\ backend = "relayed" /\ slot = "running"
        /\ Len(inner) < InnerCap
        /\ inner' = Append(inner, made)
        /\ UNCHANGED <<events, lost>>
     \/ /\ backend = "direct" /\ slot = "running"
        /\ Emit(made)
        /\ UNCHANGED inner
     \/ /\ slot = "dropped"
        /\ UNCHANGED <<inner, events, lost>>
  /\ UNCHANGED <<backend, pc, frame, client, written, asked, made, slot, sink>>

(* The closure returns and its sender is dropped *)
GenerationEnds(outcome) ==
  /\ gen = "on" /\ gen' = outcome
  /\ UNCHANGED <<backend, pc, frame, client, written, asked, made, inner, slot, sink, events, lost>>

(* `drain': what is received is handed to the sink *)
Relay ==
  /\ slot = "running" /\ inner # <<>>
  /\ Emit(Head(inner))
  /\ inner' = Tail(inner)
  /\ UNCHANGED <<backend, pc, frame, client, written, asked, gen, made, slot, sink>>

(* `zip' is over: the generator has returned and the channel is drained *)
AllRelayed == gen \in {"ok", "err"} /\ inner = <<>>

(* The final marker is emitted only on success *)
SlotReturns ==
  /\ slot = "running" /\ AllRelayed
  /\ slot' = gen
  /\ IF gen = "ok" THEN Emit(made + 1) ELSE UNCHANGED <<events, lost>>
  /\ UNCHANGED <<backend, pc, frame, client, written, asked, gen, made, inner, sink>>

Generator == Produce \/ Deliver \/ \E outcome \in {"ok", "err"} : GenerationEnds(outcome)

-----------------------------------------------------------------------------
(***************************************************************************)
(* The client.                                                             *)
(***************************************************************************)

Send(m) ==
  /\ open /\ sent < MaxMessages
  /\ sent' = sent + 1
  /\ inbox' = Append(inbox, m)
  /\ UNCHANGED <<backend, pc, frame, open, written, taken, asked, generation>>

ReadFrame ==
  /\ open /\ taken < Len(written)
  /\ taken' = taken + 1
  /\ UNCHANGED <<backend, pc, frame, inbox, sent, open, written, asked, generation>>

HangUp ==
  /\ open /\ open' = FALSE
  /\ UNCHANGED <<backend, pc, frame, inbox, sent, written, taken, asked, generation>>

-----------------------------------------------------------------------------
Next ==
  \/ Handler
  \/ Generator \/ Relay \/ SlotReturns
  \/ \E m \in Message : Send(m)
  \/ ReadFrame \/ HangUp

Spec == Init /\ [][Next]_vars

(* The executor polls every task that is ready, and the C call returns.  *)
(* Nothing is assumed of the client: it may never read, or never hang up *)
FairSpec ==
  Spec /\ WF_vars(Handler) /\ WF_vars(Generator) /\ WF_vars(Relay) /\ WF_vars(SlotReturns)

-----------------------------------------------------------------------------
(***************************************************************************)
(* Properties.                                                             *)
(***************************************************************************)

(* Types, and the capacities of the three queues *)
TypeOK ==
  /\ backend \in Backends
  /\ pc \in Place /\ frame \in Frame
  /\ inbox \in Seq(Message) /\ sent \in Nat /\ open \in BOOLEAN
  /\ written \in Seq(Frame) /\ taken \in 0..Len(written) /\ asked \in Nat
  /\ gen \in {"off", "on", "sending", "ok", "err"} /\ made \in Nat
  /\ inner \in Seq(Nat) /\ events \in Seq(Nat) /\ lost \subseteq Nat
  /\ slot \in {"none", "running", "ok", "err", "dropped"}
  /\ sink \in {"forward", "discard"}
  /\ Len(inner) <= InnerCap /\ Len(events) <= EventCap /\ Len(written) - taken <= SocketCap

(* What the client sees is what StreamingRpc promises: replies in the order *)
(* of the requests, one each, and the events of a request, in the order     *)
(* they were generated, before its reply and after the previous one.        *)
RefinesRpc == Rpc!Spec

(* The events of the current request in the frames written so far *)
Reported == {written[i].n : i \in {j \in DOMAIN written :
                                     written[j].req = asked /\ written[j].type = "event"}}

(* When the handler replies to a streaming request, every chunk that was    *)
(* generated has been written or was refused by a full event channel: none  *)
(* is still queued behind the reply, in either channel.                     *)
NothingHeldBack ==
  (pc = "writeReply" /\ sink = "forward") => 1..made \subseteq Reported \cup lost

(* A client that stops reading, or hangs up, never stalls the generator: it *)
(* holds the engine and a thread of the blocking pool.                      *)
GeneratorReleased == gen \in {"on", "sending"} ~> gen \in {"off", "ok", "err"}

(* Every accepted request is replied to, or the connection ends, as long as *)
(* the socket does not stay full for good.                                  *)
RequestAnswered ==
  []<>(Len(written) - taken < SocketCap) =>
    (pc \notin {"hello", "read", "ended"} ~> pc \in {"read", "ended"})

=============================================================================
