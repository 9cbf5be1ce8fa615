-------------------------- MODULE Connection_proofs --------------------------
(***************************************************************************)
(* Connection implements StreamingRpc, for any sizes of its queues, any    *)
(* number of messages and any length of a generation.                      *)
(*                                                                         *)
(* That events reach the wire in order is a property of the whole chain of *)
(* queues: what is written comes before what is being written, that before *)
(* what waits for the handler, that before what waits for the slot task,   *)
(* and all of it before the chunk the generator holds (OrderOK).           *)
(***************************************************************************)
EXTENDS Connection, SequenceTheorems, TLAPS

Elems(s) == {s[i] : i \in DOMAIN s}

Rising(s) == \A i, j \in DOMAIN s : i < j => s[i] < s[j]

Below(A, B) == \A a \in A, b \in B : a < b

(* The numbers of the current request on the wire, and of the frame on its way *)
Seen == {written[i].n : i \in {j \in DOMAIN written : written[j].req = asked}}

Pending == IF pc \in {"writeEvent", "writeTail"} THEN {frame.n} ELSE {}

(* No number beyond it has been handed on by the generator or the slot task *)
Ceiling == IF slot # "running" THEN made + 1 ELSE IF gen = "sending" THEN made - 1 ELSE made

OrderOK ==
  pc # "ended" =>
    /\ Rising(events) /\ Rising(inner)
    /\ Below(Seen, Pending) /\ Below(Seen, Elems(events)) /\ Below(Seen, Elems(inner))
    /\ Below(Pending, Elems(events)) /\ Below(Pending, Elems(inner))
    /\ Below(Elems(events), Elems(inner))
    /\ Seen \subseteq 0..Ceiling
    /\ Pending \subseteq 1..Ceiling
    /\ Elems(events) \subseteq 1..Ceiling
    /\ Elems(inner) \subseteq 1..Ceiling

(* Where the slot and the generator are when the handler is where it is *)
ControlOK ==
  /\ pc \in {"hello", "writeHello", "writeMismatch"} => slot = "none"
  /\ pc \in {"read", "writeGoodbye"} => slot \in {"none", "ok", "err"}
  /\ pc \in {"drain", "check", "writeEvent", "await"} => slot \in {"running", "ok", "err"}
  /\ pc \in {"tail", "writeTail", "writeReply"} => Finished
  /\ pc \in {"drain", "check", "tail", "writeEvent", "writeTail"} => sink = "forward"
  /\ pc = "await" => sink = "discard"
  /\ pc = "writeReply" /\ sink = "forward" => events = <<>>
  /\ slot = "dropped" => pc = "ended"
  /\ slot = "none" => gen = "off" /\ inner = <<>>
  /\ Finished => gen = slot /\ inner = <<>>
  /\ slot = "running" => gen # "off"
  /\ gen = "sending" => made > 0
  /\ made <= MaxChunks
  /\ backend = "direct" => inner = <<>>

FrameOK ==
  /\ pc = "writeHello" => frame = Rpc!Greeting
  /\ pc = "writeMismatch" => frame = Rpc!Mismatch
  /\ pc = "writeGoodbye" => frame = Rpc!Farewell
  /\ pc = "writeReply" => \E type \in Rpc!ReplyTypes : frame = Rpc!Reply(type, asked)
  /\ pc \in {"writeEvent", "writeTail"} => frame = Rpc!Event(asked, frame.n)

WrittenOK == \A i \in DOMAIN written : written[i].req <= asked

(* A chunk that was generated is on the wire, on its way to it, or lost *)
HeldOK ==
  (pc # "ended" /\ sink = "forward") =>
    1..made \subseteq Reported \cup lost \cup Pending \cup Elems(events) \cup Elems(inner)
                        \cup (IF gen = "sending" THEN {made} ELSE {})

IInv == TypeOK /\ ControlOK /\ FrameOK /\ WrittenOK /\ OrderOK /\ HeldOK

-----------------------------------------------------------------------------
(* Queues of numbers *)
LEMMA AppendFacts ==
  ASSUME NEW s \in Seq(Nat), NEW x \in Nat
  PROVE  /\ Append(s, x) \in Seq(Nat) /\ Len(Append(s, x)) = Len(s) + 1
         /\ Elems(Append(s, x)) = Elems(s) \cup {x}
         /\ (Rising(s) /\ Below(Elems(s), {x})) => Rising(Append(s, x))
<1>1. /\ Append(s, x) \in Seq(Nat) /\ Len(Append(s, x)) = Len(s) + 1
      /\ \A i \in 1..Len(s) : Append(s, x)[i] = s[i]
      /\ Append(s, x)[Len(s) + 1] = x
  BY AppendProperties
<1>2. DOMAIN Append(s, x) = 1..(Len(s) + 1) /\ DOMAIN s = 1..Len(s) /\ Len(s) \in Nat
  BY <1>1, LenProperties
<1>3. Elems(Append(s, x)) = Elems(s) \cup {x}
  <2>1. ASSUME NEW e \in Elems(s) \cup {x} PROVE e \in Elems(Append(s, x))
    BY <1>1, <1>2, <2>1 DEF Elems
  <2>2. ASSUME NEW e \in Elems(Append(s, x)) PROVE e \in Elems(s) \cup {x}
    BY <1>1, <1>2, <2>2 DEF Elems
  <2> QED BY <2>1, <2>2
<1>4. ASSUME Rising(s), Below(Elems(s), {x}) PROVE Rising(Append(s, x))
  <2> SUFFICES ASSUME NEW i \in 1..(Len(s) + 1), NEW j \in 1..(Len(s) + 1), i < j
               PROVE  Append(s, x)[i] < Append(s, x)[j]
    BY <1>2 DEF Rising
  <2>1. i \in 1..Len(s) /\ Append(s, x)[i] = s[i]
    BY <1>1, <1>2
  <2>2. CASE j = Len(s) + 1
    BY <1>1, <1>2, <1>4, <2>1, <2>2 DEF Below, Elems
  <2>3. CASE j # Len(s) + 1
    BY <1>1, <1>2, <1>4, <2>1, <2>3 DEF Rising
  <2> QED BY <2>2, <2>3
<1> QED BY <1>1, <1>3, <1>4

LEMMA TailFacts ==
  ASSUME NEW s \in Seq(Nat), s # <<>>
  PROVE  /\ Head(s) \in Nat /\ Tail(s) \in Seq(Nat) /\ Len(Tail(s)) = Len(s) - 1
         /\ Elems(s) = {Head(s)} \cup Elems(Tail(s))
         /\ Rising(s) => Rising(Tail(s)) /\ Below({Head(s)}, Elems(Tail(s)))
<1>1. /\ Head(s) \in Nat /\ Tail(s) \in Seq(Nat) /\ Len(Tail(s)) = Len(s) - 1
      /\ \A i \in 1..(Len(s) - 1) : Tail(s)[i] = s[i + 1]
      /\ Head(s) = s[1] /\ Len(s) > 0
  BY HeadTailProperties, EmptySeq, LenProperties
<1>2. DOMAIN Tail(s) = 1..(Len(s) - 1) /\ DOMAIN s = 1..Len(s) /\ Len(s) \in Nat
  BY <1>1, LenProperties
<1>3. Elems(s) = {Head(s)} \cup Elems(Tail(s))
  <2>1. ASSUME NEW i \in DOMAIN s PROVE s[i] \in {Head(s)} \cup Elems(Tail(s))
    <3>1. CASE i = 1
      BY <1>1, <3>1
    <3>2. CASE i # 1
      <4>1. i - 1 \in 1..(Len(s) - 1) /\ Tail(s)[i - 1] = s[i]
        BY <1>1, <1>2, <3>2
      <4> QED BY <1>2, <4>1 DEF Elems
    <3> QED BY <3>1, <3>2
  <2>2. ASSUME NEW e \in {Head(s)} \cup Elems(Tail(s)) PROVE e \in Elems(s)
    <3>1. CASE e = Head(s)
      BY <1>1, <1>2, <3>1 DEF Elems
    <3>2. CASE e \in Elems(Tail(s))
      <4>1. PICK i \in 1..(Len(s) - 1) : e = Tail(s)[i]
        BY <1>2, <3>2 DEF Elems
      <4> QED BY <1>1, <1>2, <4>1 DEF Elems
    <3> QED BY <3>1, <3>2
  <2> QED BY <2>1, <2>2 DEF Elems
<1>4. ASSUME Rising(s) PROVE Rising(Tail(s)) /\ Below({Head(s)}, Elems(Tail(s)))
  <2>1. Rising(Tail(s))
    <3> SUFFICES ASSUME NEW i \in 1..(Len(s) - 1), NEW j \in 1..(Len(s) - 1), i < j
                 PROVE  Tail(s)[i] < Tail(s)[j]
      BY <1>2 DEF Rising
    <3>1. i + 1 \in DOMAIN s /\ j + 1 \in DOMAIN s /\ i + 1 < j + 1
      BY <1>2
    <3>2. s[i + 1] < s[j + 1]
      BY <1>4, <3>1 DEF Rising
    <3> QED BY <1>1, <3>2
  <2>2. ASSUME NEW i \in 1..(Len(s) - 1) PROVE Head(s) < Tail(s)[i]
    <3>1. 1 \in DOMAIN s /\ i + 1 \in DOMAIN s /\ 1 < i + 1
      BY <1>1, <1>2
    <3>2. s[1] < s[i + 1]
      BY <1>4, <3>1 DEF Rising
    <3> QED BY <1>1, <3>2
  <2> QED BY <1>2, <2>1, <2>2 DEF Below, Elems
<1> QED BY <1>1, <1>3, <1>4

LEMMA WrittenType ==
  ASSUME TypeOK
  PROVE  \A i \in DOMAIN written : written[i] \in Frame /\ written[i].req \in Nat
<1>1. written \in [DOMAIN written -> Frame]
  BY LenProperties DEF TypeOK
<1>2. \A f \in Frame : f.req \in Nat
  BY DEF Frame
<1> QED BY <1>1, <1>2

(* A frame more on the wire *)
LEMMA WriteFacts ==
  ASSUME TypeOK, WrittenOK, written' = Append(written, frame), asked' = asked,
         frame.req <= asked
  PROVE  /\ written' \in Seq(Frame) /\ Len(written') = Len(written) + 1
         /\ WrittenOK'
         /\ Seen' = Seen \cup (IF frame.req = asked THEN {frame.n} ELSE {})
         /\ Reported' = Reported \cup
              (IF frame.req = asked /\ frame.type = "event" THEN {frame.n} ELSE {})
<1>1. /\ written' \in Seq(Frame) /\ Len(written') = Len(written) + 1
      /\ \A i \in 1..Len(written) : written'[i] = written[i]
      /\ written'[Len(written) + 1] = frame
  BY AppendProperties DEF TypeOK
<1>2. /\ DOMAIN written' = 1..(Len(written) + 1) /\ DOMAIN written = 1..Len(written)
      /\ Len(written) \in Nat
  BY <1>1, LenProperties DEF TypeOK
<1>3. WrittenOK'
  BY <1>1, <1>2 DEF WrittenOK
<1>4. \A i \in DOMAIN written' :
        \/ i \in DOMAIN written /\ written'[i] = written[i]
        \/ i = Len(written) + 1 /\ written'[i] = frame
  BY <1>1, <1>2
<1>5. /\ Len(written) + 1 \in DOMAIN written'
      /\ \A i \in DOMAIN written : i \in DOMAIN written' /\ written'[i] = written[i]
  BY <1>1, <1>2
<1>6. Seen' = Seen \cup (IF frame.req = asked THEN {frame.n} ELSE {})
  BY <1>1, <1>4, <1>5 DEF Seen
<1>7. Reported' = Reported \cup
        (IF frame.req = asked /\ frame.type = "event" THEN {frame.n} ELSE {})
  BY <1>1, <1>4, <1>5 DEF Reported
<1> QED BY <1>1, <1>3, <1>6, <1>7

(* After as a table *)
LEMMA AfterTable ==
  /\ DOMAIN After = {"writeHello", "writeMismatch", "writeEvent", "writeTail",
                     "writeReply", "writeGoodbye"}
  /\ After["writeHello"] = "read" /\ After["writeMismatch"] = "ended"
  /\ After["writeEvent"] = "drain" /\ After["writeTail"] = "tail"
  /\ After["writeReply"] = "read" /\ After["writeGoodbye"] = "ended"
BY DEF After

(* A queue that took what the sink was given, or lost it *)
LEMMA EmitFacts ==
  ASSUME TypeOK, NEW n \in Nat, Emit(n)
  PROVE  /\ events' \in Seq(Nat) /\ Len(events') <= EventCap
         /\ lost' \subseteq Nat /\ lost \subseteq lost'
         /\ Elems(events) \subseteq Elems(events')
         /\ Elems(events') \subseteq Elems(events) \cup {n}
         /\ sink = "forward" => n \in Elems(events') \cup lost'
         /\ (Rising(events) /\ Below(Elems(events), {n})) => Rising(events')
<1>1. events \in Seq(Nat) /\ Len(events) \in Nat /\ Len(events) <= EventCap /\ lost \subseteq Nat
  BY LenProperties DEF TypeOK
<1>2. CASE UNCHANGED <<events, lost>> /\ sink = "discard"
  BY <1>1, <1>2
<1>3. CASE events' = Append(events, n) /\ UNCHANGED lost /\ Len(events) < EventCap
  <2>1. Len(events) + 1 <= EventCap
    BY <1>1, <1>3, ConnectionAssumption
  <2>2. /\ events' \in Seq(Nat) /\ Len(events') = Len(events) + 1
        /\ Elems(events') = Elems(events) \cup {n}
        /\ (Rising(events) /\ Below(Elems(events), {n})) => Rising(events')
    BY <1>1, <1>3, AppendFacts
  <2> QED BY <1>1, <1>3, <2>1, <2>2
<1>4. CASE lost' = lost \cup {n} /\ UNCHANGED events
  BY <1>1, <1>4
<1> QED BY <1>2, <1>3, <1>4 DEF Emit

(* The part of IInv about numbers, when they stay where they are *)
LEMMA NumbersStay ==
  ASSUME IInv, UNCHANGED <<written, asked, generation>>,
         pc' = "ended" \/ (pc # "ended" /\ Pending' = Pending)
  PROVE  WrittenOK' /\ OrderOK' /\ HeldOK'
<1>1. UNCHANGED <<written, asked, gen, made, inner, slot, sink, events, lost>>
  BY DEF generation
<1>2. Seen' = Seen /\ Reported' = Reported /\ Ceiling' = Ceiling
  BY <1>1 DEF Seen, Reported, Ceiling
<1>3. WrittenOK'
  BY <1>1 DEF IInv, WrittenOK
<1>4. CASE pc' = "ended"
  BY <1>3, <1>4 DEF OrderOK, HeldOK
<1>5. CASE pc # "ended" /\ Pending' = Pending
  BY <1>1, <1>2, <1>3, <1>5 DEF IInv, OrderOK, HeldOK
<1> QED BY <1>4, <1>5

-----------------------------------------------------------------------------
(* The handler *)
LEMMA ReadType ==
  ASSUME TypeOK, NEW from, NEW kinds, Read(from, kinds)
  PROVE  /\ inbox' \in Seq(Message) /\ pc = from
         /\ UNCHANGED <<backend, sent, open, written, taken>>
BY HeadTailProperties DEF TypeOK, Read

LEMMA ReadsIInv ==
  ASSUME IInv,
         Greet \/ RejectVersion \/ RefuseMessage \/ IgnoreCancel \/ Shutdown
  PROVE  IInv'
<1> USE DEF IInv
<1>1. /\ inbox' \in Seq(Message) /\ UNCHANGED <<backend, sent, open, written, taken>>
      /\ pc \in {"hello", "read"}
  BY ReadType DEF Greet, RejectVersion, RefuseMessage, IgnoreCancel, Shutdown
<1>2. /\ UNCHANGED <<asked, gen, made, inner, slot, sink, events, lost>>
      /\ \/ pc = "hello" /\ pc' = "writeHello" /\ frame' = Rpc!Greeting
         \/ pc = "hello" /\ pc' = "writeMismatch" /\ frame' = Rpc!Mismatch
         \/ pc' = "ended" /\ frame' = frame
         \/ pc = "read" /\ pc' = "read" /\ frame' = frame
         \/ pc = "read" /\ pc' = "writeGoodbye" /\ frame' = Rpc!Farewell
  BY DEF Greet, RejectVersion, RefuseMessage, IgnoreCancel, Shutdown, Read, Writing, End,
         generation
<1>3. TypeOK'
  <2>1. frame' \in Frame
    BY <1>2 DEF TypeOK, Frame, Rpc!Greeting, Rpc!Mismatch, Rpc!Farewell
  <2>2. pc' \in Place
    BY <1>2, AfterTable DEF Place
  <2> QED BY <1>1, <1>2, <2>1, <2>2 DEF TypeOK
<1>4. ControlOK'
  BY <1>1, <1>2 DEF ControlOK, Finished
<1>5. FrameOK'
  BY <1>1, <1>2 DEF FrameOK
<1>6. WrittenOK' /\ OrderOK' /\ HeldOK'
  <2>1. pc' = "ended" \/ (pc # "ended" /\ Pending' = Pending)
    BY <1>1, <1>2 DEF Pending
  <2> QED BY <1>1, <1>2, <2>1, NumbersStay DEF generation
<1> QED BY <1>3, <1>4, <1>5, <1>6

LEMMA EndOfInputIInv ==
  ASSUME IInv, EndOfInput
  PROVE  IInv'
<1> USE DEF IInv
<1>1. /\ pc' = "ended"
      /\ UNCHANGED <<backend, frame, inbox, sent, open, written, taken, asked, gen, made,
                     inner, slot, sink, events, lost>>
  BY DEF EndOfInput, End, client, generation
<1>2. TypeOK'
  BY <1>1, AfterTable DEF TypeOK, Place
<1>3. ControlOK'
  BY <1>1 DEF ControlOK, Finished
<1>4. FrameOK'
  BY <1>1 DEF FrameOK
<1>5. WrittenOK' /\ OrderOK' /\ HeldOK'
  BY <1>1, NumbersStay DEF generation
<1> QED BY <1>2, <1>3, <1>4, <1>5

(* A request starts with empty queues and a number of its own *)
LEMMA StartIInv ==
  ASSUME IInv, StartStream \/ StartPlain
  PROVE  IInv'
<1> USE DEF IInv
<1>1. /\ inbox' \in Seq(Message) /\ UNCHANGED <<backend, frame, sent, open, written, taken>>
      /\ asked' = asked + 1 /\ gen' = "on" /\ made' = 0 /\ inner' = <<>>
      /\ slot' = "running" /\ events' = <<>> /\ lost' = {}
      /\ \/ pc' = "drain" /\ sink' = "forward"
         \/ pc' = "await" /\ sink' = "discard"
  BY ReadType DEF StartStream, StartPlain, StartSlot
<1>2. <<>> \in Seq(Nat) /\ Len(<<>>) = 0
  BY EmptySeq
<1>3. TypeOK'
  <2>1. pc' \in Place
    BY <1>1 DEF Place
  <2> QED BY <1>1, <1>2, <2>1, ConnectionAssumption DEF TypeOK
<1>4. ControlOK'
  BY <1>1, ConnectionAssumption DEF ControlOK, Finished
<1>5. FrameOK'
  BY <1>1 DEF FrameOK
<1>6. \A i \in DOMAIN written : written[i].req < asked'
  <2>1. \A i \in DOMAIN written : written[i].req \in Nat
    BY WrittenType
  <2> QED BY <1>1, <2>1 DEF TypeOK, WrittenOK
<1>7. WrittenOK' /\ Seen' = {} /\ Pending' = {}
  <2>1. \A i \in DOMAIN written : written[i].req \in Nat
    BY WrittenType
  <2> QED BY <1>1, <1>6, <2>1 DEF WrittenOK, Seen, Pending, TypeOK
<1>8. Elems(<<>>) = {} /\ Rising(<<>>)
  BY DEF Elems, Rising
<1>9. OrderOK'
  BY <1>1, <1>7, <1>8 DEF OrderOK, Below
<1>10. HeldOK'
  BY <1>1 DEF HeldOK
<1> QED BY <1>3, <1>4, <1>5, <1>7, <1>9, <1>10

LEMMA TakeEventIInv ==
  ASSUME IInv,
         NEW from, NEW place,
         <<from, place>> \in {<<"drain", "writeEvent">>, <<"tail", "writeTail">>},
         TakeEvent(from, place)
  PROVE  IInv'
<1> USE DEF IInv
<1> DEFINE n == Head(events)
<1>1. /\ pc = from /\ pc' = place /\ events # <<>> /\ events' = Tail(events)
      /\ frame' = Rpc!Event(asked, n)
      /\ UNCHANGED <<backend, inbox, sent, open, written, taken, asked, gen, made, inner,
                     slot, sink, lost>>
  BY DEF TakeEvent, Writing, client
<1>2. \/ pc = "drain" /\ pc' = "writeEvent"
      \/ pc = "tail" /\ pc' = "writeTail"
  BY <1>1
<1>3. /\ n \in Nat /\ events' \in Seq(Nat) /\ Len(events') = Len(events) - 1
      /\ Elems(events) = {n} \cup Elems(events')
      /\ Rising(events) => Rising(events') /\ Below({n}, Elems(events'))
  BY <1>1, TailFacts DEF TypeOK
<1>4. frame'.n = n /\ frame' \in Frame
  BY <1>1, <1>3 DEF TypeOK, Frame, Rpc!Event
<1>5. TypeOK'
  <2>1. Len(events') <= EventCap
    BY <1>3, LenProperties, ConnectionAssumption DEF TypeOK
  <2>2. pc' \in Place
    BY <1>2, AfterTable DEF Place
  <2> QED BY <1>1, <1>3, <1>4, <2>1, <2>2 DEF TypeOK
<1>6. ControlOK'
  BY <1>1, <1>2 DEF ControlOK, Finished
<1>7. FrameOK'
  BY <1>1, <1>2, <1>4 DEF FrameOK
<1>8. /\ Seen' = Seen /\ Reported' = Reported /\ Ceiling' = Ceiling
      /\ Pending = {} /\ Pending' = {n}
  BY <1>1, <1>2, <1>4 DEF Seen, Reported, Ceiling, Pending
<1>9. WrittenOK'
  BY <1>1 DEF WrittenOK
<1>10. OrderOK'
  BY <1>1, <1>2, <1>3, <1>8 DEF OrderOK, Below
<1>11. HeldOK'
  BY <1>1, <1>2, <1>3, <1>8 DEF HeldOK
<1> QED BY <1>5, <1>6, <1>7, <1>9, <1>10, <1>11

LEMMA GotoIInv ==
  ASSUME IInv, NothingPending \/ CheckFinished \/ YieldNow
  PROVE  IInv'
<1> USE DEF IInv
<1>1. /\ UNCHANGED <<backend, frame, inbox, sent, open, written, taken, asked, gen, made,
                     inner, slot, sink, events, lost>>
      /\ \/ pc = "drain" /\ pc' = "check"
         \/ pc = "check" /\ pc' = "tail" /\ Finished
         \/ pc = "check" /\ pc' = "drain"
  BY DEF NothingPending, CheckFinished, YieldNow, HandlerGoto, client, generation
<1>2. TypeOK'
  <2>1. pc' \in Place
    BY <1>1 DEF Place
  <2> QED BY <1>1, <2>1 DEF TypeOK
<1>3. ControlOK'
  BY <1>1 DEF ControlOK, Finished
<1>4. FrameOK'
  BY <1>1 DEF FrameOK
<1>5. WrittenOK' /\ OrderOK' /\ HeldOK'
  <2>1. pc # "ended" /\ Pending' = Pending
    BY <1>1 DEF Pending
  <2> QED BY <1>1, <2>1, NumbersStay DEF generation
<1> QED BY <1>2, <1>3, <1>4, <1>5

LEMMA SendReplyIInv ==
  ASSUME IInv, TailDrained \/ RunReturned
  PROVE  IInv'
<1> USE DEF IInv
<1>1. /\ UNCHANGED <<backend, inbox, sent, open, written, taken, asked, gen, made,
                     inner, slot, sink, events, lost>>
      /\ pc' = "writeReply" /\ frame' = ReplyOf(slot) /\ Finished
      /\ \/ pc = "tail" /\ events = <<>>
         \/ pc = "await"
  BY DEF TailDrained, RunReturned, SendReply, Writing, client, generation
<1>2. PICK type \in Rpc!ReplyTypes : frame' = Rpc!Reply(type, asked)
  BY <1>1 DEF ReplyOf, Rpc!ReplyTypes
<1>3. TypeOK'
  <2>1. frame' \in Frame
    BY <1>2 DEF TypeOK, Frame, Rpc!Reply, Rpc!ReplyTypes
  <2>2. pc' \in Place
    BY <1>1, AfterTable DEF Place
  <2> QED BY <1>1, <2>1, <2>2 DEF TypeOK
<1>4. ControlOK'
  BY <1>1 DEF ControlOK, Finished
<1>5. FrameOK'
  BY <1>1, <1>2 DEF FrameOK
<1>6. WrittenOK' /\ OrderOK' /\ HeldOK'
  <2>1. pc # "ended" /\ Pending' = Pending
    BY <1>1 DEF Pending
  <2> QED BY <1>1, <2>1, NumbersStay DEF generation
<1> QED BY <1>3, <1>4, <1>5, <1>6

(* The frame that was pending is now the last one seen *)
LEMMA WriteFrameIInv ==
  ASSUME IInv, WriteFrame
  PROVE  IInv'
<1> USE DEF IInv
<1>1. /\ pc \in DOMAIN After /\ pc' = After[pc] /\ Len(written) - taken < SocketCap
      /\ written' = Append(written, frame) /\ frame' = NoFrame
      /\ UNCHANGED <<backend, inbox, sent, open, taken, asked, gen, made,
                     inner, slot, sink, events, lost>>
  BY DEF WriteFrame, client, generation
<1>2. \/ pc = "writeHello" /\ pc' = "read" /\ frame = Rpc!Greeting
      \/ pc = "writeMismatch" /\ pc' = "ended" /\ frame = Rpc!Mismatch
      \/ pc = "writeEvent" /\ pc' = "drain" /\ frame = Rpc!Event(asked, frame.n)
      \/ pc = "writeTail" /\ pc' = "tail" /\ frame = Rpc!Event(asked, frame.n)
      \/ /\ pc = "writeReply" /\ pc' = "read"
         /\ \E type \in Rpc!ReplyTypes : frame = Rpc!Reply(type, asked)
      \/ pc = "writeGoodbye" /\ pc' = "ended" /\ frame = Rpc!Farewell
  BY <1>1, AfterTable DEF FrameOK
<1>3. asked \in Nat /\ frame.req \in Nat /\ frame.n \in Nat /\ frame.req <= asked
  <2>1. asked \in Nat /\ frame.req \in Nat /\ frame.n \in Nat
    BY DEF TypeOK, Frame
  <2>2. frame.req = 0 \/ frame.req = asked
    BY <1>2 DEF Rpc!Greeting, Rpc!Mismatch, Rpc!Event, Rpc!Reply, Rpc!Farewell
  <2> QED BY <2>1, <2>2
<1>4. /\ written' \in Seq(Frame) /\ Len(written') = Len(written) + 1
      /\ WrittenOK'
      /\ Seen' = Seen \cup (IF frame.req = asked THEN {frame.n} ELSE {})
      /\ Reported' = Reported \cup
           (IF frame.req = asked /\ frame.type = "event" THEN {frame.n} ELSE {})
  BY <1>1, <1>3, WriteFacts
<1>5. TypeOK'
  <2>1. pc' \in Place
    BY <1>2, AfterTable DEF Place
  <2>2. frame' \in Frame
    BY <1>1 DEF Frame, NoFrame
  <2>3. taken \in 0..Len(written') /\ Len(written') - taken <= SocketCap
    BY <1>1, <1>4, LenProperties, ConnectionAssumption DEF TypeOK
  <2> QED BY <1>1, <1>4, <2>1, <2>2, <2>3 DEF TypeOK
<1>6. ControlOK'
  BY <1>1, <1>2 DEF ControlOK, Finished
<1>7. FrameOK'
  BY <1>2 DEF FrameOK
<1>8. CASE pc' = "ended"
  BY <1>4, <1>5, <1>6, <1>7, <1>8 DEF OrderOK, HeldOK
<1>9. CASE pc \in {"writeHello", "writeReply"}
  <2>1. /\ frame.n = 0 /\ frame.type # "event"
        /\ Pending = {} /\ Pending' = {} /\ Ceiling' = Ceiling
    BY <1>1, <1>2, <1>9
       DEF Rpc!Greeting, Rpc!Reply, Rpc!ReplyTypes, Pending, Ceiling
  <2>2. Ceiling \in Nat
    BY DEF Ceiling, TypeOK, ControlOK
  <2>3. Seen' \subseteq Seen \cup {0} /\ Reported' = Reported
    BY <1>4, <2>1
  <2>4. OrderOK'
    BY <1>1, <1>9, <2>1, <2>2, <2>3 DEF OrderOK, Below
  <2>5. HeldOK'
    BY <1>1, <1>9, <2>1, <2>3 DEF HeldOK
  <2> QED BY <1>4, <1>5, <1>6, <1>7, <2>4, <2>5
<1>10. CASE pc \in {"writeEvent", "writeTail"}
  <2>1. /\ frame.req = asked /\ frame.type = "event"
        /\ Pending = {frame.n} /\ Pending' = {} /\ Ceiling' = Ceiling
    BY <1>1, <1>2, <1>10 DEF Rpc!Event, Pending, Ceiling
  <2>2. Seen' = Seen \cup {frame.n} /\ Reported' = Reported \cup {frame.n}
    BY <1>4, <2>1
  <2>3. OrderOK'
    BY <1>1, <1>10, <2>1, <2>2 DEF OrderOK, Below
  <2>4. HeldOK'
    BY <1>1, <1>10, <2>1, <2>2 DEF HeldOK
  <2> QED BY <1>4, <1>5, <1>6, <1>7, <2>3, <2>4
<1> QED BY <1>2, <1>8, <1>9, <1>10

LEMMA WriteFailsIInv ==
  ASSUME IInv, WriteFails
  PROVE  IInv'
<1> USE DEF IInv
<1>1. /\ pc' = "ended" /\ frame' = NoFrame /\ inner' = <<>> /\ events' = <<>>
      /\ slot' = (IF slot = "running" THEN "dropped" ELSE slot)
      /\ gen' = gen \/ (slot = "running" /\ gen' = "off")
      /\ UNCHANGED <<backend, inbox, sent, open, taken, written, asked, made, sink, lost>>
  BY DEF WriteFails, client
<1>2. TypeOK'
  <2>1. pc' \in Place /\ frame' \in Frame
    BY <1>1, AfterTable DEF Place, Frame, NoFrame
  <2>2. <<>> \in Seq(Nat) /\ Len(<<>>) = 0
    BY EmptySeq
  <2> QED BY <1>1, <2>1, <2>2, ConnectionAssumption DEF TypeOK
<1>3. ControlOK'
  BY <1>1 DEF TypeOK, ControlOK, Finished
<1> QED BY <1>1, <1>2, <1>3 DEF FrameOK, WrittenOK, OrderOK, HeldOK

-----------------------------------------------------------------------------
(* The generator and the slot task.  None of them touches the handler or  *)
(* the wire                                                               *)
LEMMA HandlerStays ==
  ASSUME IInv, UNCHANGED <<pc, frame, written, asked>>
  PROVE  /\ FrameOK' /\ WrittenOK'
         /\ Seen' = Seen /\ Reported' = Reported /\ Pending' = Pending
BY DEF IInv, FrameOK, WrittenOK, Seen, Reported, Pending

LEMMA ProduceIInv ==
  ASSUME IInv, Produce
  PROVE  IInv'
<1> USE DEF IInv
<1>1. /\ gen = "on" /\ gen' = "sending" /\ made < MaxChunks /\ made' = made + 1
      /\ UNCHANGED <<backend, pc, frame, inbox, sent, open, taken, written, asked,
                     inner, slot, sink, events, lost>>
  BY DEF Produce, client
<1>2. slot = "running" \/ pc = "ended"
  BY <1>1 DEF TypeOK, ControlOK, Finished
<1>3. TypeOK'
  BY <1>1, ConnectionAssumption DEF TypeOK
<1>4. ControlOK'
  BY <1>1, ConnectionAssumption DEF TypeOK, ControlOK, Finished
<1>5. /\ FrameOK' /\ WrittenOK'
      /\ Seen' = Seen /\ Reported' = Reported /\ Pending' = Pending
  BY <1>1, HandlerStays
<1>6. OrderOK'
  <2>1. CASE pc = "ended"
    BY <1>1, <2>1 DEF OrderOK
  <2>2. CASE slot = "running"
    <3>1. Ceiling' = Ceiling
      BY <1>1, <2>2 DEF Ceiling, TypeOK
    <3> QED BY <1>1, <1>5, <3>1 DEF OrderOK
  <2> QED BY <1>2, <2>1, <2>2
<1>7. HeldOK'
  <2>1. 1..made' = (1..made) \cup {made'}
    BY <1>1 DEF TypeOK
  <2> QED BY <1>1, <1>5, <2>1 DEF HeldOK
<1> QED BY <1>3, <1>4, <1>5, <1>6, <1>7

LEMMA DeliverIInv ==
  ASSUME IInv, Deliver
  PROVE  IInv'
<1> USE DEF IInv
<1>1. /\ gen = "sending" /\ gen' = "on"
      /\ UNCHANGED <<backend, pc, frame, inbox, sent, open, taken, written, asked,
                     made, slot, sink>>
  BY DEF Deliver, client
<1>2. /\ FrameOK' /\ WrittenOK'
      /\ Seen' = Seen /\ Reported' = Reported /\ Pending' = Pending
  BY <1>1, HandlerStays
<1>3. made \in Nat /\ made > 0 /\ inner \in Seq(Nat) /\ events \in Seq(Nat)
  BY <1>1 DEF TypeOK, ControlOK
<1>4. CASE /\ backend = "relayed" /\ slot = "running" /\ Len(inner) < InnerCap
           /\ inner' = Append(inner, made) /\ UNCHANGED <<events, lost>>
  <2>1. /\ inner' \in Seq(Nat) /\ Len(inner') = Len(inner) + 1
        /\ Elems(inner') = Elems(inner) \cup {made}
        /\ (Rising(inner) /\ Below(Elems(inner), {made})) => Rising(inner')
    BY <1>3, <1>4, AppendFacts
  <2>2. TypeOK'
    <3>1. Len(inner') <= InnerCap
      BY <1>3, <1>4, <2>1, LenProperties, ConnectionAssumption
    <3> QED BY <1>1, <1>4, <2>1, <3>1 DEF TypeOK
  <2>3. ControlOK'
    BY <1>1, <1>4 DEF ControlOK, Finished
  <2>4. Ceiling = made - 1 /\ Ceiling' = made
    BY <1>1, <1>4 DEF Ceiling
  <2>5. ASSUME pc # "ended"
        PROVE  /\ Below(Seen, {made}) /\ Below(Pending, {made})
               /\ Below(Elems(events), {made}) /\ Below(Elems(inner), {made})
    BY <1>3, <2>4, <2>5 DEF OrderOK, Below
  <2>6. OrderOK'
    <3> SUFFICES ASSUME pc # "ended" PROVE OrderOK'
      BY <1>1 DEF OrderOK
    <3>1. Rising(inner') /\ Rising(events')
      BY <1>4, <2>1, <2>5 DEF OrderOK
    <3>2. /\ Below(Seen, Elems(inner')) /\ Below(Pending, Elems(inner'))
          /\ Below(Elems(events), Elems(inner'))
      BY <2>1, <2>5 DEF OrderOK, Below
    <3>3. /\ Seen \subseteq 0..made /\ Pending \subseteq 1..made
          /\ Elems(events) \subseteq 1..made /\ Elems(inner') \subseteq 1..made
      BY <1>3, <2>1, <2>4 DEF OrderOK
    <3> QED BY <1>1, <1>2, <1>4, <2>4, <3>1, <3>2, <3>3 DEF OrderOK
  <2>7. HeldOK'
    BY <1>1, <1>2, <1>4, <2>1 DEF HeldOK
  <2> QED BY <1>2, <2>2, <2>3, <2>6, <2>7
<1>5. CASE backend = "direct" /\ slot = "running" /\ Emit(made) /\ UNCHANGED inner
  <2>1. /\ events' \in Seq(Nat) /\ Len(events') <= EventCap
        /\ lost' \subseteq Nat /\ lost \subseteq lost'
        /\ Elems(events) \subseteq Elems(events')
        /\ Elems(events') \subseteq Elems(events) \cup {made}
        /\ sink = "forward" => made \in Elems(events') \cup lost'
        /\ (Rising(events) /\ Below(Elems(events), {made})) => Rising(events')
    BY <1>3, <1>5, EmitFacts
  <2>2. TypeOK'
    BY <1>1, <1>5, <2>1 DEF TypeOK
  <2>3. ControlOK'
    BY <1>1, <1>5 DEF ControlOK, Finished
  <2>4. Ceiling = made - 1 /\ Ceiling' = made
    BY <1>1, <1>5 DEF Ceiling
  <2>5. inner = <<>> /\ Elems(inner) = {}
    BY <1>5 DEF ControlOK, Elems
  <2>6. OrderOK'
    <3> SUFFICES ASSUME pc # "ended" PROVE OrderOK'
      BY <1>1 DEF OrderOK
    <3>1. Below(Elems(events), {made})
      BY <1>3, <2>4 DEF OrderOK, Below
    <3>2. Rising(inner') /\ Rising(events')
      BY <1>5, <2>1, <3>1 DEF OrderOK
    <3>3. Below(Seen, Elems(events')) /\ Below(Pending, Elems(events'))
      BY <1>3, <2>1, <2>4 DEF OrderOK, Below
    <3>4. /\ Seen \subseteq 0..made /\ Pending \subseteq 1..made
          /\ Elems(events') \subseteq 1..made
      <4>1. /\ 0..(made - 1) \subseteq 0..made /\ 1..(made - 1) \subseteq 1..made
            /\ made \in 1..made
        BY <1>3
      <4>2. /\ Seen \subseteq 0..(made - 1) /\ Pending \subseteq 1..(made - 1)
            /\ Elems(events) \subseteq 1..(made - 1)
        BY <2>4 DEF OrderOK
      <4> QED BY ONLY <2>1, <4>1, <4>2
    <3> QED BY <1>1, <1>2, <1>5, <2>4, <2>5, <3>2, <3>3, <3>4 DEF OrderOK, Below
  <2>7. HeldOK'
    BY <1>1, <1>2, <1>5, <2>1 DEF HeldOK
  <2> QED BY <1>2, <2>2, <2>3, <2>6, <2>7
<1>6. CASE slot = "dropped" /\ UNCHANGED <<inner, events, lost>>
  <2>1. pc' = "ended"
    BY <1>1, <1>6 DEF ControlOK
  <2>2. TypeOK'
    BY <1>1, <1>6 DEF TypeOK
  <2>3. ControlOK'
    BY <1>1, <1>6 DEF ControlOK, Finished
  <2> QED BY <1>2, <2>1, <2>2, <2>3 DEF OrderOK, HeldOK
<1> QED BY <1>4, <1>5, <1>6 DEF Deliver

LEMMA GenerationEndsIInv ==
  ASSUME IInv, NEW outcome \in {"ok", "err"}, GenerationEnds(outcome)
  PROVE  IInv'
<1> USE DEF IInv
<1>1. /\ gen = "on" /\ gen' = outcome
      /\ UNCHANGED <<backend, pc, frame, inbox, sent, open, taken, written, asked,
                     made, inner, slot, sink, events, lost>>
  BY DEF GenerationEnds, client
<1>2. TypeOK'
  BY <1>1 DEF TypeOK
<1>3. ControlOK'
  BY <1>1 DEF ControlOK, Finished
<1>4. /\ FrameOK' /\ WrittenOK'
      /\ Seen' = Seen /\ Reported' = Reported /\ Pending' = Pending
  BY <1>1, HandlerStays
<1>5. Ceiling' = Ceiling
  BY <1>1 DEF Ceiling
<1>6. OrderOK'
  BY <1>1, <1>4, <1>5 DEF OrderOK
<1>7. HeldOK'
  BY <1>1, <1>4 DEF HeldOK
<1> QED BY <1>2, <1>3, <1>4, <1>6, <1>7

LEMMA RelayIInv ==
  ASSUME IInv, Relay
  PROVE  IInv'
<1> USE DEF IInv
<1> DEFINE n == Head(inner)
<1>1. /\ slot = "running" /\ inner # <<>> /\ Emit(n) /\ inner' = Tail(inner)
      /\ UNCHANGED <<backend, pc, frame, inbox, sent, open, taken, written, asked,
                     gen, made, slot, sink>>
  BY DEF Relay, client
<1>2. /\ n \in Nat /\ inner' \in Seq(Nat) /\ Len(inner') = Len(inner) - 1
      /\ Elems(inner) = {n} \cup Elems(inner')
      /\ Rising(inner) => Rising(inner') /\ Below({n}, Elems(inner'))
  BY <1>1, TailFacts DEF TypeOK
<1>3. /\ events' \in Seq(Nat) /\ Len(events') <= EventCap
      /\ lost' \subseteq Nat /\ lost \subseteq lost'
      /\ Elems(events) \subseteq Elems(events')
      /\ Elems(events') \subseteq Elems(events) \cup {n}
      /\ sink = "forward" => n \in Elems(events') \cup lost'
      /\ (Rising(events) /\ Below(Elems(events), {n})) => Rising(events')
  <2> HIDE DEF n
  <2> QED BY <1>1, <1>2, EmitFacts
<1> HIDE DEF n
<1>4. TypeOK'
  <2>1. Len(inner') <= InnerCap
    BY <1>2, LenProperties, ConnectionAssumption DEF TypeOK
  <2> QED BY <1>1, <1>2, <1>3, <2>1 DEF TypeOK
<1>5. ControlOK'
  BY <1>1 DEF ControlOK, Finished
<1>6. /\ FrameOK' /\ WrittenOK'
      /\ Seen' = Seen /\ Reported' = Reported /\ Pending' = Pending
  BY <1>1, HandlerStays
<1>7. Ceiling' = Ceiling
  BY <1>1 DEF Ceiling
<1>8. OrderOK'
  <2> SUFFICES ASSUME pc # "ended" PROVE OrderOK'
    BY <1>1 DEF OrderOK
  <2>1. Below(Elems(events), {n}) /\ Below(Seen, {n}) /\ Below(Pending, {n})
    BY <1>2 DEF OrderOK, Below
  <2>2. Rising(events') /\ Rising(inner')
    BY <1>2, <1>3, <2>1 DEF OrderOK
  <2>3. /\ Below(Seen, Elems(events')) /\ Below(Pending, Elems(events'))
        /\ Below(Seen, Elems(inner')) /\ Below(Pending, Elems(inner'))
    BY <1>2, <1>3, <2>1 DEF OrderOK, Below
  <2>4. Below(Elems(events'), Elems(inner'))
    BY <1>2, <1>3 DEF OrderOK, Below
  <2>5. Elems(events') \subseteq 1..Ceiling /\ Elems(inner') \subseteq 1..Ceiling
    BY <1>2, <1>3 DEF OrderOK
  <2> QED BY <1>1, <1>6, <1>7, <2>2, <2>3, <2>4, <2>5 DEF OrderOK
<1>9. HeldOK'
  BY <1>1, <1>2, <1>3, <1>6 DEF HeldOK
<1> QED BY <1>4, <1>5, <1>6, <1>8, <1>9

(* The marker is the last number, and the queue before it is empty *)
LEMMA SlotReturnsIInv ==
  ASSUME IInv, SlotReturns
  PROVE  IInv'
<1> USE DEF IInv
<1>1. /\ slot = "running" /\ gen \in {"ok", "err"} /\ inner = <<>> /\ slot' = gen
      /\ UNCHANGED <<backend, pc, frame, inbox, sent, open, taken, written, asked,
                     gen, made, inner, sink>>
  BY DEF SlotReturns, AllRelayed, client
<1>2. made \in Nat
  BY DEF TypeOK
<1>3. /\ events' \in Seq(Nat) /\ Len(events') <= EventCap
      /\ lost' \subseteq Nat /\ lost \subseteq lost'
      /\ Elems(events) \subseteq Elems(events')
      /\ Elems(events') \subseteq Elems(events) \cup {made + 1}
      /\ (Rising(events) /\ Below(Elems(events), {made + 1})) => Rising(events')
  <2>1. CASE Emit(made + 1)
    <3>1. PICK x \in Nat : x = made + 1
      BY <1>2
    <3>2. TypeOK /\ Emit(x)
      BY <2>1, <3>1
    <3> QED BY ONLY <3>1, <3>2, EmitFacts
  <2>2. CASE UNCHANGED <<events, lost>>
    BY <2>2 DEF TypeOK
  <2> QED BY <2>1, <2>2 DEF SlotReturns
<1>4. TypeOK'
  BY <1>1, <1>3 DEF TypeOK
<1>5. ControlOK'
  BY <1>1 DEF ControlOK, Finished
<1>6. /\ FrameOK' /\ WrittenOK'
      /\ Seen' = Seen /\ Reported' = Reported /\ Pending' = Pending
  BY <1>1, HandlerStays
<1>7. Ceiling = made /\ Ceiling' = made + 1
  BY <1>1 DEF Ceiling
<1>8. Elems(inner) = {}
  BY <1>1 DEF Elems
<1>9. OrderOK'
  <2> SUFFICES ASSUME pc # "ended" PROVE OrderOK'
    BY <1>1 DEF OrderOK
  <2>1. /\ Below(Elems(events), {made + 1}) /\ Below(Seen, {made + 1})
        /\ Below(Pending, {made + 1})
    BY <1>2, <1>7 DEF OrderOK, Below
  <2>2. Rising(events') /\ Rising(inner')
    BY <1>1, <1>3, <2>1 DEF OrderOK
  <2>3. Below(Seen, Elems(events')) /\ Below(Pending, Elems(events'))
    BY <1>3, <2>1 DEF OrderOK, Below
  <2>4. /\ Seen \subseteq 0..(made + 1) /\ Pending \subseteq 1..(made + 1)
        /\ Elems(events') \subseteq 1..(made + 1)
    <3>1. /\ 0..made \subseteq 0..(made + 1) /\ 1..made \subseteq 1..(made + 1)
          /\ made + 1 \in 1..(made + 1)
      BY <1>2
    <3>2. Seen \subseteq 0..made /\ Pending \subseteq 1..made /\ Elems(events) \subseteq 1..made
      BY <1>7 DEF OrderOK
    <3> QED BY ONLY <1>3, <3>1, <3>2
  <2> QED BY <1>1, <1>6, <1>7, <1>8, <2>2, <2>3, <2>4 DEF OrderOK, Below
<1>10. HeldOK'
  BY <1>1, <1>3, <1>6 DEF HeldOK
<1> QED BY <1>4, <1>5, <1>6, <1>9, <1>10

-----------------------------------------------------------------------------
(* The client touches its own end of the socket only *)
LEMMA ClientIInv ==
  ASSUME IInv, (\E m \in Message : Send(m)) \/ ReadFrame \/ HangUp
  PROVE  IInv'
<1> USE DEF IInv
<1>1. /\ UNCHANGED <<backend, pc, frame, written, asked, gen, made, inner, slot, sink,
                     events, lost>>
      /\ inbox' \in Seq(Message) /\ sent' \in Nat /\ open' \in BOOLEAN
      /\ taken' \in 0..Len(written) /\ Len(written) - taken' <= SocketCap
  <2>1. Len(written) \in Nat /\ taken \in 0..Len(written)
    BY LenProperties DEF TypeOK
  <2>2. ASSUME NEW m \in Message, Send(m) PROVE inbox' \in Seq(Message) /\ sent' \in Nat
    BY <2>2, AppendProperties DEF Send, TypeOK
  <2>3. ASSUME NEW m \in Message, Send(m) PROVE <1>1
    BY <2>1, <2>2, <2>3 DEF Send, TypeOK, generation
  <2>4. CASE ReadFrame
    BY <2>1, <2>4, ConnectionAssumption DEF ReadFrame, TypeOK, generation
  <2>5. CASE HangUp
    BY <2>1, <2>5 DEF HangUp, TypeOK, generation
  <2> QED BY <2>3, <2>4, <2>5
<1>2. TypeOK'
  BY <1>1 DEF TypeOK
<1>3. ControlOK'
  BY <1>1 DEF ControlOK, Finished
<1>4. FrameOK'
  BY <1>1 DEF FrameOK
<1>5. WrittenOK' /\ OrderOK' /\ HeldOK'
  <2>1. Pending' = Pending
    BY <1>1 DEF Pending
  <2> QED BY <1>1, <2>1, NumbersStay DEF generation
<1> QED BY <1>2, <1>3, <1>4, <1>5

-----------------------------------------------------------------------------
LEMMA InitIInv == Init => IInv
<1> SUFFICES ASSUME Init PROVE IInv
  OBVIOUS
<1>1. /\ <<>> \in Seq(Nat) /\ <<>> \in Seq(Message) /\ <<>> \in Seq(Frame) /\ Len(<<>>) = 0
  BY EmptySeq
<1>2. TypeOK
  BY <1>1, ConnectionAssumption DEF Init, TypeOK, Place, Frame, NoFrame
<1>3. ControlOK /\ FrameOK /\ WrittenOK /\ HeldOK
  BY ConnectionAssumption DEF Init, ControlOK, Finished, FrameOK, WrittenOK, HeldOK
<1>4. Seen = {} /\ Pending = {} /\ Elems(<<>>) = {} /\ Rising(<<>>)
  BY DEF Init, Seen, Pending, Elems, Rising
<1>5. OrderOK
  BY <1>4 DEF Init, OrderOK, Below
<1> QED BY <1>2, <1>3, <1>5 DEF IInv

LEMMA NextIInv == IInv /\ [Next]_vars => IInv'
<1> SUFFICES ASSUME IInv, [Next]_vars PROVE IInv'
  OBVIOUS
<1>1. CASE Handler
  <2>1. CASE Greet \/ RejectVersion \/ RefuseMessage \/ IgnoreCancel \/ Shutdown
    BY <2>1, ReadsIInv
  <2>2. CASE EndOfInput
    BY <2>2, EndOfInputIInv
  <2>3. CASE StartStream \/ StartPlain
    BY <2>3, StartIInv
  <2>4. CASE TakeEvent("drain", "writeEvent")
    BY <2>4, TakeEventIInv
  <2>5. CASE TakeEvent("tail", "writeTail")
    BY <2>5, TakeEventIInv
  <2>6. CASE NothingPending \/ CheckFinished \/ YieldNow
    BY <2>6, GotoIInv
  <2>7. CASE TailDrained \/ RunReturned
    BY <2>7, SendReplyIInv
  <2>8. CASE WriteFrame
    BY <2>8, WriteFrameIInv
  <2>9. CASE WriteFails
    BY <2>9, WriteFailsIInv
  <2> QED
    BY <1>1, <2>1, <2>2, <2>3, <2>4, <2>5, <2>6, <2>7, <2>8, <2>9 DEF Handler
<1>2. CASE Generator
  <2>1. CASE Produce
    BY <2>1, ProduceIInv
  <2>2. CASE Deliver
    BY <2>2, DeliverIInv
  <2>3. ASSUME NEW outcome \in {"ok", "err"}, GenerationEnds(outcome) PROVE IInv'
    BY <2>3, GenerationEndsIInv
  <2> QED BY <1>2, <2>1, <2>2, <2>3 DEF Generator
<1>3. CASE Relay
  BY <1>3, RelayIInv
<1>4. CASE SlotReturns
  BY <1>4, SlotReturnsIInv
<1>5. CASE (\E m \in Message : Send(m)) \/ ReadFrame \/ HangUp
  BY <1>5, ClientIInv
<1>6. CASE UNCHANGED vars
  <2>1. /\ UNCHANGED <<backend, pc, frame, inbox, sent, open, written, taken, asked, gen,
                       made, inner, slot, sink, events, lost>>
    BY <1>6 DEF vars
  <2>2. TypeOK' /\ ControlOK' /\ FrameOK'
    BY <2>1 DEF IInv, TypeOK, ControlOK, Finished, FrameOK
  <2>3. Pending' = Pending
    BY <2>1 DEF Pending
  <2>4. WrittenOK' /\ OrderOK' /\ HeldOK'
    BY <2>1, <2>3, NumbersStay DEF generation
  <2> QED BY <2>2, <2>4 DEF IInv
<1> QED BY <1>1, <1>2, <1>3, <1>4, <1>5, <1>6 DEF Next

LEMMA SpecIInv == Spec => []IInv
BY InitIInv, NextIInv, PTL DEF Spec

(* Every variable keeps its type, and no queue exceeds its capacity however *)
(* the handler, the slot and the client interleave.                         *)
THEOREM ConnectionTypes == Spec => []TypeOK
BY SpecIInv, PTL DEF IInv

(* No chunk waits in a queue behind the reply: whatever interleaving of the *)
(* slot's last events with the handler's two tests, it was written or lost. *)
THEOREM NothingBehindReply == Spec => []NothingHeldBack
<1>1. IInv => NothingHeldBack
  <2> SUFFICES ASSUME IInv, pc = "writeReply", sink = "forward"
               PROVE  1..made \subseteq Reported \cup lost
    BY DEF NothingHeldBack
  <2>1. events = <<>> /\ inner = <<>> /\ gen # "sending" /\ Pending = {}
    BY DEF IInv, ControlOK, Finished, Pending
  <2>2. Elems(events) = {} /\ Elems(inner) = {}
    BY <2>1 DEF Elems
  <2> QED BY <2>1, <2>2 DEF IInv, HeldOK
<1> QED BY <1>1, SpecIInv, PTL

-----------------------------------------------------------------------------
(* Each step is one of StreamingRpc or changes nothing there *)
LEMMA WriteFrameImplements ==
  ASSUME IInv, WriteFrame
  PROVE  Rpc!Next
<1>1. /\ pc \in DOMAIN After /\ pc' = After[pc]
      /\ written' = Append(written, frame) /\ asked' = asked
  BY DEF WriteFrame
<1>2. FrameOK /\ OrderOK
  BY DEF IInv
<1>3. CASE pc = "writeHello"
  <2>1. pc' = "read" /\ frame = Rpc!Greeting
    BY <1>1, <1>2, <1>3, AfterTable DEF FrameOK
  <2>2. Rpc!Greet
    BY <1>1, <1>3, <2>1 DEF Rpc!Greet, Phase
  <2> QED BY <2>2 DEF Rpc!Next
<1>4. CASE pc = "writeMismatch"
  <2>1. pc' = "ended" /\ frame = Rpc!Mismatch
    BY <1>1, <1>2, <1>4, AfterTable DEF FrameOK
  <2>2. Rpc!Reject
    BY <1>1, <1>4, <2>1 DEF Rpc!Reject, Phase
  <2> QED BY <2>2 DEF Rpc!Next
<1>5. CASE pc = "writeGoodbye"
  <2>1. pc' = "ended" /\ frame = Rpc!Farewell
    BY <1>1, <1>2, <1>5, AfterTable DEF FrameOK
  <2>2. Rpc!Leave
    BY <1>1, <1>5, <2>1 DEF Rpc!Leave, Phase
  <2> QED BY <2>2 DEF Rpc!Next
<1>6. CASE pc = "writeReply"
  <2>1. pc' = "read"
    BY <1>1, <1>6, AfterTable
  <2>2. PICK type \in Rpc!ReplyTypes : frame = Rpc!Reply(type, asked)
    BY <1>2, <1>6 DEF FrameOK
  <2>3. Rpc!Answer(type)
    BY <1>1, <1>6, <2>1, <2>2 DEF Rpc!Answer, Phase
  <2> QED BY <2>3 DEF Rpc!Next
<1>7. CASE pc \in {"writeEvent", "writeTail"}
  <2>1. pc' \in {"drain", "tail"} /\ frame = Rpc!Event(asked, frame.n)
    BY <1>1, <1>2, <1>7, AfterTable DEF FrameOK
  <2>2. frame.n \in 1..Ceiling /\ Below(Seen, {frame.n})
    BY <1>2, <1>7 DEF OrderOK, Pending
  <2>3. frame.n \in 1..(MaxChunks + 1)
    BY <2>2, ConnectionAssumption DEF IInv, TypeOK, ControlOK, Ceiling
  <2>4. \A i \in DOMAIN written : written[i].req = asked => written[i].n < frame.n
    BY <2>2 DEF Seen, Below
  <2>5. Phase = "busy" /\ Phase' = "busy"
    BY <1>7, <2>1 DEF Phase
  <2>6. Rpc!Notify(frame.n)
    BY <1>1, <2>1, <2>4, <2>5 DEF Rpc!Notify
  <2> QED BY <2>3, <2>6 DEF Rpc!Next
<1> QED BY <1>1, <1>3, <1>4, <1>5, <1>6, <1>7, AfterTable

LEMMA NextImplements == IInv /\ [Next]_vars => [Rpc!Next]_(Rpc!vars)
<1> SUFFICES ASSUME IInv, [Next]_vars PROVE Rpc!Next \/ UNCHANGED Rpc!vars
  OBVIOUS
<1>1. ASSUME UNCHANGED <<written, asked>>, Phase' = Phase
      PROVE  UNCHANGED Rpc!vars
  BY <1>1 DEF Rpc!vars
<1>2. ASSUME UNCHANGED <<written, asked>>, pc # "ended", pc' = "ended"
      PROVE  Rpc!Next
  <2>1. Phase # "closed" /\ Phase' = "closed"
    BY <1>2 DEF Phase
  <2>2. Rpc!Close
    BY <1>2, <2>1 DEF Rpc!Close
  <2> QED BY <2>2 DEF Rpc!Next
<1>3. CASE WriteFrame
  BY <1>3, WriteFrameImplements
<1>4. CASE StartStream \/ StartPlain
  <2>1. Phase = "idle" /\ Phase' = "busy" /\ asked' = asked + 1 /\ written' = written
    BY <1>4 DEF StartStream, StartPlain, StartSlot, Read, Phase
  <2>2. Rpc!Ask
    BY <2>1 DEF Rpc!Ask
  <2> QED BY <2>2 DEF Rpc!Next
<1>5. CASE RefuseMessage \/ EndOfInput \/ WriteFails
  <2>1. UNCHANGED <<written, asked>> /\ pc # "ended" /\ pc' = "ended"
    BY <1>5, AfterTable DEF RefuseMessage, EndOfInput, WriteFails, Read, End
  <2> QED BY <1>2, <2>1
<1>6. CASE Greet \/ RejectVersion \/ IgnoreCancel \/ Shutdown
  <2>1. UNCHANGED <<written, asked>> /\ Phase' = Phase
    BY <1>6 DEF Greet, RejectVersion, IgnoreCancel, Shutdown, Read, Writing, Phase
  <2> QED BY <1>1, <2>1
<1>7. CASE \/ TakeEvent("drain", "writeEvent") \/ TakeEvent("tail", "writeTail")
           \/ NothingPending \/ CheckFinished \/ YieldNow \/ TailDrained \/ RunReturned
  <2>1. UNCHANGED <<written, asked>> /\ Phase' = Phase
    BY <1>7 DEF TakeEvent, NothingPending, CheckFinished, YieldNow, TailDrained,
                RunReturned, SendReply, HandlerGoto, Writing, Phase
  <2> QED BY <1>1, <2>1
<1>8. CASE \/ Generator \/ Relay \/ SlotReturns
           \/ (\E m \in Message : Send(m)) \/ ReadFrame \/ HangUp \/ UNCHANGED vars
  <2>1. UNCHANGED <<written, asked, pc>>
    BY <1>8 DEF Generator, Produce, Deliver, GenerationEnds, Relay, SlotReturns, Send,
                ReadFrame, HangUp, vars
  <2>2. Phase' = Phase
    BY <2>1 DEF Phase
  <2> QED BY <1>1, <2>1, <2>2
<1> QED BY <1>3, <1>4, <1>5, <1>6, <1>7, <1>8 DEF Next, Handler

(* handle_client keeps the contract of the wire: replies in order and one   *)
(* each, a request's events before its reply, in the order they were made.  *)
THEOREM ImplementsRpc == Spec => RefinesRpc
<1>1. Init => Rpc!Init
  BY DEF Init, Rpc!Init, Phase
<1>2. IInv /\ [Next]_vars => [Rpc!Next]_(Rpc!vars)
  BY NextImplements
<1> QED BY <1>1, <1>2, SpecIInv, PTL DEF Spec, RefinesRpc, Rpc!Spec

=============================================================================
