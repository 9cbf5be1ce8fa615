------------------------------- MODULE Framing -------------------------------
(***************************************************************************)
(* The codec of the socket, [u32 LE length][bincode payload], in the       *)
(* server's and the client's framed.rs (the same code twice): one side     *)
(* writes frames with write_all, the other reads them with                 *)
(* read_frame_async.  The socket takes and gives any number of bytes at a  *)
(* time, and the writer may go away inside a frame.                        *)
(*                                                                         *)
(* `wire' keeps every byte the socket took and `taken' counts those that   *)
(* were read, so wire[taken + 1 ..] is what the socket buffers.            *)
(***************************************************************************)
EXTENDS Integers, Sequences, SequencesExt

CONSTANTS
  Message,        \* what can be sent
  Serialize,      \* bincode::serialize, a function from Message
  Damage,         \* byte sequences on a connection that are no frame of a message
  MaxFrameBytes,  \* MAX_FRAME_BYTES
  SocketCap,      \* bytes the socket buffers
  MaxFrames       \* bound: frames written

Byte == 0..255

(* u32::to_le_bytes and from_le_bytes *)
Header(n) == <<n % 256, (n \div 256) % 256, (n \div 65536) % 256, (n \div 16777216) % 256>>
Length(h) == h[1] + 256 * h[2] + 65536 * h[3] + 16777216 * h[4]

(* bincode::deserialize, which ignores what follows the value *)
Decodes(payload, m)  == IsPrefix(Serialize[m], payload)
IsMessage(payload)   == \E m \in Message : Decodes(payload, m)
Deserialize(payload) == CHOOSE m \in Message : Decodes(payload, m)

(* A frame with a length nobody sends, or with a payload nobody sends *)
IsDamage(d) ==
  /\ d \in Seq(Byte) /\ Len(d) >= 4
  /\ Length(d) <= MaxFrameBytes =>
       Len(d) = 4 + Length(d) /\ ~IsMessage(SubSeq(d, 5, Len(d)))

ASSUME CodecAssumption ==
  /\ MaxFrameBytes \in Nat /\ MaxFrameBytes <= 64 * 1024 * 1024
  /\ SocketCap \in Nat \ {0} /\ MaxFrames \in Nat
  /\ Serialize \in [Message -> Seq(Byte)]
  /\ \A m, n \in Message : IsPrefix(Serialize[m], Serialize[n]) => m = n
  /\ \A d \in Damage : IsDamage(d)
  /\ Message \cap Damage = {}

VARIABLES
  wire,      \* every byte written
  taken,     \* how many of them were read
  out,       \* what write_all has still to write of its frame
  open,      \* the writer has not gone
  sent,      \* the frames begun (bookkeeping, as `ends' is)
  ends,      \* where each of them ends in `wire', or would
  phase,     \* where read_frame_async is
  got,       \* the bytes of the frame it is reading: hdr, then payload
  received   \* what it returned

vars == <<wire, taken, out, open, sent, ends, phase, got, received>>

writer == <<wire, out, open, sent, ends>>
reader == <<taken, phase, got, received>>

Init ==
  /\ wire = <<>> /\ taken = 0 /\ out = <<>> /\ open = TRUE
  /\ sent = <<>> /\ ends = <<>>
  /\ phase = "first" /\ got = <<>> /\ received = <<>>

-----------------------------------------------------------------------------
(***************************************************************************)
(* encode, write_frame_async.                                              *)
(***************************************************************************)

Encode(m) == Header(Len(Serialize[m])) \o Serialize[m]

Bytes(x) == IF x \in Message THEN Encode(x) ELSE x

(* Otherwise an error, and nothing is written *)
Fits(m) == Len(Serialize[m]) <= MaxFrameBytes

Room == SocketCap - (Len(wire) - taken)

(* The socket takes the first n bytes of b *)
Puts(b, n) ==
  /\ n <= Room
  /\ wire' = wire \o SubSeq(b, 1, n)
  /\ out' = SubSeq(b, n + 1, Len(b))
  /\ UNCHANGED <<open, reader>>

BeginFrame(x, n) ==
  /\ open /\ out = <<>> /\ Len(sent) < MaxFrames
  /\ x \in Message => Fits(x)
  /\ n <= Len(Bytes(x)) /\ Puts(Bytes(x), n)
  /\ sent' = Append(sent, x)
  /\ ends' = Append(ends, Len(wire) + Len(Bytes(x)))

(* Mutant: waits until the socket has room for all that is left *)
WriteMore_Whole(n) ==
  /\ open /\ n = Len(out) /\ Puts(out, n)
  /\ UNCHANGED <<sent, ends>>

WriteMore(n) ==
  /\ open /\ n <= Len(out) /\ Puts(out, n)
  /\ UNCHANGED <<sent, ends>>

(* The writer closes, or dies with part of a frame unwritten *)
Stop ==
  /\ open /\ open' = FALSE /\ out' = <<>>
  /\ UNCHANGED <<wire, sent, ends, reader>>

-----------------------------------------------------------------------------
(***************************************************************************)
(* read_frame_async.                                                       *)
(***************************************************************************)

Buffered == Len(wire) - taken

AtEof == ~open /\ Buffered = 0

(* How long the frame is as far as the reader knows *)
Expected == IF Len(got) < 4 THEN 4 ELSE 4 + Length(got)

(* A read that returns n more bytes of the frame *)
Reads(n) ==
  /\ n <= Buffered
  /\ taken' = taken + n
  /\ got' = got \o SubSeq(wire, taken + 1, taken + n)
  /\ UNCHANGED <<writer, received>>

(* Read of hdr[..1], which alone may find the end *)
ReadFirst == phase = "first" /\ Reads(1) /\ phase' = "header"

(* Mutant: end of file is Ok(None) wherever it is met *)
EndOfFile_AlwaysClean ==
  /\ phase \in {"first", "header", "payload"} /\ Len(got) < Expected /\ AtEof
  /\ phase' = "none"
  /\ UNCHANGED <<writer, taken, got, received>>

(* Ok(None) before a frame, UnexpectedEof inside one *)
EndOfFile ==
  /\ phase \in {"first", "header", "payload"} /\ Len(got) < Expected /\ AtEof
  /\ phase' = IF phase = "first" THEN "none" ELSE "error"
  /\ UNCHANGED <<writer, taken, got, received>>

(* Mutant: a header longer than the cap accepted *)
AfterHeader_Unchecked(h) == "payload"

AfterHeader(h) == IF Length(h) > MaxFrameBytes THEN "error" ELSE "payload"

(* read_exact of hdr[1..] *)
ReadHeader(n) ==
  /\ phase = "header" /\ n <= 4 - Len(got)
  /\ Reads(n)
  /\ phase' = IF Len(got') = 4 THEN AfterHeader(got') ELSE "header"

(* read_exact of the payload *)
ReadPayload(n) ==
  /\ phase = "payload" /\ n <= Expected - Len(got)
  /\ Reads(n)
  /\ UNCHANGED phase

(* The frame is complete: a message, or an error of bincode *)
Return ==
  /\ phase = "payload" /\ Len(got) = Expected
  /\ LET payload == SubSeq(got, 5, Len(got)) IN
     IF IsMessage(payload)
     THEN received' = Append(received, Deserialize(payload)) /\ phase' = "first" /\ got' = <<>>
     ELSE phase' = "error" /\ UNCHANGED <<received, got>>
  /\ UNCHANGED <<writer, taken>>

-----------------------------------------------------------------------------
(***************************************************************************)
(* try_decode, for a caller that buffers.                                  *)
(***************************************************************************)

More == [kind |-> "more", used |-> 0]
Bad  == [kind |-> "error", used |-> 0]

(* Mutant: waits for a payload longer than the cap *)
TryDecode_Uncapped(buf) ==
  IF Len(buf) < 4 THEN More
  ELSE IF Len(buf) < 4 + Length(buf) THEN More
  ELSE LET payload == SubSeq(buf, 5, 4 + Length(buf)) IN
       IF IsMessage(payload)
       THEN [kind |-> "frame", used |-> 4 + Length(buf), payload |-> payload]
       ELSE Bad

TryDecode(buf) ==
  IF Len(buf) < 4 THEN More
  ELSE IF Length(buf) > MaxFrameBytes THEN Bad
  ELSE IF Len(buf) < 4 + Length(buf) THEN More
  ELSE LET payload == SubSeq(buf, 5, 4 + Length(buf)) IN
       IF IsMessage(payload)
       THEN [kind |-> "frame", used |-> 4 + Length(buf), payload |-> payload]
       ELSE Bad

-----------------------------------------------------------------------------
Reader ==
  \/ ReadFirst \/ EndOfFile \/ Return
  \/ \E n \in 1..3 : ReadHeader(n)
  \/ \E n \in 1..MaxFrameBytes : ReadPayload(n)

Next ==
  \/ \E n \in 1..SocketCap : \/ \E x \in Message \cup Damage : BeginFrame(x, n)
                             \/ WriteMore(n)
  \/ Stop
  \/ Reader

Spec == Init /\ [][Next]_vars

(* The reader's task is polled while bytes or the end are there for it, and *)
(* write_all goes on while the socket has room; a writer may also stop      *)
FairSpec ==
  /\ Spec
  /\ WF_vars(Reader)
  /\ WF_vars(\E n \in 1..SocketCap : WriteMore(n))

-----------------------------------------------------------------------------
(***************************************************************************)
(* Properties.                                                             *)
(***************************************************************************)

(* Types; the socket holds no more than it can, and no payload is read for  *)
(* a length beyond the cap ("so a corrupt header can't make us allocate     *)
(* gigabytes").                                                             *)
TypeOK ==
  /\ wire \in Seq(Byte) /\ taken \in 0..Len(wire) /\ Len(wire) - taken <= SocketCap
  /\ out \in Seq(Byte) /\ open \in BOOLEAN
  /\ sent \in Seq(Message \cup Damage) /\ ends \in Seq(Nat) /\ Len(ends) = Len(sent)
  /\ phase \in {"first", "header", "payload", "none", "error"}
  /\ got \in Seq(Byte) /\ received \in Seq(Message)
  /\ phase = "payload" => Len(got) >= 4 /\ Length(got) <= MaxFrameBytes

(* Wherever the socket cuts the bytes, messages arrive whole, once and in   *)
(* order; Ok(None) means nothing is missing, and an error is reported only  *)
(* for bytes that are no message or a frame the writer stopped inside.      *)
Fifo == INSTANCE MessageFifo WITH
          cut     <- ~open /\ ends # <<>> /\ Len(wire) < ends[Len(ends)],
          outcome <- CASE phase = "none"  -> "closed"
                       [] phase = "error" -> "failed"
                       [] OTHER           -> "reading"

RefinesFifo == Fifo!Spec

(* What try_decode finds in bytes i to n of the wire *)
Found(i, n) == TryDecode(SubSeq(wire, i, n))

(* The messages try_decode gives a caller that has buffered the first n     *)
(* bytes of the wire and drops what each frame used                         *)
Decoded(n) ==
  LET from[i \in 1..(n + 1)] ==
        IF Found(i, n).kind = "frame"
        THEN <<Deserialize(Found(i, n).payload)>> \o from[i + Found(i, n).used]
        ELSE <<>>
  IN  from[1]

Refused == TryDecode(got).kind = "error"

(* The codec's two readers agree: at the boundary of a frame or after an    *)
(* error, try_decode over the bytes read so far gives the messages          *)
(* read_frame_async returned; of the frame behind them, it refuses no bytes *)
(* read_frame_async reads on from, and all that it refuses, so that neither *)
(* waits for a payload the other would not take.                            *)
BufferedReaderAgrees ==
  /\ phase \in {"first", "none", "error"} => Decoded(taken) = received
  /\ Refused => phase = "error" \/ Len(got) = Expected
  /\ phase = "error" => Refused \/ AtEof

(* A frame that was begun arrives, with a socket of any size, unless the    *)
(* reader has met an error or the writer went away: reader and write_all    *)
(* never wait for each other.                                               *)
FramesArrive ==
  \A k \in 1..MaxFrames :
    Len(sent) = k ~> Len(received) >= k \/ phase = "error" \/ ~open

=============================================================================
