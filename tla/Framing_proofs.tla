--------------------------- MODULE Framing_proofs ----------------------------
(***************************************************************************)
(* Framing implements MessageFifo, for any messages and damage the codec   *)
(* assumptions allow, any cap up to 64 MiB, any socket and any number of   *)
(* frames.                                                                 *)
(*                                                                         *)
(* Every byte of the wire belongs to a frame and a place in it (ContentOK),*)
(* the writer is somewhere in the last frame (WriterOK), and the reader is *)
(* in the frame behind the messages it has returned (ReaderOK): what it    *)
(* holds is a prefix of that frame, and so its header is that of the frame.*)
(***************************************************************************)
EXTENDS Framing, DataInduction

Size(x) == Len(Bytes(x))

(* Bytes of the wire before frame i *)
Start(i) == IF i = 1 THEN 0 ELSE ends[i - 1]

LayoutOK ==
  /\ \A i \in 1..Len(sent) : ends[i] = Start(i) + Size(sent[i])
  /\ \A i, j \in 1..Len(sent) : i <= j => ends[i] <= ends[j]
  /\ \A i \in 1..Len(sent) : sent[i] \in Message => Fits(sent[i])

WriterOK ==
  /\ Len(wire) <= Start(Len(sent) + 1)
  /\ Len(sent) > 0 => Start(Len(sent)) < Len(wire)
  /\ open => Len(wire) + Len(out) = Start(Len(sent) + 1)
  /\ \A k \in 1..Len(out) : out[k] = Bytes(sent[Len(sent)])[Len(wire) - Start(Len(sent)) + k]

ContentOK ==
  \A i \in 1..Len(sent) : \A k \in 1..Size(sent[i]) :
    Start(i) + k <= Len(wire) => wire[Start(i) + k] = Bytes(sent[i])[k]

ReaderOK ==
  /\ Len(received) <= Len(sent)
  /\ \A i \in 1..Len(received) : received[i] = sent[i]
  /\ taken = Start(Len(received) + 1) + Len(got)
  /\ \A k \in 1..Len(got) : got[k] = wire[Start(Len(received) + 1) + k]
  /\ phase = "first" => got = <<>>
  /\ phase = "header" => Len(got) \in 1..3
  /\ phase = "payload" => Len(got) <= 4 + Length(got)

IInv == TypeOK /\ LayoutOK /\ WriterOK /\ ContentOK /\ ReaderOK

-----------------------------------------------------------------------------
(* What a header says is what went into it: the cap is below 2^32 *)
LEMMA HeaderLength ==
  ASSUME NEW n \in Nat, n <= 64 * 1024 * 1024
  PROVE  Header(n) \in Seq(Byte) /\ Len(Header(n)) = 4 /\ Length(Header(n)) = n
<1> DEFINE a == n % 256          q == n \div 256
           b == q % 256          r == n \div 65536
           c == r % 256          t == n \div 16777216
<1>1. a \in 0..255 /\ q \in Nat /\ b \in 0..255 /\ r \in Nat /\ c \in 0..255 /\ t \in Nat
  BY SMT
<1>2. a = n % 256 /\ q = n \div 256 /\ b = q % 256 /\ r = n \div 65536 /\ c = r % 256 /\ t = n \div 16777216
  OBVIOUS
<1>3. Header(n) = <<a, b, c, t % 256>>
  BY SMT DEF Header
<1> HIDE DEF a, q, b, r, c, t
<1>4. n = 256 * q + a
  BY <1>1, <1>2, SMT
<1>5. r = q \div 256
  BY <1>1, <1>2, SMT
<1>6. q = 256 * r + b
  BY <1>1, <1>2, <1>5, SMT
<1>7. t = r \div 256
  BY <1>1, <1>2, SMT
<1>8. r = 256 * t + c
  BY <1>1, <1>2, <1>7, SMT
<1>9. t % 256 = t /\ t <= 4
  BY <1>1, <1>4, <1>6, <1>8, SMT
<1> QED
  BY <1>1, <1>3, <1>4, <1>6, <1>8, <1>9, SMT DEF Length, Byte

LEMMA LengthType ==
  ASSUME NEW h, h[1] \in Byte, h[2] \in Byte, h[3] \in Byte, h[4] \in Byte
  PROVE  Length(h) \in Nat
<1> DEFINE a == h[1]   b == h[2]   c == h[3]   d == h[4]
<1>1. a \in 0..255 /\ b \in 0..255 /\ c \in 0..255 /\ d \in 0..255
  BY DEF Byte
<1>2. Length(h) = a + 256 * b + 65536 * c + 16777216 * d
  BY SMT DEF Length
<1> HIDE DEF a, b, c, d
<1> QED BY <1>1, <1>2, SMT

(* A header of four bytes in front of a payload *)
LEMMA Prefixed ==
  ASSUME NEW h \in Seq(Byte), Len(h) = 4, NEW s \in Seq(Byte)
  PROVE  /\ h \o s \in Seq(Byte) /\ Len(h \o s) = 4 + Len(s) /\ Len(s) \in Nat
         /\ \A k \in 1..4 : (h \o s)[k] = h[k]
         /\ \A k \in 1..Len(s) : (h \o s)[4 + k] = s[k]
<1>1. /\ h \o s \in Seq(Byte) /\ Len(h \o s) = Len(h) + Len(s)
      /\ \A i \in 1..(Len(h) + Len(s)) : (h \o s)[i] = IF i <= Len(h) THEN h[i] ELSE s[i - Len(h)]
  BY ConcatProperties
<1>2. Len(s) \in Nat
  BY LenProperties
<1> QED BY <1>1, <1>2

(* Frames are sequences of bytes, of four at least *)
LEMMA FrameBytes ==
  ASSUME NEW x \in Message \cup Damage, x \in Message => Fits(x)
  PROVE  /\ Bytes(x) \in Seq(Byte) /\ Size(x) \in Nat /\ Size(x) >= 4
         /\ x \in Message =>
              /\ Size(x) = 4 + Len(Serialize[x])
              /\ \A k \in 1..4 : Bytes(x)[k] = Header(Len(Serialize[x]))[k]
              /\ \A k \in 1..Len(Serialize[x]) : Bytes(x)[4 + k] = Serialize[x][k]
<1>1. CASE x \in Message
  <2> DEFINE S == Serialize[x]
             H == Header(Len(S))
  <2>1. S \in Seq(Byte)
    BY <1>1, CodecAssumption
  <2>2. Len(S) \in Nat /\ Len(S) <= 64 * 1024 * 1024
    <3>1. Len(S) \in Nat
      BY <2>1, LenProperties
    <3>2. Len(S) <= MaxFrameBytes
      BY <1>1 DEF Fits
    <3> QED BY <3>1, <3>2, CodecAssumption, SMT
  <2>3. H \in Seq(Byte) /\ Len(H) = 4
    BY <2>2, HeaderLength
  <2>4. Bytes(x) = H \o S
    BY <1>1 DEF Bytes, Encode
  <2>5. /\ H \o S \in Seq(Byte) /\ Len(H \o S) = 4 + Len(S) /\ Len(S) \in Nat
        /\ \A k \in 1..4 : (H \o S)[k] = H[k]
        /\ \A k \in 1..Len(S) : (H \o S)[4 + k] = S[k]
    BY <2>1, <2>3, Prefixed
  <2> HIDE DEF S, H
  <2>6. /\ Bytes(x) \in Seq(Byte) /\ Len(Bytes(x)) = 4 + Len(S) /\ Len(Bytes(x)) \in Nat /\ Len(Bytes(x)) >= 4
        /\ \A k \in 1..4 : Bytes(x)[k] = H[k]
        /\ \A k \in 1..Len(S) : Bytes(x)[4 + k] = S[k]
    BY <2>4, <2>5
  <2> QED BY <2>6 DEF Size, S, H
<1>2. CASE x \notin Message
  BY <1>2, CodecAssumption, LenProperties DEF Bytes, IsDamage, Size
<1> QED BY <1>1, <1>2

(* The next n bytes of b after the first m, put behind s *)
LEMMA Moved ==
  ASSUME NEW s \in Seq(Byte), NEW b \in Seq(Byte), NEW m \in 0..Len(b), NEW n \in 0..(Len(b) - m)
  PROVE  /\ s \o SubSeq(b, m + 1, m + n) \in Seq(Byte)
         /\ Len(s \o SubSeq(b, m + 1, m + n)) = Len(s) + n
         /\ \A k \in 1..Len(s) : (s \o SubSeq(b, m + 1, m + n))[k] = s[k]
         /\ \A k \in 1..n : (s \o SubSeq(b, m + 1, m + n))[Len(s) + k] = b[m + k]
<1>1. \A i \in (m + 1)..(m + n) : b[i] \in Byte
  BY LenProperties, ElementOfSeq
<1>2. Len(b) \in Nat /\ Len(s) \in Nat
  BY LenProperties
<1>3. /\ SubSeq(b, m + 1, m + n) \in Seq(Byte) /\ Len(SubSeq(b, m + 1, m + n)) = n
      /\ \A k \in 1..n : SubSeq(b, m + 1, m + n)[k] = b[m + k]
  BY <1>1, <1>2, SubSeqProperties
<1> QED BY <1>2, <1>3, ConcatProperties

(* What is left of b after its first n *)
LEMMA Rest ==
  ASSUME NEW b \in Seq(Byte), NEW n \in 0..Len(b)
  PROVE  /\ SubSeq(b, n + 1, Len(b)) \in Seq(Byte)
         /\ Len(SubSeq(b, n + 1, Len(b))) = Len(b) - n
         /\ \A k \in 1..(Len(b) - n) : SubSeq(b, n + 1, Len(b))[k] = b[n + k]
<1>1. Len(b) \in Nat /\ \A i \in (n + 1)..Len(b) : b[i] \in Byte
  BY LenProperties, ElementOfSeq
<1> QED BY <1>1, SubSeqProperties

-----------------------------------------------------------------------------
(* Frame i begins at a place on the wire *)
LEMMA StartType ==
  ASSUME TypeOK
  PROVE  /\ Len(sent) \in Nat /\ Len(ends) = Len(sent) /\ Len(wire) \in Nat /\ taken \in Nat
         /\ \A i \in 1..(Len(sent) + 1) : Start(i) \in Nat
<1>1. Len(sent) \in Nat /\ Len(wire) \in Nat /\ Len(ends) = Len(sent) /\ taken \in Nat
  BY LenProperties DEF TypeOK
<1>2. ASSUME NEW i \in 1..(Len(sent) + 1), i # 1 PROVE ends[i - 1] \in Nat
  <2>1. i - 1 \in 1..Len(ends)
    BY <1>1, <1>2
  <2> QED BY <2>1, ElementOfSeq DEF TypeOK
<1> QED BY <1>1, <1>2 DEF Start

LEMMA Initial == Init => IInv
<1> SUFFICES ASSUME Init PROVE IInv
  OBVIOUS
<1>1. Len(<<>>) = 0 /\ <<>> \in Seq(Byte) /\ <<>> \in Seq(Message \cup Damage) /\ <<>> \in Seq(Message) /\ <<>> \in Seq(Nat)
  BY EmptySeq
<1>2. SocketCap \in Nat
  BY CodecAssumption
<1>3. TypeOK
  BY <1>1, <1>2 DEF Init, TypeOK
<1>4. LayoutOK /\ ContentOK
  BY <1>1 DEF Init, LayoutOK, ContentOK
<1>5. WriterOK
  BY <1>1 DEF Init, WriterOK, Start
<1>6. ReaderOK
  BY <1>1 DEF Init, ReaderOK, Start
<1> QED BY <1>3, <1>4, <1>5, <1>6 DEF IInv

(* What the socket takes goes behind the wire, and the rest stays *)
LEMMA PutFacts ==
  ASSUME TypeOK, NEW b \in Seq(Byte), NEW n \in 1..Len(b), Puts(b, n)
  PROVE  /\ wire' \in Seq(Byte) /\ Len(wire') = Len(wire) + n
         /\ \A k \in 1..Len(wire) : wire'[k] = wire[k]
         /\ \A k \in 1..n : wire'[Len(wire) + k] = b[k]
         /\ out' \in Seq(Byte) /\ Len(out') = Len(b) - n /\ Len(b) \in Nat
         /\ \A k \in 1..(Len(b) - n) : out'[k] = b[n + k]
         /\ taken' \in 0..Len(wire') /\ Len(wire') - taken' <= SocketCap
         /\ UNCHANGED <<open, taken, phase, got, received>>
<1>1. Len(b) \in Nat /\ n \in 0..Len(b) /\ n \in Nat /\ wire \in Seq(Byte) /\ Len(wire) \in Nat
  BY LenProperties DEF TypeOK
<1>2. /\ wire' = wire \o SubSeq(b, 1, n) /\ out' = SubSeq(b, n + 1, Len(b))
      /\ UNCHANGED <<open, taken, phase, got, received>> /\ n <= SocketCap - (Len(wire) - taken)
  BY DEF Puts, Room, reader
<1>3. /\ wire \o SubSeq(b, 0 + 1, 0 + n) \in Seq(Byte)
      /\ Len(wire \o SubSeq(b, 0 + 1, 0 + n)) = Len(wire) + n
      /\ \A k \in 1..Len(wire) : (wire \o SubSeq(b, 0 + 1, 0 + n))[k] = wire[k]
      /\ \A k \in 1..n : (wire \o SubSeq(b, 0 + 1, 0 + n))[Len(wire) + k] = b[0 + k]
  <2>1. 0 \in 0..Len(b) /\ n \in 0..(Len(b) - 0)
    BY <1>1
  <2> QED BY ONLY <1>1, <2>1, Moved, b \in Seq(Byte)
<1>4. 0 + 1 = 1 /\ 0 + n = n /\ \A k \in 1..n : 0 + k = k
  BY <1>1
<1>5. /\ wire' \in Seq(Byte) /\ Len(wire') = Len(wire) + n
      /\ \A k \in 1..Len(wire) : wire'[k] = wire[k]
      /\ \A k \in 1..n : wire'[Len(wire) + k] = b[k]
  BY <1>2, <1>3, <1>4
<1>6. /\ out' \in Seq(Byte) /\ Len(out') = Len(b) - n
      /\ \A k \in 1..(Len(b) - n) : out'[k] = b[n + k]
  BY <1>1, <1>2, Rest
<1>7. SocketCap \in Nat /\ taken \in 0..Len(wire)
  BY CodecAssumption DEF TypeOK
<1>8. taken' \in 0..Len(wire') /\ Len(wire') - taken' <= SocketCap
  BY <1>1, <1>2, <1>5, <1>7
<1> QED BY <1>1, <1>2, <1>5, <1>6, <1>8

(* The reader's part does not depend on what is written behind it *)
LEMMA ReaderKept ==
  ASSUME IInv, UNCHANGED <<taken, phase, got, received>>,
         Len(sent) <= Len(sent'), \A i \in 1..Len(sent) : sent'[i] = sent[i] /\ ends'[i] = ends[i],
         \A k \in 1..Len(wire) : wire'[k] = wire[k], Len(sent') \in Nat
  PROVE  ReaderOK'
<1>1. /\ Len(received) \in Nat /\ Len(got) \in Nat /\ Len(sent) \in Nat /\ Len(wire) \in Nat
      /\ taken \in 0..Len(wire)
  BY LenProperties DEF IInv, TypeOK
<1>2. Len(received) <= Len(sent) /\ \A i \in 1..Len(received) : received[i] = sent[i]
  BY DEF IInv, ReaderOK
<1>3. Len(received)' <= Len(sent)' /\ (\A i \in 1..Len(received) : received[i] = sent[i])'
  BY <1>1, <1>2
<1>4. Start(Len(received) + 1)' = Start(Len(received) + 1) /\ Start(Len(received) + 1) \in Nat
  <2>1. Start(Len(received) + 1) \in Nat
    BY <1>1, <1>2, StartType DEF IInv
  <2>2. CASE Len(received) = 0
    BY <2>1, <2>2 DEF Start
  <2>3. CASE Len(received) # 0
    <3>1. Len(received) + 1 # 1 /\ Len(received) + 1 - 1 = Len(received) /\ Len(received) \in 1..Len(sent)
      BY <1>1, <1>2, <2>3
    <3> QED BY <2>1, <3>1 DEF Start
  <2> QED BY <2>2, <2>3
<1>5. taken = Start(Len(received) + 1) + Len(got) /\ \A k \in 1..Len(got) : got[k] = wire[Start(Len(received) + 1) + k]
  BY DEF IInv, ReaderOK
<1>6. ASSUME NEW k \in 1..Len(got)
      PROVE  Start(Len(received) + 1) + k \in 1..Len(wire)
  BY <1>1, <1>4, <1>5
<1>7. \A k \in 1..Len(got) : got[k] = wire'[Start(Len(received) + 1) + k]
  BY <1>5, <1>6
<1>8. (taken = Start(Len(received) + 1) + Len(got))' /\ (\A k \in 1..Len(got) : got[k] = wire[Start(Len(received) + 1) + k])'
  BY <1>4, <1>5, <1>7
<1> QED BY <1>3, <1>8 DEF IInv, ReaderOK

-----------------------------------------------------------------------------
(* A frame is begun where the last one ended *)
LEMMA Begins ==
  ASSUME IInv, NEW x \in Message \cup Damage, NEW n \in 1..SocketCap, BeginFrame(x, n)
  PROVE  IInv'
<1>1. /\ open /\ out = <<>> /\ (x \in Message => Fits(x)) /\ n <= Len(Bytes(x)) /\ Puts(Bytes(x), n)
      /\ sent' = Append(sent, x) /\ ends' = Append(ends, Len(wire) + Len(Bytes(x)))
  BY DEF BeginFrame
<1>2. Bytes(x) \in Seq(Byte) /\ Size(x) \in Nat /\ Size(x) >= 4 /\ Size(x) = Len(Bytes(x))
  BY <1>1, FrameBytes DEF Size
<1>3. n \in 1..Len(Bytes(x)) /\ n \in Nat
  BY <1>1, <1>2, CodecAssumption
<1>4. /\ wire' \in Seq(Byte) /\ Len(wire') = Len(wire) + n
      /\ \A k \in 1..Len(wire) : wire'[k] = wire[k]
      /\ \A k \in 1..n : wire'[Len(wire) + k] = Bytes(x)[k]
      /\ out' \in Seq(Byte) /\ Len(out') = Len(Bytes(x)) - n
      /\ \A k \in 1..(Len(Bytes(x)) - n) : out'[k] = Bytes(x)[n + k]
      /\ taken' \in 0..Len(wire') /\ Len(wire') - taken' <= SocketCap
      /\ UNCHANGED <<open, taken, phase, got, received>>
  BY <1>1, <1>2, <1>3, PutFacts DEF IInv
<1> DEFINE L == Len(sent)
<1>5. /\ L \in Nat /\ Len(wire) \in Nat /\ Len(ends) = L /\ \A i \in 1..(L + 1) : Start(i) \in Nat
      /\ sent \in Seq(Message \cup Damage) /\ ends \in Seq(Nat)
  BY StartType DEF IInv, TypeOK
<1>6. /\ sent' \in Seq(Message \cup Damage) /\ Len(sent') = L + 1
      /\ \A i \in 1..L : sent'[i] = sent[i]
      /\ sent'[L + 1] = x
  BY <1>1, <1>5, AppendProperties
<1>7. /\ ends' \in Seq(Nat) /\ Len(ends') = L + 1
      /\ \A i \in 1..L : ends'[i] = ends[i]
      /\ ends'[L + 1] = Len(wire) + Size(x)
  <2>1. Len(wire) + Len(Bytes(x)) \in Nat
    BY <1>2, <1>5
  <2> QED BY <1>1, <1>2, <1>5, <2>1, AppendProperties
<1>8. Len(wire) = Start(L + 1)
  <2>1. Len(out) = 0
    BY <1>1, EmptySeq
  <2> QED BY <1>1, <1>5, <2>1 DEF IInv, WriterOK
<1>9. /\ \A i \in 1..(L + 1) : (IF i = 1 THEN 0 ELSE ends'[i - 1]) = Start(i)
      /\ ends'[L + 2 - 1] = Len(wire) + Size(x)
  <2>1. ASSUME NEW i \in 1..(L + 1), i # 1 PROVE ends'[i - 1] = ends[i - 1]
    <3>1. i - 1 \in 1..L
      BY <1>5, <2>1
    <3> QED BY <1>7, <3>1
  <2>2. L + 2 - 1 = L + 1
    BY <1>5
  <2> QED BY <1>7, <2>1, <2>2 DEF Start
<1>10. TypeOK'
  BY <1>4, <1>6, <1>7 DEF IInv, TypeOK
<1>11. LayoutOK'
  <2>1. ASSUME NEW i \in 1..(L + 1)
        PROVE  ends'[i] = (IF i = 1 THEN 0 ELSE ends'[i - 1]) + Size(sent'[i])
    <3>1. CASE i \in 1..L
      BY <1>5, <1>6, <1>7, <1>9, <3>1 DEF IInv, LayoutOK
    <3>2. CASE i = L + 1
      BY <1>5, <1>6, <1>7, <1>8, <1>9, <3>2
    <3>3. i \in 1..L \/ i = L + 1
      BY <1>5
    <3> QED BY <3>1, <3>2, <3>3
  <2>2. ASSUME NEW i \in 1..(L + 1), NEW j \in 1..(L + 1), i <= j
        PROVE  ends'[i] <= ends'[j]
    <3>1. CASE j \in 1..L
      <4>1. i \in 1..L
        BY <1>5, <2>2, <3>1
      <4>2. ends[i] <= ends[j]
        BY <2>2, <3>1, <4>1 DEF IInv, LayoutOK
      <4> QED BY <1>7, <3>1, <4>1, <4>2
    <3>2. CASE i = L + 1 /\ j = L + 1
      BY <1>2, <1>5, <1>7, <3>2
    <3>3. CASE i \in 1..L /\ j = L + 1
      <4>1. L \in 1..L /\ i <= L /\ L + 1 # 1 /\ L + 1 - 1 = L
        BY <1>5, <3>3
      <4>2. ends[i] <= ends[L] /\ ends[L] = Start(L + 1)
        BY <3>3, <4>1 DEF IInv, LayoutOK, Start
      <4>3. ends[i] \in Nat /\ ends[L] \in Nat
        BY <1>5, <3>3, <4>1, ElementOfSeq
      <4>4. ends[i] <= Len(wire) /\ ends[i] \in Nat /\ Len(wire) \in Nat /\ Size(x) \in Nat
        BY <1>2, <1>5, <1>8, <4>2, <4>3
      <4>5. ends'[i] = ends[i] /\ ends'[j] = Len(wire) + Size(x)
        BY <1>7, <3>3
      <4> QED BY <4>4, <4>5
    <3>4. j \in 1..L \/ (i \in 1..L /\ j = L + 1) \/ (i = L + 1 /\ j = L + 1)
      BY <1>5
    <3> QED BY <3>1, <3>2, <3>3, <3>4
  <2>3. ASSUME NEW i \in 1..(L + 1), sent'[i] \in Message PROVE Fits(sent'[i])
    BY <1>1, <1>5, <1>6, <2>3 DEF IInv, LayoutOK
  <2> QED BY <1>6, <2>1, <2>2, <2>3 DEF LayoutOK, Start
<1>12. WriterOK'
  <2>1. (IF Len(sent') = 1 THEN 0 ELSE ends'[Len(sent') - 1]) = Len(wire)
    BY <1>5, <1>6, <1>8, <1>9
  <2>2. Len(sent') + 1 # 1 /\ ends'[Len(sent') + 1 - 1] = Len(wire) + Size(x)
    BY <1>5, <1>6, <1>7
  <2>3. \A k \in 1..Len(out') : out'[k] = Bytes(x)[Len(wire') - Len(wire) + k]
    BY <1>2, <1>3, <1>4, <1>5
  <2>4. /\ Len(wire') <= Len(wire) + Size(x) /\ Len(wire) < Len(wire')
        /\ Len(wire') + Len(out') = Len(wire) + Size(x) /\ sent'[Len(sent')] = x
    <3>1. /\ Len(wire') = Len(wire) + n /\ Len(out') = Size(x) - n /\ n \in 1..Size(x)
          /\ Len(wire) \in Nat /\ Size(x) \in Nat
      BY <1>2, <1>3, <1>4, <1>5
    <3>2. sent'[Len(sent')] = x
      BY <1>6
    <3> QED BY <3>1, <3>2
  <2>5. Len(wire') <= Start(Len(sent) + 1)'
    BY <2>2, <2>4 DEF Start
  <2>6. Start(Len(sent))' = Len(wire)
    BY <2>1 DEF Start
  <2>7. Start(Len(sent) + 1)' = Len(wire) + Size(x)
    BY <2>2 DEF Start
  <2>8. (\A k \in 1..Len(out) : out[k] = Bytes(sent[Len(sent)])[Len(wire) - Start(Len(sent)) + k])'
    BY <2>3, <2>4, <2>6
  <2> QED BY <2>4, <2>5, <2>6, <2>7, <2>8 DEF WriterOK
<1>13. ContentOK'
  <2> SUFFICES ASSUME NEW i \in 1..(L + 1), NEW k \in 1..Size(sent'[i]),
                      (IF i = 1 THEN 0 ELSE ends'[i - 1]) + k <= Len(wire')
               PROVE  wire'[(IF i = 1 THEN 0 ELSE ends'[i - 1]) + k] = Bytes(sent'[i])[k]
    BY <1>6 DEF ContentOK, Start
  <2>1. CASE i \in 1..L
    <3>1. i \in 1..(L + 1) /\ L \in 1..L /\ i <= L /\ L + 1 # 1 /\ L + 1 - 1 = L
      <4>1. L \in Nat
        BY <1>5
      <4> HIDE DEF L
      <4> QED BY <2>1, <4>1
    <3>2. ends[i] = Start(i) + Size(sent[i]) /\ ends[i] <= ends[L] /\ ends[L] = Start(L + 1)
      BY <2>1, <3>1 DEF IInv, LayoutOK, Start
    <3>3. Size(sent[i]) \in Nat /\ sent'[i] = sent[i] /\ k \in 1..Size(sent[i])
      <4>1. sent[i] \in Message \cup Damage /\ (sent[i] \in Message => Fits(sent[i]))
        BY <1>5, <2>1, ElementOfSeq DEF IInv, LayoutOK
      <4>2. Size(sent[i]) \in Nat
        BY <4>1, FrameBytes
      <4> QED BY <1>6, <2>1, <4>2
    <3>4. Start(i) + k \in 1..Len(wire)
      <4> DEFINE s == Start(i)   z == Size(sent[i])   w == Len(wire)   e == Start(L + 1)
      <4>1. s \in Nat /\ e \in Nat /\ w \in Nat /\ z \in Nat /\ k \in 1..z /\ s + z <= e /\ w = e
        BY <1>5, <1>8, <3>1, <3>2, <3>3
      <4> HIDE DEF s, z, w, e
      <4>2. s + k \in 1..w
        BY ONLY <4>1
      <4> QED BY <4>2 DEF s, w
    <3>5. wire[Start(i) + k] = Bytes(sent[i])[k]
      <4>1. Start(i) + k <= Len(wire)
        BY <1>5, <3>4
      <4> QED BY <2>1, <3>3, <4>1 DEF IInv, ContentOK
    <3>6. wire'[Start(i) + k] = wire[Start(i) + k]
      BY <1>4, <3>4
    <3>7. (IF i = 1 THEN 0 ELSE ends'[i - 1]) = Start(i)
      BY <1>9, <3>1
    <3> QED BY <3>3, <3>5, <3>6, <3>7
  <2>2. CASE i = L + 1
    <3>1. (IF i = 1 THEN 0 ELSE ends'[i - 1]) = Len(wire) /\ sent'[i] = x
      BY <1>5, <1>6, <1>8, <1>9, <2>2
    <3>2. k \in 1..n
      <4>1. k \in 1..Size(x) /\ Len(wire) + k <= Len(wire')
        BY <3>1
      <4>2. Len(wire') = Len(wire) + n /\ Len(wire) \in Nat /\ n \in Nat /\ Size(x) \in Nat
        BY <1>2, <1>3, <1>4, <1>5
      <4> QED BY <4>1, <4>2
    <3> QED BY <1>4, <3>1, <3>2
  <2>3. i \in 1..L \/ i = L + 1
    BY <1>5
  <2> QED BY <2>1, <2>2, <2>3
<1>14. ReaderOK'
  BY <1>4, <1>5, <1>6, <1>7, ReaderKept
<1> QED BY <1>10, <1>11, <1>12, <1>13, <1>14 DEF IInv

(* write_all goes on inside the last frame *)
LEMMA Writes ==
  ASSUME IInv, NEW n \in 1..SocketCap, WriteMore(n)
  PROVE  IInv'
<1>1. open /\ n <= Len(out) /\ Puts(out, n) /\ sent' = sent /\ ends' = ends
  BY DEF WriteMore
<1>2. out \in Seq(Byte) /\ Len(out) \in Nat /\ n \in Nat /\ n \in 1..Len(out)
  BY <1>1, CodecAssumption, LenProperties DEF IInv, TypeOK
<1>3. /\ wire' \in Seq(Byte) /\ Len(wire') = Len(wire) + n
      /\ \A k \in 1..Len(wire) : wire'[k] = wire[k]
      /\ \A k \in 1..n : wire'[Len(wire) + k] = out[k]
      /\ out' \in Seq(Byte) /\ Len(out') = Len(out) - n
      /\ \A k \in 1..(Len(out) - n) : out'[k] = out[n + k]
      /\ taken' \in 0..Len(wire') /\ Len(wire') - taken' <= SocketCap
      /\ UNCHANGED <<open, taken, phase, got, received>>
  BY <1>1, <1>2, PutFacts DEF IInv
<1>4. /\ Len(sent) \in Nat /\ Len(wire) \in Nat /\ \A i \in 1..(Len(sent) + 1) : Start(i) \in Nat
  BY StartType DEF IInv
<1>5. /\ \A i \in 1..(Len(sent) + 1) : Start(i)' = Start(i)
      /\ Start(Len(sent) + 1)' = Start(Len(sent) + 1) /\ Start(Len(sent))' = Start(Len(sent))
      /\ Len(sent)' = Len(sent)
  BY <1>1 DEF Start
<1>6. Len(wire) + Len(out) = Start(Len(sent) + 1)
  BY <1>1 DEF IInv, WriterOK
<1>7. Len(sent) > 0 /\ Start(Len(sent)) < Len(wire) /\ Start(Len(sent)) \in Nat
  <2>1. Len(sent) = 0 => Start(Len(sent) + 1) = 0
    BY DEF Start
  <2>2. Len(sent) > 0
    BY <1>2, <1>4, <1>6, <2>1
  <2> QED BY <1>4, <2>2 DEF IInv, WriterOK
<1>8. \A k \in 1..Len(out) : out[k] = Bytes(sent[Len(sent)])[Len(wire) - Start(Len(sent)) + k]
  BY DEF IInv, WriterOK
<1>9. TypeOK'
  BY <1>1, <1>3 DEF IInv, TypeOK
<1>10. LayoutOK'
  BY <1>1 DEF IInv, LayoutOK, Start
<1>11. WriterOK'
  <2>1. Len(wire') + Len(out') = Start(Len(sent) + 1) /\ Len(wire') <= Start(Len(sent) + 1) /\ Start(Len(sent)) < Len(wire')
    BY <1>2, <1>3, <1>4, <1>6, <1>7
  <2>2. ASSUME NEW k \in 1..Len(out')
        PROVE  out'[k] = Bytes(sent[Len(sent)])[Len(wire') - Start(Len(sent)) + k]
    <3>1. k \in 1..(Len(out) - n) /\ n + k \in 1..Len(out)
      BY <1>2, <1>3
    <3>2. Len(wire) - Start(Len(sent)) + (n + k) = Len(wire') - Start(Len(sent)) + k
      BY <1>2, <1>3, <1>4, <1>7, <3>1
    <3>3. out[n + k] = Bytes(sent[Len(sent)])[Len(wire) - Start(Len(sent)) + (n + k)]
      BY <1>8, <3>1
    <3> QED BY <1>3, <3>1, <3>2, <3>3
  <2>3. (\A k \in 1..Len(out) : out[k] = Bytes(sent[Len(sent)])[Len(wire) - Start(Len(sent)) + k])'
    BY <1>1, <1>5, <2>2
  <2> QED BY <1>5, <2>1, <2>3 DEF WriterOK
<1>12. ContentOK'
  <2> SUFFICES ASSUME NEW i \in 1..Len(sent), NEW k \in 1..Size(sent[i]), Start(i) + k <= Len(wire')
               PROVE  wire'[Start(i) + k] = Bytes(sent[i])[k]
    BY <1>1 DEF ContentOK, Start
  <2>1. Size(sent[i]) \in Nat /\ k \in Nat \ {0} /\ Start(i) \in Nat
    <3>1. sent[i] \in Message \cup Damage /\ (sent[i] \in Message => Fits(sent[i]))
      BY ElementOfSeq DEF IInv, LayoutOK, TypeOK
    <3>2. i \in 1..(Len(sent) + 1)
      BY <1>4
    <3> QED BY <1>4, <3>1, <3>2, FrameBytes
  <2>2. CASE Start(i) + k <= Len(wire)
    <3>1. Start(i) + k \in 1..Len(wire)
      BY <1>4, <2>1, <2>2
    <3> QED BY <1>3, <2>2, <3>1 DEF IInv, ContentOK
  <2>3. CASE Start(i) + k > Len(wire)
    <3>1. i = Len(sent)
      <4>1. SUFFICES ASSUME i # Len(sent) PROVE FALSE
        OBVIOUS
      <4>2. Len(sent) \in Nat
        BY <1>4
      <4>3. Len(sent) - 1 \in 1..Len(sent) /\ i <= Len(sent) - 1 /\ Len(sent) # 1
        <5> DEFINE l == Len(sent)
        <5>1. l \in Nat /\ i \in 1..l /\ i # l
          BY <4>1, <4>2
        <5> HIDE DEF l
        <5>2. l - 1 \in 1..l /\ i <= l - 1 /\ l # 1
          BY ONLY <5>1
        <5> QED BY <5>2 DEF l
      <4>4. ends[i] <= ends[Len(sent) - 1] /\ ends[Len(sent) - 1] = Start(Len(sent)) /\ ends[i] = Start(i) + Size(sent[i])
        BY <4>3 DEF IInv, LayoutOK, Start
      <4> QED BY <1>4, <1>7, <2>1, <2>3, <4>4
    <3>2. PICK j \in 1..n : Start(i) + k = Len(wire) + j
      <4> DEFINE s == Start(i)   w == Len(wire)
      <4>1. s \in Nat /\ w \in Nat /\ k \in Nat /\ n \in Nat /\ s + k > w /\ s + k <= w + n
        BY <1>2, <1>3, <1>4, <2>1, <2>3
      <4> HIDE DEF s, w
      <4>2. s + k - w \in 1..n /\ s + k = w + (s + k - w)
        BY <4>1
      <4> QED BY <4>2 DEF s, w
    <3>3. j \in 1..Len(out) /\ Len(wire) - Start(Len(sent)) + j = k
      <4> DEFINE s == Start(i)   w == Len(wire)
      <4>1. s \in Nat /\ w \in Nat /\ k \in Nat /\ n \in Nat /\ j \in 1..n /\ s + k = w + j
        BY <1>2, <1>4, <2>1, <3>2
      <4>2. n <= Len(out) /\ Len(out) \in Nat
        BY <1>1, <1>2
      <4> HIDE DEF s, w
      <4>3. j \in 1..Len(out) /\ w - s + j = k
        BY <4>1, <4>2
      <4> QED BY <3>1, <4>3 DEF s, w
    <3>4. out[j] = Bytes(sent[i])[k]
      BY <1>8, <3>1, <3>3
    <3> QED BY <1>3, <3>2, <3>4
  <2> QED BY <1>4, <2>1, <2>2, <2>3
<1>13. ReaderOK'
  BY <1>1, <1>3, <1>4, ReaderKept
<1> QED BY <1>9, <1>10, <1>11, <1>12, <1>13 DEF IInv

(* What the writer leaves unwritten, nobody will write *)
LEMMA Stops ==
  ASSUME IInv, Stop
  PROVE  IInv'
<1>1. /\ open' = FALSE /\ out' = <<>> /\ wire' = wire /\ sent' = sent /\ ends' = ends
      /\ UNCHANGED <<taken, phase, got, received>>
  BY DEF Stop, reader
<1>2. out' \in Seq(Byte) /\ Len(out') = 0
  BY <1>1, EmptySeq
<1>3. TypeOK'
  BY <1>1, <1>2 DEF IInv, TypeOK
<1>4. LayoutOK'
  BY <1>1 DEF IInv, LayoutOK, Start
<1>5. WriterOK'
  <2>1. Start(Len(sent) + 1)' = Start(Len(sent) + 1) /\ Start(Len(sent))' = Start(Len(sent))
    BY <1>1 DEF Start
  <2>2. (\A k \in 1..Len(out) : out[k] = Bytes(sent[Len(sent)])[Len(wire) - Start(Len(sent)) + k])'
    BY <1>2
  <2> QED BY <1>1, <2>1, <2>2 DEF IInv, WriterOK
<1>6. ContentOK'
  BY <1>1 DEF IInv, ContentOK, Start
<1>7. ReaderOK'
  BY <1>1 DEF IInv, ReaderOK, Start, Length
<1> QED BY <1>3, <1>4, <1>5, <1>6, <1>7 DEF IInv

-----------------------------------------------------------------------------
(* The reader's steps leave the writer's part alone *)
LEMMA WriterKept ==
  ASSUME IInv, UNCHANGED writer
  PROVE  LayoutOK' /\ WriterOK' /\ ContentOK'
<1>1. wire' = wire /\ out' = out /\ open' = open /\ sent' = sent /\ ends' = ends
  BY DEF writer
<1>2. LayoutOK'
  BY <1>1 DEF IInv, LayoutOK, Start
<1>3. WriterOK'
  BY <1>1 DEF IInv, WriterOK, Start
<1>4. ContentOK'
  BY <1>1 DEF IInv, ContentOK, Start
<1> QED BY <1>2, <1>3, <1>4

(* Bytes that begin like a frame hold its header *)
LEMMA SameHeader ==
  ASSUME NEW x \in Message \cup Damage, x \in Message => Fits(x),
         NEW g, \A k \in 1..4 : g[k] = Bytes(x)[k]
  PROVE  /\ x \in Message => Length(g) = Len(Serialize[x]) /\ Length(g) <= MaxFrameBytes
         /\ x \notin Message => Length(g) = Length(x)
<1>1. g[1] = Bytes(x)[1] /\ g[2] = Bytes(x)[2] /\ g[3] = Bytes(x)[3] /\ g[4] = Bytes(x)[4]
  <2>1. 1 \in 1..4 /\ 2 \in 1..4 /\ 3 \in 1..4 /\ 4 \in 1..4
    OBVIOUS
  <2> QED BY <2>1
<1>2. Length(g) = Length(Bytes(x))
  BY <1>1, SMT DEF Length
<1>3. CASE x \in Message
  <2> DEFINE n == Len(Serialize[x])
             h == Header(n)
  <2>1. n \in Nat /\ n <= MaxFrameBytes
    BY <1>3, CodecAssumption, LenProperties DEF Fits
  <2>2. n <= 64 * 1024 * 1024
    BY <2>1, CodecAssumption, SMT
  <2>3. Length(h) = n
    BY <2>1, <2>2, HeaderLength
  <2>4. \A k \in 1..4 : Bytes(x)[k] = h[k]
    BY <1>3, FrameBytes
  <2> HIDE DEF h, n
  <2>5. Bytes(x)[1] = h[1] /\ Bytes(x)[2] = h[2] /\ Bytes(x)[3] = h[3] /\ Bytes(x)[4] = h[4]
    <3>1. 1 \in 1..4 /\ 2 \in 1..4 /\ 3 \in 1..4 /\ 4 \in 1..4
      OBVIOUS
    <3> QED BY <2>4, <3>1
  <2>6. Length(Bytes(x)) = Length(h)
    BY <2>5, SMT DEF Length
  <2> QED BY <1>2, <1>3, <2>1, <2>3, <2>6 DEF n
<1>4. CASE x \notin Message
  BY <1>2, <1>4 DEF Bytes
<1> QED BY <1>3, <1>4

(* The frame the reader is in, once a byte of it is on the wire *)
LEMMA FrameRead ==
  ASSUME IInv, Start(Len(received) + 1) < Len(wire)
  PROVE  /\ Len(received) \in Nat /\ Len(received) < Len(sent)
         /\ Len(received) + 1 \in 1..Len(sent)
         /\ sent[Len(received) + 1] \in Message \cup Damage
         /\ sent[Len(received) + 1] \in Message => Fits(sent[Len(received) + 1])
         /\ Size(sent[Len(received) + 1]) \in Nat /\ Size(sent[Len(received) + 1]) >= 4
         /\ \A k \in 1..Size(sent[Len(received) + 1]) :
              Start(Len(received) + 1) + k <= Len(wire) =>
                wire[Start(Len(received) + 1) + k] = Bytes(sent[Len(received) + 1])[k]
<1> DEFINE r == Len(received)
           l == Len(sent)
<1>1. r \in Nat /\ l \in Nat /\ Len(wire) \in Nat /\ r <= l
  BY LenProperties DEF IInv, TypeOK, ReaderOK
<1>2. r < l
  <2>1. Len(wire) <= Start(l + 1)
    BY DEF IInv, WriterOK
  <2>2. r # l
    <3> SUFFICES ASSUME r = l PROVE FALSE
      OBVIOUS
    <3>1. Start(l + 1) \in Nat
      BY <1>1, StartType DEF IInv
    <3> QED BY <1>1, <2>1, <3>1
  <2> QED BY <1>1, <2>2
<1>3. r + 1 \in 1..l
  <2> HIDE DEF r, l
  <2> QED BY <1>1, <1>2
<1>4. sent[r + 1] \in Message \cup Damage /\ (sent[r + 1] \in Message => Fits(sent[r + 1]))
  BY <1>3, ElementOfSeq DEF IInv, TypeOK, LayoutOK
<1>5. Size(sent[r + 1]) \in Nat /\ Size(sent[r + 1]) >= 4
  BY <1>4, FrameBytes
<1>6. \A k \in 1..Size(sent[r + 1]) :
        Start(r + 1) + k <= Len(wire) => wire[Start(r + 1) + k] = Bytes(sent[r + 1])[k]
  BY <1>3 DEF IInv, ContentOK
<1> QED BY <1>1, <1>2, <1>3, <1>4, <1>5, <1>6

(* A read appends what comes next on the wire to what the reader holds *)
LEMMA ReadFacts ==
  ASSUME IInv, NEW n \in Nat, n > 0, Reads(n)
  PROVE  /\ got' \in Seq(Byte) /\ Len(got) \in Nat /\ Len(got') = Len(got) + n
         /\ \A k \in 1..Len(got) : got'[k] = got[k]
         /\ \A k \in 1..Len(got') : got'[k] = wire[Start(Len(received) + 1) + k]
         /\ taken' = Start(Len(received) + 1) + Len(got')
         /\ taken' \in 0..Len(wire) /\ Len(wire) - taken' <= SocketCap
         /\ Start(Len(received) + 1) \in Nat /\ Start(Len(received) + 1) < Len(wire)
         /\ received' = received /\ UNCHANGED writer /\ wire' = wire
<1>1. /\ n <= Len(wire) - taken /\ taken' = taken + n /\ received' = received /\ UNCHANGED writer
      /\ got' = got \o SubSeq(wire, taken + 1, taken + n)
  BY DEF Reads, Buffered
<1>2. /\ wire \in Seq(Byte) /\ Len(wire) \in Nat /\ taken \in 0..Len(wire) /\ Len(wire) - taken <= SocketCap
      /\ got \in Seq(Byte) /\ Len(got) \in Nat /\ SocketCap \in Nat
      /\ Len(received) \in Nat /\ Len(sent) \in Nat /\ Len(received) <= Len(sent)
  BY CodecAssumption, LenProperties DEF IInv, TypeOK, ReaderOK
<1>3. n \in 0..(Len(wire) - taken)
  BY <1>1, <1>2
<1>4. /\ got' \in Seq(Byte) /\ Len(got') = Len(got) + n
      /\ \A k \in 1..Len(got) : got'[k] = got[k]
      /\ \A k \in 1..n : got'[Len(got) + k] = wire[taken + k]
  BY <1>1, <1>2, <1>3, Moved
<1> DEFINE s == Start(Len(received) + 1)
           g == Len(got)
           w == Len(wire)
<1>5. s \in Nat
  <2>1. Len(received) + 1 \in 1..(Len(sent) + 1)
    BY <1>2
  <2> QED BY <2>1, StartType DEF IInv
<1>6. taken = s + g /\ \A k \in 1..g : got[k] = wire[s + k]
  BY DEF IInv, ReaderOK
<1> HIDE DEF s, g, w
<1>7. taken' = s + Len(got') /\ taken' \in 0..w /\ w - taken' <= SocketCap /\ s < w
  <2>1. /\ n <= w - taken /\ taken' = taken + n /\ Len(got') = g + n /\ taken = s + g
        /\ w \in Nat /\ g \in Nat /\ taken \in 0..w /\ w - taken <= SocketCap /\ SocketCap \in Nat
    BY <1>1, <1>2, <1>4, <1>6 DEF g, w
  <2>2. taken \in Nat /\ taken' \in Nat /\ taken' <= w
    BY <1>5, <2>1
  <2>3. s < w /\ w - taken' <= SocketCap
    BY <1>5, <2>1, <2>2
  <2>4. taken' = s + Len(got')
    BY <1>5, <2>1
  <2> QED BY <2>1, <2>2, <2>3, <2>4
<1>8. ASSUME NEW k \in 1..Len(got') PROVE got'[k] = wire[s + k]
  <2>1. CASE k <= g
    <3>1. k \in 1..g
      BY <1>2, <2>1 DEF g
    <3> QED BY <1>4, <1>6, <3>1 DEF g
  <2>2. CASE k > g
    <3>1. k - g \in 1..n /\ g + (k - g) = k /\ taken + (k - g) = s + k
      BY <1>2, <1>4, <1>5, <1>6, <2>2 DEF g
    <3> QED BY <1>4, <3>1 DEF g
  <2> QED BY <1>2, <2>1, <2>2 DEF g
<1>9. wire' = wire
  BY <1>1 DEF writer
<1> QED BY <1>1, <1>2, <1>4, <1>5, <1>7, <1>8, <1>9 DEF s, g, w

(* A read preserves everything that is not about the phase *)
LEMMA ReadKeeps ==
  ASSUME IInv, NEW n \in Nat, n > 0, Reads(n),
         phase' \in {"header", "payload", "error"},
         phase' = "header" => Len(got') \in 1..3,
         phase' = "payload" => Len(got') >= 4 /\ Length(got') <= MaxFrameBytes
                               /\ Len(got') <= 4 + Length(got')
  PROVE  IInv'
<1>1. /\ got' \in Seq(Byte)
      /\ \A k \in 1..Len(got') : got'[k] = wire[Start(Len(received) + 1) + k]
      /\ taken' = Start(Len(received) + 1) + Len(got')
      /\ taken' \in 0..Len(wire) /\ Len(wire) - taken' <= SocketCap
      /\ received' = received /\ UNCHANGED writer
  BY ReadFacts
<1>2. LayoutOK' /\ WriterOK' /\ ContentOK'
  BY <1>1, WriterKept
<1>3. wire' = wire /\ out' = out /\ open' = open /\ sent' = sent /\ ends' = ends
  BY <1>1 DEF writer
<1>4. TypeOK'
  <2>1. (phase = "payload" => Len(got) >= 4 /\ Length(got) <= MaxFrameBytes)'
    OBVIOUS
  <2>2. (phase \in {"first", "header", "payload", "none", "error"})'
    OBVIOUS
  <2>3. (/\ wire \in Seq(Byte) /\ taken \in 0..Len(wire) /\ Len(wire) - taken <= SocketCap
         /\ out \in Seq(Byte) /\ open \in BOOLEAN
         /\ sent \in Seq(Message \cup Damage) /\ ends \in Seq(Nat) /\ Len(ends) = Len(sent)
         /\ got \in Seq(Byte) /\ received \in Seq(Message))'
    BY <1>1, <1>3 DEF IInv, TypeOK
  <2> QED BY <2>1, <2>2, <2>3 DEF TypeOK
<1>5. ReaderOK'
  <2>1. Start(Len(received) + 1)' = Start(Len(received) + 1)
    BY <1>1, <1>3 DEF Start
  <2>2. (Len(received) <= Len(sent) /\ \A i \in 1..Len(received) : received[i] = sent[i])'
    BY <1>1, <1>3 DEF IInv, ReaderOK
  <2>3. (taken = Start(Len(received) + 1) + Len(got))'
    BY <1>1, <2>1
  <2>4. (\A k \in 1..Len(got) : got[k] = wire[Start(Len(received) + 1) + k])'
    BY <1>1, <1>3, <2>1
  <2>5. (/\ phase = "first" => got = <<>>
         /\ phase = "header" => Len(got) \in 1..3
         /\ phase = "payload" => Len(got) <= 4 + Length(got))'
    OBVIOUS
  <2> QED BY <2>2, <2>3, <2>4, <2>5 DEF ReaderOK
<1> QED BY <1>2, <1>4, <1>5 DEF IInv

LEMMA ReadsFirst ==
  ASSUME IInv, ReadFirst
  PROVE  IInv'
<1>1. phase = "first" /\ Reads(1) /\ phase' = "header"
  BY DEF ReadFirst
<1>2. Len(got) = 0
  BY <1>1, EmptySeq DEF IInv, ReaderOK
<1>3. 1 \in Nat /\ 1 > 0
  OBVIOUS
<1>4. Len(got') = Len(got) + 1
  BY <1>1, <1>3, ReadFacts
<1>5. Len(got') \in 1..3
  BY <1>2, <1>4
<1> QED BY <1>1, <1>3, <1>5, ReadKeeps

LEMMA ReadsHeader ==
  ASSUME IInv, NEW n \in 1..3, ReadHeader(n)
  PROVE  IInv'
<1>1. /\ phase = "header" /\ n <= 4 - Len(got) /\ Reads(n) /\ n \in Nat /\ n > 0
      /\ phase' = IF Len(got') = 4 THEN AfterHeader(got') ELSE "header"
  BY DEF ReadHeader
<1>2. Len(got) \in 1..3 /\ Len(got') = Len(got) + n
  BY <1>1, ReadFacts DEF IInv, ReaderOK
<1>3. Len(got') \in 1..4
  BY <1>1, <1>2
<1>4. CASE Len(got') = 4
  <2>1. phase' \in {"payload", "error"} /\ (phase' = "payload" => ~(Length(got') > MaxFrameBytes))
    BY <1>1, <1>4 DEF AfterHeader
  <2>2. Length(got') \in Nat
    <3>1. got'[1] \in Byte /\ got'[2] \in Byte /\ got'[3] \in Byte /\ got'[4] \in Byte
      <4>1. got' \in Seq(Byte)
        BY <1>1, ReadFacts
      <4>2. 1 \in 1..4 /\ 2 \in 1..4 /\ 3 \in 1..4 /\ 4 \in 1..4
        OBVIOUS
      <4> QED BY <1>4, <4>1, <4>2, ElementOfSeq
    <3> QED BY <3>1, LengthType
  <2>3. phase' = "payload" => Length(got') <= MaxFrameBytes /\ Len(got') <= 4 + Length(got')
    <3>1. MaxFrameBytes \in Nat
      BY CodecAssumption
    <3> QED BY <1>4, <2>1, <2>2, <3>1
  <2> QED BY <1>1, <1>4, <2>1, <2>3, ReadKeeps
<1>5. CASE Len(got') # 4
  BY <1>1, <1>3, <1>5, ReadKeeps
<1> QED BY <1>4, <1>5

LEMMA ReadsPayload ==
  ASSUME IInv, NEW n \in 1..MaxFrameBytes, ReadPayload(n)
  PROVE  IInv'
<1>1. phase = "payload" /\ n <= Expected - Len(got) /\ Reads(n) /\ phase' = phase
  BY DEF ReadPayload
<1>2. n \in Nat /\ n > 0
  BY CodecAssumption
<1>3. /\ Len(got) \in Nat /\ Len(got') = Len(got) + n /\ \A k \in 1..Len(got) : got'[k] = got[k]
  BY <1>1, <1>2, ReadFacts
<1>4. Len(got) >= 4 /\ Length(got) <= MaxFrameBytes
  BY <1>1 DEF IInv, TypeOK
<1>5. got'[1] = got[1] /\ got'[2] = got[2] /\ got'[3] = got[3] /\ got'[4] = got[4]
  <2>1. 1 \in 1..Len(got) /\ 2 \in 1..Len(got) /\ 3 \in 1..Len(got) /\ 4 \in 1..Len(got)
    BY <1>3, <1>4
  <2> QED BY <1>3, <2>1
<1>6. Length(got') = Length(got)
  BY <1>5, SMT DEF Length
<1>7. Length(got) \in Nat
  <2>1. got[1] \in Byte /\ got[2] \in Byte /\ got[3] \in Byte /\ got[4] \in Byte
    <3>1. got \in Seq(Byte)
      BY DEF IInv, TypeOK
    <3>2. 1 \in 1..Len(got) /\ 2 \in 1..Len(got) /\ 3 \in 1..Len(got) /\ 4 \in 1..Len(got)
      BY <1>3, <1>4
    <3> QED BY <3>1, <3>2, ElementOfSeq
  <2> QED BY <2>1, LengthType
<1>8. Len(got') >= 4 /\ Length(got') <= MaxFrameBytes /\ Len(got') <= 4 + Length(got')
  <2>1. n <= (4 + Length(got)) - Len(got)
    <3>1. ~(Len(got) < 4)
      BY <1>3, <1>4
    <3>2. Expected = 4 + Length(got)
      BY <3>1, Zenon DEF Expected
    <3> QED BY <1>1, <3>2, Zenon
  <2> QED BY <1>2, <1>3, <1>4, <1>6, <1>7, <2>1
<1> QED BY <1>1, <1>2, <1>8, ReadKeeps

LEMMA Ends ==
  ASSUME IInv, EndOfFile
  PROVE  IInv'
<1>1. phase' \in {"none", "error"} /\ UNCHANGED <<writer, taken, got, received>>
  BY DEF EndOfFile
<1>2. /\ wire' = wire /\ out' = out /\ open' = open /\ sent' = sent /\ ends' = ends
      /\ taken' = taken /\ got' = got /\ received' = received
  BY <1>1 DEF writer
<1>3. LayoutOK' /\ WriterOK' /\ ContentOK'
  BY <1>1, WriterKept
<1>4. TypeOK'
  BY <1>1, <1>2 DEF IInv, TypeOK
<1>5. ReaderOK'
  BY <1>1, <1>2 DEF IInv, ReaderOK, Start
<1> QED BY <1>3, <1>4, <1>5 DEF IInv

(* What a complete frame decodes to: the message that was sent *)
LEMMA Returned ==
  ASSUME IInv, Return
  PROVE  /\ Len(received) \in Nat /\ Len(received) < Len(sent) /\ Len(received) + 1 \in 1..Len(sent)
         /\ Len(got) = Size(sent[Len(received) + 1]) \/ sent[Len(received) + 1] \in Damage
         /\ sent[Len(received) + 1] \in Message \cup Damage
         /\ IF sent[Len(received) + 1] \in Message
            THEN /\ IsMessage(SubSeq(got, 5, Len(got)))
                 /\ Deserialize(SubSeq(got, 5, Len(got))) = sent[Len(received) + 1]
            ELSE ~IsMessage(SubSeq(got, 5, Len(got)))
<1> DEFINE x == sent[Len(received) + 1]
           s == Start(Len(received) + 1)
           g == Len(got)
           p == SubSeq(got, 5, Len(got))
<1>1. phase = "payload" /\ g = Expected
  BY DEF Return
<1>2. /\ got \in Seq(Byte) /\ g \in Nat /\ g >= 4 /\ Length(got) <= MaxFrameBytes
      /\ Len(wire) \in Nat /\ taken \in 0..Len(wire) /\ Len(received) \in Nat /\ Len(sent) \in Nat
      /\ Len(received) <= Len(sent)
  BY <1>1, LenProperties DEF IInv, TypeOK, ReaderOK
<1>3. g = 4 + Length(got)
  <2>1. ~(Len(got) < 4)
    BY <1>2
  <2> QED BY <1>1, <2>1, Zenon DEF Expected
<1>4. taken = s + g /\ \A k \in 1..g : got[k] = wire[s + k]
  BY DEF IInv, ReaderOK
<1>5. s \in Nat
  <2>1. Len(received) + 1 \in 1..(Len(sent) + 1)
    BY <1>2
  <2> QED BY <2>1, StartType DEF IInv
<1>6. s < Len(wire) /\ s + g <= Len(wire)
  <2> DEFINE w == Len(wire)
  <2>1. s \in Nat /\ g \in Nat /\ g >= 4 /\ w \in Nat /\ taken \in 0..w /\ taken = s + g
    BY <1>2, <1>4, <1>5
  <2> HIDE DEF s, g, w
  <2>2. s < w /\ s + g <= w
    BY <2>1
  <2> QED BY <2>2 DEF w
<1>7. /\ Len(received) < Len(sent) /\ Len(received) + 1 \in 1..Len(sent)
      /\ x \in Message \cup Damage /\ (x \in Message => Fits(x)) /\ Size(x) \in Nat /\ Size(x) >= 4
      /\ \A k \in 1..Size(x) : s + k <= Len(wire) => wire[s + k] = Bytes(x)[k]
  BY <1>6, FrameRead
<1> HIDE DEF x, s, g
<1>8. ASSUME NEW k \in 1..g, k <= Size(x) PROVE got[k] = Bytes(x)[k]
  <2>1. k \in 1..Size(x) /\ s + k <= Len(wire)
    BY <1>2, <1>5, <1>6, <1>7, <1>8
  <2> QED BY <1>4, <1>7, <2>1
<1>9. \A k \in 1..4 : got[k] = Bytes(x)[k]
  <2> SUFFICES ASSUME NEW k \in 1..4 PROVE got[k] = Bytes(x)[k]
    OBVIOUS
  <2>1. k \in 1..g /\ k <= Size(x)
    BY <1>2, <1>7
  <2> QED BY <1>8, <2>1
<1>10. /\ x \in Message => Length(got) = Len(Serialize[x])
       /\ x \notin Message => Length(got) = Length(x)
  BY <1>7, <1>9, SameHeader
<1>11. p \in Seq(Byte) /\ Len(p) = g - 4 /\ \A k \in 1..(g - 4) : p[k] = got[4 + k]
  <2>1. 4 \in 0..Len(got) /\ 4 + 1 = 5
    BY <1>2 DEF g
  <2> QED BY <1>2, <2>1, Rest DEF g
<1>12. CASE x \in Message
  <2> DEFINE S == Serialize[x]
  <2>1. S \in Seq(Byte) /\ Len(S) \in Nat
    BY <1>12, CodecAssumption, LenProperties
  <2>2. Size(x) = 4 + Len(S) /\ \A k \in 1..Len(S) : Bytes(x)[4 + k] = S[k]
    BY <1>7, <1>12, FrameBytes
  <2>3. g = 4 + Len(S) /\ Len(p) = Len(S)
    BY <1>2, <1>3, <1>10, <1>11, <1>12, <2>1
  <2> HIDE DEF S, p
  <2>4. ASSUME NEW k \in 1..Len(S) PROVE p[k] = S[k]
    <3>1. 4 + k \in 1..g /\ 4 + k <= Size(x) /\ k \in 1..(g - 4)
      BY <2>1, <2>2, <2>3
    <3>2. p[k] = got[4 + k]
      BY <1>11, <3>1
    <3>3. got[4 + k] = Bytes(x)[4 + k]
      BY <1>8, <3>1
    <3> QED BY <2>2, <3>2, <3>3
  <2>5. p = S
    <3>1. Len(p) = Len(S) /\ \A k \in 1..Len(p) : p[k] = S[k]
      BY <2>3, <2>4
    <3> QED BY <1>11, <2>1, <3>1, SeqEqual
  <2>6. Decodes(p, x)
    BY <2>1, <2>5 DEF Decodes, IsPrefix, S
  <2>7. IsMessage(p) /\ Decodes(p, Deserialize(p)) /\ Deserialize(p) \in Message
    BY <1>12, <2>6 DEF IsMessage, Deserialize
  <2>8. IsPrefix(Serialize[Deserialize(p)], Serialize[x])
    BY <2>5, <2>7 DEF Decodes, S
  <2>9. Deserialize(p) = x
    BY <1>12, <2>7, <2>8, CodecAssumption
  <2> QED BY <1>7, <1>12, <2>2, <2>3, <2>7, <2>9, <1>2 DEF x, g, p
<1>13. CASE x \notin Message
  <2>1. x \in Damage /\ IsDamage(x) /\ Length(x) = Length(got)
    BY <1>7, <1>10, <1>13, CodecAssumption
  <2>2. x \in Seq(Byte) /\ Len(x) = 4 + Length(x) /\ ~IsMessage(SubSeq(x, 5, Len(x)))
    BY <1>2, <2>1 DEF IsDamage
  <2>3. Len(x) = g /\ Size(x) = Len(x) /\ Bytes(x) = x
    BY <1>3, <1>13, <2>1, <2>2 DEF Bytes, Size
  <2>4. \A k \in 1..g : got[k] = x[k]
    <3> SUFFICES ASSUME NEW k \in 1..g PROVE got[k] = x[k]
      OBVIOUS
    <3>1. k <= Size(x)
      BY <1>2, <2>3
    <3> QED BY <1>8, <2>3, <3>1
  <2>5. got = x
    BY <1>2, <2>2, <2>3, <2>4, SeqEqual DEF g
  <2>6. ~IsMessage(p)
    BY <2>2, <2>5
  <2> QED BY <1>2, <1>7, <1>13, <2>1, <2>6 DEF x
<1> QED BY <1>12, <1>13

(* Behind a message comes the next frame *)
LEMMA Returns ==
  ASSUME IInv, Return
  PROVE  IInv'
<1> DEFINE r == Len(received)
           x == sent[r + 1]
           p == SubSeq(got, 5, Len(got))
<1>1. /\ phase = "payload" /\ UNCHANGED <<writer, taken>>
      /\ IF IsMessage(p)
         THEN received' = Append(received, Deserialize(p)) /\ phase' = "first" /\ got' = <<>>
         ELSE phase' = "error" /\ UNCHANGED <<received, got>>
  BY DEF Return
<1>2. /\ r \in Nat /\ r < Len(sent) /\ r + 1 \in 1..Len(sent)
      /\ Len(got) = Size(x) \/ x \in Damage
      /\ IF x \in Message THEN IsMessage(p) /\ Deserialize(p) = x ELSE ~IsMessage(p)
  BY Returned
<1>3. wire' = wire /\ out' = out /\ open' = open /\ sent' = sent /\ ends' = ends /\ taken' = taken
  BY <1>1 DEF writer
<1>4. LayoutOK' /\ WriterOK' /\ ContentOK'
  BY <1>1, WriterKept
<1> HIDE DEF p
<1>5. CASE x \notin Message
  <2>1. phase' = "error" /\ received' = received /\ got' = got
    BY <1>1, <1>2, <1>5
  <2>2. TypeOK'
    BY <1>3, <2>1 DEF IInv, TypeOK
  <2>3. ReaderOK'
    BY <1>3, <2>1 DEF IInv, ReaderOK, Start
  <2> QED BY <1>4, <2>2, <2>3 DEF IInv
<1>6. CASE x \in Message
  <2>1. phase' = "first" /\ received' = Append(received, x) /\ got' = <<>>
    BY <1>1, <1>2, <1>6
  <2>2. got' \in Seq(Byte) /\ Len(got') = 0
    BY <2>1, EmptySeq
  <2>3. /\ received' \in Seq(Message) /\ Len(received') = r + 1
        /\ \A i \in 1..r : received'[i] = received[i]
        /\ received'[r + 1] = x
    BY <1>6, <2>1, AppendProperties DEF IInv, TypeOK
  <2>4. TypeOK'
    BY <1>3, <2>1, <2>2, <2>3 DEF IInv, TypeOK
  <2>5. Len(got) = Size(x)
    BY <1>2, <1>6, CodecAssumption
  <2>6. taken = ends[r + 1]
    <3>1. taken = Start(r + 1) + Len(got)
      BY DEF IInv, ReaderOK
    <3>2. ends[r + 1] = Start(r + 1) + Size(sent[r + 1])
      BY <1>2 DEF IInv, LayoutOK
    <3> QED BY <2>5, <3>1, <3>2
  <2>7. Len(received') + 1 # 1 /\ Len(received') + 1 - 1 = r + 1
    BY <1>2, <2>3
  <2>8. Start(Len(received) + 1)' = ends[r + 1] /\ ends[r + 1] \in Nat
    <3>1. Start(Len(received) + 1)' = ends'[Len(received') + 1 - 1]
      BY <2>7 DEF Start
    <3>2. ends[r + 1] \in Nat
      BY <1>2, ElementOfSeq DEF IInv, TypeOK
    <3> QED BY <1>3, <2>7, <3>1, <3>2
  <2>9. Len(received') <= Len(sent)
    BY <1>2, <2>3
  <2>10. ASSUME NEW i \in 1..Len(received') PROVE received'[i] = sent[i]
    <3>1. CASE i = r + 1
      BY <2>3, <3>1
    <3>2. CASE i # r + 1
      <4>1. i \in 1..r
        BY <1>2, <2>3, <3>2
      <4> QED BY <2>3, <4>1 DEF IInv, ReaderOK
    <3> QED BY <3>1, <3>2
  <2>11. taken' = Start(Len(received) + 1)' + Len(got')
    BY <1>3, <2>2, <2>6, <2>8
  <2>12. (Len(received) <= Len(sent) /\ \A i \in 1..Len(received) : received[i] = sent[i])'
    BY <1>3, <2>9, <2>10
  <2>13. (\A k \in 1..Len(got) : got[k] = wire[Start(Len(received) + 1) + k])'
    BY <2>2
  <2>14. ReaderOK'
    BY <2>1, <2>11, <2>12, <2>13 DEF ReaderOK
  <2> QED BY <1>4, <2>4, <2>14 DEF IInv
<1> QED BY <1>5, <1>6

-----------------------------------------------------------------------------
(* Every step keeps the invariant *)
LEMMA Inductive == IInv /\ [Next]_vars => IInv'
<1> SUFFICES ASSUME IInv, [Next]_vars PROVE IInv'
  OBVIOUS
<1>1. ASSUME NEW n \in 1..SocketCap, NEW x \in Message \cup Damage, BeginFrame(x, n) PROVE IInv'
  BY <1>1, Begins
<1>2. ASSUME NEW n \in 1..SocketCap, WriteMore(n) PROVE IInv'
  BY <1>2, Writes
<1>3. CASE Stop
  BY <1>3, Stops
<1>4. CASE ReadFirst
  BY <1>4, ReadsFirst
<1>5. CASE EndOfFile
  BY <1>5, Ends
<1>6. CASE Return
  BY <1>6, Returns
<1>7. ASSUME NEW n \in 1..3, ReadHeader(n) PROVE IInv'
  BY <1>7, ReadsHeader
<1>8. ASSUME NEW n \in 1..MaxFrameBytes, ReadPayload(n) PROVE IInv'
  BY <1>8, ReadsPayload
<1>9. CASE UNCHANGED vars
  <2>1. /\ wire' = wire /\ out' = out /\ open' = open /\ sent' = sent /\ ends' = ends
        /\ taken' = taken /\ got' = got /\ received' = received /\ phase' = phase
    BY <1>9 DEF vars
  <2>2. UNCHANGED writer
    BY <2>1 DEF writer
  <2>3. LayoutOK' /\ WriterOK' /\ ContentOK'
    BY <2>2, WriterKept
  <2>4. TypeOK'
    BY <2>1 DEF IInv, TypeOK
  <2>5. ReaderOK'
    BY <2>1 DEF IInv, ReaderOK, Start
  <2> QED BY <2>3, <2>4, <2>5 DEF IInv
<1> QED BY <1>1, <1>2, <1>3, <1>4, <1>5, <1>6, <1>7, <1>8, <1>9 DEF Next, Reader

-----------------------------------------------------------------------------
(* The initial states are those of MessageFifo *)
LEMMA FifoInitial == Init => Fifo!Init
BY DEF Init, Fifo!Init

(* Where the writer stopped *)
CutOff == ~open /\ ends # <<>> /\ Len(wire) < ends[Len(ends)]

(* The reader rejects a length only in bytes that are no message *)
LEMMA FifoHeader ==
  ASSUME IInv, NEW n \in 1..3, ReadHeader(n)
  PROVE  Fifo!Fail \/ UNCHANGED Fifo!vars
<1> DEFINE x == sent[Len(received) + 1]
           s == Start(Len(received) + 1)
<1>1. /\ phase = "header" /\ Reads(n) /\ n \in Nat /\ n > 0
      /\ phase' = IF Len(got') = 4 THEN AfterHeader(got') ELSE "header"
  BY DEF ReadHeader
<1>2. sent' = sent /\ open' = open /\ received' = received
  BY <1>1 DEF Reads, writer
<1>3. phase' \in {"header", "payload", "error"}
  BY <1>1 DEF AfterHeader
<1>6. UNCHANGED CutOff
  BY <1>1 DEF Reads, writer, CutOff
<1>4. CASE phase' # "error"
  BY <1>1, <1>2, <1>3, <1>4, <1>6 DEF Fifo!vars, CutOff
<1>5. CASE phase' = "error"
  <2>1. Len(got') = 4 /\ Length(got') > MaxFrameBytes
    BY <1>1, <1>5 DEF AfterHeader
  <2>2. /\ \A k \in 1..Len(got') : got'[k] = wire[s + k]
        /\ taken' = s + Len(got') /\ taken' \in 0..Len(wire) /\ s \in Nat /\ s < Len(wire) /\ Len(wire) \in Nat
    BY <1>1, ReadFacts, StartType DEF IInv
  <2>0. s + 4 <= Len(wire)
    BY <2>1, <2>2
  <2>3. /\ Len(received) < Len(sent) /\ x \in Message \cup Damage /\ (x \in Message => Fits(x))
        /\ Size(x) \in Nat /\ Size(x) >= 4
        /\ \A k \in 1..Size(x) : s + k <= Len(wire) => wire[s + k] = Bytes(x)[k]
    BY <2>2, FrameRead
  <2> HIDE DEF x, s
  <2>4. ASSUME NEW k \in 1..4 PROVE got'[k] = Bytes(x)[k]
    <3>1. k \in 1..Len(got')
      BY <2>1
    <3>2. k \in 1..Size(x)
      BY <2>3
    <3>3. s + k <= Len(wire)
      BY <2>0, <2>2
    <3> QED BY <2>2, <2>3, <3>1, <3>2, <3>3
  <2>5. x \notin Message
    <3> SUFFICES ASSUME x \in Message PROVE FALSE
      OBVIOUS
    <3>1. Length(got') = Len(Serialize[x]) /\ Length(got') <= MaxFrameBytes
      BY <2>3, <2>4, SameHeader
    <3>2. Len(Serialize[x]) \in Nat /\ MaxFrameBytes \in Nat
      BY CodecAssumption, LenProperties
    <3> QED BY <2>1, <3>1, <3>2
  <2>6. x \in Damage
    BY <2>3, <2>5
  <2> QED BY <1>1, <1>2, <1>5, <1>6, <2>3, <2>6 DEF Fifo!Fail, Fifo!Upcoming, CutOff, x
<1> QED BY <1>4, <1>5

(* The end is clean exactly when nothing is missing *)
LEMMA FifoEnd ==
  ASSUME IInv, EndOfFile
  PROVE  Fifo!Close \/ Fifo!Fail
<1> DEFINE r == Len(received)
           l == Len(sent)
           w == Len(wire)
           s == Start(r + 1)
<1>1. /\ phase \in {"first", "header", "payload"} /\ Len(got) < Expected
      /\ ~open /\ w - taken = 0
      /\ phase' = IF phase = "first" THEN "none" ELSE "error"
      /\ sent' = sent /\ open' = open /\ received' = received
  BY DEF EndOfFile, AtEof, Buffered, writer
<1>2. /\ r \in Nat /\ l \in Nat /\ r <= l /\ w \in Nat /\ taken \in 0..w /\ Len(got) \in Nat
      /\ \A i \in 1..r : received[i] = sent[i]
      /\ sent \in Seq(Message \cup Damage) /\ received \in Seq(Message)
      /\ taken = s + Len(got)
  BY LenProperties DEF IInv, TypeOK, ReaderOK
<1>3. s \in Nat
  <2>1. r + 1 \in 1..(l + 1)
    BY <1>2
  <2> QED BY <2>1, StartType DEF IInv
<1>4. w = s + Len(got)
  <2> HIDE DEF w, s
  <2> QED BY <1>1, <1>2, <1>3
<1>5. ASSUME r < l, r + 1 # l PROVE w > s /\ w > ends[r + 1]
  <2>1. Start(l) < w
    <3>1. l > 0
      BY <1>2, <1>5
    <3> QED BY <3>1 DEF IInv, WriterOK
  <2>2. l # 1 /\ l - 1 \in 1..l /\ r + 1 \in 1..l /\ r + 1 <= l - 1
    <3> HIDE DEF r, l
    <3> QED BY <1>2, <1>5
  <2>3. ends[r + 1] <= ends[l - 1] /\ Start(l) = ends[l - 1]
    BY <2>2 DEF IInv, LayoutOK, Start
  <2>4. ends[r + 1] \in Nat /\ ends[l - 1] \in Nat /\ ends[r + 1] = s + Size(sent[r + 1])
    BY <1>2, <2>2, ElementOfSeq DEF IInv, TypeOK, LayoutOK
  <2>5. Size(sent[r + 1]) \in Nat
    <3>1. sent[r + 1] \in Message \cup Damage /\ (sent[r + 1] \in Message => Fits(sent[r + 1]))
      BY <1>2, <2>2, ElementOfSeq DEF IInv, LayoutOK
    <3> QED BY <3>1, FrameBytes
  <2> HIDE DEF w, s
  <2>6. w > ends[r + 1] /\ w > s
    BY <1>2, <1>3, <2>1, <2>3, <2>4, <2>5
  <2> QED BY <2>6
<1>6. r < l => w > s
  <2>1. CASE r + 1 = l
    <3>1. l > 0
      BY <1>2, <2>1
    <3>2. Start(l) < w
      BY <3>1 DEF IInv, WriterOK
    <3> QED BY <2>1, <3>2
  <2>2. CASE r + 1 # l
    BY <1>5, <2>2
  <2> QED BY <2>1, <2>2
<1>7. CASE phase = "first"
  <2>1. Len(got) = 0
    BY <1>7, EmptySeq DEF IInv, ReaderOK
  <2>2. r = l
    <3> HIDE DEF r, l, s, w
    <3> QED BY <1>2, <1>3, <1>4, <1>6, <2>1
  <2>3. received = sent
    BY <1>2, <2>2, SeqEqual
  <2>4. UNCHANGED CutOff
    BY DEF EndOfFile, writer, CutOff
  <2> QED BY <1>1, <1>7, <2>3, <2>4 DEF Fifo!Close, CutOff
<1>8. CASE phase # "first"
  <2> DEFINE x == sent[r + 1]
  <2>1. Len(got) > 0
    <3>1. phase = "header" => Len(got) \in 1..3
      BY DEF IInv, ReaderOK
    <3>2. phase = "payload" => Len(got) >= 4
      BY DEF IInv, TypeOK
    <3>3. phase = "header" \/ phase = "payload"
      BY <1>1, <1>8
    <3>4. Len(got) \in Nat
      BY <1>2
    <3> DEFINE g == Len(got)
    <3>5. g \in Nat /\ (g \in 1..3 \/ g >= 4)
      BY <3>1, <3>2, <3>3, <3>4
    <3> HIDE DEF g
    <3>6. g > 0
      BY ONLY <3>5
    <3> QED BY <3>6 DEF g
  <2>2. s < w
    <3> HIDE DEF s, w
    <3> QED BY <1>2, <1>3, <1>4, <2>1
  <2>3. /\ r < l /\ x \in Message \cup Damage /\ (x \in Message => Fits(x))
        /\ Size(x) \in Nat /\ Size(x) >= 4
        /\ \A k \in 1..Size(x) : s + k <= w => wire[s + k] = Bytes(x)[k]
    BY <2>2, FrameRead
  <2>4. ASSUME x \in Message PROVE Len(got) < Size(x)
    <3>3. CASE phase = "header"
      <4>1. Len(got) <= 3
        BY <3>3 DEF IInv, ReaderOK
      <4> HIDE DEF x
      <4> QED BY <1>2, <2>3, <4>1
    <3>4. CASE phase = "payload"
      <4>1. Len(got) >= 4
        BY <3>4 DEF IInv, TypeOK
      <4>2. Len(got) < 4 + Length(got)
        <5>1. ~(Len(got) < 4)
          BY <1>2, <4>1
        <5>2. Expected = 4 + Length(got)
          BY <5>1, Zenon DEF Expected
        <5> QED BY <1>1, <5>2, Zenon
      <4>3. \A k \in 1..4 : got[k] = Bytes(x)[k]
        <5> SUFFICES ASSUME NEW k \in 1..4 PROVE got[k] = Bytes(x)[k]
          OBVIOUS
        <5>1. k \in 1..Len(got) /\ k \in 1..Size(x)
          <6> HIDE DEF x
          <6> QED BY <1>2, <2>3, <4>1
        <5>2. got[k] = wire[s + k]
          BY <5>1 DEF IInv, ReaderOK
        <5>3. s + k <= w
          <6> HIDE DEF s, w
          <6> QED BY <1>2, <1>3, <1>4, <5>1
        <5> QED BY <2>3, <5>1, <5>2, <5>3
      <4>4. Length(got) = Len(Serialize[x])
        BY <2>3, <2>4, <4>3, SameHeader
      <4>5. Size(x) = 4 + Len(Serialize[x])
        BY <2>3, <2>4, FrameBytes
      <4> HIDE DEF x
      <4> QED BY <4>2, <4>4, <4>5
    <3> QED BY <1>1, <1>8, <3>3, <3>4
  <2>5. x \in Message => w < ends[r + 1] /\ r + 1 = l
    <3> SUFFICES ASSUME x \in Message PROVE w < ends[r + 1] /\ r + 1 = l
      OBVIOUS
    <3>1. ends[r + 1] = s + Size(x)
      <4>1. r + 1 \in 1..l
        <5> HIDE DEF r, l, x
        <5> QED BY <1>2, <2>3
      <4> QED BY <4>1 DEF IInv, LayoutOK
    <3>2. Len(got) < Size(x)
      BY <2>4
    <3>3. r + 1 # l => w > ends[r + 1]
      BY <1>5, <2>3
    <3>4. w < ends[r + 1] /\ ends[r + 1] \in Nat
      <4> HIDE DEF s, w, x, r, l
      <4> QED BY <1>2, <1>3, <1>4, <2>3, <3>1, <3>2
    <3> HIDE DEF w, r, l
    <3> QED BY <1>2, <3>3, <3>4
  <2>6. x \in Message => CutOff /\ r + 1 = l
    <3>1. Len(ends) = l /\ (r < l => ends # <<>>)
      <4>1. Len(ends) = l
        BY DEF IInv, TypeOK
      <4>2. ends = <<>> => Len(ends) = 0
        BY EmptySeq
      <4> HIDE DEF r, l
      <4> QED BY <1>2, <4>1, <4>2
    <3> QED BY <1>1, <2>3, <2>5, <3>1 DEF CutOff
  <2>7. UNCHANGED CutOff
    BY DEF EndOfFile, writer, CutOff
  <2> HIDE DEF x, s, w
  <2> QED BY <1>1, <1>8, <2>3, <2>6, <2>7 DEF Fifo!Fail, Fifo!Upcoming, Fifo!Missing, CutOff, x
<1> QED BY <1>7, <1>8

(* A complete frame is delivered, or reported, but never altered *)
LEMMA FifoReturn ==
  ASSUME IInv, Return
  PROVE  Fifo!Deliver \/ Fifo!Fail
<1> DEFINE x == sent[Len(received) + 1]
           p == SubSeq(got, 5, Len(got))
<1>1. /\ phase = "payload" /\ sent' = sent /\ open' = open
      /\ IF IsMessage(p)
         THEN received' = Append(received, Deserialize(p)) /\ phase' = "first"
         ELSE phase' = "error" /\ received' = received
  BY DEF Return, writer
<1>2. /\ Len(received) < Len(sent) /\ x \in Message \cup Damage
      /\ IF x \in Message THEN IsMessage(p) /\ Deserialize(p) = x ELSE ~IsMessage(p)
  BY Returned
<1> HIDE DEF p, x
<1>5. UNCHANGED CutOff
  BY DEF Return, writer, CutOff
<1>3. CASE x \in Message
  <2>1. CutOff => Len(received) + 1 # Len(sent)
    <3> SUFFICES ASSUME Len(received) + 1 = Len(sent) PROVE ~CutOff
      OBVIOUS
    <3>1. Len(got) = Size(x) /\ Len(received) + 1 \in 1..Len(sent)
      BY <1>3, Returned, CodecAssumption DEF x
    <3>2. ends[Len(sent)] = Start(Len(received) + 1) + Len(got)
      BY <3>1 DEF IInv, LayoutOK, x
    <3>3. ends[Len(sent)] <= Len(wire) /\ Len(wire) \in Nat /\ ends[Len(sent)] \in Nat
      <4>1. taken = ends[Len(sent)]
        BY <3>2 DEF IInv, ReaderOK
      <4>2. taken \in 0..Len(wire) /\ Len(wire) \in Nat
        BY LenProperties DEF IInv, TypeOK
      <4> QED BY <4>1, <4>2
    <3>4. Len(ends) = Len(sent)
      BY DEF IInv, TypeOK
    <3> QED BY <3>3, <3>4 DEF CutOff
  <2> QED BY <1>1, <1>2, <1>3, <1>5, <2>1 DEF Fifo!Deliver, Fifo!Upcoming, Fifo!Missing, CutOff, x
<1>4. CASE x \notin Message
  BY <1>1, <1>2, <1>4, <1>5 DEF Fifo!Fail, Fifo!Upcoming, CutOff, x
<1> QED BY <1>3, <1>4

(* Every step of the codec is a step of MessageFifo or changes nothing it sees *)
LEMMA FifoStep == IInv /\ [Next]_vars => [Fifo!Next]_(Fifo!vars)
<1> SUFFICES ASSUME IInv, [Next]_vars PROVE Fifo!Next \/ UNCHANGED Fifo!vars
  OBVIOUS
<1>1. ASSUME NEW n \in 1..SocketCap, NEW x \in Message \cup Damage, BeginFrame(x, n) PROVE Fifo!Next
  BY <1>1 DEF BeginFrame, Puts, reader, Fifo!Next, Fifo!Send
<1>2. ASSUME NEW n \in 1..SocketCap, WriteMore(n) PROVE UNCHANGED Fifo!vars
  BY <1>2 DEF WriteMore, Puts, reader, Fifo!vars
<1>3. CASE Stop
  <2>1. open /\ open' = FALSE /\ UNCHANGED <<sent, received, phase>>
    BY <1>3 DEF Stop, reader
  <2>2. CutOff' \in BOOLEAN
    BY DEF CutOff
  <2>3. CutOff' => sent # <<>>
    <3>1. ends' = ends /\ Len(ends) = Len(sent) /\ ends \in Seq(Nat)
      BY <1>3 DEF Stop, IInv, TypeOK
    <3>2. ends # <<>> => Len(ends) # 0
      BY <3>1
    <3>3. sent = <<>> => Len(sent) = 0
      BY EmptySeq
    <3>4. QED BY <3>1, <3>2, <3>3 DEF CutOff
  <2>4. QED BY <2>1, <2>2, <2>3 DEF CutOff, Fifo!Next, Fifo!Stop
<1>4. CASE ReadFirst
  BY <1>4 DEF ReadFirst, Reads, writer, Fifo!vars
<1>5. CASE EndOfFile
  BY <1>5, FifoEnd DEF Fifo!Next
<1>6. CASE Return
  BY <1>6, FifoReturn DEF Fifo!Next
<1>7. ASSUME NEW n \in 1..3, ReadHeader(n) PROVE Fifo!Next \/ UNCHANGED Fifo!vars
  BY <1>7, FifoHeader DEF Fifo!Next
<1>8. ASSUME NEW n \in 1..MaxFrameBytes, ReadPayload(n) PROVE UNCHANGED Fifo!vars
  BY <1>8 DEF ReadPayload, Reads, writer, Fifo!vars
<1>9. CASE UNCHANGED vars
  BY <1>9 DEF vars, Fifo!vars
<1> QED BY <1>1, <1>2, <1>3, <1>4, <1>5, <1>6, <1>7, <1>8, <1>9 DEF Next, Reader

-----------------------------------------------------------------------------
(* The types of the codec's state hold in every reachable state: the socket *)
(* is never overfilled, and no payload is awaited for a length beyond       *)
(* MAX_FRAME_BYTES (the check behind from_le_bytes in read_frame_async).    *)
THEOREM CodecTypes == Spec => []TypeOK
<1>1. IInv => TypeOK
  BY DEF IInv
<1> QED BY <1>1, Initial, Inductive, PTL DEF Spec

(* write_frame_async and read_frame_async give a message FIFO, for every    *)
(* socket size, every way the bytes are cut and every kind of damage the    *)
(* assumptions allow: nothing is lost, doubled, reordered or altered,       *)
(* Ok(None) is the end of complete traffic, and an error has a cause.       *)
THEOREM CodecIsFifo == Spec => RefinesFifo
<1> QED BY Initial, FifoInitial, Inductive, FifoStep, PTL DEF Spec, RefinesFifo, Fifo!Spec

-----------------------------------------------------------------------------
(***************************************************************************)
(* try_decode over the bytes that were read.                               *)
(***************************************************************************)

(* Why the reader stopped: nothing, or nothing that try_decode would take *)
StopOK ==
  /\ phase = "none" => got = <<>>
  /\ phase = "error" => TryDecode(got).kind # "frame" /\ (Refused \/ AtEof)

(* The end of input stays *)
LEMMA EofStays ==
  ASSUME IInv, AtEof, [Next]_vars
  PROVE  AtEof'
<1>1. ~open /\ Len(wire) - taken = 0 /\ taken \in 0..Len(wire) /\ Len(wire) \in Nat
  BY LenProperties DEF AtEof, Buffered, IInv, TypeOK
<1>2. ASSUME NEW n \in Nat, n > 0, Reads(n) PROVE FALSE
  BY <1>1, <1>2 DEF Reads, Buffered
<1>3. (UNCHANGED <<wire, open, taken>>) => AtEof'
  BY <1>1 DEF AtEof, Buffered
<1>4. ASSUME NEW n \in 1..SocketCap, NEW x \in Message \cup Damage, BeginFrame(x, n) PROVE FALSE
  BY <1>1, <1>4 DEF BeginFrame
<1>5. ASSUME NEW n \in 1..SocketCap, WriteMore(n) PROVE FALSE
  BY <1>1, <1>5 DEF WriteMore
<1>6. CASE EndOfFile \/ Return
  BY <1>3, <1>6 DEF EndOfFile, Return, writer
<1>7. ASSUME NEW n \in 1..3, ReadHeader(n) PROVE FALSE
  BY <1>2, <1>7 DEF ReadHeader
<1>8. ASSUME NEW n \in 1..MaxFrameBytes, ReadPayload(n) PROVE FALSE
  BY <1>2, <1>8, CodecAssumption DEF ReadPayload
<1>9. CASE ReadFirst
  BY <1>2, <1>9 DEF ReadFirst
<1>10. CASE Stop
  BY <1>1, <1>10 DEF Stop
<1>11. CASE UNCHANGED vars
  BY <1>3, <1>11 DEF vars
<1>12. QED BY <1>4, <1>5, <1>6, <1>7, <1>8, <1>9, <1>10, <1>11 DEF Next, Reader

(* The length in what the reader holds is a number *)
LEMMA HeldLength ==
  ASSUME IInv, Len(got) >= 4
  PROVE  Length(got) \in Nat
<1>1. got \in Seq(Byte) /\ Len(got) \in Nat
  BY LenProperties DEF IInv, TypeOK
<1>2. \A k \in 1..4 : got[k] \in Byte
  BY <1>1
<1>3. \A k \in Byte : k \in Nat
  BY DEF Byte
<1> DEFINE a == got[1]
           b == got[2]
           c == got[3]
           e == got[4]
<1>4. a \in Nat /\ b \in Nat /\ c \in Nat /\ e \in Nat
  BY <1>2, <1>3
<1>5. Length(got) = a + 256 * b + 65536 * c + 16777216 * e
  BY DEF Length
<1> HIDE DEF a, b, c, e
<1>6. a + 256 * b + 65536 * c + 16777216 * e \in Nat
  BY ONLY <1>4
<1>7. QED BY <1>5, <1>6

(* try_decode refuses nothing read_frame_async goes on with *)
LEMMA RefusedBoth == IInv /\ StopOK /\ Refused => phase = "error" \/ Len(got) = Expected
<1> SUFFICES ASSUME IInv, StopOK, Refused, phase # "error" PROVE Len(got) = Expected
  OBVIOUS
<1>1. ~(Len(got) < 4) /\ (Length(got) > MaxFrameBytes \/ ~(Len(got) < 4 + Length(got)))
  BY DEF Refused, TryDecode, More
<1>2. Len(got) \in Nat /\ Len(got) >= 4
  BY <1>1, LenProperties DEF IInv, TypeOK
<1>3. phase \in {"first", "none"} => got = <<>>
  BY DEF StopOK, IInv, ReaderOK
<1>4. phase = "payload"
  <2>1. phase \in {"first", "header", "payload", "none"} /\ (phase = "header" => Len(got) \in 1..3)
    BY DEF IInv, TypeOK, ReaderOK
  <2>2. phase # "first" /\ phase # "none"
    <3>1. got # <<>>
      BY <1>2, EmptySeq
    <3>2. QED BY <1>3, <3>1
  <2>3. Len(got) \notin 1..3
    <3> DEFINE g == Len(got)
    <3>1. g \in Nat /\ g >= 4
      BY <1>2
    <3> HIDE DEF g
    <3>2. g \notin 1..3
      BY <3>1
    <3>3. QED BY <3>2 DEF g
  <2>4. QED BY <2>1, <2>2, <2>3
<1>5. Length(got) <= MaxFrameBytes /\ Len(got) <= 4 + Length(got)
  BY <1>4 DEF IInv, TypeOK, ReaderOK
<1>6. Length(got) \in Nat /\ MaxFrameBytes \in Nat
  BY <1>2, HeldLength, CodecAssumption
<1>7. Len(got) = 4 + Length(got)
  BY <1>1, <1>2, <1>5, <1>6
<1>8. QED BY <1>1, <1>7 DEF Expected

LEMMA StopKept == IInv /\ StopOK /\ [Next]_vars => StopOK'
<1> SUFFICES ASSUME IInv, StopOK, [Next]_vars PROVE StopOK'
  OBVIOUS
<1>1. CASE UNCHANGED <<phase, got>>
  <2>1. TryDecode(got)' = TryDecode(got) /\ phase' = phase /\ got' = got
    BY <1>1 DEF TryDecode, More, Bad, IsMessage, Decodes
  <2>2. QED BY <2>1, EofStays DEF StopOK, Refused
<1>2. CASE phase' \in {"first", "header", "payload"}
  BY <1>2 DEF StopOK
<1>3. CASE EndOfFile
  <2>1. /\ phase \in {"first", "header", "payload"} /\ Len(got) < Expected /\ got' = got
        /\ phase' = IF phase = "first" THEN "none" ELSE "error"
    BY <1>3 DEF EndOfFile
  <2>2. phase = "first" => got = <<>>
    BY DEF IInv, ReaderOK
  <2>3. TryDecode(got).kind # "frame"
    <3>1. CASE Len(got) < 4
      BY <3>1 DEF TryDecode, More
    <3>2. CASE ~(Len(got) < 4)
      <4>1. Len(got) < 4 + Length(got)
        BY <2>1, <3>2 DEF Expected
      <4>2. QED BY <3>2, <4>1 DEF TryDecode, More, Bad
    <3>3. QED BY <3>1, <3>2
  <2>4. AtEof'
    BY <1>3, EofStays DEF EndOfFile
  <2>5. TryDecode(got)' = TryDecode(got)
    BY <2>1 DEF TryDecode, More, Bad, IsMessage, Decodes
  <2>6. QED BY <2>1, <2>2, <2>3, <2>4, <2>5 DEF StopOK
<1>4. ASSUME NEW n \in 1..3, ReadHeader(n), phase' = "error" PROVE StopOK'
  <2>1. Len(got') = 4 /\ Length(got') > MaxFrameBytes
    BY <1>4 DEF ReadHeader, AfterHeader
  <2>2. (TryDecode(got).kind = "error")'
    BY <2>1 DEF TryDecode, Bad
  <2>3. QED BY <1>4, <2>2 DEF StopOK, Refused
<1>5. CASE Return /\ phase' = "error"
  <2>1. /\ phase = "payload" /\ Len(got) = Expected /\ got' = got
        /\ ~IsMessage(SubSeq(got, 5, Len(got)))
    BY <1>5 DEF Return
  <2>2. Len(got) \in Nat /\ Len(got) >= 4 /\ Length(got) <= MaxFrameBytes
    BY <2>1, LenProperties DEF IInv, TypeOK
  <2>3. Len(got) = 4 + Length(got)
    BY <2>1, <2>2 DEF Expected
  <2>4. (TryDecode(got).kind = "error")'
    <3>1. ~(Len(got) < 4) /\ ~(Length(got) > MaxFrameBytes) /\ ~(Len(got) < 4 + Length(got))
      <4>1. Len(got) \in Nat /\ Length(got) = Len(got) - 4 /\ MaxFrameBytes \in Nat
        <5>1. Length(got) \in Int
          BY <2>2, HeldLength
        <5>2. QED BY <2>2, <2>3, <5>1, CodecAssumption
      <4>2. QED BY <2>2, <4>1
    <3>2. TryDecode(got) = Bad
      BY <2>1, <2>3, <3>1 DEF TryDecode
    <3>3. TryDecode(got)' = TryDecode(got)
      BY <2>1 DEF TryDecode, More, Bad, IsMessage, Decodes
    <3>4. QED BY <3>2, <3>3 DEF Bad
  <2>5. QED BY <1>5, <2>4 DEF StopOK, Refused
<1>6. ASSUME Next PROVE
        \/ UNCHANGED <<phase, got>> \/ phase' \in {"first", "header", "payload"} \/ EndOfFile
        \/ (\E n \in 1..3 : ReadHeader(n) /\ phase' = "error") \/ (Return /\ phase' = "error")
  <2>1. CASE (\E n \in 1..SocketCap : (\E x \in Message \cup Damage : BeginFrame(x, n)) \/ WriteMore(n)) \/ Stop
    BY <2>1 DEF BeginFrame, WriteMore, Puts, Stop, reader
  <2>2. CASE ReadFirst \/ EndOfFile \/ Return
    BY <2>2 DEF ReadFirst, Return
  <2>3. CASE \E n \in 1..3 : ReadHeader(n)
    BY <2>3 DEF ReadHeader, AfterHeader
  <2>4. CASE \E n \in 1..MaxFrameBytes : ReadPayload(n)
    BY <2>4 DEF ReadPayload
  <2>5. QED BY <1>6, <2>1, <2>2, <2>3, <2>4 DEF Next, Reader
<1>7. QED BY <1>1, <1>2, <1>3, <1>4, <1>5, <1>6 DEF vars

(* The equation inside Decoded, and the function that it chooses *)
IsDecoded(from, n) ==
  from = [i \in 1..(n + 1) |->
        IF Found(i, n).kind = "frame"
        THEN <<Deserialize(Found(i, n).payload)>> \o from[i + Found(i, n).used]
        ELSE <<>>]

DecodedFrom(n) == CHOOSE from : IsDecoded(from, n)

LEMMA DecodedIsFrom == \A n : Decoded(n) = DecodedFrom(n)[1]
  BY DEF Decoded, DecodedFrom, IsDecoded

LEMMA DecodedChosen ==
  ASSUME NEW n, NEW f, IsDecoded(f, n)
  PROVE  IsDecoded(DecodedFrom(n), n)
  BY Zenon DEF DecodedFrom

(* A frame that try_decode takes is four bytes or more of what it was given *)
LEMMA TakenFrame ==
  ASSUME NEW buf \in Seq(Byte), TryDecode(buf).kind = "frame"
  PROVE  /\ TryDecode(buf).used \in Nat /\ TryDecode(buf).used >= 4 /\ TryDecode(buf).used <= Len(buf)
         /\ Deserialize(TryDecode(buf).payload) \in Message
<1>1. Len(buf) \in Nat
  BY LenProperties
<1>2. Len(buf) >= 4 /\ Len(buf) >= 4 + Length(buf)
  <2>1. ~(Len(buf) < 4) /\ ~(Len(buf) < 4 + Length(buf))
    BY DEF TryDecode, More, Bad
  <2>2. Length(buf) \in Nat
    <3>1. Len(buf) >= 4
      BY <1>1, <2>1
    <3>2. buf[1] \in Byte /\ buf[2] \in Byte /\ buf[3] \in Byte /\ buf[4] \in Byte
      BY <1>1, <3>1, ElementOfSeq
    <3>3. QED BY <3>2, LengthType
  <2>3. QED BY <1>1, <2>1, <2>2
<1>3. Length(buf) \in Nat
  <2>1. buf[1] \in Byte /\ buf[2] \in Byte /\ buf[3] \in Byte /\ buf[4] \in Byte
    BY <1>1, <1>2, ElementOfSeq
  <2>2. QED BY <2>1, LengthType
<1>4. /\ TryDecode(buf).used = 4 + Length(buf)
      /\ IsMessage(TryDecode(buf).payload)
  BY DEF TryDecode, More, Bad
<1>5. Deserialize(TryDecode(buf).payload) \in Message
  BY <1>4 DEF IsMessage, Deserialize
<1>6. QED BY <1>1, <1>2, <1>3, <1>4, <1>5

(* The payload of a message is that message's alone *)
LEMMA OneMessage ==
  ASSUME NEW x \in Message
  PROVE  IsMessage(Serialize[x]) /\ Deserialize(Serialize[x]) = x
<1>1. Decodes(Serialize[x], x)
  <2>1. Serialize[x] \in Seq(Byte)
    BY CodecAssumption
  <2>2. QED BY <2>1 DEF Decodes, IsPrefix
<1>2. /\ IsMessage(Serialize[x]) /\ Deserialize(Serialize[x]) \in Message
      /\ Decodes(Serialize[x], Deserialize(Serialize[x]))
  BY <1>1 DEF IsMessage, Deserialize
<1>3. Deserialize(Serialize[x]) = x
  BY <1>2, CodecAssumption DEF Decodes
<1>4. QED BY <1>2, <1>3

LEMMA FoundFrame ==
  ASSUME wire \in Seq(Byte), NEW n \in 0..Len(wire), NEW i \in 1..(n + 1), Found(i, n).kind = "frame"
  PROVE  /\ Found(i, n).used \in Nat /\ Found(i, n).used >= 4 /\ i + Found(i, n).used \in 1..(n + 1)
         /\ Deserialize(Found(i, n).payload) \in Message
<1>1. Len(wire) \in Nat /\ n \in Nat /\ i \in Nat
  BY LenProperties
<1>2. SubSeq(wire, i, n) \in Seq(Byte) /\ Len(SubSeq(wire, i, n)) = n - i + 1
  <2>1. i \in 1..(Len(wire) + 1) /\ n \in (i - 1)..Len(wire)
    BY <1>1
  <2>2. QED BY <1>1, <2>1
<1> DEFINE u == TryDecode(SubSeq(wire, i, n)).used
<1>3. u \in Nat /\ u >= 4 /\ u <= n - i + 1
  BY <1>2, TakenFrame DEF Found
<1>4. Deserialize(Found(i, n).payload) \in Message
  BY <1>2, TakenFrame DEF Found
<1>5. Found(i, n).used = u
  BY DEF Found
<1> HIDE DEF u
<1>6. i + u \in 1..(n + 1)
  BY <1>1, <1>3
<1>7. QED BY <1>3, <1>4, <1>5, <1>6

LEMMA DecodedEquation ==
  ASSUME wire \in Seq(Byte), NEW n \in 0..Len(wire)
  PROVE  /\ IsDecoded(DecodedFrom(n), n)
         /\ \A i \in 1..(n + 1) : DecodedFrom(n)[i] \in Seq(Message)
<1> DEFINE D    == 1..(n + 1)
           stop == {i \in D : Found(i, n).kind # "frame"}
           base == [i \in D |-> <<>>]
           item == [i \in D |-> IF i \in stop THEN <<>> ELSE <<Deserialize(Found(i, n).payload)>>]
           next == [i \in D |-> IF i \in stop THEN i ELSE i + Found(i, n).used]
           Body(g, i) == IF Found(i, n).kind = "frame"
                         THEN <<Deserialize(Found(i, n).payload)>> \o g[i + Found(i, n).used]
                         ELSE <<>>
           Step(g, i) == IF i \in stop THEN base[i] ELSE item[i] \o g[next[i]]
<1>1. n \in Nat
  BY LenProperties
<1>2. \A i \in D \ stop : /\ Found(i, n).used \in Nat /\ Found(i, n).used >= 4 /\ i + Found(i, n).used \in D
                          /\ Deserialize(Found(i, n).payload) \in Message
  <2> SUFFICES ASSUME NEW i \in D, Found(i, n).kind = "frame"
               PROVE  /\ Found(i, n).used \in Nat /\ Found(i, n).used >= 4 /\ i + Found(i, n).used \in D
                      /\ Deserialize(Found(i, n).payload) \in Message
    OBVIOUS
  <2>1. QED BY FoundFrame
<1>3. base \in [D -> Seq(Message)] /\ item \in [D -> Seq(Message)]
  <2>1. \A i \in D : base[i] \in Seq(Message)
    BY EmptySeq
  <2>2. \A i \in D : item[i] \in Seq(Message)
    BY <1>2, EmptySeq
  <2>3. QED BY <2>1, <2>2
<1>4. next \in [D -> Int] /\ \A i \in D \ stop : next[i] \in D /\ next[i] > i
  <2> HIDE DEF stop
  <2>1. \A i \in D \ stop : next[i] = i + Found(i, n).used
    OBVIOUS
  <2>2. \A i \in D : i \in Int
    BY <1>1
  <2>3. QED BY <1>1, <1>2, <2>1, <2>2
<1>5. Walk(n + 1, Message, stop, base, item, next)
  <2> HIDE DEF stop, base, item, next
  <2>1. QED BY <1>1, <1>3, <1>4 DEF Walk
<1>6. ASSUME NEW g, NEW i \in D PROVE Step(g, i) = Body(g, i)
  OBVIOUS
<1> HIDE DEF stop, base, item, next
<1>7. PICK f \in [D -> Seq(Message)] : \A i \in D : f[i] = Step(f, i)
  <2> DEFINE m == n + 1
  <2>1. Walk(m, Message, stop, base, item, next)
    BY <1>5
  <2> HIDE DEF m
  <2>2. \E f \in [1..m -> Seq(Message)] :
          \A i \in 1..m : f[i] = IF i \in stop THEN base[i] ELSE item[i] \o f[next[i]]
    BY ONLY <2>1, WalkExists
  <2> USE DEF m
  <2>3. QED BY ONLY <2>2
<1>8. IsDecoded(f, n)
  BY <1>6, <1>7 DEF IsDecoded
<1>9. IsDecoded(DecodedFrom(n), n)
  BY <1>8, DecodedChosen
<1>10. \A i \in D : DecodedFrom(n)[i] = Body(DecodedFrom(n), i)
  BY <1>9, Zenon DEF IsDecoded
<1>11. \A i \in D : DecodedFrom(n)[i] = Step(DecodedFrom(n), i)
  BY <1>6, <1>10
<1>12. \A i \in D : DecodedFrom(n)[i] \in Seq(Message)
  BY ONLY <1>5, <1>11, WalkType
<1>13. QED BY <1>9, <1>12

LEMMA DecodedStep ==
  ASSUME wire \in Seq(Byte), NEW n \in 0..Len(wire), NEW i \in 1..(n + 1)
  PROVE  DecodedFrom(n)[i] =
           IF Found(i, n).kind = "frame"
           THEN <<Deserialize(Found(i, n).payload)>> \o DecodedFrom(n)[i + Found(i, n).used]
           ELSE <<>>
<1>1. IsDecoded(DecodedFrom(n), n)
  BY DecodedEquation
<1>2. QED BY <1>1, Zenon DEF IsDecoded

(* The bytes from s on *)
LEMMA PartOf ==
  ASSUME NEW a \in Seq(Byte), NEW s \in Nat, NEW e \in s..Len(a)
  PROVE  /\ SubSeq(a, s + 1, e) \in Seq(Byte) /\ Len(SubSeq(a, s + 1, e)) = e - s
         /\ \A j \in 1..(e - s) : SubSeq(a, s + 1, e)[j] = a[s + j]
  OBVIOUS

(* Where a message that was returned lies, try_decode finds it *)
LEMMA FoundMessage ==
  ASSUME IInv, NEW k \in 1..Len(received)
  PROVE  /\ Start(k) \in Nat /\ Start(k) + 1 \in 1..(taken + 1) /\ k + 1 \in 1..(Len(received) + 1)
         /\ Found(Start(k) + 1, taken).kind = "frame"
         /\ Deserialize(Found(Start(k) + 1, taken).payload) = received[k]
         /\ Start(k) + 1 + Found(Start(k) + 1, taken).used = Start(k + 1) + 1
<1> DEFINE r == Len(received)
           x == sent[k]
           s == Start(k)
           z == Size(x)
           w == Len(wire)
           b == SubSeq(wire, s + 1, taken)
<1>1. /\ r \in Nat /\ r <= Len(sent) /\ k \in 1..Len(sent) /\ k \in Nat /\ Len(sent) \in Nat
      /\ received[k] = x /\ received[k] \in Message
      /\ taken = Start(r + 1) + Len(got) /\ Len(got) \in Nat /\ taken \in 0..Len(wire) /\ Len(wire) \in Nat
  <2>1. r \in Nat /\ received[k] \in Message /\ Len(got) \in Nat /\ taken \in 0..Len(wire) /\ Len(wire) \in Nat
    BY LenProperties, ElementOfSeq DEF IInv, TypeOK
  <2>2. r <= Len(sent) /\ received[k] = x /\ taken = Start(r + 1) + Len(got) /\ Len(sent) \in Nat
    BY StartType DEF IInv, ReaderOK
  <2>3. QED BY <2>1, <2>2
<1>2. x \in Message /\ Fits(x) /\ Size(x) \in Nat /\ Size(x) = 4 + Len(Serialize[x])
      /\ Serialize[x] \in Seq(Byte) /\ Len(Serialize[x]) \in Nat
      /\ \A j \in 1..4 : Bytes(x)[j] = Header(Len(Serialize[x]))[j]
      /\ \A m \in 1..Len(Serialize[x]) : Bytes(x)[4 + m] = Serialize[x][m]
  <2>1. x \in Message /\ Fits(x)
    BY <1>1 DEF IInv, LayoutOK
  <2>2. Serialize[x] \in Seq(Byte) /\ Len(Serialize[x]) \in Nat
    BY <2>1, CodecAssumption, LenProperties
  <2>3. QED BY <2>1, <2>2, FrameBytes
<1>3. Start(k) \in Nat /\ Start(r + 1) \in Nat /\ Start(k + 1) \in Nat /\ Start(k + 1) = Start(k) + Size(x)
  <2>1. k \in 1..(Len(sent) + 1) /\ r + 1 \in 1..(Len(sent) + 1) /\ k + 1 \in 1..(Len(sent) + 1)
    BY <1>1
  <2>2. ends[k] = Start(k) + Size(x)
    BY <1>1 DEF IInv, LayoutOK
  <2>3. Start(k + 1) = ends[k]
    <3>1. k + 1 # 1 /\ k + 1 - 1 = k
      BY <1>1
    <3>2. QED BY <3>1 DEF Start
  <2>4. QED BY <2>1, <2>2, <2>3, StartType DEF IInv
<1>4. Start(k + 1) <= Start(r + 1)
  <2>1. Start(k + 1) = ends[k] /\ Start(r + 1) = ends[r]
    <3>1. k + 1 # 1 /\ k + 1 - 1 = k /\ r + 1 # 1 /\ r + 1 - 1 = r
      BY <1>1
    <3>2. QED BY <3>1 DEF Start
  <2>2. r \in 1..Len(sent) /\ k <= r
    BY <1>1
  <2>3. ends[k] <= ends[r]
    BY <1>1, <2>2 DEF IInv, LayoutOK
  <2>4. QED BY <2>1, <2>3
<1>5. Start(k) + Size(x) <= taken
  BY <1>1, <1>3, <1>4
<1>6. s \in Nat /\ z \in Nat /\ z >= 4 /\ s + z <= taken /\ taken \in Nat /\ w \in Nat /\ taken <= w
  <2>1. z \in Nat /\ z >= 4
    BY <1>2
  <2>2. s \in Nat /\ s + z <= taken
    BY <1>3, <1>5
  <2>3. taken \in Nat /\ w \in Nat /\ taken <= w
    BY <1>1
  <2>4. QED BY <2>1, <2>2, <2>3
<1>7. \A j \in 1..z : s + j <= w => wire[s + j] = Bytes(x)[j]
  BY <1>1 DEF IInv, ContentOK
<1>8. r \in Nat /\ k \in 1..r
  BY <1>1
<1> HIDE DEF x, r, s, z, w
<1>9. /\ b \in Seq(Byte) /\ Len(b) = taken - s /\ Len(b) \in Nat /\ Len(b) >= z
      /\ \A j \in 1..Len(b) : b[j] = wire[s + j]
  <2>1. wire \in Seq(Byte) /\ w = Len(wire)
    BY DEF IInv, TypeOK, w
  <2>2. s + 1 \in 1..(w + 1) /\ taken \in s..w /\ taken - s \in Nat /\ taken - s >= z
    BY <1>6
  <2>3. /\ b \in Seq(Byte) /\ Len(b) = taken - s
        /\ \A j \in 1..Len(b) : b[j] = wire[s + j]
    <3>1. b = SubSeq(wire, s + 1, taken) /\ s \in Nat /\ taken \in s..Len(wire)
      BY <2>1, <2>2, <1>6
    <3> HIDE DEF b
    <3>2. QED BY ONLY <2>1, <3>1, PartOf
  <2>4. QED BY <2>2, <2>3
<1>10. \A j \in 1..z : b[j] = Bytes(x)[j]
  <2> HIDE DEF b
  <2>1. \A j \in 1..z : s + j <= w /\ j \in 1..Len(b)
    BY <1>6, <1>9
  <2>2. QED BY <1>7, <1>9, <2>1
<1>11. Length(b) = Len(Serialize[x]) /\ Length(b) <= MaxFrameBytes
  <2>1. \A j \in 1..4 : b[j] = Bytes(x)[j]
    BY <1>10, <1>6
  <2> HIDE DEF b
  <2>2. QED BY <1>2, <2>1, SameHeader
<1>12. SubSeq(b, 5, 4 + Length(b)) = Serialize[x]
  <2> DEFINE p == SubSeq(b, 5, 4 + Length(b))
  <2>1. Length(b) \in Nat /\ 4 + Length(b) <= Len(b)
    BY <1>2, <1>9, <1>11 DEF z
  <2> HIDE DEF b
  <2>2. /\ p \in Seq(Byte) /\ Len(p) = Length(b)
        /\ \A j \in 1..Length(b) : p[j] = b[4 + j]
    BY <1>9, <2>1
  <2>3. \A j \in 1..Length(b) : b[4 + j] = Serialize[x][j]
    <3>1. \A j \in 1..Length(b) : 4 + j \in 1..z /\ j \in 1..Len(Serialize[x])
      BY <1>2, <1>11 DEF z
    <3>2. \A j \in 1..Len(Serialize[x]) : Bytes(x)[4 + j] = Serialize[x][j]
      BY <1>2
    <3>3. ASSUME NEW j \in 1..Length(b) PROVE b[4 + j] = Serialize[x][j]
      <4>1. 4 + j \in 1..z /\ j \in 1..Len(Serialize[x])
        BY <3>1
      <4>2. b[4 + j] = Bytes(x)[4 + j]
        BY <1>10, <4>1
      <4>3. QED BY <3>2, <4>1, <4>2
    <3>4. QED BY <3>3
  <2> HIDE DEF p
  <2>4. p = Serialize[x]
    BY <1>2, <1>11, <2>2, <2>3, SeqEqual
  <2>5. QED BY <2>4 DEF p
<1>13. IsMessage(Serialize[x]) /\ Deserialize(Serialize[x]) = x
  BY <1>2, OneMessage
<1>14. TryDecode(b) = [kind |-> "frame", used |-> 4 + Length(b), payload |-> Serialize[x]]
  <2>1. ~(Len(b) < 4) /\ ~(Length(b) > MaxFrameBytes) /\ ~(Len(b) < 4 + Length(b))
    <3>1. Length(b) \in Nat /\ MaxFrameBytes \in Nat
      BY <1>2, <1>11, CodecAssumption
    <3> HIDE DEF b
    <3>2. Len(b) >= 4 /\ Len(b) \in Nat /\ z = 4 + Length(b)
      BY <1>2, <1>9, <1>11, <1>6 DEF z
    <3>3. QED BY <1>9, <1>11, <3>1, <3>2
  <2>2. QED BY <1>12, <1>13, <2>1 DEF TryDecode
<1>15. Found(s + 1, taken) = [kind |-> "frame", used |-> z, payload |-> Serialize[x]]
  BY <1>2, <1>11, <1>14 DEF Found, z
<1>16. s + 1 \in 1..(taken + 1)
  BY <1>6
<1>17. k + 1 \in 1..(r + 1)
  BY <1>8
<1>18. s + 1 + z = Start(k + 1) + 1
  <2>1. Start(k + 1) = s + z
    BY <1>3 DEF s, z
  <2>2. QED BY <1>6, <2>1
<1>19. received[k] = x
  BY <1>1
<1>20. /\ Found(s + 1, taken).kind = "frame" /\ Found(s + 1, taken).used = z
       /\ Found(s + 1, taken).payload = Serialize[x]
  BY <1>15
<1>21. QED BY <1>13, <1>16, <1>17, <1>18, <1>19, <1>20, <1>6 DEF s, r

(* Behind them it finds what the reader holds *)
LEMMA FoundEnd ==
  ASSUME IInv, StopOK, phase \in {"first", "none", "error"}
  PROVE  /\ Start(Len(received) + 1) + 1 \in 1..(taken + 1)
         /\ Found(Start(Len(received) + 1) + 1, taken).kind # "frame"
<1> DEFINE s == Start(Len(received) + 1)
           b == SubSeq(wire, s + 1, taken)
<1>1. /\ taken = s + Len(got) /\ \A k \in 1..Len(got) : got[k] = wire[s + k]
      /\ got \in Seq(Byte) /\ wire \in Seq(Byte) /\ taken \in 0..Len(wire)
  BY DEF IInv, TypeOK, ReaderOK
<1>2. Len(got) \in Nat /\ Len(wire) \in Nat /\ Len(received) \in Nat
  BY LenProperties DEF IInv, TypeOK
<1>3. s \in Nat
  <2>1. Len(received) <= Len(sent)
    BY DEF IInv, ReaderOK
  <2>2. Len(received) + 1 \in 1..(Len(sent) + 1)
    BY <1>2, <2>1, StartType DEF IInv
  <2>3. QED BY <2>2, StartType DEF IInv
<1> HIDE DEF s
<1>4. b \in Seq(Byte) /\ Len(b) = Len(got) /\ \A k \in 1..Len(got) : b[k] = wire[s + k]
  <2>1. s + 1 \in 1..(Len(wire) + 1) /\ taken \in s..Len(wire) /\ taken - s = Len(got)
    BY <1>1, <1>2, <1>3
  <2>2. b \in Seq(Byte)
    BY ONLY <1>1, <1>2, <1>3, <2>1, PartOf DEF b
  <2>3. Len(b) = Len(got)
    BY ONLY <1>1, <1>2, <1>3, <2>1, PartOf DEF b
  <2>4. \A k \in 1..Len(got) : b[k] = wire[s + k]
    BY ONLY <1>1, <1>2, <1>3, <2>1, PartOf DEF b
  <2>5. QED BY <2>2, <2>3, <2>4
<1>5. b = got
  <2> HIDE DEF b
  <2>1. QED BY <1>1, <1>2, <1>4, SeqEqual
<1>6. TryDecode(got).kind # "frame"
  <2>1. CASE phase = "error"
    BY <2>1 DEF StopOK
  <2>2. CASE phase \in {"first", "none"}
    <3>1. got = <<>>
      BY <2>2 DEF StopOK, IInv, ReaderOK
    <3>2. QED BY <3>1 DEF TryDecode, More
  <2>3. QED BY <2>1, <2>2
<1>7. s + 1 \in 1..(taken + 1)
  BY <1>1, <1>2, <1>3
<1>8. QED BY <1>5, <1>6, <1>7 DEF Found, s

LEMMA DecodesReceived ==
  ASSUME IInv, StopOK, phase \in {"first", "none", "error"}
  PROVE  Decoded(taken) = received
<1> DEFINE r == Len(received)
           f == DecodedFrom(taken)
           T == {j \in Nat : j <= r => f[Start(r + 1 - j) + 1] = SubSeq(received, r + 1 - j, r)}
<1>1. received \in Seq(Message) /\ r \in Nat /\ wire \in Seq(Byte) /\ taken \in 0..Len(wire)
  BY LenProperties DEF IInv, TypeOK
<1>2. 0 \in T
  <2>1. f[Start(r + 1) + 1] = <<>>
    BY <1>1, FoundEnd, DecodedStep
  <2>2. SubSeq(received, r + 1, r) = <<>>
    BY <1>1, SubSeqEmpty
  <2>3. r + 1 - 0 = r + 1
    BY <1>1
  <2> HIDE DEF f, r
  <2>4. QED BY <2>1, <2>2, <2>3
<1>3. ASSUME NEW j \in Nat, j \in T PROVE j + 1 \in T
  <2> SUFFICES ASSUME j + 1 <= r PROVE f[Start(r + 1 - (j + 1)) + 1] = SubSeq(received, r + 1 - (j + 1), r)
    OBVIOUS
  <2> DEFINE k == r - j
  <2>1. k \in 1..r /\ r + 1 - (j + 1) = k /\ r + 1 - j = k + 1 /\ j <= r /\ k \in Nat
    BY <1>1
  <2>2. f[Start(k + 1) + 1] = SubSeq(received, k + 1, r)
    <3>1. f[Start(r + 1 - j) + 1] = SubSeq(received, r + 1 - j, r)
      BY <1>3, <2>1
    <3> HIDE DEF k
    <3>2. QED BY <2>1, <3>1
  <2> HIDE DEF k
  <2>3. /\ Start(k) + 1 \in 1..(taken + 1) /\ Found(Start(k) + 1, taken).kind = "frame"
        /\ Deserialize(Found(Start(k) + 1, taken).payload) = received[k]
        /\ Start(k) + 1 + Found(Start(k) + 1, taken).used = Start(k + 1) + 1
    BY <2>1, FoundMessage
  <2>4. f[Start(k) + 1] = <<received[k]>> \o f[Start(k + 1) + 1]
    BY <1>1, <2>3, DecodedStep
  <2>5. <<received[k]>> \o SubSeq(received, k + 1, r) = SubSeq(received, k, r)
    BY <1>1, <2>1
  <2> HIDE DEF f, r
  <2>6. QED BY <2>1, <2>2, <2>4, <2>5
<1>4. r \in T
  <2> HIDE DEF T
  <2>1. QED BY <1>1, <1>2, <1>3, SetInduction
<1>5. f[1] = received
  <2>1. f[Start(r + 1 - r) + 1] = SubSeq(received, r + 1 - r, r)
    BY <1>1, <1>4
  <2>2. r + 1 - r = 1 /\ Start(1) + 1 = 1
    BY <1>1 DEF Start
  <2>3. SubSeq(received, 1, r) = received
    BY <1>1
  <2> HIDE DEF f, r
  <2>4. QED BY <2>1, <2>2, <2>3
<1>6. QED BY <1>5, DecodedIsFrom

-----------------------------------------------------------------------------
(* The codec's two readers agree: wherever read_frame_async stands between  *)
(* frames or has stopped, try_decode over the same bytes gives the same     *)
(* messages, whatever the socket did, and refuses the same bytes behind     *)
(* them, unless it was the end of input that read_frame_async met.          *)
THEOREM CodecReadersAgree == Spec => []BufferedReaderAgrees
<1>1. Init => StopOK
  BY DEF Init, StopOK
<1>2. IInv /\ StopOK => BufferedReaderAgrees
  BY DecodesReceived, RefusedBoth DEF BufferedReaderAgrees, StopOK
<1>3. QED BY <1>1, <1>2, Initial, Inductive, StopKept, PTL DEF Spec

=============================================================================
