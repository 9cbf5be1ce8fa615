-------------------------- MODULE TextSlots_proofs ---------------------------
(***************************************************************************)
(* TextSlots keeps its types and implements SlotContract, for every        *)
(* command line, request and answer, every size of a read and of a chunk.  *)
(*                                                                         *)
(* What a sink was given is text behind text, so the invariant relates     *)
(* three of them at each place of a request: the answer so far, what of it *)
(* the sink got, and what is still held back (ContentOK).                  *)
(***************************************************************************)
EXTENDS TextSlots, DataInduction, FiniteSetTheorems


-----------------------------------------------------------------------------
(***************************************************************************)
(* Characters and their bytes.                                             *)
(***************************************************************************)

CharByte == [c : Character, k : 1..4]

BytesOfChar(c) == [k \in 1..Width(c) |-> [c |-> c, k |-> k]]

LEMMA WidthType == \A c : Width(c) \in 1..4
  BY DEF Width

LEMMA CharBytes ==
  ASSUME NEW c \in Character
  PROVE  BytesOfChar(c) \in Seq(CharByte) /\ Len(BytesOfChar(c)) = Width(c)
<1>1. Width(c) \in 1..4
  BY WidthType
<1>2. \A k \in 1..Width(c) : [c |-> c, k |-> k] \in CharByte
  BY <1>1 DEF CharByte
<1>3. Width(c) \in Nat
  BY <1>1
<1>4. QED BY <1>2, <1>3 DEF BytesOfChar

(* The bytes of each character of s, one sequence for each *)
Spelled(s) == [i \in DOMAIN s |-> BytesOfChar(s[i])]

LEMMA SpelledType ==
  ASSUME NEW s \in Text
  PROVE  Spelled(s) \in Seq(Seq(CharByte)) /\ Len(Spelled(s)) = Len(s) /\ BytesOf(s) = FlattenSeq(Spelled(s))
<1>1. /\ DOMAIN s = 1..Len(s) /\ Len(s) \in Nat
      /\ \A i \in 1..Len(s) : BytesOfChar(s[i]) \in Seq(CharByte)
  BY CharBytes DEF Text
<1>2. BytesOf(s) = FlattenSeq(Spelled(s))
  BY DEF BytesOf, Spelled, BytesOfChar
<1>3. QED BY <1>1, <1>2 DEF Spelled

LEMMA BytesType ==
  ASSUME NEW s \in Text
  PROVE  BytesOf(s) \in Seq(CharByte) /\ SizeOf(s) \in Nat
  BY SpelledType, FlattenType DEF SizeOf

LEMMA NoBytes == BytesOf(<< >>) = << >> /\ SizeOf(<< >>) = 0
<1>1. Spelled(<< >>) = << >>
  BY DEF Spelled
<1>2. << >> \in Text
  BY DEF Text
<1>3. QED BY <1>1, <1>2, SpelledType, FlattenNothing DEF SizeOf

(* One character more *)
LEMMA BytesAppend ==
  ASSUME NEW s \in Text, NEW c \in Character
  PROVE  /\ BytesOf(Append(s, c)) = BytesOf(s) \o BytesOfChar(c)
         /\ SizeOf(Append(s, c)) = SizeOf(s) + Width(c)
<1>1. Append(s, c) \in Text /\ Len(s) \in Nat
  BY DEF Text
<1>2. Spelled(Append(s, c)) = Append(Spelled(s), BytesOfChar(c))
  <2>1. /\ Spelled(Append(s, c)) \in Seq(Seq(CharByte)) /\ Len(Spelled(Append(s, c))) = Len(s) + 1
        /\ Spelled(s) \in Seq(Seq(CharByte)) /\ Len(Spelled(s)) = Len(s)
    <3>1. Len(Append(s, c)) = Len(s) + 1
      BY DEF Text
    <3>2. QED BY <1>1, <3>1, SpelledType
  <2>2. \A i \in 1..Len(s) + 1 :
          Spelled(Append(s, c))[i] = IF i <= Len(s) THEN Spelled(s)[i] ELSE BytesOfChar(c)
    BY DEF Spelled, Text
  <2>3. BytesOfChar(c) \in Seq(CharByte)
    BY CharBytes
  <2>4. QED BY <1>1, <2>1, <2>2, <2>3, SeqEqual, AppendProperties
<1>3. BytesOf(Append(s, c)) = BytesOf(s) \o BytesOfChar(c)
  BY <1>1, <1>2, SpelledType, CharBytes, FlattenAppend
<1>4. QED BY <1>3, BytesType, CharBytes, ConcatProperties DEF SizeOf

(* A text has as many bytes as characters, or more *)
LEMMA SizeAtLeast ==
  ASSUME NEW s \in Text
  PROVE  SizeOf(s) >= Len(s)
<1> DEFINE T == {t \in Text : SizeOf(t) >= Len(t)}
<1>1. << >> \in T
  BY NoBytes DEF Text
<1>2. ASSUME NEW t \in Seq(Character), NEW c \in Character, t \in T PROVE Append(t, c) \in T
  <2>1. SizeOf(Append(t, c)) = SizeOf(t) + Width(c) /\ SizeOf(t) \in Nat /\ Width(c) \in 1..4
    BY BytesAppend, WidthType, BytesType DEF Text
  <2>2. Append(t, c) \in Text /\ Len(Append(t, c)) = Len(t) + 1 /\ Len(t) \in Nat
    BY DEF Text
  <2>3. SizeOf(t) >= Len(t)
    BY <1>2
  <2>4. SizeOf(Append(t, c)) >= Len(Append(t, c))
    BY <2>1, <2>2, <2>3
  <2>5. QED BY <2>2, <2>4
<1> HIDE DEF T
<1>3. Seq(Character) \subseteq T
  BY <1>1, <1>2, AppendInduction
<1>4. QED BY <1>3 DEF T, Text

(* Only the empty text has no bytes *)
LEMMA NothingUnread ==
  ASSUME NEW s \in Text
  PROVE  s = << >> <=> SizeOf(s) = 0
  BY SizeAtLeast, NoBytes DEF Text

-----------------------------------------------------------------------------
(***************************************************************************)
(* Decode.                                                                 *)
(***************************************************************************)

(* The function inside Decode *)
DecodeFrom(bytes) ==
  CHOOSE from : from = [i \in 1..(Len(bytes) + 1) |->
    IF i > Len(bytes) THEN <<>>
    ELSE IF bytes[i].k > 1 THEN <<Replacement>> \o from[i + 1]
    ELSE IF i + Width(bytes[i].c) > Len(bytes) + 1 THEN <<Replacement>>
    ELSE <<bytes[i].c>> \o from[i + Width(bytes[i].c)]]

LEMMA DecodeIsFrom == \A bytes : Decode(bytes) = DecodeFrom(bytes)[1]
  BY DEF Decode, DecodeFrom

(* What is decoded first, and where the next character is looked for *)
LEMMA DecodeEquation ==
  ASSUME NEW bytes \in Seq(CharByte)
  PROVE  /\ DecodeFrom(bytes) \in [1..(Len(bytes) + 1) -> Text]
         /\ \A i \in 1..(Len(bytes) + 1) :
              DecodeFrom(bytes)[i] =
                IF i > Len(bytes) THEN <<>>
                ELSE IF bytes[i].k > 1 THEN <<Replacement>> \o DecodeFrom(bytes)[i + 1]
                ELSE IF i + Width(bytes[i].c) > Len(bytes) + 1 THEN <<Replacement>>
                ELSE <<bytes[i].c>> \o DecodeFrom(bytes)[i + Width(bytes[i].c)]
<1> DEFINE L    == Len(bytes)
           D    == 1..(L + 1)
           W(i) == Width(bytes[i].c)
           stop == {i \in D : i > L \/ (bytes[i].k = 1 /\ i + W(i) > L + 1)}
           base == [i \in D |-> IF i > L THEN <<>> ELSE <<Replacement>>]
           item == [i \in D |-> IF i > L THEN <<>> ELSE IF bytes[i].k > 1 THEN <<Replacement>> ELSE <<bytes[i].c>>]
           next == [i \in D |-> IF i > L THEN i ELSE IF bytes[i].k > 1 THEN i + 1 ELSE i + W(i)]
           Body(g, i) == IF i > Len(bytes) THEN <<>>
                         ELSE IF bytes[i].k > 1 THEN <<Replacement>> \o g[i + 1]
                         ELSE IF i + Width(bytes[i].c) > Len(bytes) + 1 THEN <<Replacement>>
                         ELSE <<bytes[i].c>> \o g[i + Width(bytes[i].c)]
           Step(g, i) == IF i \in stop THEN base[i] ELSE item[i] \o g[next[i]]
<1>1. /\ L \in Nat
      /\ \A i \in 1..L : bytes[i].c \in Character /\ bytes[i].k \in 1..4 /\ W(i) \in 1..4
  <2>1. L \in Nat /\ \A i \in 1..L : bytes[i] \in CharByte
    OBVIOUS
  <2>2. \A b \in CharByte : b.c \in Character /\ b.k \in 1..4
    BY DEF CharByte
  <2>3. QED BY <2>1, <2>2, WidthType
<1>2. Replacement \in Character
  BY DEF Character
<1>3. base \in [D -> Text] /\ item \in [D -> Text]
  BY <1>1, <1>2 DEF Text
<1>4. next \in [D -> Int] /\ \A i \in D \ stop : next[i] \in D /\ next[i] > i
  <2>1. \A i \in D : next[i] \in Int
    BY <1>1
  <2>2. ASSUME NEW i \in D, i \notin stop PROVE next[i] \in D /\ next[i] > i
    <3>1. i \in 1..L
      BY <1>1, <2>2
    <3>2. bytes[i].k \in 1..4 /\ W(i) \in 1..4
      BY <1>1, <3>1
    <3>3. next[i] = IF bytes[i].k > 1 THEN i + 1 ELSE i + W(i)
      BY <3>1
    <3>4. bytes[i].k > 1 \/ i + W(i) <= L + 1
      BY <1>1, <2>2, <3>1, <3>2
    <3>5. QED BY <1>1, <3>1, <3>2, <3>3, <3>4
  <2>3. next \in [D -> Int]
    BY <2>1
  <2>4. QED BY <2>2, <2>3
<1>5. Walk(L + 1, Character, stop, base, item, next)
  <2> HIDE DEF stop, base, item, next
  <2>1. QED BY <1>1, <1>3, <1>4 DEF Walk, Text
<1>6. ASSUME NEW g, NEW i \in D PROVE Step(g, i) = Body(g, i)
  <2>1. CASE i > L
    BY <2>1
  <2>2. CASE i \in 1..L
    <3>1. bytes[i].k \in 1..4 /\ ~(i > L)
      BY <1>1, <2>2
    <3>2. CASE bytes[i].k > 1
      <4>1. i \notin stop /\ item[i] = <<Replacement>> /\ next[i] = i + 1
        BY <3>1, <3>2
      <4>2. QED BY <3>1, <3>2, <4>1
    <3>3. CASE bytes[i].k = 1
      <4>1. (i \in stop <=> i + W(i) > L + 1) /\ base[i] = <<Replacement>>
        BY <3>1, <3>3
      <4>2. item[i] = <<bytes[i].c>> /\ next[i] = i + W(i)
        BY <3>1, <3>3
      <4>3. QED BY <3>1, <3>3, <4>1, <4>2
    <3>4. QED BY <3>1, <3>2, <3>3
  <2>3. QED BY <1>1, <2>1, <2>2
<1> HIDE DEF stop, base, item, next
<1>7. PICK f \in [D -> Seq(Character)] : \A i \in D : f[i] = Step(f, i)
  BY <1>5, WalkExists
<1>8. f = [i \in D |-> Body(f, i)]
  BY <1>6, <1>7
<1>9. DecodeFrom(bytes) = [i \in D |-> Body(DecodeFrom(bytes), i)]
  BY <1>8, Zenon DEF DecodeFrom
<1>10. \A i \in D : DecodeFrom(bytes)[i] = Body(DecodeFrom(bytes), i)
  BY <1>9, Zenon
<1>11. \A i \in D : DecodeFrom(bytes)[i] = Step(DecodeFrom(bytes), i)
  BY <1>6, <1>10
<1>12. \A i \in D : DecodeFrom(bytes)[i] \in Text
  BY <1>5, <1>11, WalkType DEF Text
<1>13. DecodeFrom(bytes) \in [D -> Text]
  BY <1>9, <1>12
<1>14. QED BY <1>10, <1>13

LEMMA DecodeType ==
  ASSUME NEW bytes \in Seq(CharByte)
  PROVE  Decode(bytes) \in Text
<1>1. 1 \in 1..(Len(bytes) + 1)
  BY LenProperties
<1>2. QED BY <1>1, DecodeIsFrom, DecodeEquation

-----------------------------------------------------------------------------
(***************************************************************************)
(* The command line.                                                       *)
(***************************************************************************)

(* A setting that args holds: its flag is a word of args, or "error", and a *)
(* backend is one there is                                                  *)
SettingOf(args) ==
  {s \in [flag : Words \cup {"error"}, value : Words \cup {None}] :
     /\ s.flag \in ToSet(args) \/ s.flag = "error"
     /\ s.flag = "--backend" => s.value \in Backend}

(* The equation inside Settings, and the function that it chooses *)
IsSettings(from, args) ==
  from = [i \in 1..(Len(args) + 2) |->
        IF i > Len(args) THEN <<>>
        ELSE IF TakesNext(args, i) THEN <<Setting(args[i], NextWord(args, i))>> \o from[i + 2]
        ELSE IF args[i] \in Switches THEN from[i + 1]
        ELSE <<Setting("error", None)>>]

SettingsFrom(args) == CHOOSE from : IsSettings(from, args)

LEMMA SettingsIsFrom == \A args : Settings(args) = SettingsFrom(args)[1]
  BY DEF Settings, SettingsFrom, IsSettings

LEMMA SettingsChosen ==
  ASSUME NEW args, NEW f, IsSettings(f, args)
  PROVE  IsSettings(SettingsFrom(args), args)
  BY Zenon DEF SettingsFrom

LEMMA OneSetting ==
  ASSUME NEW args \in Seq(Words), NEW i \in 1..Len(args)
  PROVE  /\ TakesNext(args, i) => Setting(args[i], NextWord(args, i)) \in SettingOf(args)
         /\ Setting("error", None) \in SettingOf(args)
<1>1. args[i] \in Words /\ args[i] \in ToSet(args)
  BY DEF ToSet
<1>2. NextWord(args, i) \in Words \cup {None}
  BY DEF NextWord
<1>3. TakesNext(args, i) /\ args[i] = "--backend" => NextWord(args, i) \in Backend
  BY DEF TakesNext, Accepts, OptionalFlags
<1>4. QED BY <1>1, <1>2, <1>3 DEF Setting, SettingOf

LEMMA SettingsType ==
  ASSUME NEW args \in Seq(Words)
  PROVE  Settings(args) \in Seq(SettingOf(args))
<1> DEFINE L    == Len(args)
           D    == 1..(L + 2)
           S    == SettingOf(args)
           stop == {i \in D : i > L \/ (~TakesNext(args, i) /\ args[i] \notin Switches)}
           base == [i \in D |-> IF i > L THEN <<>> ELSE <<Setting("error", None)>>]
           item == [i \in D |-> IF i <= L /\ TakesNext(args, i)
                                THEN <<Setting(args[i], NextWord(args, i))>> ELSE <<>>]
           next == [i \in D |-> IF TakesNext(args, i) THEN i + 2 ELSE i + 1]
           Body(g, i) ==
             IF i > Len(args) THEN <<>>
             ELSE IF TakesNext(args, i) THEN <<Setting(args[i], NextWord(args, i))>> \o g[i + 2]
             ELSE IF args[i] \in Switches THEN g[i + 1]
             ELSE <<Setting("error", None)>>
           Step(g, i) == IF i \in stop THEN base[i] ELSE item[i] \o g[next[i]]
<1>1. L \in Nat
  OBVIOUS
<1>2. base \in [D -> Seq(S)] /\ item \in [D -> Seq(S)]
  <2> HIDE DEF S
  <2>1. \A i \in 1..L : /\ TakesNext(args, i) => Setting(args[i], NextWord(args, i)) \in S
                        /\ Setting("error", None) \in S
    BY OneSetting DEF S
  <2>2. \A i \in D : base[i] \in Seq(S) /\ item[i] \in Seq(S)
    BY <1>1, <2>1
  <2>3. QED BY <2>2
<1>3. next \in [D -> Int] /\ \A i \in D \ stop : next[i] \in D /\ next[i] > i
  BY <1>1
<1>4. Walk(L + 2, S, stop, base, item, next)
  <2> HIDE DEF stop, base, item, next, S
  <2>1. QED BY <1>1, <1>2, <1>3 DEF Walk
<1>5. ASSUME NEW g, NEW i \in D, \A j \in D : g[j] \in Seq(S) PROVE Step(g, i) = Body(g, i)
  <2>1. CASE i > L
    BY <2>1
  <2>2. CASE i \in 1..L /\ TakesNext(args, i)
    BY <1>1, <2>2
  <2>3. CASE i \in 1..L /\ ~TakesNext(args, i) /\ args[i] \in Switches
    <3>1. i \notin stop /\ item[i] = <<>> /\ next[i] = i + 1 /\ i + 1 \in D
      BY <1>1, <2>3
    <3>2. <<>> \o g[i + 1] = g[i + 1]
      BY <1>5, <3>1
    <3>3. QED BY <1>1, <2>3, <3>1, <3>2
  <2>4. CASE i \in 1..L /\ ~TakesNext(args, i) /\ args[i] \notin Switches
    BY <1>1, <2>4
  <2>5. QED BY <1>1, <2>1, <2>2, <2>3, <2>4
<1> HIDE DEF stop, base, item, next, S
<1>6. PICK f \in [D -> Seq(S)] : \A i \in D : f[i] = Step(f, i)
  BY <1>4, WalkExists
<1>7. IsSettings(f, args)
  BY <1>5, <1>6 DEF IsSettings
<1>8. IsSettings(SettingsFrom(args), args)
  BY <1>7, SettingsChosen
<1>9. \A i \in D : SettingsFrom(args)[i] = Body(SettingsFrom(args), i)
  BY <1>8, Zenon DEF IsSettings
<1> DEFINE T == {i \in D : SettingsFrom(args)[i] \in Seq(S)}
<1>10. ASSUME NEW i \in 1..(L + 2), \A j \in 1..(L + 2) : j > i => j \in T PROVE i \in T
  <2>0. i \in D /\ SettingsFrom(args)[i] = Body(SettingsFrom(args), i)
    BY <1>9
  <2>1. CASE i > L
    <3>1. SettingsFrom(args)[i] = <<>>
      BY <2>0, <2>1
    <3>2. QED BY <2>0, <3>1, EmptySeq
  <2>2. CASE i \in 1..L
    <3>1. i + 1 \in D /\ i + 2 \in D /\ i + 1 > i /\ i + 2 > i
      BY <1>1, <2>2
    <3>2. SettingsFrom(args)[i + 1] \in Seq(S) /\ SettingsFrom(args)[i + 2] \in Seq(S)
      BY <1>10, <3>1
    <3>3. /\ TakesNext(args, i) => Setting(args[i], NextWord(args, i)) \in S
          /\ Setting("error", None) \in S
      BY <2>2, OneSetting DEF S
    <3>4. ~(i > Len(args)) /\ i \in D
      BY <1>1, <2>2
    <3>5. SettingsFrom(args)[i] \in Seq(S)
      BY <2>0, <3>2, <3>3, <3>4
    <3>6. QED BY <3>4, <3>5
  <2>3. QED BY <1>1, <2>1, <2>2
<1>11. 1..(L + 2) \subseteq T
  <2> HIDE DEF T
  <2>1. L + 2 \in Nat
    BY <1>1
  <2>2. QED BY <1>10, <2>1, DownInduction
<1>12. SettingsFrom(args)[1] \in Seq(S)
  BY <1>1, <1>11
<1>13. QED BY <1>12, SettingsIsFrom DEF S

(* The last word counts: a value is the default, or one of a setting *)
LEMMA ValueOfSetting ==
  ASSUME NEW args \in Seq(Words), NEW flag, NEW default
  PROVE  \/ Value(args, flag, default) = default
         \/ \E s \in SettingOf(args) : s.flag = flag /\ Value(args, flag, default) = s.value
<1> DEFINE places == {i \in DOMAIN Settings(args) : Settings(args)[i].flag = flag}
<1>1. Settings(args) \in Seq(SettingOf(args))
  BY SettingsType
<1>2. CASE places = {}
  BY <1>2 DEF Value
<1>3. CASE places # {}
  <2>1. Len(Settings(args)) \in Nat /\ places \in SUBSET (1..Len(Settings(args)))
    BY <1>1
  <2>2. Max(places) \in places
    BY <1>3, <2>1, MaxOf
  <2>3. Settings(args)[Max(places)] \in SettingOf(args) /\ Settings(args)[Max(places)].flag = flag
    BY <1>1, <2>1, <2>2
  <2>4. Value(args, flag, default) = Settings(args)[Max(places)].value
    BY <1>3 DEF Value
  <2>5. QED BY <2>3, <2>4
<1>4. QED BY <1>2, <1>3

LEMMA BackendKnown ==
  ASSUME NEW args \in Seq(Words), NEW fs
  PROVE  /\ ChosenBackend(ParseArgs(args), fs) \in Backend
         /\ "--backend" \notin ToSet(args) =>
              ChosenBackend(ParseArgs(args), fs) = DefaultBackend(ParseArgs(args), fs)
<1>1. \A s \in SettingOf(args) : s.flag = "--backend" => s.value \in Backend /\ "--backend" \in ToSet(args)
  BY DEF SettingOf
<1>2. \/ ParseArgs(args).backend = None
      \/ ParseArgs(args).backend \in Backend /\ "--backend" \in ToSet(args)
  BY <1>1, ValueOfSetting DEF ParseArgs
<1>3. DefaultBackend(ParseArgs(args), fs) \in Backend
  BY DEF DefaultBackend, Backend
<1>4. QED BY <1>2, <1>3 DEF ChosenBackend

(* What the default backend needs was given; only an accelerator may be unknown *)
LEMMA DefaultFits ==
  ASSUME NEW args, NEW fs
  PROVE  BuildError(DefaultBackend(args, fs), args, fs) \in {"", "accel"}
  BY DEF BuildError, DefaultBackend, None

LEMMA BuildErrors ==
  ASSUME NEW b \in Backend, NEW args, NEW fs
  PROVE  BuildError(b, args, fs) \in {"", "feature", "missing", "accel"}
  BY DEF BuildError, Backend

-----------------------------------------------------------------------------
(***************************************************************************)
(* The invariant.                                                          *)
(***************************************************************************)

Event ==
  [kind : {"queued", "gen_start", "gen_done"}] \cup [kind : {"chunk"}, text : Text, stop : BOOLEAN]

Types ==
  /\ kind \in Backend \cup {"none"} /\ pc \in Place
  /\ why \in {"", "parse", "feature", "missing", "accel", "load"}
  /\ argv \in Seq(Words)
  /\ req.stream \in BOOLEAN /\ IsInput(req.input)
  /\ text \in Text /\ acc \in Text /\ said \in Text
  /\ taken \in 0..SizeOf(said) /\ SizeOf(acc) < FlushSize
  /\ events \in Seq(Event) /\ (~req.stream => events = <<>>)
  /\ outcome.kind \in {"none", "error", "panic", "ok"}
  /\ outcome.kind = "ok" => outcome.text \in Text

(* The answer so far, what of it the sink got, and what is held back *)
ContentOK ==
  /\ pc = "start" => req = NoReq /\ events = <<>> /\ outcome = Nothing /\ kind = "none" /\ why = ""
  /\ pc \in {"start", "accept", "queued", "gen_start", "synth", "spawn", "generate"} =>
       text = <<>> /\ acc = <<>> /\ said = <<>> /\ taken = 0 /\ Delivered = <<>>
  /\ pc = "echo" => /\ text = said /\ taken <= Len(said)
                    /\ req.stream => Delivered = SubSeq(said, 1, taken)
  /\ pc \in {"read", "tail"} /\ req.stream => text = Delivered \o acc
  /\ pc = "chunk" => Delivered = <<>>
  /\ pc \in {"stop", "gen_done", "return"} /\ req.stream => Delivered = text


IInv == Types /\ ContentOK /\ DefaultIsBuildable

-----------------------------------------------------------------------------
(***************************************************************************)
(* What a sink got.                                                        *)
(***************************************************************************)

TextOf(e) == IF e.kind = "chunk" THEN e.text ELSE <<>>

TextsOf(ev) == [i \in DOMAIN ev |-> TextOf(ev[i])]

LEMMA EventText ==
  ASSUME NEW e \in Event
  PROVE  TextOf(e) \in Text
  BY EmptySeq DEF Event, TextOf, Text

LEMMA TextsType ==
  ASSUME NEW ev \in Seq(Event)
  PROVE  TextsOf(ev) \in Seq(Text) /\ Len(TextsOf(ev)) = Len(ev)
<1>1. \A i \in 1..Len(ev) : TextOf(ev[i]) \in Text
  BY EventText
<1>2. DOMAIN ev = 1..Len(ev) /\ Len(ev) \in Nat
  OBVIOUS
<1>3. QED BY <1>1, <1>2 DEF TextsOf

LEMMA TextsAppend ==
  ASSUME NEW ev \in Seq(Event), NEW e \in Event
  PROVE  TextsOf(Append(ev, e)) = Append(TextsOf(ev), TextOf(e))
<1>1. Append(ev, e) \in Seq(Event) /\ Len(Append(ev, e)) = Len(ev) + 1 /\ Len(ev) \in Nat
  OBVIOUS
<1>2. /\ TextsOf(Append(ev, e)) \in Seq(Text) /\ Len(TextsOf(Append(ev, e))) = Len(ev) + 1
      /\ TextsOf(ev) \in Seq(Text) /\ Len(TextsOf(ev)) = Len(ev) /\ TextOf(e) \in Text
  BY <1>1, TextsType, EventText
<1>3. \A i \in 1..Len(ev) + 1 :
        TextsOf(Append(ev, e))[i] = IF i <= Len(ev) THEN TextsOf(ev)[i] ELSE TextOf(e)
  BY <1>1 DEF TextsOf
<1>4. QED BY <1>1, <1>2, <1>3, SeqEqual, AppendProperties

LEMMA GivenType ==
  ASSUME NEW ev \in Seq(Event)
  PROVE  FlattenSeq(TextsOf(ev)) \in Text
  BY TextsType, FlattenType DEF Text

(* One event more *)
LEMMA Give ==
  ASSUME NEW ev \in Seq(Event), NEW e \in Event
  PROVE  /\ FlattenSeq(TextsOf(ev)) \in Text
         /\ FlattenSeq(TextsOf(Append(ev, e))) = FlattenSeq(TextsOf(ev)) \o TextOf(e)
  BY TextsType, TextsAppend, EventText, FlattenAppend DEF Text

LEMMA GiveNothing == FlattenSeq(TextsOf(<<>>)) = <<>>
<1>1. TextsOf(<<>>) = <<>>
  BY DEF TextsOf
<1>2. QED BY <1>1, FlattenNothing

LEMMA DeliveredIs == Delivered = FlattenSeq(TextsOf(events))
  BY DEF Delivered, TextsOf, TextOf

LEMMA DeliveredIsNext == Delivered' = FlattenSeq(TextsOf(events))'
  BY DEF Delivered, TextsOf, TextOf

LEMMA EmitGives ==
  ASSUME Types, NEW e \in Event, Emit(e), UNCHANGED req
  PROVE  /\ events' \in Seq(Event) /\ (~req.stream => events' = <<>>)
         /\ Delivered \in Text
         /\ Delivered' = IF req.stream THEN Delivered \o TextOf(e) ELSE Delivered
<1>1. events \in Seq(Event) /\ req.stream \in BOOLEAN /\ (~req.stream => events = <<>>)
  BY DEF Types
<1>2. events' = IF req.stream THEN Append(events, e) ELSE events
  BY DEF Emit
<1>3. Delivered' = FlattenSeq(TextsOf(events'))
  BY DeliveredIsNext
<1>4. CASE req.stream
  <2>1. events' = Append(events, e)
    BY <1>2, <1>4
  <2>2. Append(events, e) \in Seq(Event)
    BY <1>1
  <2>3. Delivered \in Text /\ Delivered' = Delivered \o TextOf(e)
    BY <1>1, <1>3, <2>1, Give, DeliveredIs
  <2>4. QED BY <1>4, <2>1, <2>2, <2>3
<1>5. CASE ~req.stream
  BY <1>1, <1>2, <1>3, <1>5, Give, DeliveredIs
<1>6. QED BY <1>4, <1>5

LEMMA SilentGives ==
  ASSUME UNCHANGED events
  PROVE  Delivered' = Delivered
  BY DEF Delivered

-----------------------------------------------------------------------------
(***************************************************************************)
(* The pieces that the steps use.                                          *)
(***************************************************************************)

LEMMA MaxOfTwo ==
  ASSUME NEW a \in Int, NEW b \in Int
  PROVE  Max({a, b}) = IF a >= b THEN a ELSE b
<1> DEFINE m == IF a >= b THEN a ELSE b
<1>1. m \in {a, b} /\ \A y \in {a, b} : m >= y
  OBVIOUS
<1>2. \A x \in {a, b} : (\A y \in {a, b} : x >= y) => x = m
  OBVIOUS
<1>3. QED BY <1>1, <1>2 DEF Max

LEMMA MinOfTwo ==
  ASSUME NEW a \in Int, NEW b \in Int
  PROVE  Min({a, b}) = IF a <= b THEN a ELSE b
<1> DEFINE m == IF a <= b THEN a ELSE b
<1>1. m \in {a, b} /\ \A y \in {a, b} : m <= y
  OBVIOUS
<1>2. \A x \in {a, b} : (\A y \in {a, b} : x <= y) => x = m
  OBVIOUS
<1>3. QED BY <1>1, <1>2 DEF Min

LEMMA EchoType ==
  ASSUME NEW input, IsInput(input)
  PROVE  Echo(input) \in Text
<1>1. EchoPrefix \in Text /\ <<"stub">> \in Text
  BY DEF EchoPrefix, Text, Character, Chars, Blank
<1>2. CASE input.kind = "text"
  BY <1>1, <1>2 DEF Echo, IsInput, Text
<1>3. CASE input.kind = "turns" /\ UserTurns(input.turns) # {}
  <2>1. input.turns \in Seq(Turn)
    BY <1>3 DEF IsInput
  <2>2. /\ Len(input.turns) \in Nat /\ DOMAIN input.turns = 1..Len(input.turns)
        /\ UserTurns(input.turns) \in SUBSET (1..Len(input.turns))
    BY <2>1 DEF UserTurns
  <2>3. Max(UserTurns(input.turns)) \in 1..Len(input.turns)
    BY <1>3, <2>2, MaxOf
  <2>4. input.turns[Max(UserTurns(input.turns))].content \in Text
    <3>1. input.turns[Max(UserTurns(input.turns))] \in Turn
      BY <2>1, <2>3
    <3>2. QED BY <3>1 DEF Turn
  <2>5. QED BY <1>1, <1>3, <2>4 DEF Echo, Text
<1>4. CASE ~(input.kind = "text") /\ ~(input.kind = "turns" /\ UserTurns(input.turns) # {})
  <2>1. Echo(input) = EchoPrefix \o <<"stub">>
    BY <1>4 DEF Echo
  <2>2. QED BY <1>1, <2>1 DEF Text
<1>5. QED BY <1>2, <1>3, <1>4

(* What a read adds to the answer is a text *)
LEMMA ReadText ==
  ASSUME Types, NEW n \in Nat, n <= Len(Unread)
  PROVE  /\ Decode(SubSeq(Unread, 1, n)) \in Text
         /\ taken + n \in 0..SizeOf(said)
<1>1. BytesOf(said) \in Seq(CharByte) /\ SizeOf(said) \in Nat /\ SizeOf(said) = Len(BytesOf(said))
  BY BytesType DEF Types, SizeOf
<1>2. taken \in 0..SizeOf(said)
  BY DEF Types
<1>3. Unread \in Seq(CharByte) /\ Len(Unread) = SizeOf(said) - taken
  BY <1>1, <1>2 DEF Unread
<1>4. SubSeq(Unread, 1, n) \in Seq(CharByte)
  BY <1>3
<1>5. Decode(SubSeq(Unread, 1, n)) \in Text
  BY <1>4, DecodeType
<1>6. taken + n \in 0..SizeOf(said)
  <2>1. n <= SizeOf(said) - taken
    BY <1>3
  <2>2. QED BY <1>1, <1>2, <2>1
<1>7. QED BY <1>5, <1>6

-----------------------------------------------------------------------------
(***************************************************************************)
(* The invariant is inductive.                                             *)
(***************************************************************************)

LEMMA NoText == <<>> \in Text /\ SizeOf(<<>>) = 0 /\ 0 < FlushSize /\ 0 \in 0..SizeOf(<<>>)
<1>1. <<>> \in Text
  BY EmptySeq DEF Text
<1>2. 0 < FlushSize
  BY TextAssumption
<1>3. QED BY <1>1, <1>2, NoBytes

LEMMA InitInv == Init => IInv
<1> SUFFICES ASSUME Init PROVE IInv
  OBVIOUS
<1>1. argv \in Seq(Words)
  BY TextAssumption DEF Init
<1>2. Delivered = <<>>
  BY DeliveredIs, GiveNothing DEF Init
<1>3. Types
  <2>1. req.stream = FALSE /\ IsInput(req.input) /\ outcome.kind = "none"
    BY DEF Init, NoReq, Nothing, IsInput
  <2>2. events \in Seq(Event)
    BY EmptySeq DEF Init
  <2>3. taken \in 0..SizeOf(said) /\ SizeOf(acc) < FlushSize
    BY NoText DEF Init
  <2>4. QED BY <1>1, <2>1, <2>2, <2>3, NoText DEF Init, Types, Place
<1>4. ContentOK /\ DefaultIsBuildable
  BY <1>2 DEF Init, ContentOK, DefaultIsBuildable
<1>5. QED BY <1>3, <1>4 DEF IInv

LEMMA StartUpInv == IInv /\ StartUp => IInv'
<1> SUFFICES ASSUME IInv, StartUp PROVE IInv'
  OBVIOUS
<1> DEFINE args    == ParseArgs(argv)
           backend == ChosenBackend(args, features)
           error   == BuildError(backend, args, features)
<1>1. /\ pc = "start" /\ argv \in Seq(Words) /\ why = "" /\ why' \in {why, "parse", error, "load"}
      /\ UNCHANGED <<features, req, prompt, text, acc, said, taken, events, outcome>>
      /\ pc' \in {"exit", "elsewhere", "idle"}
      /\ \/ kind' = kind /\ argv' = argv
         \/ kind' = backend /\ argv' = <<>> /\ why' = why
  <2>1. pc = "start" /\ argv \in Seq(Words) /\ why = ""
    BY DEF IInv, Types, ContentOK, StartUp
  <2>2. Exit("parse") \/ Exit(error) \/ Exit("load") \/ Serve(backend)
    BY DEF StartUp
  <2>3. QED BY <2>1, <2>2 DEF Exit, Serve
<1>2. backend \in Backend
  BY <1>1, BackendKnown
<1>3. error \in {"", "feature", "missing", "accel"}
  BY <1>2, BuildErrors
<1>4. "--backend" \notin ToSet(argv) => error \in {"", "accel"}
  BY <1>1, BackendKnown, DefaultFits
<1>5. Delivered' = Delivered
  BY <1>1, SilentGives
<1> HIDE DEF args, backend, error
<1>6. Types'
  BY <1>1, <1>2, <1>3, EmptySeq DEF IInv, Types, Place
<1>7. ContentOK'
  BY <1>1, <1>5 DEF ContentOK
<1>8. DefaultIsBuildable'
  BY <1>1, <1>3, <1>4 DEF IInv, DefaultIsBuildable
<1>9. QED BY <1>6, <1>7, <1>8 DEF IInv

LEMMA BeginInv == IInv /\ Begin => IInv'
<1> SUFFICES ASSUME IInv, Begin PROVE IInv'
  OBVIOUS
<1>2. req'.stream \in BOOLEAN /\ IsInput(req'.input)
  BY TextAssumption DEF Begin
<1>3. Delivered' = <<>>
  BY DeliveredIsNext, GiveNothing DEF Begin
<1>4. Types'
  <2>1. outcome'.kind = "none" /\ UNCHANGED start
    BY DEF Begin, Nothing
  <2>2. events' \in Seq(Event)
    BY EmptySeq DEF Begin
  <2>3. taken' \in 0..SizeOf(said') /\ SizeOf(acc') < FlushSize
    BY NoText DEF Begin
  <2>4. SizeOf(said)' = SizeOf(said') /\ SizeOf(acc)' = SizeOf(acc')
    BY DEF SizeOf, BytesOf
  <2>5. QED BY <1>2, <2>1, <2>2, <2>3, <2>4, NoText DEF IInv, Types, Begin, start, Goto, Place
<1>5. ContentOK'
  BY <1>3 DEF ContentOK, Begin, Goto
<1>6. DefaultIsBuildable'
  BY DEF IInv, DefaultIsBuildable, Begin, start
<1>7. QED BY <1>4, <1>5, <1>6 DEF IInv

(* A step that ends a request leaves its texts as they are *)
LEMMA ReturnInv ==
  ASSUME IInv, NEW o, Return(o), o.kind \in {"error", "panic", "ok"},
         o.kind = "ok" => o.text \in Text
  PROVE  IInv'
<1>1. Types'
  BY DEF IInv, Types, Return, Goto, start, Place
<1>2. ContentOK'
  BY DEF ContentOK, Return, Goto
<1>3. DefaultIsBuildable'
  BY DEF IInv, DefaultIsBuildable, Return, start
<1>4. QED BY <1>1, <1>2, <1>3 DEF IInv

LEMMA EndInv == IInv /\ (Refuse \/ SpawnFails \/ GenerateFails \/ Complete \/ ExtractPanics) => IInv'
<1> SUFFICES ASSUME IInv, Refuse \/ SpawnFails \/ GenerateFails \/ Complete \/ ExtractPanics PROVE IInv'
  OBVIOUS
<1>1. PICK o : Return(o) /\ o.kind \in {"error", "panic", "ok"} /\ (o.kind = "ok" => o.text \in Text)
  <2>1. CASE Refuse \/ SpawnFails \/ GenerateFails
    BY <2>1 DEF Refuse, SpawnFails, GenerateFails, Fails
  <2>2. CASE Complete
    <3> DEFINE o == [kind |-> "ok", text |-> text, calls |-> ToolCalls,
                     session |-> IF kind = "subprocess" THEN "none" ELSE req.session]
    <3>1. Return(o)
      BY <2>2 DEF Complete
    <3>2. o.kind = "ok" /\ o.text = text /\ text \in Text
      BY DEF IInv, Types
    <3> HIDE DEF o
    <3>3. QED BY <3>1, <3>2
  <2>3. CASE ExtractPanics
    BY <2>3 DEF ExtractPanics
  <2>4. QED BY <2>1, <2>2, <2>3
<1>2. QED BY <1>1, ReturnInv

(* A step that only marks a place gives no text *)
LEMMA MarkSilent ==
  ASSUME IInv, Accept \/ Queued \/ GenStart \/ GenDone \/ StopMarker
  PROVE  /\ UNCHANGED <<start, req, text, acc, said, taken, outcome>>
         /\ events' \in Seq(Event) /\ (~req.stream => events' = <<>>)
         /\ Delivered' = Delivered
<1>1. CASE Accept
  BY <1>1, SilentGives DEF Accept, IInv, Types
<1>2. ASSUME NEW e \in Event, TextOf(e) = <<>>, Emit(e), UNCHANGED <<start, req, text, acc, said, taken, outcome>>
      PROVE  /\ events' \in Seq(Event) /\ (~req.stream => events' = <<>>)
             /\ Delivered' = Delivered
  <2>1. /\ events' \in Seq(Event) /\ (~req.stream => events' = <<>>)
        /\ Delivered \in Text
        /\ Delivered' = IF req.stream THEN Delivered \o TextOf(e) ELSE Delivered
    BY <1>2, EmitGives DEF IInv
  <2>2. QED BY <1>2, <2>1 DEF Text
<1>3. CASE Queued \/ GenStart \/ GenDone
  <2>1. PICK e \in Event : TextOf(e) = <<>> /\ Emit(e)
    BY <1>3 DEF Queued, GenStart, GenDone, Event, TextOf
  <2>2. QED BY <1>2, <1>3, <2>1 DEF Queued, GenStart, GenDone
<1>4. CASE StopMarker
  <2>1. ChunkOf(<<>>, TRUE) \in Event /\ TextOf(ChunkOf(<<>>, TRUE)) = <<>>
    BY EmptySeq DEF ChunkOf, Event, TextOf, Text
  <2>2. QED BY <1>2, <1>4, <2>1 DEF StopMarker
<1>5. QED BY <1>1, <1>3, <1>4

LEMMA MarkInv ==
  IInv /\ (Accept \/ Queued \/ GenStart \/ GenDone \/ StopMarker) => IInv'
<1> SUFFICES ASSUME IInv, Accept \/ Queued \/ GenStart \/ GenDone \/ StopMarker PROVE IInv'
  OBVIOUS
<1>1. /\ UNCHANGED <<start, req, text, acc, said, taken, outcome>>
      /\ events' \in Seq(Event) /\ (~req.stream => events' = <<>>)
      /\ Delivered' = Delivered
  BY MarkSilent
<1>2. \/ pc = "accept" /\ pc' = "queued"
      \/ pc = "queued" /\ pc' = "gen_start"
      \/ pc = "gen_start" /\ pc' \in {"synth", "spawn", "generate"}
      \/ pc = "gen_done" /\ pc' = "return"
      \/ pc = "stop" /\ pc' = "gen_done"
  BY DEF Accept, Queued, GenStart, GenDone, StopMarker, Goto
<1>3. Types'
  <2>1. pc' \in Place
    BY <1>2 DEF Place
  <2>2. UNCHANGED <<kind, why, argv, req, text, acc, said, taken, outcome>>
    BY <1>1 DEF start
  <2>3. QED BY <1>1, <2>1, <2>2 DEF IInv, Types, SizeOf, BytesOf
<1>4. ContentOK'
  BY <1>1, <1>2 DEF IInv, ContentOK
<1>5. DefaultIsBuildable'
  BY <1>1 DEF IInv, DefaultIsBuildable, start
<1>6. QED BY <1>3, <1>4, <1>5 DEF IInv

(* Operators of the texts change with the texts alone *)
LEMMA SizesNext == SizeOf(said)' = SizeOf(said') /\ SizeOf(acc)' = SizeOf(acc') /\ BytesOf(said)' = BytesOf(said')
  BY DEF SizeOf, BytesOf

LEMMA ChunkEvent ==
  ASSUME NEW t \in Text, NEW stop \in BOOLEAN
  PROVE  ChunkOf(t, stop) \in Event /\ TextOf(ChunkOf(t, stop)) = t
  BY DEF ChunkOf, Event, TextOf

LEMMA TextsKnown ==
  ASSUME IInv
  PROVE  /\ text \in Text /\ acc \in Text /\ said \in Text /\ Delivered \in Text
         /\ taken \in Nat /\ SizeOf(said) \in Nat
<1>1. text \in Text /\ acc \in Text /\ said \in Text /\ events \in Seq(Event) /\ taken \in 0..SizeOf(said)
  BY DEF IInv, Types
<1>2. Delivered \in Text
  BY <1>1, DeliveredIs, GivenType
<1>3. SizeOf(said) \in Nat
  BY <1>1, BytesType
<1>4. QED BY <1>1, <1>2, <1>3

LEMMA SynthInv == IInv /\ Synth => IInv'
<1> SUFFICES ASSUME IInv, Synth PROVE IInv'
  OBVIOUS
<1>1. Echo(req.input) \in Text
  BY EchoType DEF IInv, Types
<1>2. Delivered' = Delivered
  BY SilentGives DEF Synth
<1>3. pc = "synth" /\ acc = <<>> /\ taken = 0 /\ Delivered = <<>>
  BY DEF IInv, ContentOK, Synth
<1>4. SizeOf(said') \in Nat /\ Len(said') \in Nat /\ said' \in Text
  BY <1>1, BytesType DEF Synth, Text
<1>5. Types'
  <2>1. taken' = 0 /\ 0 \in 0..SizeOf(said')
    BY <1>3, <1>4 DEF Synth
  <2>2. text' \in Text /\ said' \in Text /\ pc' \in Place
    BY <1>1 DEF Synth, Goto, Place
  <2>3. QED BY <2>1, <2>2, SizesNext DEF IInv, Types, Synth, start
<1>6. SubSeq(said', 1, 0) = <<>>
  BY <1>4, SubSeqEmpty DEF Text
<1>7. ContentOK'
  BY <1>2, <1>3, <1>4, <1>6 DEF IInv, ContentOK, Synth, Goto
<1>8. DefaultIsBuildable'
  BY DEF IInv, DefaultIsBuildable, Synth, start
<1>9. QED BY <1>5, <1>7, <1>8 DEF IInv

(* The piece of the echo that goes out next *)
LEMMA EchoPart ==
  ASSUME IInv, EchoChunk
  PROVE  LET n == Min({EchoSize, Len(said) - taken})
         IN  /\ n \in Nat /\ taken + n <= Len(said) /\ (n = 0 => taken = Len(said))
             /\ SubSeq(said, taken + 1, taken + n) \in Text
<1> DEFINE n == Min({EchoSize, Len(said) - taken})
<1>1. text = said /\ said \in Text /\ Len(said) \in Nat /\ taken \in 0..Len(said)
  BY TextsKnown DEF IInv, ContentOK, EchoChunk, Text
<1>2. Len(text) \div 3 \in Int
  BY <1>1
<1>3. EchoSize \in Nat /\ EchoSize >= 1
  BY <1>2, MaxOfTwo DEF EchoSize
<1>4. n = IF EchoSize <= Len(said) - taken THEN EchoSize ELSE Len(said) - taken
  BY <1>1, <1>3, MinOfTwo
<1> HIDE DEF n
<1>5. n \in Nat /\ taken + n <= Len(said) /\ (n = 0 => taken = Len(said))
  BY <1>1, <1>3, <1>4
<1>6. SubSeq(said, taken + 1, taken + n) \in Text
  BY <1>1, <1>5 DEF Text
<1>7. QED BY <1>5, <1>6 DEF n

LEMMA EchoChunkInv == IInv /\ EchoChunk => IInv'
<1> SUFFICES ASSUME IInv, EchoChunk PROVE IInv'
  OBVIOUS
<1> DEFINE n    == Min({EchoSize, Len(said) - taken})
           part == SubSeq(said, taken + 1, taken + n)
<1>1. /\ pc = "echo" /\ text = said /\ said \in Text /\ Len(said) \in Nat /\ taken \in 0..Len(said)
      /\ UNCHANGED <<start, req, text, acc, said, outcome>>
      /\ req.stream => Delivered = SubSeq(said, 1, taken)
  <2>1. pc = "echo" /\ UNCHANGED <<start, req, text, acc, said, outcome>>
    BY DEF EchoChunk
  <2>2. text = said /\ taken <= Len(said) /\ (req.stream => Delivered = SubSeq(said, 1, taken))
    BY <2>1 DEF IInv, ContentOK
  <2>3. said \in Text /\ Len(said) \in Nat /\ taken \in Nat
    BY TextsKnown DEF Text
  <2>4. QED BY <2>1, <2>2, <2>3
<1>2. /\ n \in Nat /\ taken + n <= Len(said) /\ (n = 0 => taken = Len(said))
      /\ part \in Text
  BY EchoPart
<1>3. SizeOf(said) >= Len(said) /\ SizeOf(said) \in Nat
  BY <1>1, SizeAtLeast, BytesType
<1>4. \/ pc' = "gen_done" /\ n = 0 /\ UNCHANGED <<taken, events>>
      \/ pc' = pc /\ taken' = taken + n /\ Emit(ChunkOf(part, taken + n = Len(said)))
  BY DEF EchoChunk, Goto
<1> HIDE DEF n
<1>5. CASE pc' = "gen_done" /\ n = 0 /\ UNCHANGED <<taken, events>>
  <2>1. Delivered' = Delivered
    BY <1>5, SilentGives
  <2>2. SubSeq(said, 1, taken) = said
    BY <1>1, <1>2, <1>5 DEF Text
  <2>3. Types'
    BY <1>1, <1>5, SizesNext DEF IInv, Types, start, Place
  <2>4. ContentOK'
    BY <1>1, <1>5, <2>1, <2>2 DEF ContentOK
  <2>5. DefaultIsBuildable'
    BY <1>1 DEF IInv, DefaultIsBuildable, start
  <2>6. QED BY <2>3, <2>4, <2>5 DEF IInv
<1>6. CASE pc' = pc /\ taken' = taken + n /\ Emit(ChunkOf(part, taken + n = Len(said)))
  <2>1. part \in Text
    BY <1>2
  <2>2. ChunkOf(part, taken + n = Len(said)) \in Event /\ TextOf(ChunkOf(part, taken + n = Len(said))) = part
    <3>1. (taken + n = Len(said)) \in BOOLEAN
      OBVIOUS
    <3> HIDE DEF part
    <3>2. QED BY <2>1, <3>1, ChunkEvent
  <2>3. /\ events' \in Seq(Event) /\ (~req.stream => events' = <<>>)
        /\ Delivered' = IF req.stream THEN Delivered \o part ELSE Delivered
    BY <1>1, <1>6, <2>2, EmitGives DEF IInv
  <2>4. SubSeq(said, 1, taken) \o part = SubSeq(said, 1, taken + n)
    BY <1>1, <1>2 DEF Text
  <2>5. taken' \in 0..SizeOf(said) /\ taken' <= Len(said)
    BY <1>1, <1>2, <1>3, <1>6
  <2> HIDE DEF part
  <2>6. Types'
    BY <1>1, <1>6, <2>3, <2>5, SizesNext DEF IInv, Types, start, Place
  <2>7. ContentOK'
    BY <1>1, <1>6, <2>3, <2>4, <2>5 DEF ContentOK
  <2>8. DefaultIsBuildable'
    BY <1>1 DEF IInv, DefaultIsBuildable, start
  <2>9. QED BY <2>6, <2>7, <2>8 DEF IInv
<1>7. QED BY <1>4, <1>5, <1>6

LEMMA SpawnInv == IInv /\ Spawn => IInv'
<1> SUFFICES ASSUME IInv, Spawn PROVE IInv'
  OBVIOUS
<1>1. said' \in Text /\ SizeOf(said') \in Nat
  BY TextAssumption, BytesType DEF Spawn
<1>2. Delivered' = Delivered
  BY SilentGives DEF Spawn
<1>3. pc = "spawn" /\ text = <<>> /\ acc = <<>> /\ taken = 0 /\ Delivered = <<>>
  BY DEF IInv, ContentOK, Spawn
<1>4. Types'
  <2>1. taken' = 0 /\ 0 \in 0..SizeOf(said')
    BY <1>1, <1>3 DEF Spawn
  <2>2. pc' \in Place
    BY DEF Spawn, Goto, Place
  <2>3. QED BY <1>1, <2>1, <2>2, SizesNext DEF IInv, Types, Spawn, start
<1>5. ContentOK'
  BY <1>2, <1>3 DEF IInv, ContentOK, Spawn, Goto
<1>6. DefaultIsBuildable'
  BY DEF IInv, DefaultIsBuildable, Spawn, start
<1>7. QED BY <1>4, <1>5, <1>6 DEF IInv

(* Joining texts *)
LEMMA TextConcat ==
  ASSUME NEW a \in Text, NEW b \in Text
  PROVE  a \o b \in Text /\ a \o <<>> = a
<1>1. a \in Seq(Character) /\ b \in Seq(Character)
  BY DEF Text
<1>2. a \o b \in Seq(Character)
  BY ONLY <1>1, ConcatProperties
<1>3. a \o <<>> = a
  BY ONLY <1>1, ConcatEmptySeq
<1>4. QED BY <1>2, <1>3 DEF Text

LEMMA TextAssociates ==
  ASSUME NEW a \in Text, NEW b \in Text, NEW c \in Text
  PROVE  (a \o b) \o c = a \o (b \o c)
<1>1. a \in Seq(Character) /\ b \in Seq(Character) /\ c \in Seq(Character)
  BY DEF Text
<1>2. QED BY ONLY <1>1, ConcatAssociative

LEMMA ReadInv == IInv /\ (\E n \in 1..ReadSize : Read(n)) => IInv'
<1> SUFFICES ASSUME IInv, NEW n \in 1..ReadSize, Read(n) PROVE IInv'
  OBVIOUS
<1> DEFINE s == Decode(SubSeq(Unread, 1, n))
<1>1. n \in Nat /\ n <= Len(Unread)
  BY TextAssumption DEF Read
<1>2. s \in Text /\ taken + n \in 0..SizeOf(said)
  BY <1>1, ReadText DEF IInv
<1>3. /\ pc = "read" /\ pc' = "read" /\ taken' = taken + n /\ text' = text \o s
      /\ UNCHANGED <<start, req, said, outcome>>
      /\ \/ acc' = <<>> /\ Emit(ChunkOf(acc \o s, FALSE))
         \/ acc' = acc \o s /\ SizeOf(acc \o s) < FlushSize /\ UNCHANGED events
  <2>1. SizeOf(acc \o s) \in Nat /\ FlushSize \in Nat
    <3>1. acc \o s \in Text
      BY <1>2, TextsKnown DEF Text
    <3>2. FlushSize \in Nat
      BY TextAssumption
    <3>3. QED BY <3>1, <3>2, BytesType
  <2>2. /\ pc = "read" /\ pc' = pc /\ taken' = taken + n /\ text' = text \o s
        /\ UNCHANGED <<start, req, said, outcome>>
    BY DEF Read
  <2>3. IF SizeOf(acc \o s) >= FlushSize
        THEN acc' = <<>> /\ Emit(ChunkOf(acc \o s, FALSE))
        ELSE acc' = acc \o s /\ UNCHANGED events
    BY DEF Read
  <2> HIDE DEF s
  <2>4. CASE SizeOf(acc \o s) >= FlushSize
    BY <2>2, <2>3, <2>4
  <2>5. CASE SizeOf(acc \o s) < FlushSize
    BY <2>1, <2>2, <2>3, <2>5
  <2>6. SizeOf(acc \o s) >= FlushSize \/ SizeOf(acc \o s) < FlushSize
    BY <2>1
  <2>7. QED BY <2>4, <2>5, <2>6, Zenon
<1> HIDE DEF s
<1>4. /\ text \in Text /\ acc \in Text /\ (req.stream => text = Delivered \o acc)
      /\ acc \o s \in Text /\ text \o s \in Text /\ Delivered \in Text
  <2>1. text \in Text /\ acc \in Text /\ Delivered \in Text
    BY TextsKnown
  <2>2. req.stream => text = Delivered \o acc
    BY <1>3 DEF IInv, ContentOK
  <2>3. acc \o s \in Text /\ text \o s \in Text
    BY <1>2, <2>1 DEF Text
  <2>4. QED BY <2>1, <2>2, <2>3
<1>5. acc' \in Text /\ SizeOf(acc') < FlushSize /\ events' \in Seq(Event) /\ (~req.stream => events' = <<>>)
  <2>1. CASE acc' = <<>> /\ Emit(ChunkOf(acc \o s, FALSE))
    BY <1>3, <1>4, <2>1, ChunkEvent, EmitGives, NoText DEF IInv
  <2>2. CASE acc' = acc \o s /\ SizeOf(acc \o s) < FlushSize /\ UNCHANGED events
    BY <1>3, <1>4, <2>2 DEF IInv, Types
  <2>3. QED BY <1>3, <2>1, <2>2
<1>6. req.stream => text' = Delivered' \o acc'
  <2> SUFFICES ASSUME req.stream PROVE text' = Delivered' \o acc'
    OBVIOUS
  <2>1. text' = (Delivered \o acc) \o s
    BY <1>3, <1>4
  <2>5. (Delivered \o acc) \o s = Delivered \o (acc \o s)
    <3> DEFINE d == Delivered
               a == acc
    <3>1. d \in Text /\ a \in Text /\ s \in Text
      BY <1>2, <1>4
    <3> HIDE DEF d, a
    <3>2. (d \o a) \o s = d \o (a \o s)
      BY ONLY <3>1, TextAssociates
    <3>3. QED BY <3>2 DEF d, a
  <2>2. CASE acc' = <<>> /\ Emit(ChunkOf(acc \o s, FALSE))
    <3>1. Delivered' = Delivered \o (acc \o s)
      BY <1>3, <1>4, <2>2, ChunkEvent, EmitGives DEF IInv
    <3>2. (Delivered \o acc) \o s = Delivered \o (acc \o s)
      BY <2>5
    <3>3. Delivered' \in Text
      BY ONLY <1>4, <3>1, TextConcat
    <3>4. Delivered' \o acc' = Delivered'
      BY ONLY <2>2, <3>3, TextConcat
    <3>5. QED BY ONLY <2>1, <3>1, <3>2, <3>4
  <2>3. CASE acc' = acc \o s /\ UNCHANGED events
    <3>1. Delivered' = Delivered
      BY <2>3, SilentGives
    <3>2. (Delivered \o acc) \o s = Delivered \o (acc \o s)
      BY <2>5
    <3>3. QED BY ONLY <2>1, <2>3, <3>1, <3>2
  <2>4. QED BY <1>3, <2>2, <2>3
<1>7. Types'
  BY <1>2, <1>3, <1>4, <1>5, SizesNext DEF IInv, Types, start, Place
<1>8. ContentOK'
  BY <1>3, <1>6 DEF ContentOK
<1>9. DefaultIsBuildable'
  BY <1>3 DEF IInv, DefaultIsBuildable, start
<1>10. QED BY <1>7, <1>8, <1>9 DEF IInv

LEMMA ReadEndInv == IInv /\ (ReadEnd \/ ReadError) => IInv'
<1> SUFFICES ASSUME IInv, ReadEnd \/ ReadError PROVE IInv'
  OBVIOUS
<1>1. /\ pc = "read" /\ pc' = "tail"
      /\ UNCHANGED <<start, req, prompt, text, acc, said, taken, events, outcome>>
  BY DEF ReadEnd, ReadError, Goto
<1>2. Delivered' = Delivered
  BY <1>1, SilentGives
<1>3. Types'
  BY <1>1, SizesNext DEF IInv, Types, start, Place
<1>4. ContentOK'
  BY <1>1, <1>2 DEF IInv, ContentOK
<1>5. DefaultIsBuildable'
  BY <1>1 DEF IInv, DefaultIsBuildable, start
<1>6. QED BY <1>3, <1>4, <1>5 DEF IInv

(* What a step gives away of the answer *)
LEMMA GivesInv ==
  ASSUME IInv, NEW t \in Text, NEW stop \in BOOLEAN, Emit(ChunkOf(t, stop)),
         UNCHANGED <<start, req, text, said, taken, outcome>>, acc' \in {acc, <<>>}, pc' \in Place
  PROVE  Types' /\ DefaultIsBuildable' /\ Delivered \in Text
         /\ Delivered' = IF req.stream THEN Delivered \o t ELSE Delivered
<1>1. /\ events' \in Seq(Event) /\ (~req.stream => events' = <<>>)
      /\ Delivered \in Text
      /\ Delivered' = IF req.stream THEN Delivered \o t ELSE Delivered
  BY ChunkEvent, EmitGives DEF IInv
<1>2. Types'
  BY <1>1, SizesNext, NoText DEF IInv, Types, start
<1>3. DefaultIsBuildable'
  BY DEF IInv, DefaultIsBuildable, start
<1>4. QED BY <1>1, <1>2, <1>3

LEMMA FlushTailInv == IInv /\ FlushTail => IInv'
<1> SUFFICES ASSUME IInv, FlushTail PROVE IInv'
  OBVIOUS
<1>1. /\ pc = "tail" /\ pc' = "stop" /\ acc' = <<>>
      /\ UNCHANGED <<start, req, text, said, taken, outcome>>
      /\ \/ Emit(ChunkOf(acc, FALSE))
         \/ acc = <<>> /\ UNCHANGED events
  BY DEF FlushTail, Goto
<1>2. acc \in Text /\ (req.stream => text = Delivered \o acc) /\ Delivered \in Text
  BY <1>1, TextsKnown DEF IInv, ContentOK
<1>3. CASE Emit(ChunkOf(acc, FALSE))
  <2>1. Types' /\ DefaultIsBuildable' /\ Delivered' = IF req.stream THEN Delivered \o acc ELSE Delivered
    <3>1. pc' \in Place
      BY <1>1 DEF Place
    <3>2. QED BY <1>1, <1>2, <1>3, <3>1, GivesInv
  <2>2. ContentOK'
    BY <1>1, <1>2, <2>1 DEF ContentOK
  <2>3. QED BY <2>1, <2>2 DEF IInv
<1>4. CASE acc = <<>> /\ UNCHANGED events
  <2>1. Delivered' = Delivered
    BY <1>4, SilentGives
  <2>2. Types'
    BY <1>1, <1>4, SizesNext DEF IInv, Types, start, Place
  <2>3. req.stream => Delivered = text
    BY <1>2, <1>4 DEF Text
  <2>4. ContentOK'
    BY <1>1, <2>1, <2>3 DEF ContentOK
  <2>5. DefaultIsBuildable'
    BY <1>1 DEF IInv, DefaultIsBuildable, start
  <2>6. QED BY <2>2, <2>4, <2>5 DEF IInv
<1>5. QED BY <1>1, <1>3, <1>4

LEMMA GenerateInv == IInv /\ Generate => IInv'
<1> SUFFICES ASSUME IInv, Generate PROVE IInv'
  OBVIOUS
<1>1. text' \in Text
  BY TextAssumption DEF Generate
<1>2. Delivered' = Delivered
  BY SilentGives DEF Generate
<1>3. Types'
  BY <1>1, SizesNext DEF IInv, Types, Generate, start, Goto, Place
<1>4. ContentOK'
  BY <1>2 DEF IInv, ContentOK, Generate, Goto
<1>5. DefaultIsBuildable'
  BY DEF IInv, DefaultIsBuildable, Generate, start
<1>6. QED BY <1>3, <1>4, <1>5 DEF IInv

LEMMA WholeChunkInv == IInv /\ WholeChunk => IInv'
<1> SUFFICES ASSUME IInv, WholeChunk PROVE IInv'
  OBVIOUS
<1>1. /\ pc = "chunk" /\ pc' = "gen_done" /\ Emit(ChunkOf(text, FALSE))
      /\ UNCHANGED <<start, req, text, acc, said, taken, outcome>>
  BY DEF WholeChunk, Goto
<1>2. text \in Text /\ Delivered = <<>>
  BY <1>1 DEF IInv, Types, ContentOK
<1>3. Types' /\ DefaultIsBuildable' /\ Delivered' = IF req.stream THEN Delivered \o text ELSE Delivered
  <2>1. pc' \in Place
    BY <1>1 DEF Place
  <2>2. QED BY <1>1, <1>2, <2>1, GivesInv
<1>4. req.stream => Delivered' = text
  BY <1>2, <1>3 DEF Text
<1>5. ContentOK'
  BY <1>1, <1>4 DEF ContentOK
<1>6. QED BY <1>3, <1>5 DEF IInv

LEMMA Inductive == IInv /\ [Next]_vars => IInv'
<1> SUFFICES ASSUME IInv, [Next]_vars PROVE IInv'
  OBVIOUS
<1>1. CASE UNCHANGED vars
  <2>1. /\ UNCHANGED <<start, pc, req, text, acc, said, taken, events, outcome>>
        /\ Delivered' = Delivered
    BY <1>1, SilentGives DEF vars
  <2>2. Types'
    BY <2>1, SizesNext DEF IInv, Types, start
  <2>3. ContentOK' /\ DefaultIsBuildable'
    BY <2>1 DEF IInv, ContentOK, DefaultIsBuildable, start
  <2>4. QED BY <2>2, <2>3 DEF IInv
<1>2. CASE StartUp \/ Begin
  BY <1>2, StartUpInv, BeginInv
<1>3. CASE Refuse \/ SpawnFails \/ GenerateFails \/ Complete \/ ExtractPanics
  BY <1>3, EndInv
<1>4. CASE Accept \/ Queued \/ GenStart \/ GenDone \/ StopMarker
  BY <1>4, MarkInv
<1>5. CASE Synth \/ EchoChunk
  BY <1>5, SynthInv, EchoChunkInv
<1>6. CASE Spawn \/ (\E n \in 1..ReadSize : Read(n)) \/ ReadEnd \/ ReadError \/ FlushTail
  BY <1>6, SpawnInv, ReadInv, ReadEndInv, FlushTailInv
<1>7. CASE Generate \/ WholeChunk
  BY <1>7, GenerateInv, WholeChunkInv
<1>8. QED BY <1>1, <1>2, <1>3, <1>4, <1>5, <1>6, <1>7 DEF Next, Slot

LEMMA Invariance == Spec => []IInv
  BY InitInv, Inductive, PTL DEF Spec

-----------------------------------------------------------------------------
(***************************************************************************)
(* The contract of SlotHandle.                                             *)
(***************************************************************************)

Stage ==
  CASE pc \in {"start", "exit", "elsewhere", "idle"} -> "idle"
    [] pc \in {"accept", "queued"} -> "accepted"
    [] pc = "gen_start" -> "queued"
    [] pc = "return" -> "gen_done"
    [] OTHER -> "gen_start"

Answer ==
  CASE outcome.kind = "none" -> <<>>
    [] outcome.kind \in {"error", "panic"} -> <<"error">>
    [] outcome.kind = "ok" -> <<"ok", outcome.text>>

(* The kinds of the progress events among some events *)
Mark == {"queued", "gen_start", "gen_done"}

KindOf(e) == IF e.kind = "chunk" THEN <<>> ELSE <<e.kind>>

KindsOf(ev) == [i \in DOMAIN ev |-> KindOf(ev[i])]

LEMMA EventKind ==
  ASSUME NEW e \in Event
  PROVE  KindOf(e) \in Seq(Mark)
<1>1. CASE e.kind = "chunk"
  BY <1>1, EmptySeq DEF KindOf
<1>2. CASE ~(e.kind = "chunk")
  <2>1. e.kind \in Mark
    BY <1>2, Zenon DEF Event, Mark
  <2> DEFINE k == e.kind
  <2>2. KindOf(e) = <<k>>
    BY <1>2, Zenon DEF KindOf
  <2> HIDE DEF k
  <2>3. k \in Mark
    BY <2>1, Zenon DEF k
  <2>4. <<k>> \in Seq(Mark)
    BY <2>3
  <2>5. QED BY <2>2, <2>4
<1>3. QED BY <1>1, <1>2

LEMMA KindsType ==
  ASSUME NEW ev \in Seq(Event)
  PROVE  KindsOf(ev) \in Seq(Seq(Mark)) /\ Len(KindsOf(ev)) = Len(ev)
<1>1. \A i \in 1..Len(ev) : KindOf(ev[i]) \in Seq(Mark)
  BY EventKind
<1>2. DOMAIN ev = 1..Len(ev) /\ Len(ev) \in Nat
  OBVIOUS
<1>3. QED BY <1>1, <1>2 DEF KindsOf

LEMMA KindsAppend ==
  ASSUME NEW ev \in Seq(Event), NEW e \in Event
  PROVE  KindsOf(Append(ev, e)) = Append(KindsOf(ev), KindOf(e))
<1>1. Append(ev, e) \in Seq(Event) /\ Len(Append(ev, e)) = Len(ev) + 1 /\ Len(ev) \in Nat
  OBVIOUS
<1>2. /\ KindsOf(Append(ev, e)) \in Seq(Seq(Mark)) /\ Len(KindsOf(Append(ev, e))) = Len(ev) + 1
      /\ KindsOf(ev) \in Seq(Seq(Mark)) /\ Len(KindsOf(ev)) = Len(ev) /\ KindOf(e) \in Seq(Mark)
  BY <1>1, KindsType, EventKind
<1>3. \A i \in 1..Len(ev) + 1 :
        KindsOf(Append(ev, e))[i] = IF i <= Len(ev) THEN KindsOf(ev)[i] ELSE KindOf(e)
  BY <1>1 DEF KindsOf
<1>4. QED BY <1>1, <1>2, <1>3, SeqEqual, AppendProperties

LEMMA ProgressIs == Progress = FlattenSeq(KindsOf(events))
  BY DEF Progress, KindsOf, KindOf

LEMMA ProgressIsNext == Progress' = FlattenSeq(KindsOf(events))'
  BY DEF Progress, KindsOf, KindOf

LEMMA NoProgress == FlattenSeq(KindsOf(<<>>)) = <<>>
<1>1. KindsOf(<<>>) = <<>>
  BY DEF KindsOf
<1>2. QED BY <1>1, FlattenNothing

LEMMA EmitMarks ==
  ASSUME Types, NEW e \in Event, Emit(e), UNCHANGED req
  PROVE  /\ Progress \in Seq(Mark)
         /\ Progress' = IF req.stream THEN Progress \o KindOf(e) ELSE Progress
<1>1. events \in Seq(Event)
  BY DEF Types
<1>2. events' = IF req.stream THEN Append(events, e) ELSE events
  BY DEF Emit
<1>3. Progress' = FlattenSeq(KindsOf(events'))
  BY ProgressIsNext
<1>4. Progress \in Seq(Mark)
  BY <1>1, KindsType, FlattenType, ProgressIs
<1>5. FlattenSeq(KindsOf(Append(events, e))) = FlattenSeq(KindsOf(events)) \o KindOf(e)
  BY <1>1, KindsType, KindsAppend, EventKind, FlattenAppend
<1>6. QED BY <1>2, <1>3, <1>4, <1>5, ProgressIs

LEMMA SilentMarks ==
  ASSUME UNCHANGED events
  PROVE  Progress' = Progress
  BY DEF Progress

LEMMA ContractInit == Init => Contract!Init
<1> SUFFICES ASSUME Init PROVE Contract!Init
  OBVIOUS
<1>1. Delivered = <<>> /\ Progress = <<>>
  BY DeliveredIs, GiveNothing, ProgressIs, NoProgress DEF Init
<1>2. Stage = "idle" /\ Answer = <<>> /\ req.stream = FALSE
  BY DEF Init, Stage, Answer, Nothing, NoReq
<1>3. QED BY <1>1, <1>2 DEF Contract!Init, Stage, Answer

(* The contract's actions, over Stage and Answer *)
Admits   == /\ Stage = "idle" /\ Stage' = "accepted" /\ req'.stream \in BOOLEAN
            /\ Progress' = <<>> /\ Delivered' = <<>> /\ Answer' = <<>>
Marks(from, event) ==
            /\ Stage = from /\ Stage' = event /\ UNCHANGED <<req, Delivered, Answer>>
            /\ Progress' = IF req.stream THEN Append(Progress, event) ELSE Progress
Reports  == Marks("accepted", "queued") \/ Marks("queued", "gen_start") \/ Marks("gen_start", "gen_done")
Chunks   == /\ Stage = "gen_start" /\ Stage' = "gen_start" /\ req.stream /\ UNCHANGED <<req, Progress, Answer>>
            /\ Delivered' \in Text /\ IsPrefix(Delivered, Delivered')
Ends     == /\ Stage = "gen_done" /\ Stage' = "idle" /\ UNCHANGED <<req, Progress, Delivered>>
            /\ \E t \in Text : Answer' = <<"ok", t>> /\ (req.stream => t = Delivered)
Breaks   == /\ Stage \in {"accepted", "gen_start", "gen_done"} /\ Stage' = "idle"
            /\ Answer' = <<"error">> /\ UNCHANGED <<req, Progress, Delivered>>
Stays    == UNCHANGED <<Stage, req, Progress, Delivered, Answer>>

LEMMA ContractNext ==
  ASSUME Admits \/ Reports \/ Chunks \/ Ends \/ Breaks \/ Stays
  PROVE  [Contract!Next]_(Contract!vars)
<1>1. CASE Admits
  BY <1>1 DEF Admits, Contract!Next, Contract!Accept, Stage, Answer
<1>2. CASE Reports
  <2>1. CASE Marks("accepted", "queued")
    BY <2>1 DEF Marks, Contract!Next, Contract!Report, Stage, Answer
  <2>2. CASE Marks("queued", "gen_start")
    BY <2>2 DEF Marks, Contract!Next, Contract!Report, Stage, Answer
  <2>3. CASE Marks("gen_start", "gen_done")
    BY <2>3 DEF Marks, Contract!Next, Contract!Report, Stage, Answer
  <2>4. QED BY <1>2, <2>1, <2>2, <2>3 DEF Reports
<1>3. CASE Chunks
  BY <1>3 DEF Chunks, Contract!Next, Contract!Chunk, Contract!IsPrefix, IsPrefix, Stage, Answer
<1>4. CASE Ends
  <2>1. PICK t \in Text : Answer' = <<"ok", t>> /\ (req.stream => t = Delivered)
    BY <1>4 DEF Ends
  <2>2. Answer' \in {"ok"} \X Text /\ Answer'[2] = t
    BY <2>1
  <2>3. QED BY <1>4, <2>1, <2>2 DEF Ends, Contract!Next, Contract!Complete, Stage, Answer
<1>5. CASE Breaks
  BY <1>5 DEF Breaks, Contract!Next, Contract!Fail, Stage, Answer
<1>6. CASE Stays
  BY <1>6 DEF Stays, Contract!vars, Stage, Answer
<1>7. QED BY <1>1, <1>2, <1>3, <1>4, <1>5, <1>6

(* Each action of TextSlots does one of them *)
LEMMA Grows ==
  ASSUME IInv, Stage = "gen_start", Stage' = "gen_start", UNCHANGED <<req, outcome>>,
         NEW t \in Text, NEW stop \in BOOLEAN, Emit(ChunkOf(t, stop)) \/ UNCHANGED events
  PROVE  Chunks \/ Stays
<1>1. Answer' = Answer /\ req.stream \in BOOLEAN
  BY DEF Answer, IInv, Types
<1>2. CASE UNCHANGED events
  BY <1>1, <1>2, SilentGives, SilentMarks DEF Stays
<1>3. CASE Emit(ChunkOf(t, stop))
  <2>0. Progress' = Progress
    <3>1. ChunkOf(t, stop) \in Event /\ KindOf(ChunkOf(t, stop)) = <<>>
      BY ChunkEvent DEF KindOf, ChunkOf
    <3>2. Progress \in Seq(Mark) /\ Progress' = IF req.stream THEN Progress \o <<>> ELSE Progress
      BY <1>3, <3>1, EmitMarks DEF IInv
    <3>3. QED BY <3>2, ConcatEmptySeq
  <2>1. Delivered \in Text /\ Delivered' = IF req.stream THEN Delivered \o t ELSE Delivered
    BY <1>3, ChunkEvent, EmitGives DEF IInv
  <2>2. CASE req.stream
    <3>1. Delivered \o t \in Text /\ IsPrefix(Delivered, Delivered \o t)
      BY <2>1 DEF IsPrefix, Text
    <3>2. QED BY <1>1, <2>0, <2>1, <2>2, <3>1 DEF Chunks
  <2>3. CASE ~req.stream
    BY <1>1, <2>0, <2>1, <2>3 DEF Stays
  <2>4. QED BY <2>2, <2>3
<1>4. QED BY <1>2, <1>3

LEMMA StartUpStays == StartUp => Stays
<1> SUFFICES ASSUME StartUp PROVE Stays
  OBVIOUS
<1>1. pc = "start" /\ pc' \in {"exit", "elsewhere", "idle"} /\ UNCHANGED <<req, events, outcome>>
  <2>1. pc = "start"
    BY DEF StartUp
  <2>2. (\E r : Exit(r)) \/ (\E b : Serve(b))
    BY DEF StartUp
  <2>3. QED BY <2>1, <2>2 DEF Exit, Serve
<1>2. Delivered' = Delivered /\ Progress' = Progress
  BY <1>1, SilentGives, SilentMarks
<1>3. QED BY <1>1, <1>2 DEF Stays, Stage, Answer

LEMMA BeginAccepts == Begin => Admits
<1> SUFFICES ASSUME Begin PROVE Admits
  OBVIOUS
<1>1. Delivered' = <<>> /\ Progress' = <<>>
  BY DeliveredIsNext, GiveNothing, ProgressIsNext, NoProgress DEF Begin
<1>2. req'.stream \in BOOLEAN
  BY TextAssumption DEF Begin
<1>3. Answer' = <<>>
  BY DEF Begin, Answer, Nothing
<1>4. QED BY <1>1, <1>2, <1>3 DEF Begin, Admits, Stage, Goto

LEMMA FailureBreaks == Refuse \/ SpawnFails \/ GenerateFails \/ ExtractPanics => Breaks
<1> SUFFICES ASSUME Refuse \/ SpawnFails \/ GenerateFails \/ ExtractPanics PROVE Breaks
  OBVIOUS
<1>1. /\ pc \in {"accept", "spawn", "generate", "return"} /\ pc' = "idle" /\ UNCHANGED <<req, events>>
      /\ outcome'.kind \in {"error", "panic"}
  BY DEF Refuse, SpawnFails, GenerateFails, ExtractPanics, Fails, Return, Goto
<1>2. Delivered' = Delivered /\ Progress' = Progress
  BY <1>1, SilentGives, SilentMarks
<1>3. QED BY <1>1, <1>2 DEF Breaks, Stage, Answer

LEMMA CompleteEnds == IInv /\ Complete => Ends
<1> SUFFICES ASSUME IInv, Complete PROVE Ends
  OBVIOUS
<1>1. /\ pc = "return" /\ pc' = "idle" /\ UNCHANGED <<req, text, events>>
      /\ outcome'.kind = "ok" /\ outcome'.text = text
  BY DEF Complete, Return, Goto
<1>2. Delivered' = Delivered /\ Progress' = Progress
  BY <1>1, SilentGives, SilentMarks
<1>3. text \in Text /\ (req.stream => text = Delivered)
  BY <1>1, TextsKnown DEF IInv, ContentOK
<1>4. Answer' = <<"ok", text>>
  BY <1>1 DEF Answer
<1>5. QED BY <1>1, <1>2, <1>3, <1>4 DEF Ends, Stage

LEMMA MarkReports ==
  IInv /\ (Accept \/ Queued \/ GenStart \/ GenDone \/ StopMarker) => Reports \/ Stays
<1> SUFFICES ASSUME IInv, Accept \/ Queued \/ GenStart \/ GenDone \/ StopMarker PROVE Reports \/ Stays
  OBVIOUS
<1>1. UNCHANGED <<req, outcome>> /\ Delivered' = Delivered
  BY MarkSilent
<1>2. Answer' = Answer
  BY <1>1 DEF Answer
<1>3. CASE Accept
  <2>1. Progress' = Progress
    BY <1>3, SilentMarks DEF Accept
  <2>2. pc = "accept" /\ pc' = "queued"
    BY <1>3 DEF Accept, Goto
  <2>3. QED BY <1>1, <1>2, <2>1, <2>2 DEF Stays, Stage
<1>4. CASE StopMarker
  <2>1. ChunkOf(<<>>, TRUE) \in Event /\ KindOf(ChunkOf(<<>>, TRUE)) = <<>>
    BY EmptySeq DEF ChunkOf, Event, KindOf, Text
  <2>2. Progress \in Seq(Mark) /\ Progress' = IF req.stream THEN Progress \o <<>> ELSE Progress
    BY <1>1, <1>4, <2>1, EmitMarks DEF IInv, StopMarker
  <2>3. Progress' = Progress
    BY <2>2, ConcatEmptySeq
  <2>4. pc = "stop" /\ pc' = "gen_done"
    BY <1>4 DEF StopMarker, Goto
  <2>5. QED BY <1>1, <1>2, <2>3, <2>4 DEF Stays, Stage
<1>5. ASSUME NEW m \in Mark, Emit([kind |-> m])
      PROVE  Progress' = IF req.stream THEN Append(Progress, m) ELSE Progress
  <2>1. [kind |-> m] \in Event /\ KindOf([kind |-> m]) = <<m>>
    BY DEF Event, KindOf, Mark
  <2>2. Progress \in Seq(Mark) /\ Progress' = IF req.stream THEN Progress \o <<m>> ELSE Progress
    BY <1>1, <1>5, <2>1, EmitMarks DEF IInv
  <2>3. Progress \o <<m>> = Append(Progress, m)
    BY <2>2
  <2>4. QED BY <2>2, <2>3
<1>6. CASE Queued
  <2>1. pc = "queued" /\ pc' = "gen_start" /\ Emit([kind |-> "queued"])
    BY <1>6 DEF Queued, Goto
  <2>2. Progress' = IF req.stream THEN Append(Progress, "queued") ELSE Progress
    BY <1>5, <2>1 DEF Mark
  <2>3. QED BY <1>1, <1>2, <2>1, <2>2 DEF Reports, Marks, Stage
<1>7. CASE GenStart
  <2>1. pc = "gen_start" /\ pc' \in {"synth", "spawn", "generate"} /\ Emit([kind |-> "gen_start"])
    BY <1>7 DEF GenStart, Goto
  <2>2. Progress' = IF req.stream THEN Append(Progress, "gen_start") ELSE Progress
    BY <1>5, <2>1 DEF Mark
  <2>3. QED BY <1>1, <1>2, <2>1, <2>2 DEF Reports, Marks, Stage
<1>8. CASE GenDone
  <2>1. pc = "gen_done" /\ pc' = "return" /\ Emit([kind |-> "gen_done"])
    BY <1>8 DEF GenDone, Goto
  <2>2. Progress' = IF req.stream THEN Append(Progress, "gen_done") ELSE Progress
    BY <1>5, <2>1 DEF Mark
  <2>3. QED BY <1>1, <1>2, <2>1, <2>2 DEF Reports, Marks, Stage
<1>9. QED BY <1>3, <1>4, <1>6, <1>7, <1>8

LEMMA SilentStays == Synth \/ Spawn \/ ReadEnd \/ ReadError \/ Generate => Stays
<1> SUFFICES ASSUME Synth \/ Spawn \/ ReadEnd \/ ReadError \/ Generate PROVE Stays
  OBVIOUS
<1>1. /\ UNCHANGED <<req, events, outcome>>
      /\ pc \in {"synth", "spawn", "read", "generate"} /\ pc' \in {"echo", "read", "tail", "chunk"}
  BY DEF Synth, Spawn, ReadEnd, ReadError, Generate, Goto
<1>2. Delivered' = Delivered /\ Progress' = Progress
  BY <1>1, SilentGives, SilentMarks
<1>3. QED BY <1>1, <1>2 DEF Stays, Stage, Answer

LEMMA ChunkGrows ==
  IInv /\ (EchoChunk \/ FlushTail \/ WholeChunk \/ \E n \in 1..ReadSize : Read(n)) => Chunks \/ Stays
<1> SUFFICES ASSUME IInv, EchoChunk \/ FlushTail \/ WholeChunk \/ \E n \in 1..ReadSize : Read(n)
             PROVE  Chunks \/ Stays
  OBVIOUS
<1>1. PICK t \in Text, stop \in BOOLEAN : Emit(ChunkOf(t, stop)) \/ UNCHANGED events
  <2>1. CASE EchoChunk
    <3> DEFINE n == Min({EchoSize, Len(said) - taken})
    <3>1. \/ UNCHANGED events
          \/ Emit(ChunkOf(SubSeq(said, taken + 1, taken + n), taken + n = Len(said)))
      BY <2>1 DEF EchoChunk
    <3>2. CASE UNCHANGED events
      BY <3>2, NoText
    <3>3. CASE Emit(ChunkOf(SubSeq(said, taken + 1, taken + n), taken + n = Len(said)))
      <4>1. SubSeq(said, taken + 1, taken + n) \in Text
        BY <2>1, EchoPart
      <4>2. (taken + n = Len(said)) \in BOOLEAN
        OBVIOUS
      <4> HIDE DEF n
      <4>3. QED BY <3>3, <4>1, <4>2
    <3>4. QED BY <3>1, <3>2, <3>3
  <2>2. CASE FlushTail \/ WholeChunk
    <3>1. acc \in Text /\ text \in Text /\ FALSE \in BOOLEAN
      BY TextsKnown
    <3>2. Emit(ChunkOf(acc, FALSE)) \/ Emit(ChunkOf(text, FALSE)) \/ UNCHANGED events
      BY <2>2 DEF FlushTail, WholeChunk
    <3>3. QED BY <3>1, <3>2
  <2>3. ASSUME NEW n \in 1..ReadSize, Read(n)
        PROVE  \E t \in Text, stop \in BOOLEAN : Emit(ChunkOf(t, stop)) \/ UNCHANGED events
    <3> DEFINE s == Decode(SubSeq(Unread, 1, n))
    <3>1. n \in Nat /\ n <= Len(Unread)
      BY <2>3, TextAssumption DEF Read
    <3>2. s \in Text
      BY <3>1, ReadText DEF IInv
    <3>3. Emit(ChunkOf(acc \o s, FALSE)) \/ UNCHANGED events
      BY <2>3 DEF Read
    <3> HIDE DEF s
    <3>4. acc \o s \in Text /\ FALSE \in BOOLEAN
      BY <3>2, TextsKnown DEF Text
    <3>5. QED BY <3>3, <3>4
  <2>4. QED BY <2>1, <2>2, <2>3
<1>2. /\ UNCHANGED <<req, outcome>>
      /\ pc \in {"echo", "read", "tail", "chunk"} /\ pc' \in {"echo", "read", "stop", "gen_done"}
  BY DEF EchoChunk, FlushTail, WholeChunk, Read, Goto
<1>3. Stage = "gen_start" /\ Stage' = "gen_start"
  BY <1>2 DEF Stage
<1>4. QED BY <1>1, <1>2, <1>3, Grows

LEMMA ContractStep == IInv /\ [Next]_vars => [Contract!Next]_(Contract!vars)
<1> SUFFICES ASSUME IInv, [Next]_vars PROVE [Contract!Next]_(Contract!vars)
  OBVIOUS
<1>1. CASE UNCHANGED vars
  <2>1. Delivered' = Delivered /\ Progress' = Progress
    BY <1>1, SilentGives, SilentMarks DEF vars
  <2>2. Stays
    BY <1>1, <2>1 DEF vars, Stays, Stage, Answer
  <2>3. QED BY <2>2, ContractNext
<1>2. CASE Next
  <2>1. Admits \/ Reports \/ Chunks \/ Ends \/ Breaks \/ Stays
    BY <1>2, StartUpStays, BeginAccepts, FailureBreaks, CompleteEnds, MarkReports, SilentStays, ChunkGrows
       DEF Next, Slot
  <2>2. QED BY <2>1, ContractNext
<1>3. QED BY <1>1, <1>2

-----------------------------------------------------------------------------
(***************************************************************************)
(* The prompt of LlamaSlot.                                                *)
(***************************************************************************)

PromptOK ==
  /\ req.system \in Text /\ req.results \in Seq(ToSet(req.results))
  /\ prompt # <<>> => prompt = Assemble(req) /\ req.input.kind \in {"text", "turns"}

LEMMA PromptInit == Init => PromptOK
<1> SUFFICES ASSUME Init PROVE PromptOK
  OBVIOUS
<1>1. req.system = <<>> /\ req.results = <<>> /\ prompt = <<>>
  BY DEF Init, NoReq
<1>2. <<>> \in Seq(ToSet(<<>>)) /\ <<>> \in Text
  BY EmptySeq DEF Text
<1>3. QED BY <1>1, <1>2 DEF PromptOK

LEMMA PromptStep == PromptOK /\ [Next]_vars => PromptOK'
<1> SUFFICES ASSUME PromptOK, [Next]_vars PROVE PromptOK'
  OBVIOUS
<1>1. CASE UNCHANGED <<req, prompt>>
  BY <1>1 DEF PromptOK
<1>2. CASE Begin
  <2>1. req' \in Requests /\ prompt' = <<>>
    BY <1>2 DEF Begin
  <2>2. req'.system \in Text /\ req'.results \in Seq(ToSet(req'.results))
    BY <2>1, TextAssumption
  <2>3. QED BY <2>1, <2>2 DEF PromptOK
<1>3. CASE Accept
  <2>1. /\ req' = req /\ Supports(kind, req.input)
        /\ prompt' = IF kind = "llama-cpp" THEN Assemble(req) ELSE <<>>
    BY <1>3 DEF Accept
  <2>2. kind = "llama-cpp" => req.input.kind \in {"text", "turns"}
    BY <2>1 DEF Supports
  <2>3. QED BY <2>1, <2>2 DEF PromptOK
<1>4. CASE StartUp
  <2>1. (\E r : Exit(r)) \/ (\E b : Serve(b))
    BY <1>4 DEF StartUp
  <2>2. QED BY <1>1, <2>1 DEF Exit, Serve
<1>5. CASE Refuse \/ SpawnFails \/ GenerateFails \/ Complete \/ ExtractPanics
  <2>1. \E o : Return(o)
    BY <1>5 DEF Refuse, SpawnFails, GenerateFails, Complete, ExtractPanics, Fails
  <2>2. QED BY <1>1, <2>1 DEF Return
<1>6. CASE Queued \/ GenStart \/ GenDone \/ Synth \/ EchoChunk \/ Spawn \/ ReadEnd \/ ReadError \/ FlushTail
           \/ StopMarker \/ (\E n \in 1..ReadSize : Read(n)) \/ Generate \/ WholeChunk
  BY <1>1, <1>6 DEF Queued, GenStart, GenDone, Synth, EchoChunk, Spawn, ReadEnd, ReadError, FlushTail,
     StopMarker, Read, Generate, WholeChunk
<1>7. CASE UNCHANGED vars
  BY <1>1, <1>7 DEF vars
<1>8. QED BY <1>2, <1>3, <1>4, <1>5, <1>6, <1>7 DEF Next, Slot

(* A text is no tool response *)
LEMMA NotResponse ==
  ASSUME NEW t \in Text, NEW r
  PROVE  t # Response(r)
<1>1. "tool_response" \notin Character
  BY DEF Character, Chars, Identifier, Letters, Blank, Marker, Quote, Backslash, Replacement
<1>2. t = Response(r) => t[1] = "tool_response" /\ Len(t) = 2
  BY DEF Response
<1>3. Len(t) = 2 => t[1] \in Character
  BY DEF Text
<1>4. QED BY <1>1, <1>2, <1>3

(* Blocks m + 1 to m + n of a prompt are the results', the others are none *)
LEMMA ResultsWindow ==
  ASSUME NEW S, prompt \in Seq(S), NEW m \in Nat, m + Len(req.results) <= Len(prompt),
         req.results \in Seq(ToSet(req.results)),
         \A i \in 1..Len(prompt) :
           IF i <= m \/ i > m + Len(req.results) THEN prompt[i].of \in Text
           ELSE prompt[i].of = Response(req.results[i - m])
  PROVE  LET results == Without(prompt, {i \in DOMAIN prompt : ~IsResult(prompt[i])})
         IN  [i \in DOMAIN results |-> results[i].of]
               = [i \in DOMAIN req.results |-> Response(req.results[i])]
<1> DEFINE n == Len(req.results)
           L == Len(prompt)
           P == {i \in DOMAIN prompt : ~IsResult(prompt[i])}
           results == Without(prompt, P)
<1>1. n \in Nat /\ L \in Nat /\ DOMAIN prompt = 1..L /\ DOMAIN req.results = 1..n
  OBVIOUS
<1>2. ASSUME NEW i \in 1..L PROVE i \in P <=> i <= m \/ i > m + n
  <2>1. CASE i <= m \/ i > m + n
    <3>1. prompt[i].of \in Text
      BY <2>1
    <3>2. ~IsResult(prompt[i])
      BY <3>1, NotResponse DEF IsResult
    <3>3. QED BY <1>1, <2>1, <3>2
  <2>2. CASE ~(i <= m \/ i > m + n)
    <3>1. i - m \in 1..n /\ prompt[i].of = Response(req.results[i - m])
      BY <1>1, <2>2
    <3>2. IsResult(prompt[i])
      BY <1>1, <3>1 DEF IsResult
    <3>3. QED BY <2>2, <3>2
  <2>3. QED BY <2>1, <2>2
<1>3. results = SubSeq(prompt, m + 1, m + n)
  <2> DEFINE q == [i \in DOMAIN prompt |-> IF i \in P THEN <<>> ELSE <<prompt[i]>>]
  <2> HIDE DEF P
  <2>1. \A i \in 1..L : (IF i \in P THEN <<>> ELSE <<prompt[i]>>) \in Seq(S)
    BY <1>1, EmptySeq
  <2>2. q \in Seq(Seq(S)) /\ Len(q) = L
    BY <1>1, <2>1
  <2>3. \A i \in 1..L : q[i] = IF i <= m \/ i > m + n THEN <<>> ELSE <<prompt[i]>>
    BY <1>1, <1>2
  <2>4. results = FlattenSeq(q)
    BY DEF Without
  <2> HIDE DEF q, results
  <2>5. prompt \in Seq(S) /\ m \in Nat /\ n \in Nat /\ m + n <= Len(prompt) /\ Len(q) = Len(prompt)
    BY <1>1, <2>2
  <2>6. \A i \in 1..Len(prompt) : q[i] = IF i <= m \/ i > m + n THEN <<>> ELSE <<prompt[i]>>
    BY <2>3
  <2>7. q \in Seq(Seq(S))
    BY <2>2
  <2> HIDE DEF n, L
  <2>8. FlattenSeq(q) = SubSeq(prompt, m + 1, m + n)
    BY ONLY <2>5, <2>6, <2>7, FlattenWindow
  <2>9. QED BY <2>4, <2>8
<1> HIDE DEF results, P
<1>4. Len(results) = n /\ results \in Seq(S) /\ \A i \in 1..n : results[i] = prompt[m + i]
  BY <1>1, <1>3
<1>5. ASSUME NEW i \in 1..n PROVE results[i].of = Response(req.results[i])
  <2>1. m + n <= L /\ m \in Nat
    OBVIOUS
  <2>2. m + i \in 1..L /\ ~(m + i <= m \/ m + i > m + n) /\ m + i - m = i
    <3> HIDE DEF n, L
    <3>1. QED BY ONLY <1>1, <2>1, i \in 1..n
  <2>3. prompt[m + i].of = Response(req.results[m + i - m])
    <3> DEFINE k == m + i
    <3>1. k \in 1..Len(prompt) /\ ~(k <= m \/ k > m + Len(req.results))
      BY <2>2
    <3> HIDE DEF k, n, L
    <3>2. prompt[k].of = Response(req.results[k - m])
      BY <3>1
    <3>3. QED BY <3>2 DEF k
  <2>4. QED BY <1>4, <2>2, <2>3
<1>6. DOMAIN results = 1..n
  BY <1>4
<1>7. [i \in DOMAIN results |-> results[i].of] = [i \in DOMAIN req.results |-> Response(req.results[i])]
  BY <1>1, <1>5, <1>6
<1>8. QED BY <1>7 DEF results, P

(* The prompt for a text: the results, and the text behind them *)
LEMMA TextPrompt ==
  ASSUME PromptOK, IsInput(req.input), prompt # <<>>, req.input.kind = "text"
  PROVE  PromptComplete
<1> DEFINE n == Len(req.results)
           X == ToSet(req.results)
           S == {Block("raw", Response(x)) : x \in X} \cup {Block("raw", req.input.text)}
           front == [i \in DOMAIN req.results |-> Block("raw", Response(req.results[i]))]
           systems == {i \in DOMAIN prompt : prompt[i].as = "system"}
<1>1. req.results \in Seq(X) /\ n \in Nat /\ DOMAIN req.results = 1..n /\ req.input.text \in Text
  BY DEF PromptOK, IsInput
<1>2. prompt = front \o <<Block("raw", req.input.text)>>
  BY DEF PromptOK, Assemble, PrependToolResults
<1>3. front \in Seq(S) /\ Len(front) = n /\ <<Block("raw", req.input.text)>> \in Seq(S)
  BY <1>1
<1> HIDE DEF S, X, front
<1>4. prompt \in Seq(S) /\ Len(prompt) = n + 1
      /\ \A i \in 1..(n + 1) : prompt[i] = IF i <= n THEN front[i] ELSE Block("raw", req.input.text)
  BY <1>1, <1>2, <1>3
<1>5. ASSUME NEW i \in 1..(n + 1)
      PROVE  /\ prompt[i].as = "raw"
             /\ prompt[i].of = IF i <= n THEN Response(req.results[i]) ELSE req.input.text
  <2>1. CASE i <= n
    <3>1. i \in DOMAIN req.results
      BY <1>1, <2>1
    <3>2. front[i] = Block("raw", Response(req.results[i]))
      BY <3>1 DEF front
    <3>3. QED BY <1>4, <2>1, <3>2 DEF Block
  <2>2. CASE ~(i <= n)
    <3>1. prompt[i] = Block("raw", req.input.text)
      BY <1>4, <2>2
    <3>2. QED BY <2>2, <3>1 DEF Block
  <2>3. QED BY <2>1, <2>2
<1>6. systems = {}
  <2>1. \A i \in 1..(n + 1) : prompt[i].as # "system"
    BY <1>5
  <2>2. DOMAIN prompt = 1..(n + 1)
    BY <1>1, <1>4
  <2>3. QED BY <2>1, <2>2
<1>7. ASSUME NEW i \in 1..Len(prompt)
      PROVE  IF i <= 0 \/ i > 0 + n THEN prompt[i].of \in Text ELSE prompt[i].of = Response(req.results[i - 0])
  <2>1. i \in 1..(n + 1) /\ ~(i <= 0) /\ i - 0 = i /\ (i <= n <=> ~(i > 0 + n))
    BY <1>1, <1>4
  <2>2. prompt[i].of = IF i <= n THEN Response(req.results[i]) ELSE req.input.text
    BY <1>5, <2>1
  <2>3. QED BY <1>1, <2>1, <2>2
<1>8. LET results == Without(prompt, {i \in DOMAIN prompt : ~IsResult(prompt[i])})
      IN  [i \in DOMAIN results |-> results[i].of] = [i \in DOMAIN req.results |-> Response(req.results[i])]
  <2>1. 0 \in Nat /\ 0 + n <= Len(prompt)
    BY <1>1, <1>4
  <2>2. req.results \in Seq(ToSet(req.results))
    BY DEF PromptOK
  <2>3. QED BY <1>4, <1>7, <2>1, <2>2, ResultsWindow
<1>9. ~(req.input.kind = "turns")
  OBVIOUS
<1>10. QED BY <1>6, <1>8, <1>9 DEF PromptComplete

(* The blocks of the prompt for turns: perhaps a system prompt, the turns,  *)
(* the results, and the start of the answer                                 *)
LEMMA TurnsBlocks ==
  ASSUME PromptOK, IsInput(req.input), prompt # <<>>, req.input.kind = "turns",
         NEW a, a = IF req.system = <<>> \/ OpensWithSystem(req.input.turns \o ToolResultsToTurns(req.results))
                    THEN 0 ELSE 1
  PROVE  LET turns == req.input.turns
             n     == Len(req.results)
         IN  /\ \E S : prompt \in Seq(S)
             /\ Len(prompt) = a + Len(turns) + n + 1
             /\ \A i \in 1..a : prompt[i] = Block("system", req.system)
             /\ \A i \in 1..Len(turns) :
                  prompt[a + i] = Block(Template(turns[i].role), turns[i].content)
             /\ \A i \in 1..n : prompt[a + Len(turns) + i] = Block("user", Response(req.results[i]))
             /\ prompt[a + Len(turns) + n + 1] = Block("assistant_start", <<>>)
<1> DEFINE turns == req.input.turns
           n == Len(req.results)
           T == Len(turns)
           X == ToSet(req.results)
           W == Turn \cup {[role |-> "tool", content |-> Response(x)] : x \in X}
           S == {Block(Template(w.role), w.content) : w \in W}
                  \cup {Block("system", req.system), Block("assistant_start", <<>>)}
           given == ToolResultsToTurns(req.results)
           all == turns \o given
           mapped == [i \in DOMAIN all |-> Block(Template(all[i].role), all[i].content)]
           system == SystemBlock(all, req.system)
           last == <<Block("assistant_start", <<>>)>>
<1>1. turns \in Seq(Turn) /\ T \in Nat /\ req.results \in Seq(X) /\ n \in Nat
      /\ DOMAIN req.results = 1..n /\ DOMAIN turns = 1..T
  BY DEF PromptOK, IsInput
<1>2. given \in Seq(W) /\ Len(given) = n
      /\ \A i \in 1..n : given[i] = [role |-> "tool", content |-> Response(req.results[i])]
  BY <1>1 DEF ToolResultsToTurns
<1>3. turns \in Seq(W)
  BY <1>1
<1>4. prompt = system \o mapped \o last
  BY DEF PromptOK, Assemble, RenderTurns
<1>5. system \in Seq(S) /\ Len(system) = a /\ a \in {0, 1}
      /\ \A i \in 1..a : system[i] = Block("system", req.system)
  <2>1. <<Block("system", req.system)>> \in Seq(S) /\ <<>> \in Seq(S)
    BY EmptySeq
  <2>2. CASE req.system = <<>> \/ OpensWithSystem(all)
    <3>1. a = 0 /\ system = <<>>
      BY <2>2 DEF SystemBlock
    <3>2. QED BY <2>1, <3>1, EmptySeq
  <2>3. CASE ~(req.system = <<>> \/ OpensWithSystem(all))
    <3>1. a = 1 /\ system = <<Block("system", req.system)>>
      BY <2>3 DEF SystemBlock
    <3> HIDE DEF system, S
    <3>2. QED BY <2>1, <3>1
  <2>4. QED BY <2>2, <2>3
<1> HIDE DEF W, given
<1>6. all \in Seq(W) /\ Len(all) = T + n
      /\ (\A i \in 1..T : all[i] = turns[i]) /\ \A i \in 1..n : all[T + i] = given[i]
  <2>1. given \in Seq(W) /\ Len(given) = n
    BY <1>2
  <2> HIDE DEF n, turns, X
  <2>2. all \in Seq(W)
    BY ONLY <2>1, <1>3, ConcatPlaces
  <2>3. Len(all) = Len(turns) + Len(given)
    BY ONLY <2>1, <1>3, ConcatPlaces
  <2>4. \A i \in 1..Len(turns) : all[i] = turns[i]
    BY ONLY <2>1, <1>3, ConcatPlaces
  <2>5. \A i \in 1..Len(given) : all[Len(turns) + i] = given[i]
    BY ONLY <2>1, <1>3, ConcatPlaces
  <2>6. QED BY ONLY <2>1, <2>2, <2>3, <2>4, <2>5
<1>7. mapped \in Seq(S) /\ Len(mapped) = T + n
      /\ \A i \in 1..(T + n) : mapped[i] = Block(Template(all[i].role), all[i].content)
  <2> HIDE DEF all
  <2> HIDE DEF T, n, turns
  <2>1. DOMAIN all = 1..(T + n) /\ \A i \in 1..(T + n) : all[i] \in W
    BY ONLY <1>6
  <2>2. \A i \in 1..(T + n) : Block(Template(all[i].role), all[i].content) \in S
    BY <2>1
  <2>3. T + n \in Nat
    BY <1>1
  <2> DEFINE m == T + n
  <2> HIDE DEF S, m
  <2>4. /\ DOMAIN mapped = 1..m
        /\ \A i \in 1..m : mapped[i] = Block(Template(all[i].role), all[i].content)
    BY <2>1 DEF m
  <2>5. mapped = [i \in 1..m |-> mapped[i]] /\ (\A i \in 1..m : mapped[i] \in S) /\ m \in Nat
    BY <2>1, <2>2, <2>3, <2>4 DEF m
  <2> HIDE DEF mapped
  <2>6. mapped \in Seq(S) /\ Len(mapped) = m
    BY ONLY <2>5
  <2>7. QED BY <2>4, <2>6 DEF m
<1>8. last \in Seq(S) /\ Len(last) = 1 /\ last[1] = Block("assistant_start", <<>>)
  OBVIOUS
<1> HIDE DEF S, system, mapped, last, all, T, n
<1>9. /\ prompt \in Seq(S) /\ Len(prompt) = a + (T + n) + 1
      /\ \A i \in 1..a : prompt[i] = system[i]
      /\ \A i \in 1..(T + n) : prompt[a + i] = mapped[i]
      /\ prompt[a + (T + n) + 1] = last[1]
  <2> DEFINE both == system \o mapped
  <2>1. both \in Seq(S) /\ Len(both) = a + (T + n)
        /\ (\A i \in 1..a : both[i] = system[i]) /\ \A i \in 1..(T + n) : both[a + i] = mapped[i]
    BY ONLY <1>5, <1>7, ConcatPlaces
  <2>2. prompt = both \o last
    BY <1>4
  <2> HIDE DEF both
  <2>3. /\ prompt \in Seq(S) /\ Len(prompt) = a + (T + n) + 1
        /\ \A i \in 1..(a + (T + n)) : prompt[i] = both[i]
        /\ \A i \in 1..1 : prompt[a + (T + n) + i] = last[i]
    <3> DEFINE m == a + (T + n)
    <3>1. both \in Seq(S) /\ Len(both) = m
      BY <2>1
    <3> HIDE DEF m
    <3>2. prompt \in Seq(S) /\ Len(prompt) = m + 1
      BY ONLY <1>8, <2>2, <3>1, ConcatPlaces
    <3>3. \A i \in 1..m : prompt[i] = both[i]
      BY ONLY <1>8, <2>2, <3>1, ConcatPlaces
    <3>4. \A i \in 1..1 : prompt[m + i] = last[i]
      BY ONLY <1>8, <2>2, <3>1, ConcatPlaces
    <3>5. QED BY <3>2, <3>3, <3>4 DEF m
  <2>4. \A i \in 1..(T + n) : a + i \in 1..(a + (T + n))
    BY <1>1, <1>5
  <2>5. \A i \in 1..a : i \in 1..(a + (T + n))
    BY <1>1, <1>5
  <2>6. QED BY <2>1, <2>3, <2>4, <2>5
<1>10. ASSUME NEW i \in 1..T
       PROVE  prompt[a + i] = Block(Template(turns[i].role), turns[i].content)
  <2>1. i \in 1..(T + n)
    BY <1>1
  <2>2. all[i] = turns[i]
    BY <1>6
  <2>3. QED BY <1>7, <1>9, <2>1, <2>2
<1>11. ASSUME NEW i \in 1..n
       PROVE  prompt[a + T + i] = Block("user", Response(req.results[i]))
  <2>1. T + i \in 1..(T + n) /\ a + T + i = a + (T + i)
    BY <1>1, <1>5
  <2>2. all[T + i] = [role |-> "tool", content |-> Response(req.results[i])]
    BY <1>2, <1>6, <2>1
  <2>3. Template(all[T + i].role) = "user" /\ all[T + i].content = Response(req.results[i])
    BY <2>2 DEF Template
  <2>4. QED BY <1>7, <1>9, <2>1, <2>3
<1>12. a + (T + n) + 1 = a + T + n + 1
  BY <1>1, <1>5
<1>13. QED BY <1>5, <1>8, <1>9, <1>10, <1>11, <1>12 DEF T, n

(* Which of the client's turns asks for no system prompt *)
LEMMA OpensWith ==
  ASSUME NEW turns \in Seq(Turn), NEW results, results \in Seq(ToSet(results))
  PROVE  OpensWithSystem(turns \o ToolResultsToTurns(results)) <=> OpensWithSystem(turns)
<1> DEFINE X == ToSet(results)
           W == Turn \cup {[role |-> "tool", content |-> Response(x)] : x \in X}
           given == ToolResultsToTurns(results)
           all == turns \o given
<1>1. given \in Seq(W) /\ Len(given) = Len(results)
      /\ \A i \in 1..Len(results) : given[i] = [role |-> "tool", content |-> Response(results[i])]
  <2>1. results \in Seq(X)
    OBVIOUS
  <2>2. QED BY <2>1 DEF ToolResultsToTurns
<1>2. turns \in Seq(W)
  OBVIOUS
<1> HIDE DEF W, given
<1>3. ASSUME NEW i \in 1..Len(results) PROVE given[i].role = "tool"
  <2>1. given[i] = [role |-> "tool", content |-> Response(results[i])]
    BY <1>1
  <2>2. QED BY ONLY <2>1
<1>4. CASE turns # <<>>
  <2>1. 1 \in 1..Len(turns) /\ Len(turns) \in Nat
    BY <1>4
  <2>2. given \in Seq(W) /\ Len(given) = Len(results)
    BY <1>1
  <2>3. all[1] = turns[1]
    BY ONLY <1>2, <2>1, <2>2, ConcatPlaces
  <2>4. all \in Seq(W) /\ Len(all) = Len(turns) + Len(results)
    <3> DEFINE m == Len(results)
    <3>1. given \in Seq(W) /\ Len(given) = m
      BY <2>2
    <3> HIDE DEF m
    <3>2. all \in Seq(W)
      BY ONLY <1>2, <3>1, ConcatPlaces
    <3>3. Len(all) = Len(turns) + m
      BY ONLY <1>2, <3>1, ConcatPlaces
    <3>4. QED BY <3>2, <3>3 DEF m
  <2> HIDE DEF all
  <2>5. all # <<>>
    BY <2>1, <2>2, <2>4
  <2>6. QED BY <1>4, <2>3, <2>5 DEF OpensWithSystem, given, all
<1>5. CASE turns = <<>>
  <2>1. all = given
    BY <1>1, <1>5, ConcatEmptySeq
  <2>2. given # <<>> => 1 \in 1..Len(results)
    BY <1>1
  <2>3. given # <<>> => given[1].role # "system"
    BY <1>3, <2>2
  <2>4. QED BY <1>5, <2>1, <2>3 DEF OpensWithSystem, given
<1>6. QED BY <1>4, <1>5

(* The prompt for turns *)
LEMMA TurnsPrompt ==
  ASSUME PromptOK, IsInput(req.input), prompt # <<>>, req.input.kind = "turns"
  PROVE  PromptComplete
<1> DEFINE turns == req.input.turns
           n == Len(req.results)
           T == Len(turns)
           a == IF req.system = <<>> \/ OpensWithSystem(turns \o ToolResultsToTurns(req.results))
                THEN 0 ELSE 1
           systems == {i \in DOMAIN prompt : prompt[i].as = "system"}
<1>1. turns \in Seq(Turn) /\ T \in Nat /\ req.results \in Seq(ToSet(req.results)) /\ n \in Nat
      /\ req.system \in Text /\ a \in {0, 1} /\ DOMAIN turns = 1..T
  BY DEF PromptOK, IsInput
<1>2. /\ \E S : prompt \in Seq(S)
      /\ Len(prompt) = a + T + n + 1
      /\ \A i \in 1..a : prompt[i] = Block("system", req.system)
      /\ \A i \in 1..T : prompt[a + i] = Block(Template(turns[i].role), turns[i].content)
      /\ \A i \in 1..n : prompt[a + T + i] = Block("user", Response(req.results[i]))
      /\ prompt[a + T + n + 1] = Block("assistant_start", <<>>)
  <2> HIDE DEF a
  <2>1. a = IF req.system = <<>> \/ OpensWithSystem(turns \o ToolResultsToTurns(req.results)) THEN 0 ELSE 1
    BY DEF a
  <2> HIDE DEF T, n, turns
  <2>2. QED BY ONLY <2>1, PromptOK, IsInput(req.input), prompt # <<>>, req.input.kind = "turns",
               TurnsBlocks DEF turns, T, n
<1>3. OpensWithSystem(turns \o ToolResultsToTurns(req.results)) <=> OpensWithSystem(turns)
  BY <1>1, OpensWith
<1>4. a = 0 <=> req.system = <<>> \/ OpensWithSystem(turns)
  BY <1>3
<1>5. \A i \in 1..T : turns[i].content \in Text /\ turns[i].role \in {"system", "user", "assistant", "tool"}
  <2> HIDE DEF turns
  <2>1. \A i \in 1..T : turns[i] \in Turn
    BY <1>1
  <2>2. QED BY <2>1 DEF Turn
<1> HIDE DEF a, n, T
<1>6. ASSUME NEW i \in 1..Len(prompt)
      PROVE  \/ i \in 1..a
             \/ i - a \in 1..T /\ i = a + (i - a)
             \/ i - (a + T) \in 1..n /\ i = a + T + (i - (a + T))
             \/ i = a + T + n + 1
  BY <1>1, <1>2
<1>7. ASSUME NEW i \in 1..Len(prompt)
      PROVE  IF i <= a + T \/ i > a + T + n THEN prompt[i].of \in Text
             ELSE prompt[i].of = Response(req.results[i - (a + T)])
  <2>1. CASE i \in 1..a
    <3>1. i <= a + T
      BY <1>1, <2>1
    <3>2. QED BY <1>1, <1>2, <2>1, <3>1 DEF Block
  <2>2. CASE i - a \in 1..T /\ i = a + (i - a)
    <3>1. i <= a + T
      BY <1>1, <2>2
    <3>2. prompt[i] = Block(Template(turns[i - a].role), turns[i - a].content)
      BY <1>2, <2>2
    <3>3. QED BY <1>5, <2>2, <3>1, <3>2 DEF Block
  <2>3. CASE i - (a + T) \in 1..n /\ i = a + T + (i - (a + T))
    <3>1. ~(i <= a + T \/ i > a + T + n)
      BY <1>1, <2>3
    <3>2. prompt[i] = Block("user", Response(req.results[i - (a + T)]))
      BY <1>2, <2>3
    <3>3. prompt[i].of = Response(req.results[i - (a + T)])
      BY <3>2 DEF Block
    <3>4. QED BY <3>1, <3>3
  <2>4. CASE i = a + T + n + 1
    <3>1. i > a + T + n
      BY <1>1, <2>4
    <3>2. prompt[i].of = <<>>
      BY <1>2, <2>4 DEF Block
    <3>3. QED BY <3>1, <3>2, EmptySeq DEF Text
  <2>5. QED BY <1>6, <2>1, <2>2, <2>3, <2>4
<1>8. LET results == Without(prompt, {i \in DOMAIN prompt : ~IsResult(prompt[i])})
      IN  [i \in DOMAIN results |-> results[i].of] = [i \in DOMAIN req.results |-> Response(req.results[i])]
  <2>1. a + T \in Nat /\ a + T + n <= Len(prompt)
    BY <1>1, <1>2
  <2>2. PICK S : prompt \in Seq(S)
    BY <1>2
  <2>3. QED BY <1>1, <1>7, <2>1, <2>2, ResultsWindow DEF n
<1>9. DOMAIN prompt = 1..Len(prompt) /\ 1 \in 1..Len(prompt)
  BY <1>1, <1>2
<1>10. ASSUME req.system # <<>> \/ OpensWithSystem(turns)
       PROVE  prompt[1] = Block("system", IF OpensWithSystem(turns) THEN turns[1].content ELSE req.system)
  <2>1. CASE OpensWithSystem(turns)
    <3>1. turns # <<>> /\ turns[1].role = "system" /\ a = 0
      BY <1>4, <2>1 DEF OpensWithSystem
    <3>2. 1 \in 1..T /\ a + 1 = 1
      BY <1>1, <3>1 DEF T
    <3>3. prompt[a + 1] = Block(Template(turns[1].role), turns[1].content)
      BY <1>2, <3>2
    <3>4. QED BY <2>1, <3>1, <3>2, <3>3 DEF Template
  <2>2. CASE ~OpensWithSystem(turns)
    <3>1. a = 1
      BY <1>1, <1>4, <1>10, <2>2
    <3>2. QED BY <1>2, <2>2, <3>1
  <2>3. QED BY <2>1, <2>2
<1>11. ASSUME \A i \in 2..T : turns[i].role # "system"
       PROVE  systems \subseteq {1}
  <2> SUFFICES ASSUME NEW i \in 1..Len(prompt), prompt[i].as = "system" PROVE i = 1
    BY <1>9
  <2>1. CASE i \in 1..a
    BY <1>1, <2>1
  <2>2. CASE i - a \in 1..T /\ i = a + (i - a)
    <3>1. prompt[i] = Block(Template(turns[i - a].role), turns[i - a].content)
      BY <1>2, <2>2
    <3>2. turns[i - a].role = "system"
      BY <2>2, <3>1 DEF Block, Template
    <3>3. i - a = 1
      BY <1>1, <1>11, <2>2, <3>2
    <3>4. turns # <<>> /\ turns[1].role = "system"
      BY <1>1, <2>2, <3>2, <3>3 DEF T
    <3>5. a = 0
      BY <1>4, <3>4 DEF OpensWithSystem
    <3>6. QED BY <3>3, <3>5
  <2>3. CASE i - (a + T) \in 1..n /\ i = a + T + (i - (a + T))
    <3>1. prompt[i] = Block("user", Response(req.results[i - (a + T)]))
      BY <1>2, <2>3
    <3>2. prompt[i].as = "user"
      BY <3>1 DEF Block
    <3>3. QED BY <3>2
  <2>4. CASE i = a + T + n + 1
    <3>1. prompt[i].as = "assistant_start"
      BY <1>2, <2>4 DEF Block
    <3>2. QED BY <3>1
  <2>5. QED BY <1>6, <2>1, <2>2, <2>3, <2>4
<1>12. ~(req.input.kind = "text")
  OBVIOUS
<1>13. QED BY <1>8, <1>10, <1>11, <1>12 DEF PromptComplete, T

-----------------------------------------------------------------------------
(***************************************************************************)
(* What the reads of SubprocessSlot make of a text.                        *)
(***************************************************************************)

(* The first i characters of s *)
Upto(s, i) == SubSeq(s, 1, i)

Left(e) == [k \in 1..e |-> Replacement]

(* After which of its bytes character i of s is cut, if the reads that end  *)
(* inside a character end at K                                              *)
CutsOf(s, K, i) == {k \in 1..(Width(s[i]) - 1) : SizeOf(Upto(s, i - 1)) + k \in K}

(* What character i becomes when it is read to its end *)
PartOf(s, K, i) == IF CutsOf(s, K, i) = {} THEN <<s[i]>>
                   ELSE Left(1 + Width(s[i]) - Min(CutsOf(s, K, i)))

(* The first j bytes of s gave t: a part for each character of q, and       *)
(* replacements for b bytes of one that is cut and not read to its end      *)
Cut(s, K, j, t, q, b) ==
  /\ b \in 0..3
  /\ q \in Seq(Text) /\ Len(q) <= Len(s) /\ \A k \in 1..Len(q) : q[k] = PartOf(s, K, k)
  /\ j = SizeOf(Upto(s, Len(q))) + b
  /\ b = 0 => t = FlattenSeq(q)
  /\ b # 0 => /\ Len(q) < Len(s) /\ b < Width(s[Len(q) + 1])
              /\ CutsOf(s, K, Len(q) + 1) # {} /\ Min(CutsOf(s, K, Len(q) + 1)) <= b
              /\ t = FlattenSeq(q) \o Left(1 + b - Min(CutsOf(s, K, Len(q) + 1)))

CutAt(s, K, j, t) == \E q, b : Cut(s, K, j, t, q, b)

LEMMA LeftType ==
  /\ \A e \in 0..4 : Left(e) \in Text /\ Len(Left(e)) = e
  /\ Left(1) = <<Replacement>>
  /\ \A e \in 0..3 : Left(e) \o <<Replacement>> = Left(e + 1)
<1>1. Replacement \in Character
  BY DEF Character
<1>2. \A e \in 0..4 : Left(e) \in Text /\ Len(Left(e)) = e /\ \A k \in 1..e : Left(e)[k] = Replacement
  BY <1>1 DEF Left, Text
<1>3. Left(1) = <<Replacement>>
  <2>1. Left(1) \in Seq(Character) /\ Len(Left(1)) = 1 /\ Left(1)[1] = Replacement
    <3>1. 1 \in 0..4 /\ 1 \in 1..1
      OBVIOUS
    <3>2. QED BY <1>2, <3>1 DEF Text
  <2>2. <<Replacement>> \in Seq(Character) /\ Len(<<Replacement>>) = 1
    BY <1>1
  <2>3. \A k \in 1..1 : Left(1)[k] = <<Replacement>>[k]
    BY <2>1
  <2>4. QED BY <2>1, <2>2, <2>3, SeqEqual
<1>4. ASSUME NEW e \in 0..3 PROVE Left(e) \o <<Replacement>> = Left(e + 1)
  <2>1. Left(e) \in Text /\ Left(e + 1) \in Text /\ Len(Left(e)) = e /\ Len(Left(e + 1)) = e + 1
        /\ (\A k \in 1..e : Left(e)[k] = Replacement)
        /\ \A k \in 1..(e + 1) : Left(e + 1)[k] = Replacement
    <3>1. e \in 0..4 /\ e + 1 \in 0..4
      OBVIOUS
    <3>2. QED BY <1>2, <3>1
  <2>2. <<Replacement>> \in Text
    BY <1>1 DEF Text
  <2>3. Left(e) \o <<Replacement>> \in Text /\ Len(Left(e) \o <<Replacement>>) = e + 1
        /\ \A k \in 1..(e + 1) : (Left(e) \o <<Replacement>>)[k] = Replacement
    BY <2>1, <2>2 DEF Text
  <2>4. QED BY <2>1, <2>3, SeqEqual DEF Text
<1>5. QED BY <1>2, <1>3, <1>4

(* The first cut of a character *)
LEMMA FirstCut ==
  ASSUME NEW s, NEW K, NEW i, CutsOf(s, K, i) # {}
  PROVE  /\ Min(CutsOf(s, K, i)) \in CutsOf(s, K, i) /\ Min(CutsOf(s, K, i)) \in 1..(Width(s[i]) - 1)
         /\ \A k \in CutsOf(s, K, i) : Min(CutsOf(s, K, i)) <= k
<1> DEFINE C == CutsOf(s, K, i)
           w == Width(s[i])
<1>1. w \in 1..4
  BY WidthType
<1>2. C \subseteq 1..(w - 1) /\ C \subseteq Nat /\ C # {}
  BY <1>1 DEF CutsOf
<1> HIDE DEF C, w
<1>3. PICK x \in C : \A y \in C : x <= y
  BY <1>2, LeastOf
<1>4. \A y \in C : (\A z \in C : y <= z) => y = x
  BY <1>2, <1>3
<1>5. Min(C) = x
  BY <1>3, <1>4 DEF Min
<1>6. QED BY <1>2, <1>3, <1>5 DEF C, w

LEMMA PartType ==
  ASSUME NEW s \in Text, NEW K, NEW i \in 1..Len(s)
  PROVE  PartOf(s, K, i) \in Text
<1>1. <<s[i]>> \in Text
  BY DEF Text
<1>2. ASSUME CutsOf(s, K, i) # {} PROVE Left(1 + Width(s[i]) - Min(CutsOf(s, K, i))) \in Text
  <2>1. Min(CutsOf(s, K, i)) \in 1..(Width(s[i]) - 1) /\ Width(s[i]) \in 1..4
    BY <1>2, FirstCut, WidthType
  <2>2. 1 + Width(s[i]) - Min(CutsOf(s, K, i)) \in 0..4
    BY <2>1
  <2>3. QED BY <2>2, LeftType
<1>3. QED BY <1>1, <1>2 DEF PartOf

(* The bytes of two texts *)
LEMMA BytesConcat ==
  ASSUME NEW s \in Text, NEW t \in Text
  PROVE  /\ BytesOf(s \o t) = BytesOf(s) \o BytesOf(t)
         /\ SizeOf(s \o t) = SizeOf(s) + SizeOf(t)
<1> DEFINE st == s \o t
           S == Seq(CharByte)
<1>1. st \in Text /\ Len(st) = Len(s) + Len(t) /\ Len(s) \in Nat /\ Len(t) \in Nat
      /\ (\A i \in 1..Len(s) : st[i] = s[i]) /\ \A i \in 1..Len(t) : st[Len(s) + i] = t[i]
  BY ConcatPlaces DEF Text
<1> HIDE DEF st
<1>2. /\ Spelled(s) \in Seq(S) /\ Len(Spelled(s)) = Len(s)
      /\ Spelled(t) \in Seq(S) /\ Len(Spelled(t)) = Len(t)
      /\ Spelled(st) \in Seq(S) /\ Len(Spelled(st)) = Len(s) + Len(t)
  BY <1>1, SpelledType
<1>3. /\ \A i \in 1..Len(s) : Spelled(s)[i] = BytesOfChar(s[i])
      /\ \A i \in 1..Len(t) : Spelled(t)[i] = BytesOfChar(t[i])
      /\ \A i \in 1..(Len(s) + Len(t)) : Spelled(st)[i] = BytesOfChar(st[i])
  BY <1>1 DEF Spelled, Text
<1>4. Spelled(st) = Spelled(s) \o Spelled(t)
  <2> DEFINE both == Spelled(s) \o Spelled(t)
  <2>1. both \in Seq(S) /\ Len(both) = Len(s) + Len(t)
        /\ (\A i \in 1..Len(s) : both[i] = Spelled(s)[i])
        /\ \A i \in 1..Len(t) : both[Len(s) + i] = Spelled(t)[i]
    <3> DEFINE ss == Spelled(s)
               ts == Spelled(t)
    <3>1. ss \in Seq(S) /\ ts \in Seq(S) /\ Len(ss) = Len(s) /\ Len(ts) = Len(t)
      BY <1>2
    <3> HIDE DEF ss, ts, S
    <3>2. ss \o ts \in Seq(S) /\ Len(ss \o ts) = Len(ss) + Len(ts)
      BY ONLY <3>1, ConcatPlaces
    <3>3. \A i \in 1..Len(ss) : (ss \o ts)[i] = ss[i]
      BY ONLY <3>1, ConcatPlaces
    <3>4. \A i \in 1..Len(ts) : (ss \o ts)[Len(ss) + i] = ts[i]
      BY ONLY <3>1, ConcatPlaces
    <3>5. QED BY <3>1, <3>2, <3>3, <3>4 DEF ss, ts
  <2> HIDE DEF both
  <2>2. ASSUME NEW i \in 1..(Len(s) + Len(t)) PROVE both[i] = Spelled(st)[i]
    <3>1. CASE i <= Len(s)
      <4>1. i \in 1..Len(s)
        BY <1>1, <3>1
      <4>2. QED BY <1>1, <1>3, <2>1, <4>1
    <3>2. CASE ~(i <= Len(s))
      <4>1. PICK k \in 1..Len(t) : i = Len(s) + k
        <5>1. i - Len(s) \in 1..Len(t) /\ i = Len(s) + (i - Len(s))
          BY <1>1, <3>2
        <5>2. QED BY <5>1
      <4>2. QED BY <1>1, <1>3, <2>1, <4>1
    <3>3. QED BY <3>1, <3>2
  <2>3. both = Spelled(st)
    BY <1>2, <2>1, <2>2, SeqEqual
  <2>4. QED BY <2>3 DEF both
<1>5. BytesOf(st) = BytesOf(s) \o BytesOf(t)
  <2>1. BytesOf(st) = FlattenSeq(Spelled(st)) /\ BytesOf(s) = FlattenSeq(Spelled(s))
        /\ BytesOf(t) = FlattenSeq(Spelled(t))
    BY <1>1, SpelledType
  <2>2. FlattenSeq(Spelled(s) \o Spelled(t)) = FlattenSeq(Spelled(s)) \o FlattenSeq(Spelled(t))
    BY <1>2, FlattenConcat
  <2>3. QED BY <1>4, <2>1, <2>2
<1>6. QED BY <1>5, BytesType, ConcatProperties DEF SizeOf, st

(* Where the bytes of a character are *)
LEMMA BytesAt ==
  ASSUME NEW s \in Text, NEW i \in Nat, i < Len(s)
  PROVE  /\ SizeOf(Upto(s, i)) \in Nat /\ SizeOf(s) \in Nat
         /\ SizeOf(Upto(s, i + 1)) = SizeOf(Upto(s, i)) + Width(s[i + 1])
         /\ SizeOf(Upto(s, i + 1)) <= SizeOf(s)
         /\ \A k \in 1..Width(s[i + 1]) :
              BytesOf(s)[SizeOf(Upto(s, i)) + k] = [c |-> s[i + 1], k |-> k]
<1> DEFINE a == Upto(s, i)
           c == s[i + 1]
           b == SubSeq(s, i + 2, Len(s))
<1>1. Len(s) \in Nat /\ a \in Text /\ c \in Character /\ b \in Text
  BY DEF Text, Upto
<1>2. Upto(s, i + 1) = Append(a, c)
  BY DEF Text, Upto
<1>3. s = Append(a, c) \o b
  <2> DEFINE ac == Append(a, c)
             all == ac \o b
             L == Len(s)
  <2>1. s \in Seq(Character) /\ L \in Nat
    BY DEF Text
  <2>2. ac \in Seq(Character) /\ Len(ac) = i + 1 /\ \A k \in 1..(i + 1) : ac[k] = s[k]
    BY DEF Text, Upto
  <2>3. b \in Seq(Character) /\ Len(b) = L - (i + 1) /\ \A k \in 1..(L - (i + 1)) : b[k] = s[i + 1 + k]
    BY DEF Text
  <2> HIDE DEF ac, b, L
  <2>4. all \in Seq(Character) /\ Len(all) = L
    <3>1. all \in Seq(Character) /\ Len(all) = Len(ac) + Len(b)
      BY ONLY <2>2, <2>3, ConcatPlaces
    <3>2. QED BY <2>1, <2>2, <2>3, <3>1
  <2>5. \A k \in 1..(i + 1) : all[k] = s[k]
    <3>1. \A k \in 1..Len(ac) : all[k] = ac[k]
      BY ONLY <2>2, <2>3, ConcatPlaces
    <3>2. QED BY <2>2, <3>1
  <2>6. \A k \in 1..(L - (i + 1)) : all[i + 1 + k] = s[i + 1 + k]
    <3>1. \A k \in 1..Len(b) : all[Len(ac) + k] = b[k]
      BY ONLY <2>2, <2>3, ConcatPlaces
    <3>2. QED BY <2>2, <2>3, <3>1
  <2> HIDE DEF all
  <2>7. ASSUME NEW k \in 1..L PROVE all[k] = s[k]
    <3>1. CASE k \in 1..(i + 1)
      BY <2>5, <3>1
    <3>2. CASE k \notin 1..(i + 1)
      <4>1. PICK n \in 1..(L - (i + 1)) : k = i + 1 + n
        <5>1. k - (i + 1) \in 1..(L - (i + 1)) /\ k = i + 1 + (k - (i + 1))
          BY <2>1, <3>2
        <5>2. QED BY <5>1
      <4>2. QED BY <2>6, <4>1
    <3>3. QED BY <3>1, <3>2
  <2>8. all = s
    BY <2>1, <2>4, <2>7, SeqEqual DEF L
  <2>9. QED BY <2>8 DEF all, ac
<1> HIDE DEF a, b, c
<1>4. Append(a, c) \in Text /\ BytesOf(Append(a, c)) = BytesOf(a) \o BytesOfChar(c)
      /\ SizeOf(Append(a, c)) = SizeOf(a) + Width(c)
  <2>1. Append(a, c) \in Text
    BY <1>1 DEF Text
  <2>2. QED BY ONLY <1>1, <2>1, BytesAppend
<1>5. SizeOf(a) \in Nat /\ SizeOf(b) \in Nat /\ Width(c) \in 1..4
  BY <1>1, BytesType, WidthType
<1>6. BytesOf(s) = (BytesOf(a) \o BytesOfChar(c)) \o BytesOf(b)
      /\ SizeOf(s) = SizeOf(a) + Width(c) + SizeOf(b)
  BY <1>1, <1>3, <1>4, BytesConcat
<1>7. ASSUME NEW k \in 1..Width(c) PROVE BytesOf(s)[SizeOf(a) + k] = [c |-> c, k |-> k]
  <2>1. BytesOf(a) \in Seq(CharByte) /\ Len(BytesOf(a)) = SizeOf(a) /\ BytesOf(b) \in Seq(CharByte)
        /\ BytesOfChar(c) \in Seq(CharByte) /\ Len(BytesOfChar(c)) = Width(c)
    BY <1>1, BytesType, CharBytes DEF SizeOf
  <2> DEFINE ac == BytesOf(a) \o BytesOfChar(c)
  <2>2. ac \in Seq(CharByte) /\ Len(ac) = SizeOf(a) + Width(c) /\ ac[SizeOf(a) + k] = BytesOfChar(c)[k]
    <3>1. ac \in Seq(CharByte) /\ Len(ac) = Len(BytesOf(a)) + Len(BytesOfChar(c))
      BY ONLY <2>1, ConcatPlaces
    <3>2. \A n \in 1..Len(BytesOfChar(c)) : ac[Len(BytesOf(a)) + n] = BytesOfChar(c)[n]
      BY ONLY <2>1, ConcatPlaces
    <3>3. QED BY <2>1, <3>1, <3>2
  <2> HIDE DEF ac
  <2>3. SizeOf(a) + k \in 1..(SizeOf(a) + Width(c))
    BY <1>5
  <2>4. (ac \o BytesOf(b))[SizeOf(a) + k] = ac[SizeOf(a) + k]
    BY <2>1, <2>2, <2>3, ConcatPlaces
  <2>5. BytesOfChar(c)[k] = [c |-> c, k |-> k]
    BY DEF BytesOfChar
  <2>6. QED BY <1>6, <2>2, <2>4, <2>5 DEF ac
<1>8. SizeOf(s) \in Nat /\ SizeOf(a) + Width(c) <= SizeOf(s)
  BY <1>5, <1>6
<1>9. QED BY <1>2, <1>4, <1>5, <1>7, <1>8 DEF a, c

(* The byte behind those that gave t *)
LEMMA NextByte ==
  ASSUME NEW s \in Text, NEW K, NEW j, NEW t, NEW q, NEW b, Cut(s, K, j, t, q, b), j < SizeOf(s)
  PROVE  /\ Len(q) \in Nat /\ Len(q) < Len(s) /\ s[Len(q) + 1] \in Character /\ j \in Nat
         /\ b + 1 <= Width(s[Len(q) + 1])
         /\ j = SizeOf(Upto(s, Len(q))) + b /\ SizeOf(Upto(s, Len(q))) \in Nat
         /\ SizeOf(Upto(s, Len(q) + 1)) = j - b + Width(s[Len(q) + 1])
         /\ SizeOf(Upto(s, Len(q) + 1)) <= SizeOf(s)
         /\ BytesOf(s)[j + 1] = [c |-> s[Len(q) + 1], k |-> b + 1]
         /\ \A k \in 1..Width(s[Len(q) + 1]) :
              BytesOf(s)[SizeOf(Upto(s, Len(q))) + k] = [c |-> s[Len(q) + 1], k |-> k]
<1> DEFINE n == Len(q)
<1>1. /\ b \in 0..3 /\ q \in Seq(Text) /\ n <= Len(s) /\ j = SizeOf(Upto(s, n)) + b
      /\ b # 0 => n < Len(s) /\ b < Width(s[n + 1])
  BY DEF Cut
<1>2. n \in Nat /\ Len(s) \in Nat
  BY <1>1 DEF Text
<1>3. n < Len(s)
  <2>1. CASE b # 0
    BY <1>1, <2>1
  <2>2. CASE b = 0 /\ n = Len(s)
    <3>1. Upto(s, n) = s
      BY <2>2 DEF Upto, Text
    <3>2. SizeOf(s) \in Nat
      BY BytesType
    <3>3. QED BY <1>1, <2>2, <3>1, <3>2
  <2>3. QED BY <1>1, <1>2, <2>1, <2>2
<1> HIDE DEF n
<1>4. s[n + 1] \in Character
  BY <1>2, <1>3 DEF Text
<1>5. Width(s[n + 1]) \in 1..4 /\ b + 1 \in 1..Width(s[n + 1])
  <2>1. Width(s[n + 1]) \in 1..4
    BY WidthType
  <2>2. QED BY <1>1, <2>1
<1>6. /\ SizeOf(Upto(s, n)) \in Nat
      /\ SizeOf(Upto(s, n + 1)) = SizeOf(Upto(s, n)) + Width(s[n + 1])
      /\ SizeOf(Upto(s, n + 1)) <= SizeOf(s)
      /\ \A k \in 1..Width(s[n + 1]) : BytesOf(s)[SizeOf(Upto(s, n)) + k] = [c |-> s[n + 1], k |-> k]
  BY <1>2, <1>3, BytesAt
<1>7. SizeOf(Upto(s, n)) + (b + 1) = j + 1
  BY <1>1, <1>6
<1>8. BytesOf(s)[j + 1] = [c |-> s[n + 1], k |-> b + 1]
  BY <1>5, <1>6, <1>7
<1>9. SizeOf(Upto(s, n + 1)) = j - b + Width(s[n + 1]) /\ j \in Nat
  BY <1>1, <1>5, <1>6
<1>10. QED BY <1>1, <1>2, <1>3, <1>4, <1>5, <1>6, <1>8, <1>9 DEF n

(* A character more is done *)
LEMMA CharDone ==
  ASSUME NEW s \in Text, NEW K, NEW j, NEW t, NEW q, NEW b, Cut(s, K, j, t, q, b),
         Len(q) < Len(s), NEW r, r = FlattenSeq(q) \o PartOf(s, K, Len(q) + 1)
  PROVE  CutAt(s, K, SizeOf(Upto(s, Len(q) + 1)), r)
<1> DEFINE n == Len(q)
           p == PartOf(s, K, n + 1)
           more == Append(q, p)
<1>1. q \in Seq(Text) /\ \A k \in 1..n : q[k] = PartOf(s, K, k)
  BY DEF Cut
<1>2. n \in Nat /\ Len(s) \in Nat /\ n < Len(s) /\ n + 1 \in 1..Len(s)
  BY <1>1 DEF Text
<1>3. p \in Text
  BY <1>2, PartType
<1>4. more \in Seq(Text) /\ Len(more) = n + 1 /\ \A k \in 1..(n + 1) : more[k] = PartOf(s, K, k)
  <2>1. more \in Seq(Text) /\ Len(more) = n + 1 /\ (\A k \in 1..n : more[k] = q[k]) /\ more[n + 1] = p
    <3> HIDE DEF p
    <3>1. QED BY <1>1, <1>3, AppendProperties
  <2>2. \A k \in 1..(n + 1) : k \in 1..n \/ k = n + 1
    BY <1>2
  <2> HIDE DEF n, more
  <2>3. ASSUME NEW k \in 1..(n + 1) PROVE more[k] = PartOf(s, K, k)
    <3>1. CASE k \in 1..n
      BY <1>1, <2>1, <3>1
    <3>2. CASE k = n + 1
      BY <2>1, <3>2
    <3>3. QED BY <2>2, <3>1, <3>2
  <2>4. QED BY <2>1, <2>3
<1>5. FlattenSeq(more) = FlattenSeq(q) \o p
  <2> HIDE DEF p
  <2>1. QED BY <1>1, <1>3, FlattenAppend DEF Text
<1> HIDE DEF more
<1>6. r = FlattenSeq(more)
  BY <1>5
<1>7. n + 1 <= Len(s) /\ SizeOf(Upto(s, n + 1)) = SizeOf(Upto(s, n + 1)) + 0
  <2>1. Upto(s, n + 1) \in Text
    BY <1>2 DEF Upto, Text
  <2>2. QED BY <1>2, <2>1, BytesType
<1>8. Cut(s, K, SizeOf(Upto(s, n + 1)), r, more, 0)
  <2> HIDE DEF p
  <2>1. QED BY <1>4, <1>6, <1>7 DEF Cut
<1>9. QED BY <1>8 DEF CutAt

(* A byte alone *)
LEMMA ByteRead ==
  ASSUME NEW s \in Text, NEW K, NEW j, NEW t \in Text, CutAt(s, K, j, t), j < SizeOf(s),
         BytesOf(s)[j + 1].k > 1
  PROVE  CutAt(s, K, j + 1, t \o <<Replacement>>)
<1>1. PICK q, b : Cut(s, K, j, t, q, b)
  BY DEF CutAt
<1>0. b \in 0..3
  BY <1>1 DEF Cut
<1> DEFINE n == Len(q)
           w == Width(s[n + 1])
           f == Min(CutsOf(s, K, n + 1))
<1>2. /\ n \in Nat /\ n < Len(s) /\ s[n + 1] \in Character /\ j \in Nat
      /\ b + 1 <= w /\ j = SizeOf(Upto(s, n)) + b /\ SizeOf(Upto(s, n)) \in Nat
      /\ SizeOf(Upto(s, n + 1)) = j - b + w
      /\ BytesOf(s)[j + 1] = [c |-> s[n + 1], k |-> b + 1]
  BY <1>1, NextByte
<1>3. w \in 1..4
  BY WidthType
<1>4. b # 0
  BY <1>0, <1>2
<1>5. /\ q \in Seq(Text) /\ t = FlattenSeq(q) \o Left(1 + b - f) /\ b < w
      /\ CutsOf(s, K, n + 1) # {} /\ f <= b
  BY <1>1, <1>4 DEF Cut
<1>6. f \in 1..(w - 1)
  BY <1>5, FirstCut
<1> HIDE DEF f
<1>7. t \o <<Replacement>> = FlattenSeq(q) \o Left(1 + (b + 1) - f)
  <2>1. 1 + b - f \in 0..3 /\ 1 + b - f + 1 = 1 + (b + 1) - f
    BY <1>0, <1>3, <1>5, <1>6
  <2>2. FlattenSeq(q) \in Seq(Character) /\ Left(1 + b - f) \in Seq(Character) /\ <<Replacement>> \in Seq(Character)
    <3>1. Replacement \in Character /\ 1 + b - f \in 0..4
      BY <2>1 DEF Character
    <3>2. QED BY <1>5, <3>1, FlattenType, LeftType DEF Text
  <2>3. (FlattenSeq(q) \o Left(1 + b - f)) \o <<Replacement>> = FlattenSeq(q) \o (Left(1 + b - f) \o <<Replacement>>)
    BY <2>2, ConcatAssociative
  <2>4. Left(1 + b - f) \o <<Replacement>> = Left(1 + b - f + 1)
    BY <2>1, LeftType
  <2>5. QED BY <1>5, <2>1, <2>3, <2>4
<1>8. CASE b + 1 = w
  <2>1. SizeOf(Upto(s, n + 1)) = j + 1
    BY <1>0, <1>2, <1>3, <1>8
  <2>2. PartOf(s, K, n + 1) = Left(1 + w - f)
    BY <1>5 DEF PartOf, f
  <2>3. t \o <<Replacement>> = FlattenSeq(q) \o PartOf(s, K, n + 1)
    BY <1>7, <1>8, <2>2
  <2> HIDE DEF w, n
  <2>4. QED BY <1>1, <1>2, <2>1, <2>3, CharDone DEF n
<1>9. CASE b + 1 < w
  <2>1. b + 1 \in 0..3 /\ b + 1 # 0 /\ f <= b + 1
    BY <1>0, <1>3, <1>4, <1>5, <1>6, <1>9
  <2>2. j + 1 = SizeOf(Upto(s, n)) + (b + 1)
    BY <1>0, <1>2
  <2>3. q \in Seq(Text) /\ n <= Len(s) /\ \A k \in 1..n : q[k] = PartOf(s, K, k)
    BY <1>1 DEF Cut
  <2>4. Cut(s, K, j + 1, t \o <<Replacement>>, q, b + 1)
    BY <1>2, <1>5, <1>7, <1>9, <2>1, <2>2, <2>3 DEF Cut, f
  <2>5. QED BY <2>4 DEF CutAt
<1>10. QED BY <1>0, <1>2, <1>3, <1>8, <1>9

(* A character of which the buffer holds every byte: no read ends inside it *)
LEMMA CharRead ==
  ASSUME NEW s \in Text, NEW K, NEW j, NEW t \in Text, CutAt(s, K, j, t), j < SizeOf(s),
         ~(BytesOf(s)[j + 1].k > 1), NEW c, c = BytesOf(s)[j + 1].c,
         \A k \in 1..(Width(c) - 1) : j + k \notin K
  PROVE  c \in Character /\ CutAt(s, K, j + Width(c), t \o <<c>>)
<1>1. PICK q, b : Cut(s, K, j, t, q, b)
  BY DEF CutAt
<1>0. b \in 0..3
  BY <1>1 DEF Cut
<1> DEFINE n == Len(q)
<1>2. /\ n \in Nat /\ n < Len(s) /\ s[n + 1] \in Character /\ j \in Nat
      /\ j = SizeOf(Upto(s, n)) + b /\ SizeOf(Upto(s, n)) \in Nat
      /\ SizeOf(Upto(s, n + 1)) = j - b + Width(s[n + 1])
      /\ BytesOf(s)[j + 1] = [c |-> s[n + 1], k |-> b + 1]
  BY <1>1, NextByte
<1>3. b = 0 /\ c = s[n + 1] /\ Width(c) \in 1..4 /\ j = SizeOf(Upto(s, n))
  BY <1>0, <1>2, WidthType
<1>4. q \in Seq(Text) /\ t = FlattenSeq(q)
  BY <1>1, <1>3 DEF Cut
<1>5. SizeOf(Upto(s, n + 1)) = j + Width(c)
  BY <1>2, <1>3
<1>6. PartOf(s, K, n + 1) = <<c>>
  <2>1. (n + 1) - 1 = n
    BY <1>2
  <2>2. CutsOf(s, K, n + 1) = {}
    BY <1>3, <2>1 DEF CutsOf
  <2>3. QED BY <1>3, <2>2 DEF PartOf
<1>7. CutAt(s, K, SizeOf(Upto(s, n + 1)), t \o <<c>>)
  BY <1>1, <1>2, <1>4, <1>6, CharDone
<1>8. QED BY <1>2, <1>3, <1>5, <1>7

(* A character that the end of the buffer cuts, at one of K *)
LEMMA CharCut ==
  ASSUME NEW s \in Text, NEW K, NEW j, NEW t \in Text, CutAt(s, K, j, t), j < SizeOf(s),
         ~(BytesOf(s)[j + 1].k > 1), NEW m \in 1..3, m < Width(BytesOf(s)[j + 1].c),
         BytesOf(s)[j + m].k < Width(BytesOf(s)[j + m].c) => j + m \in K,
         \A k \in 1..(m - 1) : j + k \notin K
  PROVE  CutAt(s, K, j + m, t \o <<Replacement>>)
<1>1. PICK q, b : Cut(s, K, j, t, q, b)
  BY DEF CutAt
<1>0. b \in 0..3
  BY <1>1 DEF Cut
<1> DEFINE n == Len(q)
           w == Width(s[n + 1])
           f == Min(CutsOf(s, K, n + 1))
<1>2. /\ n \in Nat /\ n < Len(s) /\ s[n + 1] \in Character /\ j \in Nat
      /\ j = SizeOf(Upto(s, n)) + b /\ SizeOf(Upto(s, n)) \in Nat
      /\ BytesOf(s)[j + 1] = [c |-> s[n + 1], k |-> b + 1]
      /\ \A k \in 1..w : BytesOf(s)[SizeOf(Upto(s, n)) + k] = [c |-> s[n + 1], k |-> k]
  BY <1>1, NextByte
<1>3. b = 0 /\ m < w /\ w \in 1..4 /\ j = SizeOf(Upto(s, n))
  BY <1>0, <1>2, WidthType
<1>4. j + m \in K
  <2>1. m \in 1..w
    BY <1>3
  <2>2. BytesOf(s)[j + m] = [c |-> s[n + 1], k |-> m]
    BY <1>2, <1>3, <2>1
  <2>3. QED BY <1>3, <2>2
<1>5. CutsOf(s, K, n + 1) # {} /\ f = m
  <2>1. (n + 1) - 1 = n
    BY <1>2
  <2>2. \A k : k \in CutsOf(s, K, n + 1) <=> k \in 1..(w - 1) /\ j + k \in K
    BY <1>3, <2>1 DEF CutsOf
  <2>3. m \in CutsOf(s, K, n + 1)
    BY <1>3, <1>4, <2>2
  <2>4. f \in CutsOf(s, K, n + 1) /\ f \in 1..(w - 1) /\ f <= m
    BY <2>3, FirstCut
  <2> HIDE DEF f, w
  <2>5. ~(f < m)
    <3>1. ASSUME f < m PROVE FALSE
      <4>1. f \in 1..(m - 1)
        BY <1>3, <2>4, <3>1
      <4>2. QED BY <2>2, <2>4, <4>1
    <3>2. QED BY <3>1
  <2>6. QED BY <1>3, <2>3, <2>4, <2>5
<1> HIDE DEF f
<1>6. t \o <<Replacement>> = FlattenSeq(q) \o Left(1 + m - f)
  <2>1. t = FlattenSeq(q)
    BY <1>1, <1>3 DEF Cut
  <2>2. 1 + m - f = 1
    BY <1>5
  <2>3. QED BY <2>1, <2>2, LeftType
<1>7. j + m = SizeOf(Upto(s, n)) + m
  BY <1>3
<1>8. Cut(s, K, j + m, t \o <<Replacement>>, q, m)
  <2>1. m \in 0..3 /\ m # 0 /\ f <= m
    BY <1>5
  <2>2. q \in Seq(Text) /\ n <= Len(s) /\ \A k \in 1..n : q[k] = PartOf(s, K, k)
    BY <1>1 DEF Cut
  <2>3. QED BY <1>2, <1>3, <1>5, <1>6, <1>7, <2>1, <2>2 DEF Cut, f
<1>9. QED BY <1>8 DEF CutAt

(* One buffer: the n bytes behind the first j *)
LEMMA DecodeCuts ==
  ASSUME NEW s \in Text, NEW j \in Nat, NEW n \in Nat, j + n <= SizeOf(s),
         NEW K, \A p \in K : p \in Nat /\ (p <= j \/ p = j + n),
         BytesOf(s)[j + n].k < Width(BytesOf(s)[j + n].c) => j + n \in K,
         NEW bytes \in Seq(CharByte), Len(bytes) = n,
         \A i \in 1..n : bytes[i] = BytesOf(s)[j + i],
         NEW t \in Text, CutAt(s, K, j, t)
  PROVE  CutAt(s, K, j + n, t \o Decode(bytes))
<1> DEFINE from == DecodeFrom(bytes)
           T == {i \in 1..(n + 1) : \A u \in Text : CutAt(s, K, j + i - 1, u) => CutAt(s, K, j + n, u \o from[i])}
<1>1. /\ \A i \in 1..(n + 1) : from[i] \in Text
      /\ \A i \in 1..(n + 1) :
           from[i] = IF i > n THEN <<>>
                     ELSE IF bytes[i].k > 1 THEN <<Replacement>> \o from[i + 1]
                     ELSE IF i + Width(bytes[i].c) > n + 1 THEN <<Replacement>>
                     ELSE <<bytes[i].c>> \o from[i + Width(bytes[i].c)]
  BY DecodeEquation
<1> HIDE DEF from
<1>2. ASSUME NEW i \in 1..(n + 1), \A m \in 1..(n + 1) : m > i => m \in T PROVE i \in T
  <2> SUFFICES ASSUME NEW u \in Text, CutAt(s, K, j + i - 1, u) PROVE CutAt(s, K, j + n, u \o from[i])
    OBVIOUS
  <2> DEFINE at == j + i - 1
             byte == BytesOf(s)[at + 1]
  <2>1. at \in Nat /\ at + 1 = j + i /\ at >= j /\ SizeOf(s) \in Nat
    BY BytesType
  <2>2. CASE i > n
    <3>1. i = n + 1 /\ at = j + n /\ from[i] = <<>>
      <4>1. i = n + 1
        BY <2>2
      <4>2. at = j + n
        BY <4>1
      <4>3. QED BY <1>1, <2>2, <4>1, <4>2
    <3>2. u \o from[i] = u
      BY <3>1, ConcatEmptySeq DEF Text
    <3>3. QED BY <3>1, <3>2
  <2>3. CASE i <= n
    <3>1. i \in 1..n /\ ~(i > n) /\ at < SizeOf(s)
      BY <2>1, <2>3
    <3>2. bytes[i] = byte /\ byte \in CharByte
      <4>1. bytes[i] = BytesOf(s)[j + i] /\ bytes[i] \in CharByte
        BY <3>1
      <4> HIDE DEF at
      <4>2. QED BY <2>1, <4>1
    <3>3. byte.c \in Character /\ byte.k \in 1..4 /\ Width(byte.c) \in 1..4
      BY <3>2, WidthType DEF CharByte
    <3>4. ASSUME NEW c \in Character, NEW m \in (i + 1)..(n + 1), CutAt(s, K, j + m - 1, u \o <<c>>)
          PROVE  CutAt(s, K, j + n, u \o (<<c>> \o from[m]))
      <4>1. m \in 1..(n + 1) /\ m > i
        BY <3>1
      <4>2. m \in T
        BY <1>2, <4>1
      <4>3. <<c>> \in Text /\ u \o <<c>> \in Text
        BY DEF Text
      <4>4. CutAt(s, K, j + n, (u \o <<c>>) \o from[m])
        BY <3>4, <4>2, <4>3
      <4>5. (u \o <<c>>) \o from[m] = u \o (<<c>> \o from[m])
        <5> DEFINE one  == <<c>>
                   rest == from[m]
        <5>1. rest \in Seq(Character) /\ u \in Seq(Character) /\ one \in Seq(Character)
          BY <1>1, <4>1, <4>3 DEF Text
        <5> HIDE DEF one, rest
        <5>2. (u \o one) \o rest = u \o (one \o rest)
          BY ONLY <5>1, ConcatAssociative
        <5>3. QED BY <5>2 DEF one, rest
      <4>6. QED BY <4>4, <4>5
    <3>5. CutAt(s, K, at, u)
      OBVIOUS
    <3>6. \A k \in Nat \ {0} : at + k < j + n => at + k \notin K
      <4>1. \A p \in K : p \in Nat /\ (p <= j \/ p = j + n)
        OBVIOUS
      <4> HIDE DEF at
      <4>2. QED BY <2>1, <4>1
    <3> HIDE DEF at, byte, T
    <3>7. CASE byte.k > 1
      <4>1. from[i] = <<Replacement>> \o from[i + 1]
        BY <1>1, <3>1, <3>2, <3>7
      <4>2. CutAt(s, K, at + 1, u \o <<Replacement>>)
        BY <3>1, <3>5, <3>7, ByteRead DEF byte
      <4>3. at + 1 = j + (i + 1) - 1 /\ i + 1 \in (i + 1)..(n + 1)
        BY <2>1, <3>1
      <4>4. Replacement \in Character
        BY DEF Character
      <4>5. QED BY <3>4, <4>1, <4>2, <4>3, <4>4
    <3>8. CASE ~(byte.k > 1) /\ i + Width(byte.c) > n + 1
      <4>1. from[i] = <<Replacement>>
        BY <1>1, <3>1, <3>2, <3>8
      <4> DEFINE m == n + 1 - i
      <4>2. m \in 1..3 /\ m < Width(byte.c) /\ at + m = j + n
        <5> DEFINE w == Width(byte.c)
        <5>1. w \in 1..4 /\ i + w > n + 1 /\ i \in 1..n /\ at = j + i - 1
          BY <3>1, <3>3, <3>8 DEF at
        <5> HIDE DEF w
        <5>2. m \in 1..3 /\ m < w /\ at + m = j + n
          BY ONLY j \in Nat, n \in Nat, <5>1
        <5>3. QED BY <5>2 DEF w
      <4>3. \A k \in 1..(m - 1) : at + k \notin K
        <5>1. \A k \in 1..(m - 1) : k \in Nat \ {0} /\ at + k < j + n
          <6> HIDE DEF m
          <6>1. QED BY <2>1, <4>2
        <5>2. QED BY <3>6, <5>1
      <4> HIDE DEF m
      <4>4. BytesOf(s)[at + m].k < Width(BytesOf(s)[at + m].c) => at + m \in K
        BY <4>2
      <4>5. CutAt(s, K, at + m, u \o <<Replacement>>)
        BY <3>1, <3>5, <3>8, <4>2, <4>3, <4>4, CharCut DEF byte
      <4>6. QED BY <4>1, <4>2, <4>5
    <3>9. CASE ~(byte.k > 1) /\ ~(i + Width(byte.c) > n + 1)
      <4> DEFINE c == byte.c
                 w == Width(c)
      <4>1. from[i] = <<c>> \o from[i + w]
        BY <1>1, <3>1, <3>2, <3>9
      <4>2. w \in 1..4 /\ ~(i + w > n + 1)
        BY <3>3, <3>9
      <4>3. at + w = j + (i + w) - 1 /\ i + w \in (i + 1)..(n + 1)
        <5> HIDE DEF w
        <5>1. QED BY ONLY j \in Nat, n \in Nat, <2>1, <3>1, <4>2 DEF at
      <4>4. \A k \in 1..(w - 1) : at + k \notin K
        <5>1. \A k \in 1..(w - 1) : k \in Nat \ {0} /\ at + k < j + n
          <6> HIDE DEF w
          <6>1. QED BY ONLY j \in Nat, n \in Nat, <2>1, <3>1, <4>2, <4>3
        <5>2. QED BY <3>6, <5>1
      <4>5. c \in Character /\ CutAt(s, K, at + w, u \o <<c>>)
        BY <3>1, <3>5, <3>9, <4>4, CharRead DEF byte
      <4> HIDE DEF c, w
      <4>6. QED BY <3>4, <4>1, <4>3, <4>5
    <3>10. QED BY <3>7, <3>8, <3>9
  <2>4. QED BY <2>2, <2>3
<1>3. 1..(n + 1) \subseteq T
  <2> DEFINE m == n + 1
  <2> HIDE DEF T
  <2>1. m \in Nat
    OBVIOUS
  <2>2. \A i \in 1..m : (\A k \in 1..m : k > i => k \in T) => i \in T
    BY <1>2
  <2> HIDE DEF m
  <2>3. 1..m \subseteq T
    BY ONLY <2>1, <2>2, DownInduction
  <2>4. QED BY <2>3 DEF m
<1>4. 1 \in T /\ j + 1 - 1 = j
  BY <1>3
<1>5. CutAt(s, K, j + n, t \o from[1])
  BY <1>4
<1>6. QED BY <1>5, DecodeIsFrom DEF from

(* Nothing read *)
LEMMA NothingRead ==
  ASSUME NEW s \in Text, NEW K
  PROVE  CutAt(s, K, 0, <<>>)
<1>1. Upto(s, 0) = <<>> /\ Len(s) \in Nat
  BY EmptySeq DEF Upto, Text
<1>2. <<>> \in Seq(Text) /\ Len(<<>>) = 0 /\ FlattenSeq(<<>>) = <<>>
  BY EmptySeq, FlattenNothing
<1>3. SizeOf(Upto(s, Len(<<>>))) + 0 = 0
  BY <1>1, <1>2, NoBytes
<1>4. Cut(s, K, 0, <<>>, <<>>, 0)
  BY <1>1, <1>2, <1>3 DEF Cut
<1>5. QED BY <1>4 DEF CutAt

(* More characters have more bytes *)
LEMMA UptoGrows ==
  ASSUME NEW s \in Text, NEW i \in Nat, NEW m \in Nat, i <= m, m <= Len(s)
  PROVE  SizeOf(Upto(s, i)) \in Nat /\ SizeOf(Upto(s, m)) \in Nat /\ SizeOf(Upto(s, i)) <= SizeOf(Upto(s, m))
<1> DEFINE T == {k \in i..m : SizeOf(Upto(s, i)) <= SizeOf(Upto(s, k))}
<1>1. \A k \in 0..Len(s) : SizeOf(Upto(s, k)) \in Nat
  <2>1. \A k \in 0..Len(s) : Upto(s, k) \in Text
    BY DEF Upto, Text
  <2>2. QED BY <2>1, BytesType
<1>2. Len(s) \in Nat /\ i \in 0..Len(s) /\ m \in 0..Len(s)
  BY DEF Text
<1>3. i \in T
  BY <1>1, <1>2
<1>4. ASSUME NEW k \in i..(m - 1), k \in T PROVE k + 1 \in T
  <2>1. k \in Nat /\ k < Len(s) /\ k + 1 \in i..m /\ k \in 0..Len(s) /\ k + 1 \in 0..Len(s)
    BY <1>2
  <2>2. SizeOf(Upto(s, k + 1)) = SizeOf(Upto(s, k)) + Width(s[k + 1])
    BY <2>1, BytesAt
  <2>3. Width(s[k + 1]) \in 1..4
    BY WidthType
  <2>4. SizeOf(Upto(s, i)) <= SizeOf(Upto(s, k))
    BY <1>4
  <2>5. SizeOf(Upto(s, i)) <= SizeOf(Upto(s, k + 1))
    BY <1>1, <1>2, <2>1, <2>2, <2>3, <2>4
  <2>6. QED BY <2>1, <2>5
<1> HIDE DEF T
<1>5. \A k \in i..m : k \in T
  BY <1>3, <1>4, StepOn
<1>6. m \in T
  BY <1>5
<1>7. QED BY <1>1, <1>2, <1>6 DEF T

(* A cut behind what was read changes nothing of it *)
LEMMA LaterCut ==
  ASSUME NEW s \in Text, NEW K, NEW L, K \subseteq L, NEW j \in Nat, \A p \in L \ K : p > j,
         NEW t, CutAt(s, K, j, t)
  PROVE  CutAt(s, L, j, t)
<1>1. PICK q, b : Cut(s, K, j, t, q, b)
  BY DEF CutAt
<1> DEFINE n == Len(q)
<1>2. /\ b \in 0..3 /\ q \in Seq(Text) /\ n <= Len(s) /\ j = SizeOf(Upto(s, n)) + b
      /\ \A k \in 1..n : q[k] = PartOf(s, K, k)
      /\ b = 0 => t = FlattenSeq(q)
      /\ b # 0 => /\ n < Len(s) /\ b < Width(s[n + 1])
                  /\ CutsOf(s, K, n + 1) # {} /\ Min(CutsOf(s, K, n + 1)) <= b
                  /\ t = FlattenSeq(q) \o Left(1 + b - Min(CutsOf(s, K, n + 1)))
  BY <1>1 DEF Cut
<1>3. n \in Nat /\ Len(s) \in Nat
  BY <1>2 DEF Text
<1>4. SizeOf(Upto(s, n)) \in Nat
  BY <1>2, <1>3, UptoGrows
<1>5. ASSUME NEW k \in 1..n PROVE PartOf(s, L, k) = PartOf(s, K, k)
  <2>1. k - 1 \in Nat /\ k - 1 < Len(s) /\ k \in Nat /\ k <= n /\ (k - 1) + 1 = k
    BY <1>2, <1>3
  <2>2. SizeOf(Upto(s, k)) = SizeOf(Upto(s, k - 1)) + Width(s[k]) /\ SizeOf(Upto(s, k - 1)) \in Nat
    BY <2>1, BytesAt
  <2>3. SizeOf(Upto(s, k)) <= SizeOf(Upto(s, n))
    BY <1>2, <1>3, <2>1, UptoGrows
  <2>4. Width(s[k]) \in 1..4
    BY WidthType
  <2>5. ASSUME NEW f \in 1..(Width(s[k]) - 1) PROVE SizeOf(Upto(s, k - 1)) + f <= j
    <3> DEFINE a == SizeOf(Upto(s, k - 1))
               e == SizeOf(Upto(s, k))
               z == SizeOf(Upto(s, n))
               w == Width(s[k])
    <3>1. f \in 1..(w - 1) /\ w \in 1..4 /\ e = a + w /\ a \in Nat /\ e <= z /\ z \in Nat
          /\ b \in 0..3 /\ j = z + b
      BY <1>2, <1>4, <2>2, <2>3, <2>4
    <3> HIDE DEF a, e, z, w
    <3>2. a + f <= j
      BY ONLY <3>1
    <3>3. QED BY <3>2 DEF a
  <2>6. ASSUME NEW f \in 1..(Width(s[k]) - 1)
        PROVE  SizeOf(Upto(s, k - 1)) + f \in L <=> SizeOf(Upto(s, k - 1)) + f \in K
    <3>1. ~(SizeOf(Upto(s, k - 1)) + f > j)
      BY <2>2, <2>5
    <3>2. QED BY <3>1
  <2>7. CutsOf(s, L, k) = CutsOf(s, K, k)
    BY <2>6 DEF CutsOf
  <2>8. QED BY <2>7 DEF PartOf
<1>6. ASSUME b # 0
      PROVE  CutsOf(s, L, n + 1) # {} /\ Min(CutsOf(s, L, n + 1)) = Min(CutsOf(s, K, n + 1))
  <2> DEFINE A == CutsOf(s, K, n + 1)
             B == CutsOf(s, L, n + 1)
             w == Width(s[n + 1])
             o == SizeOf(Upto(s, n))
  <2>1. (n + 1) - 1 = n /\ w \in 1..4
    BY <1>3, WidthType
  <2>2. /\ \A k : k \in A <=> k \in 1..(w - 1) /\ o + k \in K
        /\ \A k : k \in B <=> k \in 1..(w - 1) /\ o + k \in L
    BY <2>1 DEF CutsOf
  <2>3. A # {} /\ Min(A) <= b
    BY <1>2, <1>6
  <2>4. Min(A) \in A /\ \A k \in A : Min(A) <= k
    BY <2>3, FirstCut
  <2>5. B # {}
    BY <2>2, <2>4
  <2>6. Min(B) \in B /\ \A k \in B : Min(B) <= k
    BY <2>5, FirstCut
  <2> DEFINE x == Min(A)
             y == Min(B)
  <2>7. x \in A /\ x <= b /\ y \in B /\ (\A k \in A : x <= k) /\ \A k \in B : y <= k
    BY <2>3, <2>4, <2>6
  <2> HIDE DEF x, y, A, B, w, o
  <2>8. y <= x
    BY <2>2, <2>7
  <2>9. y \in A
    <3>1. y \in 1..(w - 1) /\ x \in 1..(w - 1)
      BY <2>2, <2>7
    <3>2. o + y <= j
      BY <1>2, <1>4, <2>1, <2>7, <2>8, <3>1 DEF o
    <3>3. ~(o + y > j)
      BY <1>4, <2>1, <3>1, <3>2 DEF o
    <3>4. QED BY <2>2, <2>7, <3>3
  <2>10. x = y
    BY <2>1, <2>2, <2>7, <2>8, <2>9
  <2>11. QED BY <2>5, <2>10 DEF x, y, A, B
<1>7. Cut(s, L, j, t, q, b)
  BY <1>2, <1>5, <1>6 DEF Cut
<1>8. QED BY <1>7 DEF CutAt

(* Empty texts at the end add nothing *)
LEMMA FlattenFront ==
  ASSUME NEW S, NEW q \in Seq(Seq(S)), NEW n \in Nat, n <= Len(q),
         \A i \in (n + 1)..Len(q) : q[i] = <<>>
  PROVE  FlattenSeq(q) = FlattenSeq(SubSeq(q, 1, n))
<1> DEFINE m == Len(q)
           F(k) == FlattenSeq(SubSeq(q, 1, k))
           T == {k \in n..m : F(k) = F(n)}
<1>1. m \in Nat
  OBVIOUS
<1>2. n \in T
  BY <1>1
<1>3. ASSUME NEW k \in n..(m - 1), k \in T PROVE k + 1 \in T
  <2>1. k + 1 \in n..m /\ k + 1 \in (n + 1)..Len(q) /\ k \in 0..m
    BY <1>1
  <2>2. SubSeq(q, 1, k + 1) = Append(SubSeq(q, 1, k), q[k + 1]) /\ SubSeq(q, 1, k) \in Seq(Seq(S))
    BY <1>1, <2>1
  <2>3. q[k + 1] = <<>> /\ <<>> \in Seq(S)
    BY <2>1, EmptySeq
  <2>4. F(k + 1) = F(k) \o <<>> /\ F(k) \in Seq(S)
    BY <2>2, <2>3, FlattenAppend
  <2>5. F(k + 1) = F(k)
    BY <2>4, ConcatEmptySeq
  <2>6. F(k) = F(n)
    BY <1>3
  <2> HIDE DEF F
  <2>7. QED BY <2>1, <2>5, <2>6
<1> HIDE DEF T
<1>4. \A k \in n..m : k \in T
  BY <1>1, <1>2, <1>3, StepOn
<1>5. m \in T
  BY <1>1, <1>4
<1>6. SubSeq(q, 1, m) = q
  OBVIOUS
<1>7. QED BY <1>5, <1>6 DEF T

(* What the first j bytes of s are read as, character by character *)
Arrived(s, K, j, i) ==
  IF j <= SizeOf(Upto(s, i - 1)) THEN <<>>
  ELSE IF CutsOf(s, K, i) = {} THEN <<s[i]>>
  ELSE Left(1 + Min({j - SizeOf(Upto(s, i - 1)), Width(s[i])}) - Min(CutsOf(s, K, i)))

LEMMA ReadIsArrived ==
  ASSUME NEW s \in Text, NEW K, NEW j \in Nat, NEW t, CutAt(s, K, j, t)
  PROVE  t = FlattenSeq([i \in DOMAIN s |-> Arrived(s, K, j, i)])
<1>1. PICK q, b : Cut(s, K, j, t, q, b)
  BY DEF CutAt
<1> DEFINE n == Len(q)
           L == Len(s)
           all == [i \in DOMAIN s |-> Arrived(s, K, j, i)]
           O(i) == SizeOf(Upto(s, i))
<1>2. /\ b \in 0..3 /\ q \in Seq(Text) /\ n <= L /\ j = O(n) + b
      /\ \A k \in 1..n : q[k] = PartOf(s, K, k)
      /\ b = 0 => t = FlattenSeq(q)
      /\ b # 0 => /\ n < L /\ b < Width(s[n + 1])
                  /\ CutsOf(s, K, n + 1) # {} /\ Min(CutsOf(s, K, n + 1)) <= b
                  /\ t = FlattenSeq(q) \o Left(1 + b - Min(CutsOf(s, K, n + 1)))
  BY <1>1 DEF Cut
<1>3. n \in Nat /\ L \in Nat /\ DOMAIN s = 1..L
  BY <1>2 DEF Text
<1>4. \A i \in 0..L : O(i) \in Nat
  BY <1>3, UptoGrows
<1>5. \A i \in 1..L : O(i) = O(i - 1) + Width(s[i]) /\ Width(s[i]) \in 1..4
  <2>1. ASSUME NEW i \in 1..L PROVE O(i) = O(i - 1) + Width(s[i]) /\ Width(s[i]) \in 1..4
    <3>1. i - 1 \in Nat /\ i - 1 < L /\ (i - 1) + 1 = i
      BY <1>3
    <3>2. QED BY <3>1, BytesAt, WidthType
  <2>2. QED BY <2>1
<1>6. \A i \in 0..L, m \in 0..L : i <= m => O(i) <= O(m)
  BY <1>3, UptoGrows
<1>7. ASSUME NEW i \in 1..n PROVE all[i] = q[i]
  <2>1. i \in 1..L /\ i - 1 \in 0..L /\ i \in 0..L /\ n \in 0..L
    BY <1>2, <1>3
  <2>2. O(i) <= O(n) /\ O(i) = O(i - 1) + Width(s[i]) /\ Width(s[i]) \in 1..4
        /\ O(i - 1) \in Nat /\ O(n) \in Nat /\ O(i) \in Nat
    BY <1>3, <1>4, <1>5, <1>6, <2>1
  <2> DEFINE o == O(i - 1)
             w == Width(s[i])
  <2>3. ~(j <= o) /\ j - o \in Int /\ w \in Int /\ ~(j - o < w)
    <3> DEFINE e == O(i)
               z == O(n)
    <3>1. w \in 1..4 /\ e = o + w /\ o \in Nat /\ e <= z /\ z \in Nat /\ b \in 0..3 /\ j = z + b
      BY <1>2, <2>2
    <3> HIDE DEF o, w, e, z
    <3>2. QED BY ONLY <3>1
  <2>4. Min({j - o, w}) = w
    <3> HIDE DEF o, w
    <3>1. Min({j - o, w}) = IF j - o <= w THEN j - o ELSE w
      BY <2>3, MinOfTwo
    <3>2. QED BY <2>3, <3>1
  <2>5. all[i] = Arrived(s, K, j, i)
    BY <1>3, <2>1
  <2>6. Arrived(s, K, j, i) = PartOf(s, K, i)
    BY <2>3, <2>4 DEF Arrived, PartOf
  <2>7. QED BY <1>2, <2>5, <2>6
<1>8. ASSUME NEW i \in 1..L, O(i - 1) >= j PROVE all[i] = <<>>
  <2>1. O(i - 1) \in Nat
    BY <1>3, <1>4
  <2>2. QED BY <1>3, <1>8, <2>1 DEF Arrived
<1>9. ASSUME b # 0
      PROVE  /\ n + 1 \in 1..L /\ all[n + 1] = Left(1 + b - Min(CutsOf(s, K, n + 1)))
             /\ all[n + 1] \in Text
  <2>1. n + 1 \in 1..L /\ (n + 1) - 1 = n /\ n \in 0..L
    BY <1>2, <1>3, <1>9
  <2>2. O(n) \in Nat /\ Width(s[n + 1]) \in 1..4 /\ b < Width(s[n + 1])
    BY <1>2, <1>4, <1>5, <1>9, <2>1
  <2>3. ~(j <= O(n)) /\ j - O(n) = b
    BY <1>2, <1>9, <2>2
  <2>4. Min({b, Width(s[n + 1])}) = b
    <3> DEFINE w == Width(s[n + 1])
    <3>1. b \in Int /\ w \in Int /\ b <= w
      BY <1>2, <2>2
    <3> HIDE DEF w
    <3>2. Min({b, w}) = IF b <= w THEN b ELSE w
      BY <3>1, MinOfTwo
    <3>3. Min({b, w}) = b
      BY <3>1, <3>2
    <3>4. QED BY <3>3 DEF w
  <2>5. CutsOf(s, K, n + 1) # {} /\ Min(CutsOf(s, K, n + 1)) <= b
    BY <1>2, <1>9
  <2>6. all[n + 1] = Left(1 + b - Min(CutsOf(s, K, n + 1)))
    <3>1. all[n + 1] = Arrived(s, K, j, n + 1)
      BY <1>3, <2>1
    <3>2. QED BY <2>1, <2>3, <2>4, <2>5, <3>1 DEF Arrived
  <2>7. Left(1 + b - Min(CutsOf(s, K, n + 1))) \in Text
    <3>1. Min(CutsOf(s, K, n + 1)) \in 1..(Width(s[n + 1]) - 1)
      BY <2>5, FirstCut
    <3> DEFINE f == Min(CutsOf(s, K, n + 1))
               w == Width(s[n + 1])
    <3>2. b \in 0..3 /\ w \in 1..4 /\ f <= b /\ f \in 1..(w - 1)
      BY <1>2, <2>2, <2>5, <3>1
    <3> HIDE DEF f, w
    <3>3. 1 + b - f \in 0..4
      BY ONLY <3>2
    <3>4. QED BY <3>3, LeftType DEF f
  <2>8. QED BY <2>1, <2>6, <2>7
<1>10. \A i \in (n + 1)..L : O(i - 1) >= O(n)
  <2>1. \A i \in (n + 1)..L : i - 1 \in 0..L /\ n \in 0..L /\ n <= i - 1
    BY <1>2, <1>3
  <2>2. QED BY <1>4, <1>6, <2>1
<1>11. all \in Seq(Text) /\ Len(all) = L
  <2>1. ASSUME NEW i \in 1..L PROVE all[i] \in Text
    <3>1. CASE i \in 1..n
      <4>1. all[i] = q[i]
        BY <1>7, <3>1
      <4> HIDE DEF all
      <4>2. q \in Seq(Text) /\ i \in 1..Len(q)
        BY <1>2, <3>1
      <4>3. q[i] \in Text
        BY ONLY <4>2
      <4>4. QED BY <4>1, <4>3
    <3>2. CASE b # 0 /\ i = n + 1
      BY <1>9, <3>2
    <3>3. CASE i \notin 1..n /\ ~(b # 0 /\ i = n + 1)
      <4>1. O(i - 1) >= j
        <5>1. i \in (n + 1)..L /\ i - 1 \in 0..L /\ n \in 0..L
          BY <1>2, <1>3, <3>3
        <5>2. CASE b = 0
          BY <1>2, <1>4, <1>10, <5>1, <5>2
        <5>3. CASE b # 0
          <6>1. n + 1 \in 0..L /\ n + 1 \in 1..L /\ n + 1 <= i - 1 /\ (n + 1) - 1 = n
            BY <1>3, <1>9, <3>3, <5>1, <5>3
          <6>2. O(n + 1) <= O(i - 1) /\ O(n + 1) = O(n) + Width(s[n + 1]) /\ Width(s[n + 1]) \in 1..4
            BY <1>5, <1>6, <5>1, <6>1
          <6>3. b < Width(s[n + 1]) /\ O(n) \in Nat /\ O(i - 1) \in Nat
            BY <1>2, <1>4, <5>1, <5>3
          <6> DEFINE w == Width(s[n + 1])
                     o == O(n)
                     e == O(n + 1)
                     z == O(i - 1)
          <6>4. /\ b \in 0..3 /\ j = o + b /\ e <= z /\ e = o + w /\ w \in 1..4 /\ b < w
                /\ o \in Nat /\ z \in Nat
            BY <1>2, <6>2, <6>3
          <6> HIDE DEF w, o, e, z
          <6>5. z >= j
            BY ONLY <6>4
          <6>6. QED BY <6>5 DEF z
        <5>4. QED BY <5>2, <5>3
      <4>2. <<>> \in Text
        BY EmptySeq DEF Text
      <4>3. QED BY <1>8, <4>1, <4>2
    <3>4. QED BY <3>1, <3>2, <3>3
  <2>2. all = [i \in 1..L |-> all[i]]
    BY <1>3
  <2> HIDE DEF all, L
  <2>3. QED BY <1>3, <2>1, <2>2
<1>12. CASE b = 0
  <2>1. \A i \in (n + 1)..Len(all) : all[i] = <<>>
    <3>1. ASSUME NEW i \in (n + 1)..L PROVE all[i] = <<>>
      <4>1. i \in 1..L /\ O(i - 1) >= O(n) /\ j = O(n)
        BY <1>2, <1>3, <1>4, <1>10, <1>12
      <4>2. QED BY <1>8, <4>1
    <3>2. QED BY <1>11, <3>1
  <2>2. SubSeq(all, 1, n) = q
    <3> HIDE DEF all
    <3>1. SubSeq(all, 1, n) \in Seq(Text) /\ Len(SubSeq(all, 1, n)) = n
          /\ \A i \in 1..n : SubSeq(all, 1, n)[i] = all[i]
      BY <1>2, <1>3, <1>11
    <3>2. QED BY <1>2, <1>7, <3>1, SeqEqual
  <2> HIDE DEF all, L
  <2>3. FlattenSeq(all) = FlattenSeq(SubSeq(all, 1, n))
    BY <1>2, <1>3, <1>11, <2>1, FlattenFront DEF Text
  <2>4. QED BY <1>2, <1>12, <2>2, <2>3 DEF all
<1>13. CASE b # 0
  <2> DEFINE p == all[n + 1]
             more == Append(q, p)
  <2>1. n + 1 \in 1..L /\ p = Left(1 + b - Min(CutsOf(s, K, n + 1))) /\ p \in Text
    BY <1>9, <1>13
  <2>2. \A i \in (n + 2)..L : all[i] = <<>>
    <3>1. ASSUME NEW i \in (n + 2)..L PROVE all[i] = <<>>
      <4>1. i \in 1..L /\ i - 1 \in 0..L /\ n + 1 \in 0..L /\ n + 1 <= i - 1 /\ (n + 1) - 1 = n /\ n \in 0..L
        BY <1>2, <1>3, <2>1
      <4>2. O(n + 1) <= O(i - 1) /\ O(n + 1) = O(n) + Width(s[n + 1]) /\ Width(s[n + 1]) \in 1..4
        BY <1>5, <1>6, <2>1, <4>1
      <4>3. b < Width(s[n + 1]) /\ O(n) \in Nat /\ O(i - 1) \in Nat
        BY <1>2, <1>4, <1>13, <4>1
      <4>4. O(i - 1) >= j
        <5> DEFINE w == Width(s[n + 1])
                   o == O(n)
                   e == O(n + 1)
                   z == O(i - 1)
        <5>1. /\ b \in 0..3 /\ j = o + b /\ e <= z /\ e = o + w /\ w \in 1..4 /\ b < w
              /\ o \in Nat /\ z \in Nat
          BY <1>2, <4>2, <4>3
        <5> HIDE DEF w, o, e, z
        <5>2. z >= j
          BY ONLY <5>1
        <5>3. QED BY <5>2 DEF z
      <4>5. QED BY <1>8, <4>1, <4>4
    <3>2. QED BY <3>1
  <2> HIDE DEF all
  <2>3. more \in Seq(Text) /\ Len(more) = n + 1 /\ (\A k \in 1..n : more[k] = q[k]) /\ more[n + 1] = p
    <3>1. p \in Text /\ q \in Seq(Text)
      BY <1>2, <2>1
    <3> HIDE DEF p
    <3>2. QED BY <3>1, AppendProperties
  <2>4. SubSeq(all, 1, n + 1) = more
    <3>1. SubSeq(all, 1, n + 1) \in Seq(Text) /\ Len(SubSeq(all, 1, n + 1)) = n + 1
          /\ \A i \in 1..(n + 1) : SubSeq(all, 1, n + 1)[i] = all[i]
      BY <1>3, <1>11, <2>1
    <3>2. ASSUME NEW i \in 1..(n + 1) PROVE more[i] = all[i]
      <4>1. i \in 1..n \/ i = n + 1
        BY <1>3
      <4> HIDE DEF more
      <4>2. QED BY <1>7, <2>3, <4>1
    <3> HIDE DEF more
    <3>3. QED BY <2>3, <3>1, <3>2, SeqEqual
  <2>5. FlattenSeq(all) = FlattenSeq(SubSeq(all, 1, n + 1))
    <3>1. n + 1 \in Nat /\ n + 1 <= Len(all) /\ \A i \in (n + 1 + 1)..Len(all) : all[i] = <<>>
      BY <1>3, <1>11, <2>1, <2>2
    <3>2. all \in Seq(Seq(Character))
      BY <1>11 DEF Text
    <3> HIDE DEF n, L
    <3>3. QED BY <3>1, <3>2, FlattenFront
  <2>6. FlattenSeq(more) = FlattenSeq(q) \o p
    <3>1. p \in Seq(Character) /\ q \in Seq(Seq(Character))
      BY <1>2, <2>1 DEF Text
    <3> HIDE DEF p
    <3>2. QED BY <3>1, FlattenAppend
  <2>7. QED BY <1>2, <1>13, <2>1, <2>4, <2>5, <2>6 DEF all
<1>14. QED BY <1>12, <1>13

-----------------------------------------------------------------------------
(* The answer of a subprocess slot is what the bytes read so far gave, and  *)
(* it is never at the places of the others                                  *)
CutOK ==
  /\ pc = "start" => cuts = {}
  /\ kind = "subprocess" =>
       /\ pc \notin {"synth", "echo", "generate", "chunk"}
       /\ cuts \subseteq 1..taken /\ CutAt(said, cuts, taken, text)

LEMMA CutInit == Init => CutOK
  BY DEF Init, CutOK

LEMMA ReadCuts == IInv /\ CutOK /\ (\E n \in 1..ReadSize : Read(n)) => CutOK'
<1> SUFFICES ASSUME IInv, CutOK, NEW n \in 1..ReadSize, Read(n), kind = "subprocess" PROVE CutOK'
  BY DEF Read, CutOK, start
<1> DEFINE bytes == SubSeq(Unread, 1, n)
<1>1. n \in Nat /\ n > 0 /\ n <= Len(Unread) /\ said' = said /\ taken' = taken + n
      /\ text' = text \o Decode(bytes) /\ cuts' = cuts \cup {p \in {taken + n} : Splits(p)}
      /\ cuts \subseteq 1..taken /\ CutAt(said, cuts, taken, text)
  BY TextAssumption DEF Read, CutOK
<1>2. said \in Text /\ text \in Text /\ taken \in 0..SizeOf(said)
  BY DEF IInv, Types
<1>3. BytesOf(said) \in Seq(CharByte) /\ SizeOf(said) \in Nat /\ SizeOf(said) = Len(BytesOf(said))
  BY <1>2, BytesType DEF SizeOf
<1>4. Unread \in Seq(CharByte) /\ Len(Unread) = SizeOf(said) - taken
      /\ \A i \in 1..(SizeOf(said) - taken) : Unread[i] = BytesOf(said)[taken + i]
  <2> DEFINE all == BytesOf(said)
             n2  == SizeOf(said)
  <2>1. all \in Seq(CharByte) /\ Len(all) = n2 /\ n2 \in Nat /\ taken \in 0..n2
    BY <1>2, <1>3
  <2>2. Unread = SubSeq(all, taken + 1, n2)
    BY <1>3 DEF Unread
  <2> HIDE DEF all, n2
  <2>3. SubSeq(all, taken + 1, n2) \in Seq(CharByte)
    BY ONLY <2>1
  <2>4. Len(SubSeq(all, taken + 1, n2)) = n2 - taken
    BY ONLY <2>1
  <2>5. \A i \in 1..(n2 - taken) : SubSeq(all, taken + 1, n2)[i] = all[taken + i]
    BY ONLY <2>1
  <2>6. QED BY <2>2, <2>3, <2>4, <2>5 DEF all, n2
<1>5. taken + n <= SizeOf(said) /\ taken \in Nat
  BY <1>1, <1>2, <1>3, <1>4
<1>6. bytes \in Seq(CharByte) /\ Len(bytes) = n /\ \A i \in 1..n : bytes[i] = BytesOf(said)[taken + i]
  <2>1. bytes \in Seq(CharByte) /\ Len(bytes) = n /\ \A i \in 1..n : bytes[i] = Unread[i]
    BY <1>1, <1>4
  <2>2. \A i \in 1..n : i \in 1..(SizeOf(said) - taken)
    BY <1>1, <1>2, <1>3, <1>5
  <2>3. QED BY <1>4, <2>1, <2>2
<1> HIDE DEF bytes
<1>7. /\ cuts \subseteq cuts' /\ \A p \in cuts' \ cuts : p > taken
      /\ \A p \in cuts' : p \in Nat /\ (p <= taken \/ p = taken + n)
      /\ cuts' \subseteq 1..(taken + n)
  <2>1. \A p \in cuts : p \in Nat /\ p <= taken /\ p >= 1
    BY <1>1, <1>5
  <2>2. \A p \in cuts' : p \in cuts \/ p = taken + n
    BY <1>1
  <2>3. taken + n > taken /\ taken + n \in Nat /\ taken + n >= 1
    BY <1>1, <1>5
  <2>4. cuts \subseteq cuts'
    BY <1>1
  <2> DEFINE K == cuts'
  <2>5. /\ n \in Nat /\ n > 0 /\ taken \in Nat /\ cuts \subseteq K
        /\ \A p \in cuts : p \in Nat /\ p <= taken /\ p >= 1
        /\ \A p \in K : p \in cuts \/ p = taken + n
    BY <1>1, <1>5, <2>1, <2>2, <2>4
  <2> HIDE DEF K
  <2>6. \A p \in K \ cuts : p > taken
    BY ONLY <2>5
  <2>7. \A p \in K : p \in Nat /\ (p <= taken \/ p = taken + n)
    BY ONLY <2>5
  <2>8. K \subseteq 1..(taken + n)
    BY ONLY <2>5
  <2>9. QED BY <2>5, <2>6, <2>7, <2>8 DEF K
<1>8. BytesOf(said)[taken + n].k < Width(BytesOf(said)[taken + n].c) => taken + n \in cuts'
  BY <1>1 DEF Splits
<1>9. CutAt(said, cuts', taken, text)
  BY <1>1, <1>2, <1>5, <1>7, LaterCut
<1>10. CutAt(said, cuts', taken + n, text \o Decode(bytes))
  <2> DEFINE K == cuts'
  <2>1. /\ \A p \in K : p \in Nat /\ (p <= taken \/ p = taken + n)
        /\ BytesOf(said)[taken + n].k < Width(BytesOf(said)[taken + n].c) => taken + n \in K
        /\ CutAt(said, K, taken, text)
    BY <1>7, <1>8, <1>9
  <2> HIDE DEF K
  <2>2. CutAt(said, K, taken + n, text \o Decode(bytes))
    BY <1>1, <1>2, <1>5, <1>6, <2>1, DecodeCuts
  <2>3. QED BY <2>2 DEF K
<1>11. pc' = "read"
  BY DEF Read
<1>12. CutAt(said', cuts', taken', text')
  BY <1>1, <1>10
<1>13. cuts' \subseteq 1..taken'
  BY <1>1, <1>7
<1>14. QED BY <1>11, <1>12, <1>13 DEF CutOK

(* Outside the loop nothing is read or written *)
LEMMA CutStays ==
  ASSUME CutOK, UNCHANGED <<kind, said, taken, text, cuts>>, pc' # "start",
         kind = "subprocess" => pc' \notin {"synth", "echo", "generate", "chunk"}
  PROVE  CutOK'
  BY DEF CutOK

LEMMA CutStep == IInv /\ CutOK /\ [Next]_vars => CutOK'
<1> SUFFICES ASSUME IInv, CutOK, [Next]_vars PROVE CutOK'
  OBVIOUS
<1>1. CASE UNCHANGED vars
  BY <1>1 DEF vars, start, CutOK
<1>2. CASE StartUp
  <2>1. (\E r : Exit(r)) \/ (\E b : Serve(b))
    BY <1>2 DEF StartUp
  <2>2. pc' \in {"exit", "elsewhere", "idle"} /\ UNCHANGED <<said, taken, text, cuts>>
    BY <2>1 DEF Exit, Serve
  <2>3. pc = "start"
    BY <1>2 DEF StartUp
  <2>4. cuts = {} /\ said = <<>> /\ taken = 0 /\ text = <<>>
    BY <2>3 DEF IInv, ContentOK, CutOK
  <2>5. CutAt(said', cuts', taken', text')
    <3>1. said \in Text
      BY DEF IInv, Types
    <3>2. CutAt(said, cuts, 0, <<>>)
      BY <3>1, NothingRead
    <3>3. QED BY <2>2, <2>4, <3>2
  <2>6. QED BY <2>2, <2>4, <2>5 DEF CutOK
<1>3. CASE Begin
  <2>1. said' = <<>> /\ taken' = 0 /\ text' = <<>> /\ cuts' = {} /\ pc' = "accept"
    BY <1>3 DEF Begin, Goto
  <2>2. CutAt(said', cuts', taken', text')
    BY <2>1, NoText, NothingRead
  <2>3. QED BY <2>1, <2>2 DEF CutOK
<1>4. CASE Accept
  BY <1>4, CutStays DEF Accept, Goto, start
<1>5. CASE Refuse \/ SpawnFails \/ GenerateFails \/ Complete \/ ExtractPanics
  <2>1. \E o : Return(o)
    BY <1>5 DEF Refuse, SpawnFails, GenerateFails, Complete, ExtractPanics, Fails
  <2>2. QED BY <2>1, CutStays DEF Return, Goto, start
<1>6. CASE Queued
  BY <1>6, CutStays DEF Queued, Goto, start
<1>7. CASE GenStart
  BY <1>7, CutStays DEF GenStart, Goto, start
<1>8. CASE Spawn
  <2>1. said' \in Text /\ taken' = 0 /\ taken = 0 /\ text' = <<>> /\ pc' = "read" /\ UNCHANGED <<kind, cuts>>
    BY <1>8, TextAssumption DEF Spawn, IInv, ContentOK, Goto, start
  <2>2. CutAt(said', cuts', taken', text')
    BY <2>1, NothingRead
  <2>3. QED BY <2>1, <2>2 DEF CutOK
<1>9. CASE \E n \in 1..ReadSize : Read(n)
  BY <1>9, ReadCuts
<1>10. CASE ReadEnd \/ ReadError \/ FlushTail \/ StopMarker \/ GenDone
  BY <1>10, CutStays DEF ReadEnd, ReadError, FlushTail, StopMarker, GenDone, Goto, start
<1>11. CASE Synth \/ EchoChunk \/ Generate \/ WholeChunk
  BY <1>11 DEF Synth, EchoChunk, Generate, WholeChunk, Goto, start, CutOK
<1>12. QED BY <1>1, <1>2, <1>3, <1>4, <1>5, <1>6, <1>7, <1>8, <1>9, <1>10, <1>11 DEF Next, Slot

-----------------------------------------------------------------------------
(***************************************************************************)
(* The search for tool calls.                                              *)
(***************************************************************************)

LEMMA FirstOfIs ==
  ASSUME NEW S, NEW s \in Seq(S), NEW C, NEW i \in 1..(Len(s) + 1)
  PROVE  /\ FirstOf(s, C, i) \in i..(Len(s) + 1)
         /\ FirstOf(s, C, i) <= Len(s) => s[FirstOf(s, C, i)] \in C
         /\ \A k \in i..(FirstOf(s, C, i) - 1) : s[k] \notin C
<1> DEFINE Is(j) == (j <= Len(s) => s[j] \in C) /\ \A k \in i..(j - 1) : s[k] \notin C
           T == {j \in i..(Len(s) + 1) : j <= Len(s) => s[j] \in C}
<1>1. Len(s) \in Nat
  OBVIOUS
<1>2. Len(s) + 1 \in T
  BY <1>1
<1>3. PICK j \in T : \A k \in T : j <= k
  <2>1. T \subseteq Nat /\ T # {}
    BY <1>1, <1>2
  <2> HIDE DEF T
  <2>2. QED BY <2>1, LeastOf
<1>4. ASSUME NEW k \in i..(j - 1) PROVE s[k] \notin C
  <2>1. j \in i..(Len(s) + 1) /\ k \in i..(Len(s) + 1) /\ k <= Len(s) /\ ~(j <= k)
    BY <1>1, <1>3
  <2>2. QED BY <1>3, <2>1
<1>5. j \in i..(Len(s) + 1) /\ Is(j)
  BY <1>3, <1>4
<1>6. \E m \in i..(Len(s) + 1) : Is(m)
  BY <1>5
<1>7. FirstOf(s, C, i) = CHOOSE m \in i..(Len(s) + 1) : Is(m)
  BY DEF FirstOf
<1> HIDE DEF Is
<1>8. FirstOf(s, C, i) \in i..(Len(s) + 1) /\ Is(FirstOf(s, C, i))
  BY <1>6, <1>7
<1>9. QED BY <1>8 DEF Is

(* A pair of markers: the first opening one from i on, and the first        *)
(* closing one behind it                                                    *)
LEMMA PairAt ==
  ASSUME NEW s \in Text, NEW i \in 1..(Len(s) + 1)
  PROVE  /\ OpenFrom(s, i) \in i..(Len(s) + 1)
         /\ OpenFrom(s, i) <= Len(s) => s[OpenFrom(s, i)] = "open"
         /\ \A k \in i..(OpenFrom(s, i) - 1) : s[k] # "open"
         /\ OpenFrom(s, i) <= Len(s) =>
              /\ CloseFrom(s, i) \in (OpenFrom(s, i) + 1)..(Len(s) + 1)
              /\ CloseFrom(s, i) <= Len(s) => s[CloseFrom(s, i)] = "close"
              /\ \A k \in (OpenFrom(s, i) + 1)..(CloseFrom(s, i) - 1) : s[k] # "close"
<1>1. s \in Seq(Character) /\ Len(s) \in Nat
  BY DEF Text
<1>2. /\ OpenFrom(s, i) \in i..(Len(s) + 1)
      /\ OpenFrom(s, i) <= Len(s) => s[OpenFrom(s, i)] \in {"open"}
      /\ \A k \in i..(OpenFrom(s, i) - 1) : s[k] \notin {"open"}
  BY <1>1, FirstOfIs DEF OpenFrom
<1>3. ASSUME OpenFrom(s, i) <= Len(s)
      PROVE  /\ CloseFrom(s, i) \in (OpenFrom(s, i) + 1)..(Len(s) + 1)
             /\ CloseFrom(s, i) <= Len(s) => s[CloseFrom(s, i)] \in {"close"}
             /\ \A k \in (OpenFrom(s, i) + 1)..(CloseFrom(s, i) - 1) : s[k] \notin {"close"}
  <2>1. OpenFrom(s, i) + 1 \in 1..(Len(s) + 1)
    BY <1>1, <1>2, <1>3
  <2>2. QED BY <1>1, <2>1, FirstOfIs DEF CloseFrom
<1>4. QED BY <1>2, <1>3

(* The equation inside Bodies, and the function that it chooses *)
IsBodies(from, s) ==
  from = [i \in 1..(Len(s) + 1) |->
            IF NoPair(s, i) THEN <<>> ELSE <<PairBody(s, i)>> \o from[CloseFrom(s, i) + 1]]

BodiesFrom(s) == CHOOSE from : IsBodies(from, s)

LEMMA BodiesIsFrom == \A s : Bodies(s) = BodiesFrom(s)[1]
  BY DEF Bodies, BodiesFrom, IsBodies

LEMMA BodiesChosen ==
  ASSUME NEW f, NEW s, IsBodies(f, s)
  PROVE  IsBodies(BodiesFrom(s), s)
  BY Zenon DEF BodiesFrom

LEMMA BodiesEquation ==
  ASSUME NEW s \in Text
  PROVE  \A i \in 1..(Len(s) + 1) :
           /\ BodiesFrom(s)[i] \in Seq(Text)
           /\ BodiesFrom(s)[i] = IF NoPair(s, i) THEN <<>>
                                 ELSE <<PairBody(s, i)>> \o BodiesFrom(s)[CloseFrom(s, i) + 1]
           /\ ~NoPair(s, i) => CloseFrom(s, i) + 1 \in (i + 1)..(Len(s) + 1) /\ PairBody(s, i) \in Text
<1> DEFINE D    == 1..(Len(s) + 1)
           stop == {i \in D : NoPair(s, i)}
           base == [i \in D |-> <<>>]
           item == [i \in D |-> IF NoPair(s, i) THEN <<>> ELSE <<PairBody(s, i)>>]
           next == [i \in D |-> IF NoPair(s, i) THEN i ELSE CloseFrom(s, i) + 1]
           Step(g, i) == IF i \in stop THEN base[i] ELSE item[i] \o g[next[i]]
           Goal(g, i) == IF NoPair(s, i) THEN <<>> ELSE <<PairBody(s, i)>> \o g[CloseFrom(s, i) + 1]
<1>1. Len(s) \in Nat /\ s \in Seq(Character)
  BY DEF Text
<1>2. ASSUME NEW i \in D, ~NoPair(s, i)
      PROVE  CloseFrom(s, i) + 1 \in (i + 1)..(Len(s) + 1) /\ PairBody(s, i) \in Text
  <2>1. /\ OpenFrom(s, i) \in i..(Len(s) + 1) /\ ~(OpenFrom(s, i) >= Len(s)) /\ ~(CloseFrom(s, i) > Len(s))
        /\ OpenFrom(s, i) <= Len(s) => CloseFrom(s, i) \in (OpenFrom(s, i) + 1)..(Len(s) + 1)
    BY <1>2, PairAt DEF NoPair
  <2>2. CloseFrom(s, i) \in (OpenFrom(s, i) + 1)..Len(s)
    BY <1>1, <2>1
  <2>3. CloseFrom(s, i) + 1 \in (i + 1)..(Len(s) + 1)
    BY <1>1, <2>1, <2>2
  <2>4. PairBody(s, i) \in Seq(Character)
    <3>1. \A k \in (OpenFrom(s, i) + 1)..(CloseFrom(s, i) - 1) : k \in 1..Len(s)
      BY <1>1, <2>1, <2>2
    <3>2. OpenFrom(s, i) + 1 \in Int /\ CloseFrom(s, i) - 1 \in Int
      BY <2>1, <2>2
    <3>3. SubSeq(s, OpenFrom(s, i) + 1, CloseFrom(s, i) - 1) \in Seq(Character)
      BY ONLY <1>1, <2>1, <2>2
    <3>4. QED BY <3>3 DEF PairBody
  <2>5. QED BY <2>3, <2>4 DEF Text
<1>3. Walk(Len(s) + 1, Text, stop, base, item, next)
  <2>1. base \in [D -> Seq(Text)] /\ item \in [D -> Seq(Text)]
    BY <1>2, EmptySeq
  <2>2. next \in [D -> Int]
    BY <1>1, <1>2
  <2>3. ASSUME NEW i \in D \ stop PROVE next[i] \in D /\ next[i] > i
    <3>1. next[i] = CloseFrom(s, i) + 1 /\ ~NoPair(s, i) /\ i \in D
      BY <2>3
    <3>2. CloseFrom(s, i) + 1 \in (i + 1)..(Len(s) + 1)
      BY <1>2, <3>1
    <3> HIDE DEF next, stop
    <3>3. QED BY <1>1, <3>1, <3>2
  <2> HIDE DEF stop, base, item, next
  <2>4. QED BY <1>1, <2>1, <2>2, <2>3 DEF Walk
<1>4. ASSUME NEW g, NEW i \in D PROVE Step(g, i) = Goal(g, i)
  <2>1. CASE NoPair(s, i)
    BY <2>1
  <2>2. CASE ~NoPair(s, i)
    BY <2>2
  <2>3. QED BY <2>1, <2>2
<1> HIDE DEF stop, base, item, next
<1>5. PICK f \in [D -> Seq(Text)] : \A i \in D : f[i] = Step(f, i)
  BY ONLY <1>3, WalkExists
<1>6. IsBodies(f, s)
  BY <1>4, <1>5 DEF IsBodies
<1>7. IsBodies(BodiesFrom(s), s)
  BY <1>6, BodiesChosen
<1>8. \A i \in D : BodiesFrom(s)[i] = Goal(BodiesFrom(s), i)
  BY <1>7, Zenon DEF IsBodies
<1>9. \A i \in D : BodiesFrom(s)[i] = Step(BodiesFrom(s), i)
  BY <1>4, <1>8
<1>10. \A i \in D : BodiesFrom(s)[i] \in Seq(Text)
  <2> DEFINE g == BodiesFrom(s)
  <2>1. \A i \in 1..(Len(s) + 1) : g[i] = IF i \in stop THEN base[i] ELSE item[i] \o g[next[i]]
    BY <1>9
  <2> HIDE DEF g
  <2>2. \A i \in 1..(Len(s) + 1) : g[i] \in Seq(Text)
    BY ONLY <1>3, <2>1, WalkType
  <2>3. QED BY <2>2 DEF g
<1>11. QED BY <1>2, <1>8, <1>10

-----------------------------------------------------------------------------
(* The calls among what the bodies from place i on parse to *)
CallsIn(parses) == Without(parses, {i \in DOMAIN parses : ~IsCall(parses[i])})

CallsFrom(s, i) ==
  CallsIn([k \in DOMAIN BodiesFrom(s)[i] |-> ParseBody(BodiesFrom(s)[i][k])])

Parse == {ParseBody(b) : b \in Text}

(* What one parse adds *)
Kept(parse) == IF IsCall(parse) THEN <<parse>> ELSE <<>>

LEMMA CallsInFlat ==
  ASSUME NEW q \in Seq(Parse)
  PROVE  /\ [i \in DOMAIN q |-> Kept(q[i])] \in Seq(Seq(Parse))
         /\ CallsIn(q) = FlattenSeq([i \in DOMAIN q |-> Kept(q[i])])
         /\ CallsIn(q) \in Seq(Parse)
<1> DEFINE P == {i \in DOMAIN q : ~IsCall(q[i])}
           kept == [i \in DOMAIN q |-> IF i \in P THEN <<>> ELSE <<q[i]>>]
<1>1. CallsIn(q) = FlattenSeq(kept)
  BY DEF CallsIn, Without
<1>2. kept = [i \in DOMAIN q |-> Kept(q[i])]
  BY DEF Kept
<1>3. kept \in Seq(Seq(Parse))
  <2>1. DOMAIN q = 1..Len(q) /\ Len(q) \in Nat /\ \A i \in 1..Len(q) : q[i] \in Parse
    OBVIOUS
  <2> HIDE DEF P
  <2>2. \A i \in 1..Len(q) : (IF i \in P THEN <<>> ELSE <<q[i]>>) \in Seq(Parse)
    BY <2>1, EmptySeq
  <2>3. QED BY <2>1, <2>2
<1> HIDE DEF kept
<1>4. QED BY <1>1, <1>2, <1>3, FlattenType

LEMMA CallsInCons ==
  ASSUME NEW x \in Parse, NEW q \in Seq(Parse)
  PROVE  CallsIn(<<x>> \o q) = Kept(x) \o CallsIn(q)
<1> DEFINE r    == <<x>> \o q
           kept == [i \in DOMAIN q |-> Kept(q[i])]
           all  == [i \in DOMAIN r |-> Kept(r[i])]
           S    == Seq(Parse)
<1>1. r \in Seq(Parse) /\ Len(r) = Len(q) + 1 /\ r[1] = x /\ Len(q) \in Nat
      /\ \A i \in 1..Len(q) : r[1 + i] = q[i]
  BY ConsPlaces
<1> HIDE DEF r
<1>2. kept \in Seq(S) /\ all \in Seq(S) /\ CallsIn(q) = FlattenSeq(kept) /\ CallsIn(r) = FlattenSeq(all)
  BY <1>1, CallsInFlat
<1>3. Kept(x) \in S
  BY EmptySeq DEF Kept
<1>4. /\ Len(kept) = Len(q) /\ Len(all) = Len(q) + 1 /\ all[1] = Kept(x)
      /\ \A i \in 1..Len(q) : all[1 + i] = kept[i]
  <2>1. /\ \A i \in 1..Len(q) : kept[i] = Kept(q[i])
        /\ \A i \in 1..(Len(q) + 1) : all[i] = Kept(r[i])
        /\ Len(kept) = Len(q) /\ Len(all) = Len(q) + 1
    BY <1>1
  <2> HIDE DEF kept, all
  <2>2. \A i \in 1..Len(q) : 1 + i \in 1..(Len(q) + 1)
    BY <1>1
  <2>3. 1 \in 1..(Len(q) + 1)
    BY <1>1
  <2>4. QED BY <1>1, <2>1, <2>2, <2>3
<1> HIDE DEF kept, all, S
<1>5. all = <<Kept(x)>> \o kept
  <2>1. Len(all) = Len(kept) + 1 /\ all[1] = Kept(x) /\ \A i \in 1..Len(kept) : all[1 + i] = kept[i]
    BY <1>4
  <2>2. QED BY ONLY <1>2, <1>3, <2>1, IsCons
<1>6. FlattenSeq(all) = Kept(x) \o FlattenSeq(kept)
  BY <1>2, <1>3, <1>5, FlattenCons DEF S
<1>7. QED BY <1>2, <1>6 DEF r

LEMMA CallsFromEquation ==
  ASSUME NEW s \in Text, NEW i \in 1..(Len(s) + 1)
  PROVE  /\ CallsFrom(s, i) \in Seq(Parse)
         /\ CallsFrom(s, i) = IF NoPair(s, i) THEN <<>>
                              ELSE Kept(ParseBody(PairBody(s, i))) \o CallsFrom(s, CloseFrom(s, i) + 1)
<1> DEFINE parses(j) == [k \in DOMAIN BodiesFrom(s)[j] |-> ParseBody(BodiesFrom(s)[j][k])]
<1>1. ASSUME NEW j \in 1..(Len(s) + 1)
      PROVE  /\ parses(j) \in Seq(Parse) /\ CallsFrom(s, j) = CallsIn(parses(j))
             /\ Len(parses(j)) = Len(BodiesFrom(s)[j])
             /\ \A k \in 1..Len(BodiesFrom(s)[j]) : parses(j)[k] = ParseBody(BodiesFrom(s)[j][k])
  <2> DEFINE q == BodiesFrom(s)[j]
  <2>1. q \in Seq(Text)
    BY BodiesEquation
  <2>2. CallsFrom(s, j) = CallsIn(parses(j)) /\ parses(j) = [k \in DOMAIN q |-> ParseBody(q[k])]
    BY DEF CallsFrom
  <2> HIDE DEF q
  <2>3. DOMAIN q = 1..Len(q) /\ Len(q) \in Nat /\ \A k \in 1..Len(q) : ParseBody(q[k]) \in Parse
    BY <2>1 DEF Parse
  <2>4. [k \in DOMAIN q |-> ParseBody(q[k])] \in Seq(Parse)
        /\ Len([k \in DOMAIN q |-> ParseBody(q[k])]) = Len(q)
    BY <2>3
  <2> HIDE DEF parses
  <2>5. QED BY <2>2, <2>3, <2>4 DEF q
<1> HIDE DEF parses
<1>2. CallsFrom(s, i) \in Seq(Parse)
  BY <1>1, CallsInFlat
<1>3. CASE NoPair(s, i)
  <2>1. BodiesFrom(s)[i] = <<>>
    BY <1>3, BodiesEquation
  <2>2. parses(i) = <<>>
    BY <1>1, <2>1, EmptySeq
  <2>3. CallsIn(<<>>) = <<>>
    <3>1. <<>> \in Seq(Parse) /\ [k \in DOMAIN <<>> |-> Kept(<<>>[k])] = <<>>
      BY EmptySeq
    <3>2. QED BY <3>1, CallsInFlat, FlattenNothing
  <2>4. QED BY <1>1, <1>2, <1>3, <2>2, <2>3
<1>4. CASE ~NoPair(s, i)
  <2> DEFINE n == CloseFrom(s, i) + 1
             body == PairBody(s, i)
             x == ParseBody(body)
             q == BodiesFrom(s)[i]
             rest == BodiesFrom(s)[n]
  <2>1. n \in (i + 1)..(Len(s) + 1) /\ body \in Text
    BY <1>4, BodiesEquation
  <2>2. Len(s) \in Nat /\ i \in Nat /\ i >= 1
    BY DEF Text
  <2>3. q = <<body>> \o rest
    BY <1>4, BodiesEquation
  <2> HIDE DEF x, q, rest, n, body
  <2>4. n \in 1..(Len(s) + 1)
    BY <2>1, <2>2
  <2>5. rest \in Seq(Text) /\ x \in Parse
    BY <2>1, <2>4, BodiesEquation DEF rest, x, Parse
  <2>6. Len(q) = Len(rest) + 1 /\ Len(rest) \in Nat /\ q[1] = body
        /\ \A k \in 1..Len(rest) : q[1 + k] = rest[k]
    BY <2>1, <2>3, <2>5, ConsPlaces
  <2>7. parses(i) = <<x>> \o parses(n)
    <3> DEFINE a == parses(i)
               b == parses(n)
    <3>1. /\ a \in Seq(Parse) /\ Len(a) = Len(q) /\ \A k \in 1..Len(q) : a[k] = ParseBody(q[k])
          /\ b \in Seq(Parse) /\ Len(b) = Len(rest) /\ \A k \in 1..Len(rest) : b[k] = ParseBody(rest[k])
      BY <1>1, <2>4 DEF q, rest
    <3> HIDE DEF a, b
    <3>2. 1 \in 1..Len(q) /\ \A k \in 1..Len(rest) : 1 + k \in 1..Len(q)
      BY <2>6
    <3>3. Len(a) = Len(b) + 1 /\ a[1] = x /\ \A k \in 1..Len(b) : a[1 + k] = b[k]
      BY <2>6, <3>1, <3>2 DEF x
    <3>4. a = <<x>> \o b
      BY ONLY <2>5, <3>1, <3>3, IsCons
    <3>5. QED BY <3>4 DEF a, b
  <2>8. CallsIn(parses(i)) = Kept(x) \o CallsIn(parses(n))
    <3>1. parses(n) \in Seq(Parse)
      BY <1>1, <2>4
    <3>2. QED BY <2>5, <2>7, <3>1, CallsInCons
  <2>9. CallsFrom(s, i) = Kept(x) \o CallsFrom(s, n)
    BY <1>1, <2>4, <2>8
  <2>10. QED BY <1>2, <1>4, <2>9 DEF x, n, body
<1>5. QED BY <1>3, <1>4

-----------------------------------------------------------------------------
(* The calls c are those that begin at the places of G, by number *)
Numbered(c, G) ==
  /\ Len(c) = Cardinality(G)
  /\ \A o \in G : c[Cardinality({p \in G : p <= o})] = CallAt(o)

LEMMA NumberedNone == Numbered(<<>>, {})
  BY FS_EmptySet, EmptySeq DEF Numbered

LEMMA NumberedFirst ==
  ASSUME NEW S, NEW c \in Seq(S), NEW G \in SUBSET Nat, IsFiniteSet(G), NEW a \in Nat,
         \A p \in G : p > a, Numbered(c, G), CallAt(a) \in S
  PROVE  Numbered(<<CallAt(a)>> \o c, G \cup {a})
<1> DEFINE H    == G \cup {a}
           x    == CallAt(a)
           r    == <<x>> \o c
           n(o) == Cardinality({p \in G : p <= o})
<1>1. r \in Seq(S) /\ Len(r) = Len(c) + 1 /\ r[1] = x /\ \A i \in 1..Len(c) : r[1 + i] = c[i]
  BY ConsPlaces
<1>2. a \notin G
  OBVIOUS
<1>3. Cardinality(H) = Cardinality(G) + 1 /\ Cardinality(G) \in Nat
  BY <1>2, FS_AddElement, FS_CardinalityType
<1> HIDE DEF r
<1>4. r[Cardinality({p \in H : p <= a})] = x
  <2>1. {p \in H : p <= a} = {a}
    <3>1. \A p \in G : p \in Nat /\ ~(p <= a)
      OBVIOUS
    <3>2. a <= a
      OBVIOUS
    <3>3. QED BY <3>1, <3>2
  <2>2. Cardinality({a}) = 1
    BY FS_Singleton
  <2>3. QED BY <1>1, <2>1, <2>2
<1>5. ASSUME NEW o \in G PROVE r[Cardinality({p \in H : p <= o})] = CallAt(o)
  <2> DEFINE F == {p \in G : p <= o}
  <2>1. F \subseteq G /\ o \in F /\ a \notin F
    BY <1>2
  <2>2. {p \in H : p <= o} = F \cup {a}
    OBVIOUS
  <2> HIDE DEF F
  <2>3. IsFiniteSet(F) /\ Cardinality(F) <= Cardinality(G) /\ Cardinality(F) \in Nat /\ Cardinality(F) # 0
    <3>1. IsFiniteSet(F) /\ Cardinality(F) <= Cardinality(G)
      BY <2>1, FS_Subset
    <3>2. F # {}
      BY <2>1
    <3>3. QED BY <3>1, <3>2, FS_EmptySet, FS_CardinalityType
  <2>4. Cardinality(F \cup {a}) = Cardinality(F) + 1
    BY <2>1, <2>3, FS_AddElement
  <2>5. Cardinality(F) \in 1..Len(c) /\ Cardinality(F) + 1 = 1 + Cardinality(F)
    BY <1>3, <2>3 DEF Numbered
  <2>6. c[Cardinality(F)] = CallAt(o)
    BY DEF Numbered, F
  <2>7. QED BY <1>1, <2>2, <2>4, <2>5, <2>6
<1>6. Len(r) = Cardinality(H)
  BY <1>1, <1>3 DEF Numbered
<1>7. QED BY <1>4, <1>5, <1>6 DEF Numbered, r

(* Every call that was opened before place i has been closed before it *)
Boundary(i) ==
  \A p \in DOMAIN text : (p < i /\ text[p] = "open") =>
    \E c \in DOMAIN text : p <= c /\ c < i /\ text[c] = "close"

OpensIn(i) == {o \in Opens : o >= i}
GoodIn(i)  == {o \in OpensIn(i) : CallAt(o).kind = "call"}

LEMMA NoOpens ==
  ASSUME text \in Text, NEW i \in 1..(Len(text) + 1), NoPair(text, i)
  PROVE  OpensIn(i) = {}
<1> DEFINE beg == OpenFrom(text, i)
<1>1. Len(text) \in Nat /\ DOMAIN text = 1..Len(text)
  BY DEF Text
<1> SUFFICES ASSUME NEW o \in 1..Len(text), o >= i, text[o] = "open",
                    NEW c \in (o + 1)..Len(text), text[c] = "close"
             PROVE  FALSE
  BY <1>1 DEF OpensIn, Opens
<1>2. beg \in i..(Len(text) + 1) /\ (\A k \in i..(beg - 1) : text[k] # "open")
      /\ (beg <= Len(text) =>
            /\ CloseFrom(text, i) \in (beg + 1)..(Len(text) + 1)
            /\ \A k \in (beg + 1)..(CloseFrom(text, i) - 1) : text[k] # "close")
  BY PairAt
<1> HIDE DEF beg
<1>3. o >= beg
  BY <1>1, <1>2
<1>4. beg < Len(text) /\ c >= beg + 1 /\ c <= Len(text)
  BY <1>1, <1>2, <1>3
<1>5. CloseFrom(text, i) > Len(text)
  BY <1>1, <1>2, <1>4 DEF NoPair, beg
<1>6. c \in (beg + 1)..(CloseFrom(text, i) - 1)
  BY <1>1, <1>2, <1>4, <1>5
<1>7. QED BY <1>2, <1>4, <1>6

LEMMA OneOpen ==
  ASSUME text \in Text, NEW i \in 1..(Len(text) + 1), ~NoPair(text, i), Boundary(i),
         NEW beg, beg = OpenFrom(text, i), NEW end, end = CloseFrom(text, i)
  PROVE  /\ beg \in Nat /\ OpensIn(i) = OpensIn(end + 1) \cup {beg}
         /\ \A o \in OpensIn(end + 1) : o > beg
         /\ Boundary(end + 1)
         /\ CallAt(beg) = ParseBody(PairBody(text, i))
<1>1. Len(text) \in Nat /\ DOMAIN text = 1..Len(text)
  BY DEF Text
<1>2. /\ beg \in i..(Len(text) + 1) /\ ~(beg >= Len(text)) /\ ~(end > Len(text))
      /\ beg <= Len(text) => text[beg] = "open"
      /\ \A k \in i..(beg - 1) : text[k] # "open"
      /\ beg <= Len(text) =>
           /\ end \in (beg + 1)..(Len(text) + 1)
           /\ end <= Len(text) => text[end] = "close"
           /\ \A k \in (beg + 1)..(end - 1) : text[k] # "close"
  BY PairAt DEF NoPair
<1>3. /\ beg \in i..Len(text) /\ text[beg] = "open" /\ end \in (beg + 1)..Len(text) /\ text[end] = "close"
      /\ \A k \in i..(beg - 1) : text[k] # "open"
      /\ \A k \in (beg + 1)..(end - 1) : text[k] # "close"
  <2>1. beg \in i..Len(text) /\ beg <= Len(text)
    BY <1>1, <1>2
  <2>2. end \in (beg + 1)..Len(text)
    BY <1>1, <1>2, <2>1
  <2>3. end <= Len(text)
    BY <1>1, <2>2
  <2>4. QED BY <1>2, <2>1, <2>2, <2>3
<1>4. beg \in 1..Len(text) /\ end \in 1..Len(text) /\ beg < end /\ i \in Nat /\ i >= 1 /\ i <= beg
  BY <1>1, <1>3
<1>5. beg \in Opens
  <2>1. ASSUME NEW p \in 1..(beg - 1), text[p] = "open" PROVE \E c \in p..beg : text[c] = "close"
    <3>1. p \in 1..Len(text) /\ p < i
      BY <1>1, <1>3, <1>4, <2>1
    <3>2. PICK c \in 1..Len(text) : p <= c /\ c < i /\ text[c] = "close"
      BY <1>1, <2>1, <3>1 DEF Boundary
    <3>3. c \in p..beg
      BY <1>4, <2>1, <3>2
    <3>4. QED BY <3>2, <3>3
  <2>2. QED BY <1>1, <1>3, <1>4, <2>1 DEF Opens
<1>6. ASSUME NEW o \in Opens, o >= i, o # beg PROVE o >= end + 1
  <2>1. /\ o \in 1..Len(text) /\ text[o] = "open"
        /\ \A p \in 1..(o - 1) : text[p] = "open" => \E c \in p..o : text[c] = "close"
    BY <1>1 DEF Opens
  <2>2. o > beg
    BY <1>3, <1>4, <1>6, <2>1
  <2>3. beg \in 1..(o - 1)
    BY <1>4, <2>1, <2>2
  <2>4. PICK c \in beg..o : text[c] = "close"
    BY <1>3, <2>1, <2>3
  <2>5. c # beg
    BY <1>3, <2>4
  <2>6. c >= end
    <3>1. c \in Nat /\ c <= Len(text) /\ c > beg
      BY <1>4, <2>1, <2>4, <2>5
    <3>2. QED BY <1>3, <1>4, <2>4, <3>1
  <2>7. o # end
    BY <1>3, <2>1
  <2>8. QED BY <1>4, <2>1, <2>4, <2>6, <2>7
<1>7. \A o \in Opens : o \in 1..Len(text)
  BY <1>1 DEF Opens
<1>8. OpensIn(i) = OpensIn(end + 1) \cup {beg}
  <2>1. ASSUME NEW o \in OpensIn(i) PROVE o \in OpensIn(end + 1) \cup {beg}
    BY <1>6 DEF OpensIn
  <2>2. ASSUME NEW o \in OpensIn(end + 1) PROVE o \in OpensIn(i)
    <3>1. o \in Opens /\ o \in 1..Len(text) /\ o >= end + 1
      BY <1>7 DEF OpensIn
    <3>2. o >= i
      BY <1>4, <3>1
    <3>3. QED BY <3>1, <3>2 DEF OpensIn
  <2>3. beg \in OpensIn(i)
    BY <1>4, <1>5 DEF OpensIn
  <2>4. QED BY <2>1, <2>2, <2>3
<1>9. ASSUME NEW o \in OpensIn(end + 1) PROVE o > beg
  <2>1. o \in 1..Len(text) /\ o >= end + 1
    BY <1>7 DEF OpensIn
  <2>2. QED BY <1>4, <2>1
<1>10. Boundary(end + 1)
  <2> SUFFICES ASSUME NEW p \in 1..Len(text), p < end + 1, text[p] = "open"
               PROVE  \E c \in 1..Len(text) : p <= c /\ c < end + 1 /\ text[c] = "close"
    BY <1>1 DEF Boundary
  <2>1. p <= end /\ end < end + 1
    BY <1>4
  <2>2. QED BY <1>3, <1>4, <2>1
<1>11. CallAt(beg) = ParseBody(PairBody(text, i))
  BY DEF CallAt, PairBody, CloseFrom
<1>12. beg \in Nat
  BY <1>4
<1>13. QED BY <1>8, <1>9, <1>10, <1>11, <1>12

LEMMA CallsNumbered ==
  ASSUME text \in Text
  PROVE  Numbered(CallsFrom(text, 1), GoodIn(1))
<1> DEFINE N == Len(text) + 1
           T == {i \in 1..N : Boundary(i) => Numbered(CallsFrom(text, i), GoodIn(i))}
<1>1. Len(text) \in Nat /\ DOMAIN text = 1..Len(text) /\ N \in Nat
  BY DEF Text
<1>2. ASSUME NEW i PROVE GoodIn(i) \in SUBSET Nat /\ IsFiniteSet(GoodIn(i))
  <2>1. GoodIn(i) \subseteq 1..Len(text)
    BY <1>1 DEF GoodIn, OpensIn, Opens
  <2>2. IsFiniteSet(1..Len(text))
    BY <1>1, FS_Interval
  <2>3. QED BY <2>1, <2>2, FS_Subset
<1> HIDE DEF N
<1>3. ASSUME NEW i \in 1..N, \A j \in 1..N : j > i => j \in T PROVE i \in T
  <2> SUFFICES ASSUME Boundary(i) PROVE Numbered(CallsFrom(text, i), GoodIn(i))
    OBVIOUS
  <2>0. i \in 1..(Len(text) + 1)
    BY DEF N
  <2>1. CASE NoPair(text, i)
    <3>1. GoodIn(i) = {}
      BY <2>0, <2>1, NoOpens DEF GoodIn
    <3>2. CallsFrom(text, i) = <<>>
      BY <2>0, <2>1, CallsFromEquation
    <3>3. QED BY <3>1, <3>2, NumberedNone
  <2>2. CASE ~NoPair(text, i)
    <3> DEFINE beg == OpenFrom(text, i)
               next  == CloseFrom(text, i) + 1
               x     == ParseBody(PairBody(text, i))
               rest  == CallsFrom(text, next)
    <3>1. next \in (i + 1)..N /\ PairBody(text, i) \in Text
      BY <2>0, <2>2, BodiesEquation DEF N
    <3>2. /\ beg \in Nat /\ OpensIn(i) = OpensIn(next) \cup {beg}
          /\ (\A o \in OpensIn(next) : o > beg) /\ Boundary(next) /\ CallAt(beg) = x
      BY <2>0, <2>2, OneOpen
    <3>3. CallsFrom(text, i) = Kept(x) \o rest
      BY <2>0, <2>2, CallsFromEquation
    <3>4. x \in Parse
      BY <3>1 DEF Parse
    <3> HIDE DEF beg, next, x, T
    <3>5. next \in 1..N /\ next > i
      BY <1>1, <3>1
    <3>6. next \in T
      BY <1>3, <3>5
    <3>7. Numbered(rest, GoodIn(next))
      BY <3>2, <3>6 DEF T
    <3>8. rest \in Seq(Parse)
      BY <3>5, CallsFromEquation DEF N
    <3> HIDE DEF rest
    <3>9. CASE IsCall(x)
      <4>1. GoodIn(i) = GoodIn(next) \cup {beg}
        BY <3>2, <3>9 DEF GoodIn, IsCall
      <4>2. Kept(x) = <<CallAt(beg)>>
        BY <3>2, <3>9 DEF Kept
      <4>3. \A p \in GoodIn(next) : p > beg
        BY <3>2 DEF GoodIn
      <4>4. CallAt(beg) \in Parse
        BY <3>2, <3>4
      <4>5. GoodIn(next) \in SUBSET Nat /\ IsFiniteSet(GoodIn(next))
        BY <1>2
      <4>6. Numbered(<<CallAt(beg)>> \o rest, GoodIn(next) \cup {beg})
        BY <3>2, <3>7, <3>8, <4>3, <4>4, <4>5, NumberedFirst
      <4>7. QED BY <3>3, <4>1, <4>2, <4>6
    <3>10. CASE ~IsCall(x)
      <4>1. GoodIn(i) = GoodIn(next)
        BY <3>2, <3>10 DEF GoodIn, IsCall
      <4>2. Kept(x) \o rest = rest
        BY <3>8, <3>10, ConcatEmptySeq DEF Kept
      <4>3. QED BY <3>3, <3>7, <4>1, <4>2
    <3>11. QED BY <3>9, <3>10
  <2>3. QED BY <2>1, <2>2
<1>4. 1..N \subseteq T
  <2> HIDE DEF T
  <2>1. QED BY <1>1, <1>3, DownInduction
<1>5. 1 \in T /\ Boundary(1)
  <2>1. 1 \in 1..N
    BY <1>1 DEF N
  <2>2. Boundary(1)
    BY <1>1 DEF Boundary
  <2>3. QED BY <1>4, <2>1, <2>2
<1>6. QED BY <1>5

LEMMA ExtractIsCalls == \A s : ExtractToolCalls(s) = CallsFrom(s, 1)
  BY BodiesIsFrom DEF ExtractToolCalls, Parses, CallsFrom, CallsIn

(* While a request is served there is no outcome; the outcome of an answer  *)
(* has the calls of its text                                                *)
CallsOK ==
  /\ pc \notin {"exit", "elsewhere", "idle"} => outcome = Nothing
  /\ (kind = "llama-cpp" /\ outcome.kind = "ok" /\ ClientDispatch(req)) =>
       outcome.calls = ExtractToolCalls(text)

LEMMA CallsInit == Init => CallsOK
  BY DEF Init, CallsOK, Nothing

LEMMA CallsStep == CallsOK /\ [Next]_vars => CallsOK'
<1> SUFFICES ASSUME CallsOK, [Next]_vars PROVE CallsOK'
  OBVIOUS
<1>1. CASE UNCHANGED vars
  BY <1>1 DEF vars, start, CallsOK, ClientDispatch
<1>2. CASE StartUp
  <2>1. (\E r : Exit(r)) \/ (\E b : Serve(b))
    BY <1>2 DEF StartUp
  <2>2. outcome = Nothing
    BY <1>2 DEF StartUp, CallsOK
  <2>3. outcome' = Nothing /\ pc' \in {"exit", "elsewhere", "idle"}
    BY <2>1, <2>2 DEF Exit, Serve
  <2>4. QED BY <2>3 DEF CallsOK, Nothing
<1>3. CASE Begin
  BY <1>3 DEF Begin, CallsOK, Nothing
<1>4. CASE Refuse \/ SpawnFails \/ GenerateFails
  <2>1. Return([kind |-> "error"])
    BY <1>4 DEF Refuse, SpawnFails, GenerateFails, Fails
  <2>2. QED BY <2>1 DEF Return, Goto, CallsOK
<1>5. CASE ExtractPanics
  BY <1>5 DEF ExtractPanics, Return, Goto, CallsOK
<1>6. CASE Complete
  <2>1. /\ pc' = "idle" /\ UNCHANGED <<kind, req, text>> /\ outcome'.calls = ToolCalls
    BY <1>6 DEF Complete, Return, Goto, start
  <2>2. kind = "llama-cpp" /\ ClientDispatch(req) => ToolCalls = ExtractToolCalls(text)
    BY DEF ToolCalls
  <2>3. ClientDispatch(req)' <=> ClientDispatch(req)
    BY <2>1 DEF ClientDispatch
  <2>4. QED BY <2>1, <2>2, <2>3 DEF CallsOK
<1>7. CASE Slot /\ ~(Refuse \/ SpawnFails \/ GenerateFails \/ ExtractPanics \/ Complete)
  <2>1. pc \notin {"exit", "elsewhere", "idle"} /\ outcome' = outcome
    BY <1>7 DEF Slot, Accept, Queued, GenStart, GenDone, Synth, EchoChunk, Spawn, ReadEnd, ReadError,
       FlushTail, StopMarker, Read, Generate, WholeChunk
  <2>2. outcome' = Nothing
    BY <2>1 DEF CallsOK
  <2>3. QED BY <2>2 DEF CallsOK, Nothing
<1>8. QED BY <1>1, <1>2, <1>3, <1>4, <1>5, <1>6, <1>7 DEF Next, Slot

-----------------------------------------------------------------------------
(* The types of a slot's state hold in every reachable state; a slot keeps  *)
(* less than FlushSize bytes back (the flush in SubprocessSlot's read       *)
(* loop), never counts more bytes read than the child wrote, and gives no   *)
(* event for a request that is not streamed.                                *)
THEOREM SlotTypes == Spec => []TypeOK
<1>1. IInv => TypeOK
  BY DEF IInv, Types, TypeOK
<1>2. QED BY <1>1, Invariance, PTL

(* Every slot keeps the contract of SlotHandle::run_stream: whatever the    *)
(* sizes of reads and chunks, wherever a read cuts a character, and however *)
(* the child ends, the sink gets queued, gen_start and gen_done in order    *)
(* and the chunks between the last two, the chunks of a streamed answer add *)
(* up to its text, and a refusal or a failure comes in place of an answer.  *)
THEOREM SlotsKeepContract == Spec => RefinesContract
  BY InitInv, ContractInit, Inductive, ContractStep, PTL DEF Spec, RefinesContract, Contract!Spec

(* Whatever else a command line holds, one without --backend is never       *)
(* answered with a demand for a feature or a flag: default_backend names a  *)
(* backend that build_slot has what it needs for.                           *)
THEOREM DefaultBackendFits == Spec => []DefaultIsBuildable
<1>1. IInv => DefaultIsBuildable
  BY DEF IInv
<1>2. QED BY <1>1, Invariance, PTL

(* LlamaSlot gives the model each tool result once and in order, for any    *)
(* request: in front of a text, or as turns behind the client's.  For turns *)
(* render_turns opens the prompt with the client's system prompt or, if it  *)
(* has none there, with the request's; for a text there is no system prompt *)
(* whatever the request says.                                               *)
THEOREM PromptIsComplete == Spec => []PromptComplete
<1>1. PromptOK /\ IInv => PromptComplete
  <2> SUFFICES ASSUME PromptOK, IInv, prompt # <<>> PROVE PromptComplete
    BY DEF PromptComplete
  <2>1. IsInput(req.input)
    BY DEF IInv, Types
  <2>2. req.input.kind \in {"text", "turns"}
    BY DEF PromptOK
  <2>3. QED BY <2>1, <2>2, TextPrompt, TurnsPrompt
<1>2. Spec => []PromptOK
  BY PromptInit, PromptStep, PTL DEF Spec
<1>3. QED BY <1>1, <1>2, Invariance, PTL

(* Only a character that a read of SubprocessSlot ends inside is lost, in   *)
(* any answer, at any size of the reads and at any point of the loop: it    *)
(* leaves exactly one U+FFFD for its bytes before the first such end and    *)
(* one for each byte behind, and all others arrive as they are, in order.   *)
THEOREM OnlyCutsLose == Spec => []OnlyCutCharactersLost
<1>1. IInv /\ CutOK => OnlyCutCharactersLost
  <2> SUFFICES ASSUME IInv, CutOK, kind = "subprocess" PROVE OnlyCutCharactersLost
    BY DEF OnlyCutCharactersLost
  <2>1. said \in Text /\ taken \in Nat /\ CutAt(said, cuts, taken, text)
    BY TextsKnown DEF CutOK
  <2>2. text = FlattenSeq([i \in DOMAIN said |-> Arrived(said, cuts, taken, i)])
    BY <2>1, ReadIsArrived
  <2>3. \A i : Before(i) = SizeOf(Upto(said, i - 1)) /\ CutsIn(i) = CutsOf(said, cuts, i)
    BY DEF Before, CutsIn, CutsOf, Upto
  <2>4. \A i, n : Remains(i, n) = Left(1 + n - Min(CutsOf(said, cuts, i)))
    BY <2>3 DEF Remains, Left
  <2>5. \A i : Arrived(said, cuts, taken, i) =
                 IF taken <= Before(i) THEN <<>>
                 ELSE IF CutsIn(i) = {} THEN <<said[i]>>
                 ELSE Remains(i, Min({taken - Before(i), Width(said[i])}))
    BY <2>3, <2>4 DEF Arrived
  <2>6. QED BY <2>2, <2>5 DEF OnlyCutCharactersLost
<1>2. Spec => []CutOK
  BY CutInit, InitInv, Inductive, CutStep, PTL DEF Spec
<1>3. QED BY <1>1, <1>2, Invariance, PTL

(* A client gets exactly the calls of the outermost pairs of markers, in    *)
(* order and numbered by place, whatever the model wrote: one that          *)
(* parse_body rejects costs extract_tool_calls none of the others.          *)
THEOREM CallsAreComplete == Spec => []CallsComplete
<1>1. IInv /\ CallsOK => CallsComplete
  <2> SUFFICES ASSUME IInv, CallsOK, kind = "llama-cpp", outcome.kind = "ok", ClientDispatch(req)
               PROVE  CallsComplete
    BY DEF CallsComplete
  <2>1. text \in Text /\ outcome.calls = CallsFrom(text, 1)
    BY ExtractIsCalls DEF IInv, Types, CallsOK
  <2>2. Numbered(outcome.calls, GoodIn(1))
    BY <2>1, CallsNumbered
  <2>3. GoodIn(1) = {o \in Opens : CallAt(o).kind = "call"}
    <3>1. \A o \in Opens : o >= 1
      BY <2>1 DEF Opens, Text
    <3>2. QED BY <3>1 DEF GoodIn, OpensIn
  <2>4. QED BY <2>2, <2>3 DEF Numbered, CallsComplete
<1>2. Spec => []CallsOK
  BY CallsInit, CallsStep, PTL DEF Spec
<1>3. QED BY <1>1, <1>2, Invariance, PTL

=============================================================================
