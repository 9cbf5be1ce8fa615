----------------------------- MODULE LenientJson -----------------------------
(***************************************************************************)
(* Recovery of malformed tool arguments (gemma_utils/src/json_lenient.rs). *)
(*                                                                         *)
(* A text is a sequence of characters, one for each class the code tells   *)
(* apart: "n" is a letter that also makes an escape (\n), "w" one that     *)
(* does not (\w), "LF" stands for the control characters, "U" for one that *)
(* is not ASCII and "~" for what is left of it when each of its bytes is   *)
(* made a character.                                                       *)
(***************************************************************************)
EXTENDS Integers, Sequences, FiniteSets, SequencesExt

Letters    == {"n", "w"}
Identifier == Letters \cup {"1"}
Blank      == {" ", "LF"}
Quote      == "\""
Backslash  == "\\"
Escapable  == {Quote, Backslash, "n"}
Marker     == {"open", "close"}   \* <|tool_call> and <tool_call|>
Chars      == Identifier \cup Blank \cup Marker
                \cup {"{", "}", "[", "]", ",", ":", "=", Quote, Backslash, "U", "~"}
Plain      == Chars \ {Quote, Backslash, "LF"}   \* stands for itself in a string

-----------------------------------------------------------------------------
(* The character at i, "" past the end *)
At(s, i) == IF i \in DOMAIN s THEN s[i] ELSE ""

(* The first place from i on that holds no member of C *)
Past(s, C, i) == CHOOSE j \in i..(Len(s) + 1) :
                   At(s, j) \notin C /\ \A k \in i..(j - 1) : At(s, k) \in C

Trim(s) ==
  LET solid == {i \in DOMAIN s : s[i] \notin Blank}
  IN  IF solid = {} THEN <<>> ELSE SubSeq(s, Min(solid), Max(solid))

(* s without the characters at the places P *)
Without(s, P) == FlattenSeq([i \in DOMAIN s |-> IF i \in P THEN <<>> ELSE <<s[i]>>])

-----------------------------------------------------------------------------
(***************************************************************************)
(* serde_json::from_str::<Value>, as far as it says yes or no.             *)
(***************************************************************************)

(* The place behind the string at i, or 0 *)
StringEnd(s, i) ==
  LET end[j \in 1..(Len(s) + 1)] ==
        IF At(s, j) = Quote THEN j + 1
        ELSE IF At(s, j) = Backslash /\ At(s, j + 1) \in Escapable THEN end[j + 2]
        ELSE IF At(s, j) \in Plain THEN end[j + 1]
        ELSE 0
  IN  IF At(s, i) = Quote THEN end[i + 1] ELSE 0

(* What may come: a value, the first or another item of what is open, or    *)
(* what follows a value                                                     *)
Awaited == {"value", "first", "item", "behind"}
Closers == {"}", "]"}

(* What is read at <<i, awaited, open>>, where `open' has the closers of    *)
(* what is open, the innermost first; the place is 0 where JSON refuses     *)
JsonTurn(s, at) ==
  LET open   == at[3]
      here   == Past(s, Blank, at[1])
      c      == At(s, here)
      string == StringEnd(s, here)
      colon  == Past(s, Blank, string)
      isKey  == at[2] \in {"first", "item"} /\ open # <<>> /\ Head(open) = "}"
      isItem == at[2] # "behind" /\ ~isKey
  IN  CASE at[2] \in {"first", "behind"} /\ open # <<>> /\ c = Head(open) -> <<here + 1, "behind", Tail(open)>>
        [] at[2] = "behind" /\ open # <<>> /\ c = ","      -> <<here + 1, "item", open>>
        [] isKey /\ string # 0 /\ At(s, colon) = ":"       -> <<colon + 1, "value", open>>
        [] isItem /\ string # 0                            -> <<string, "behind", open>>
        [] isItem /\ c = "1"                               -> <<Past(s, {"1"}, here), "behind", open>>
        [] isItem /\ c = "{"                               -> <<here + 1, "first", <<"}">> \o open>>
        [] isItem /\ c = "["                               -> <<here + 1, "first", <<"]">> \o open>>
        [] OTHER                                           -> <<0, "behind", <<>>>>

IsJson(s) ==
  LET reads[at \in (0..(Len(s) + 1)) \X Awaited \X Seq(Closers)] ==
        IF at[1] = 0 THEN FALSE
        ELSE IF at[2] = "behind" /\ at[3] = <<>> THEN Past(s, Blank, at[1]) > Len(s)
        ELSE reads[JsonTurn(s, at)]
  IN  reads[<<1, "value", <<>>>>]

-----------------------------------------------------------------------------
(***************************************************************************)
(* The repairs.                                                            *)
(***************************************************************************)

(* out.push(b as char): the bytes of a character outside ASCII come apart *)
AsChar(c) == IF c = "U" THEN "~" ELSE c

AsChars(s) == [i \in DOMAIN s |-> AsChar(s[i])]

(* Mutant: a quote behind a backslash ends the string *)
StringStep_EscapeUnseen(s, i) == 1

(* What the scanners take at once inside a string: an escape is two *)
StringStep(s, i) == IF s[i] = Backslash /\ i < Len(s) THEN 2 ELSE 1

EndsString(s, i) == s[i] = Quote

(* Mutant: only the first key of an object *)
OpensKey_Brace(c) == c = "{"

(* Behind these an identifier may be a key *)
OpensKey(c) == c \in {"{", ","}

(* The sign behind a key, and the one it becomes *)
EndsKey(c) == c \in {":", "="}
Colon      == ":"

(* quote_bare_keys: an identifier behind a brace or a comma, and before a   *)
(* colon or an equals sign, is a key.  A turn of the loop at                *)
(* <<i, in_string, expect_key>> pushes characters and goes on at `next'.    *)
KeyTurn(s, at) ==
  LET i     == at[1]
      c     == s[i]
      n     == StringStep(s, i)
      end   == Past(s, Identifier, i)
      sep   == Past(s, Blank, end)
      isKey == at[3] /\ c \in Letters /\ EndsKey(At(s, sep))
  IN  CASE at[2] ->
             [push |-> AsChars(SubSeq(s, i, i + n - 1)), next |-> <<i + n, ~EndsString(s, i), at[3]>>]
        [] ~at[2] /\ c = Quote ->
             [push |-> <<c>>, next |-> <<i + 1, TRUE, FALSE>>]
        [] ~at[2] /\ OpensKey(c) ->
             [push |-> <<c>>, next |-> <<i + 1, FALSE, TRUE>>]
        [] ~at[2] /\ c \in Blank ->
             [push |-> <<c>>, next |-> <<i + 1, FALSE, at[3]>>]
        [] ~at[2] /\ isKey ->
             [push |-> <<Quote>> \o SubSeq(s, i, end - 1) \o <<Quote>> \o SubSeq(s, end, sep - 1) \o <<Colon>>,
              next |-> <<sep + 1, FALSE, FALSE>>]
        [] OTHER ->
             [push |-> AsChars(<<c>>), next |-> <<i + 1, FALSE, FALSE>>]

QuoteBareKeys(s) ==
  LET out[at \in (1..(Len(s) + 1)) \X BOOLEAN \X BOOLEAN] ==
        IF at[1] > Len(s) THEN <<>> ELSE KeyTurn(s, at).push \o out[KeyTurn(s, at).next]
  IN  out[<<1, FALSE, FALSE>>]

(* Mutant: every escape taken for a valid one *)
EscapeOf_Any(s, i) == <<Backslash, s[i + 1]>>

(* What becomes of a backslash in a string: a lone one is doubled, and what *)
(* follows it is read as content                                            *)
EscapeOf(s, i) ==
  IF s[i + 1] \in Escapable THEN <<Backslash, s[i + 1]>> ELSE <<Backslash, Backslash>>

(* escape_string_controls, a turn of its loop at <<i, in_string>> *)
EscapeTurn(s, at) ==
  LET i == at[1]
      n == StringStep(s, i)
  IN  CASE at[2] /\ n = 2 ->
             [push |-> EscapeOf(s, i), next |-> <<IF EscapeOf(s, i)[2] = s[i + 1] THEN i + 2 ELSE i + 1, TRUE>>]
        [] at[2] /\ n = 1 ->
             [push |-> IF s[i] = "LF" THEN <<Backslash, "n">> ELSE AsChars(<<s[i]>>),
              next |-> <<i + 1, ~EndsString(s, i)>>]
        [] OTHER ->
             [push |-> AsChars(<<s[i]>>), next |-> <<i + 1, EndsString(s, i)>>]

EscapeStringControls(s) ==
  LET out[at \in (1..(Len(s) + 1)) \X BOOLEAN] ==
        IF at[1] > Len(s) THEN <<>> ELSE EscapeTurn(s, at).push \o out[EscapeTurn(s, at).next]
  IN  out[<<1, FALSE>>]

-----------------------------------------------------------------------------
(***************************************************************************)
(* un_escape_structural_quotes: three patterns, each searched from left to *)
(* right without overlap.  An operator gives the place behind its pattern  *)
(* at i, or 0; it passes a 0 on.                                           *)
(***************************************************************************)

(* \\?" *)
AnyQuote(s, i) ==
  CASE At(s, i) = Quote -> i + 1
    [] At(s, i) = Backslash /\ At(s, i + 1) = Quote -> i + 2
    [] OTHER -> 0

(* \s* and a character of C *)
Delimiter(s, C, i) ==
  LET j == Past(s, Blank, i) IN IF i # 0 /\ At(s, j) \in C THEN j + 1 ELSE 0

(* \\?" identifier \\?" \s*: *)
QuotedKey(s, i) ==
  LET open == AnyQuote(s, i)
      end  == Past(s, Identifier, open)
  IN  IF open # 0 /\ At(s, open) \in Letters THEN Delimiter(s, {":"}, AnyQuote(s, end)) ELSE 0

Spaced(s, i) == IF i = 0 THEN 0 ELSE Past(s, Blank, i)

KvPair(s, i) ==
  IF s[i] \in {"{", ","} THEN AnyQuote(s, Spaced(s, QuotedKey(s, Spaced(s, i + 1)))) ELSE 0

ValueCloseThenKey(s, i) == QuotedKey(s, Spaced(s, Delimiter(s, {","}, AnyQuote(s, i))))

ValueClose(s, i) == IF s[i] = Backslash THEN Delimiter(s, {"}"}, AnyQuote(s, i)) ELSE 0

(* Places the matches of a pattern cover; behind[i] is the end of one at i *)
Covered(behind) ==
  LET from[i \in 1..(Len(behind) + 1)] ==
        IF i > Len(behind) THEN {}
        ELSE IF behind[i] # 0 THEN i..(behind[i] - 1) \cup from[behind[i]]
        ELSE from[i + 1]
  IN  from[1]

(* Mutant: every escaped quote replaced *)
UnEscapeStructuralQuotes_Bulk(s) ==
  Without(s, {i \in DOMAIN s : At(s, i) = Backslash /\ At(s, i + 1) = Quote})

UnEscapeStructuralQuotes(s) ==
  LET matched == {Covered([i \in DOMAIN s |-> KvPair(s, i)]),
                  Covered([i \in DOMAIN s |-> ValueCloseThenKey(s, i)]),
                  Covered([i \in DOMAIN s |-> ValueClose(s, i)])}
      lone    == {i \in DOMAIN s : At(s, i) = Backslash /\ At(s, i + 1) = Quote /\
                    \E m \in matched : {i, i + 1} \subseteq m}
  IN  Without(s, lone)

-----------------------------------------------------------------------------
(***************************************************************************)
(* lenient_parse_object.                                                   *)
(***************************************************************************)

(* Mutant: brackets not counted *)
HasTopLevelComma_Flat(s) == \E i \in DOMAIN s : s[i] = "," /\ At(s, i + 1) = " "

(* What a character outside of strings adds to the depth *)
Nesting(c) == IF c \in {"{", "["} THEN 1 ELSE IF c \in {"}", "]"} THEN -1 ELSE 0

(* The loop at <<i, depth, in_string>> *)
HasTopLevelComma(s) ==
  LET from[at \in (1..(Len(s) + 1)) \X Int \X BOOLEAN] ==
        IF at[1] > Len(s) THEN FALSE
        ELSE IF at[3] THEN from[<<at[1] + StringStep(s, at[1]), at[2], ~EndsString(s, at[1])>>]
        ELSE IF s[at[1]] = "," /\ at[2] = 0 THEN TRUE
        ELSE from[<<at[1] + 1, at[2] + Nesting(s[at[1]]), EndsString(s, at[1])>>]
  IN  from[<<1, 0, FALSE>>]

Refused          == [kind |-> "none"]
Panic            == [kind |-> "panic"]
Parsed(s)        == [kind |-> "json", text |-> s]
Single(key, v)   == [kind |-> "single", key |-> key, value |-> v]

(* Step 2: a quoted key and a value that is no JSON, each trimmed *)
RescueEntry(key, value) ==
  LET name == SubSeq(key, 2, Len(key) - 1) IN
  IF key = <<>> THEN Refused
  ELSE IF key[1] # Quote \/ Last(key) # Quote THEN Refused
  ELSE IF Len(key) = 1 THEN Panic   \* key_part[1..0]
  ELSE IF Quote \in ToSet(name) \/ value = <<>> THEN Refused
  ELSE IF IsJson(value) THEN Single(name, value)
  ELSE IF HasTopLevelComma(value) \/ value[1] = Quote THEN Refused
  ELSE Single(name, value)

RescueSplit(inner, colon) ==
  IF colon > Len(inner) THEN Refused
  ELSE RescueEntry(Trim(SubSeq(inner, 1, colon - 1)), Trim(SubSeq(inner, colon + 1, Len(inner))))

RescueSingle(text) ==
  IF Len(text) < 2 \/ text[1] # "{" \/ Last(text) # "}" THEN Refused
  ELSE LET inner == Trim(SubSeq(text, 2, Len(text) - 1))
       IN  RescueSplit(inner, Past(inner, Chars \ {":"}, 1))

(* What the repairs make of the body, one on top of the other *)
Recover(quoted, escaped, rewritten) ==
  IF IsJson(quoted) THEN Parsed(quoted)
  ELSE IF IsJson(escaped) THEN Parsed(escaped)
  ELSE IF IsJson(rewritten) THEN Parsed(rewritten)
  ELSE RescueSingle(Trim(quoted))

LenientParseObject(raw) ==
  LET quoted  == QuoteBareKeys(raw)
      escaped == EscapeStringControls(quoted)
  IN  Recover(quoted, escaped, UnEscapeStructuralQuotes(escaped))

=============================================================================
