---------------------------- MODULE ToolArguments ----------------------------
(***************************************************************************)
(* A model writes the arguments of a tool call, piece by piece, and what   *)
(* lenient_parse_object must hold to is stated of every body it may have   *)
(* written by then.                                                        *)
(***************************************************************************)
EXTENDS LenientJson

CONSTANT Pieces   \* the texts that may be written at each turn; its length is the bound

ASSUME PieceAssumption == Pieces \in Seq(SUBSET Seq(Chars))

VARIABLES
  body,     \* what the model wrote: the arguments from the brace on
  written   \* turns taken

vars == <<body, written>>

Init == body = <<"{">> /\ written = 0

Write(p) ==
  /\ body' = body \o p
  /\ written' = written + 1

Next == written < Len(Pieces) /\ \E p \in Pieces[written + 1] : Write(p)

Spec == Init /\ [][Next]_vars

-----------------------------------------------------------------------------
(***************************************************************************)
(* Properties.                                                             *)
(***************************************************************************)

Ascii(s) == "U" \notin ToSet(s)

(* Up to each place, as JSON reads it: whether it is in a string, and how   *)
(* deep it is in the brackets outside of strings                            *)
ModeBehind(mode, c) ==
  CASE mode = "out"     -> IF c = Quote THEN "in" ELSE "out"
    [] mode = "in"      -> IF c = Quote THEN "out" ELSE IF c = Backslash THEN "escaped" ELSE "in"
    [] mode = "escaped" -> "in"

Modes(s) ==
  LET mode[i \in 1..(Len(s) + 1)] == IF i = 1 THEN "out" ELSE ModeBehind(mode[i - 1], s[i - 1])
  IN  mode

Depths(s) ==
  LET modes == Modes(s)
      depth[i \in 1..(Len(s) + 1)] ==
        IF i = 1 THEN 0 ELSE depth[i - 1] + (IF modes[i - 1] = "out" THEN Nesting(s[i - 1]) ELSE 0)
  IN  depth

(* Valid arguments are not altered: an object strict JSON accepts goes      *)
(* through both rewriting scanners unchanged, whatever its strings hold     *)
(* (json_lenient.rs:166, "we don't double-quote anything that's already     *)
(* valid JSON").  Text outside ASCII is excepted: its bytes come apart.     *)
StrictUntouched ==
  IsJson(body) /\ Ascii(body) =>
    QuoteBareKeys(body) = body /\ EscapeStringControls(body) = body

(* Layer 1 recovers what was meant: an object whose keys lost their quotes  *)
(* is read as the object with them (json_lenient.rs:13).                    *)
BareKeysRecovered ==
  LET End(i)   == Past(body, Identifier, i + 1)
      bareable == {i \in DOMAIN body :
                     /\ body[i] = Quote /\ Modes(body)[i] = "out"
                     /\ At(body, i + 1) \in Letters /\ At(body, End(i)) = Quote
                     /\ At(body, Past(body, Blank, End(i) + 1)) = ":"}
  IN  IsJson(body) /\ Ascii(body) =>
        LenientParseObject(Without(body, bareable \cup {End(i) : i \in bareable})) = Parsed(body)

(* Every string of s is one JSON accepts *)
StringsValid(s) ==
  LET from[i \in 1..(Len(s) + 1)] ==
        IF i > Len(s) THEN TRUE
        ELSE IF s[i] = Quote THEN StringEnd(s, i) # 0 /\ from[StringEnd(s, i)]
        ELSE from[i + 1]
  IN  from[1]

(* The repairs finish the job whatever the model wrote: behind both         *)
(* scanners every string is one JSON accepts, its last one however it is    *)
(* closed, and no bare key is left to find (json_lenient.rs:41, 387).       *)
RepairsSettle ==
  LET quoted  == QuoteBareKeys(body)
      escaped == EscapeStringControls(quoted)
  IN  /\ \E close \in {<<>>, <<Quote>>, <<Backslash, Quote>>} : StringsValid(escaped \o close)
      /\ QuoteBareKeys(escaped) = escaped

(* Where the first colon is not in a string, a body with a comma between    *)
(* its own entries is never rescued as a single value: the rescue would     *)
(* swallow the later keys (json_lenient.rs:23, 117).                        *)
NoSiblingSwallowed ==
  (/\ Modes(body)[Past(body, Chars \ {":"}, 1)] = "out"
   /\ \E i \in DOMAIN body : body[i] = "," /\ Modes(body)[i] = "out" /\ Depths(body)[i] = 1)
  => LenientParseObject(body).kind # "single"

(* Quotes that are data stay escaped: an escaped quote between two letters  *)
(* is never taken for structure (json_lenient.rs:64, 321).                  *)
DataQuotesSurvive ==
  LET Data(s) == {i \in DOMAIN s : /\ At(s, i) \in Letters /\ At(s, i + 1) = Backslash
                                   /\ At(s, i + 2) = Quote /\ At(s, i + 3) \in Letters}
  IN  Cardinality(Data(UnEscapeStructuralQuotes(body))) = Cardinality(Data(body))

(* The doc's words: lenient_parse_object "Returns `None` when the body is   *)
(* ambiguous enough that we'd rather fail than guess" (json_lenient.rs:32); *)
(* a body whose only quote opens the key makes it slice [1..0] and panic.   *)
FailsRatherThanPanics == LenientParseObject(body).kind # "panic"
=============================================================================
