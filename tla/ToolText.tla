------------------------------ MODULE ToolText -------------------------------
(***************************************************************************)
(* The text side of tool calling on the llama backend: prompts are         *)
(* rendered from turns and tool results (turn_render.rs, tool_text.rs,     *)
(* chat_format.rs), and the answer is searched for tool calls              *)
(* (tool_text.rs, tool_format.rs).                                         *)
(*                                                                         *)
(* A prompt is a sequence of blocks [as, of]: content under a template.    *)
(* An answer is a text in the sense of LenientJson, with "call:" for the   *)
(* word behind an opening marker and "leak" for the framing <|"|> of a     *)
(* quote that the tokenizer let through.                                   *)
(***************************************************************************)
EXTENDS LenientJson

Block(template, content) == [as |-> template, of |-> content]

-----------------------------------------------------------------------------
(***************************************************************************)
(* Prompts.                                                                *)
(***************************************************************************)

(* Gemma4ToolFormat::format_response, as the content of a turn *)
Response(result) == <<"tool_response", result>>

ToolResultsToTurns(results) ==
  [i \in DOMAIN results |-> [role |-> "tool", content |-> Response(results[i])]]

PrependToolResults(text, results) ==
  [i \in DOMAIN results |-> Block("raw", Response(results[i]))] \o <<Block("raw", text)>>

(* Tool turns are rendered as the user's *)
Template(role) == IF role = "tool" THEN "user" ELSE role

OpensWithSystem(turns) == turns # <<>> /\ turns[1].role = "system"

(* Mutant: a system prompt whatever the turns begin with *)
SystemBlock_Always(turns, system) == IF system = <<>> THEN <<>> ELSE <<Block("system", system)>>

SystemBlock(turns, system) ==
  IF system = <<>> \/ OpensWithSystem(turns) THEN <<>> ELSE <<Block("system", system)>>

RenderTurns(turns, system) ==
  SystemBlock(turns, system)
    \o [i \in DOMAIN turns |-> Block(Template(turns[i].role), turns[i].content)]
    \o <<Block("assistant_start", <<>>)>>

-----------------------------------------------------------------------------
(***************************************************************************)
(* Tool calls.                                                             *)
(***************************************************************************)

(* char::is_alphanumeric or an underscore *)
Word == Identifier \cup {"U"}

(* Text up to the first character of C, and from it on *)
FirstOf(s, C, i) == CHOOSE j \in i..(Len(s) + 1) :
                      /\ j <= Len(s) => s[j] \in C
                      /\ \A k \in i..(j - 1) : s[k] \notin C

NoCall == [kind |-> "none"]
Call(name, arguments) == [kind |-> "call", name |-> name, arguments |-> arguments]
Empty == [kind |-> "json", text |-> <<"{", "}">>]

Unleaked(body) == [i \in DOMAIN body |-> IF body[i] = "leak" THEN Quote ELSE body[i]]

ParseArguments(raw) == IF IsJson(raw) THEN Parsed(raw) ELSE LenientParseObject(raw)

CallWith(name, args) ==
  IF args.kind \in {"none", "panic"} THEN args
  ELSE IF name = <<>> THEN NoCall
  ELSE Call(name, args)

ParseCall(call, brace) ==
  IF brace <= Len(call)
  THEN CallWith(Trim(SubSeq(call, 1, brace - 1)), ParseArguments(SubSeq(call, brace, Len(call))))
  ELSE IF call # <<>> /\ ToSet(call) \subseteq Word THEN Call(call, Empty)
  ELSE NoCall

(* Gemma4ToolFormat::parse_body.  The name it adds to the arguments under   *)
(* "tool" is taken out again by extract_tool_calls, so neither is here.     *)
ParseBody(body) ==
  LET text == Trim(Unleaked(body))
      call == Trim(IF At(text, 1) = "call:" THEN Tail(text) ELSE text)
  IN  ParseCall(call, FirstOf(call, {"{"}, 1))

(* The first opening marker from i on, and the closing one behind it *)
OpenFrom(text, i)  == FirstOf(text, {"open"}, i)
CloseFrom(text, i) == FirstOf(text, {"close"}, OpenFrom(text, i) + 1)

NoPair(text, i) == OpenFrom(text, i) >= Len(text) \/ CloseFrom(text, i) > Len(text)

PairBody(text, i) == SubSeq(text, OpenFrom(text, i) + 1, CloseFrom(text, i) - 1)

(* Mutant: the search goes on behind the opening marker *)
Bodies_FromOpen(text) ==
  LET from[i \in 1..(Len(text) + 1)] ==
        IF NoPair(text, i) THEN <<>> ELSE <<PairBody(text, i)>> \o from[OpenFrom(text, i) + 1]
  IN  from[1]

(* What is between the markers, pair by pair *)
Bodies(text) ==
  LET from[i \in 1..(Len(text) + 1)] ==
        IF NoPair(text, i) THEN <<>> ELSE <<PairBody(text, i)>> \o from[CloseFrom(text, i) + 1]
  IN  from[1]

Parses(text) == LET bodies == Bodies(text) IN [i \in DOMAIN bodies |-> ParseBody(bodies[i])]

IsCall(parsed) == parsed.kind = "call"

(* extract_tool_calls; a call's id is its place *)
ExtractToolCalls(text) ==
  LET parses == Parses(text) IN Without(parses, {i \in DOMAIN parses : ~IsCall(parses[i])})

Panics(text) == LET parses == Parses(text) IN \E i \in DOMAIN parses : parses[i].kind = "panic"

=============================================================================
