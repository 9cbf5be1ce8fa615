------------------------------ MODULE TextSlots ------------------------------
(***************************************************************************)
(* The slots that take a prompt and give a text, as the server process     *)
(* runs them: main.rs builds one of them, and it then serves requests.     *)
(*   stub        StubSlot (slot.rs): echoes the prompt in about 3 chunks   *)
(*   subprocess  SubprocessSlot: the stdout of llama-completion, a chunk   *)
(*               whenever enough of it was read                            *)
(*   llama-cpp   LlamaSlot: one chunk with the whole text, and the tool    *)
(*               calls found in it                                         *)
(* Requests share nothing here but the llama.cpp context, which            *)
(* LlamaSession is about, so one request runs at a time.  A backend of     *)
(* litert-lm ends this model: PrefixCache is its slot.                     *)
(***************************************************************************)
EXTENDS ToolText, Startup

CONSTANTS
  Argvs,      \* command lines
  Requests,   \* requests: [input, tools, results, mode, system, session, stream]
  Outputs,    \* what a model may answer
  ReadSize,   \* bytes a read of the child's stdout returns at most
  FlushSize   \* bytes that make a chunk

Replacement == "R"   \* U+FFFD

(* Bytes of a character *)
Width(c) == CASE c = "U" -> 2 [] c \in {"T", Replacement} -> 3 [] c = "F" -> 4 [] OTHER -> 1

(* A text of an answer or a request; "stub" stands for what the stub echoes *)
(* of an input that is no text                                              *)
Character == Chars \cup {"T", "F", "call:", "leak", "e", "c", "h", "o", "stub", Replacement}
Text      == Seq(Character)

Turn == [role : {"system", "user", "assistant", "tool"}, content : Text]

IsInput(input) ==
  /\ input.kind = "text"  => input.text \in Text
  /\ input.kind = "turns" => input.turns \in Seq(Turn)

ASSUME TextAssumption ==
  /\ ReadSize \in Nat \ {0} /\ FlushSize \in Nat \ {0}
  /\ Argvs \subseteq Seq(Words)
  /\ \A r \in Requests : /\ r.stream \in BOOLEAN /\ IsInput(r.input)
                         /\ r.system \in Text /\ r.results \in Seq(ToSet(r.results))
  /\ Outputs \subseteq Text
  /\ \A out \in Outputs : \A i \in DOMAIN out : out[i] = "call:" => At(out, i - 1) = "open"

VARIABLES
  argv,      \* the command line, until a slot is built
  features,  \* the backends compiled in
  kind,      \* the slot
  why,       \* why the process ended: "parse", or the error of build_slot
  pc,        \* where the slot is
  req,       \* the request it serves
  prompt,    \* what LlamaSlot feeds the model
  text,      \* the answer so far
  acc,       \* what of it was not given to the sink yet
  said,      \* what is echoed, or what the child writes
  taken,     \* characters of the echo given out, or bytes of the child read
  cuts,      \* bookkeeping for OnlyCutCharactersLost: after which bytes of the
             \* child a read ended inside a character
  events,    \* what the sink got
  outcome    \* what run or run_stream returned last

start == <<argv, features, kind, why>>
vars  == <<start, pc, req, prompt, text, acc, said, taken, cuts, events, outcome>>

Nothing == [kind |-> "none"]
NoReq   == [stream |-> FALSE, input |-> Nothing, results |-> <<>>, system |-> <<>>]

Init ==
  /\ argv \in Argvs /\ features \in SUBSET {"llama-cpp", "litert-lm"}
  /\ kind = "none" /\ why = "" /\ pc = "start"
  /\ req = NoReq /\ prompt = <<>> /\ text = <<>> /\ acc = <<>> /\ said = <<>> /\ taken = 0
  /\ cuts = {}
  /\ events = <<>> /\ outcome = Nothing

-----------------------------------------------------------------------------
(***************************************************************************)
(* Start-up: main, parse_args, build_slot.                                 *)
(***************************************************************************)

Exit(reason) ==
  /\ pc' = "exit" /\ why' = reason
  /\ UNCHANGED <<argv, features, kind, req, prompt, text, acc, said, taken, cuts, events, outcome>>

Serve(backend) ==
  /\ pc' = IF backend = "litert-lm" THEN "elsewhere" ELSE "idle"
  /\ kind' = backend /\ argv' = <<>>
  /\ UNCHANGED <<features, why, req, prompt, text, acc, said, taken, cuts, events, outcome>>

StartUp ==
  LET args    == ParseArgs(argv)
      backend == ChosenBackend(args, features)
      error   == BuildError(backend, args, features)
  IN  /\ pc = "start"
      /\ CASE ~ParsesArgs(argv) -> Exit("parse")
           [] ParsesArgs(argv) /\ error # "" -> Exit(error)
           [] OTHER -> \/ Serve(backend)
                       \/ backend \in {"llama-cpp", "litert-lm"} /\ Exit("load")

-----------------------------------------------------------------------------
Goto(p) == pc' = p

(* Mutant: events for a request that did not ask for them *)
Emit_Unasked(e) == events' = Append(events, e)

Emit(e) == events' = IF req.stream THEN Append(events, e) ELSE events

ChunkOf(t, stop) == [kind |-> "chunk", text |-> t, stop |-> stop]

Begin ==
  /\ pc = "idle" /\ Goto("accept")
  /\ req' \in Requests
  /\ prompt' = <<>> /\ text' = <<>> /\ acc' = <<>> /\ said' = <<>> /\ taken' = 0
  /\ cuts' = {}
  /\ events' = <<>> /\ outcome' = Nothing
  /\ UNCHANGED start

Return(o) ==
  /\ Goto("idle") /\ outcome' = o
  /\ UNCHANGED <<start, req, prompt, text, acc, said, taken, cuts, events>>

Fails == Return([kind |-> "error"])

(* LlamaSlot::run_inner, prompt assembly *)
Assemble(r) ==
  IF r.input.kind = "turns"
  THEN RenderTurns(r.input.turns \o ToolResultsToTurns(r.results), r.system)
  ELSE PrependToolResults(r.input.text, r.results)

Supports(backend, input) ==
  CASE backend = "stub"       -> TRUE
    [] backend = "subprocess" -> input.kind = "text"
    [] backend = "llama-cpp"  -> input.kind \in {"text", "turns"}

Accept ==
  /\ pc = "accept" /\ Supports(kind, req.input) /\ Goto("queued")
  /\ prompt' = IF kind = "llama-cpp" THEN Assemble(req) ELSE <<>>
  /\ UNCHANGED <<start, req, text, acc, said, taken, cuts, events, outcome>>

Refuse == pc = "accept" /\ ~Supports(kind, req.input) /\ Fails

Queued ==
  /\ pc = "queued" /\ Goto("gen_start")
  /\ Emit([kind |-> "queued"])
  /\ UNCHANGED <<start, req, prompt, text, acc, said, taken, cuts, outcome>>

GenStart ==
  /\ pc = "gen_start"
  /\ Goto(CASE kind = "stub" -> "synth" [] kind = "subprocess" -> "spawn" [] OTHER -> "generate")
  /\ Emit([kind |-> "gen_start"])
  /\ UNCHANGED <<start, req, prompt, text, acc, said, taken, cuts, outcome>>

GenDone ==
  /\ pc = "gen_done" /\ Goto("return")
  /\ Emit([kind |-> "gen_done"])
  /\ UNCHANGED <<start, req, prompt, text, acc, said, taken, cuts, outcome>>

-----------------------------------------------------------------------------
(***************************************************************************)
(* StubSlot.                                                               *)
(***************************************************************************)

EchoPrefix == <<"e", "c", "h", "o", ":", " ">>

UserTurns(turns) == {i \in DOMAIN turns : turns[i].role = "user"}

(* synth_echo_response, its text; what is no text gives one marker *)
Echo(input) ==
  EchoPrefix \o
    CASE input.kind = "text" -> input.text
      [] input.kind = "turns" /\ UserTurns(input.turns) # {} ->
           input.turns[Max(UserTurns(input.turns))].content
      [] OTHER -> <<"stub">>

Synth ==
  /\ pc = "synth" /\ Goto("echo")
  /\ text' = Echo(req.input) /\ said' = Echo(req.input)
  /\ UNCHANGED <<start, req, prompt, acc, taken, cuts, events, outcome>>

EchoSize == Max({Len(text) \div 3, 1})

(* Mutant: what is left over after whole chunks is not given out *)
EchoChunk_NoTail ==
  LET n == EchoSize IN
  /\ pc = "echo"
  /\ IF Len(said) - taken < n THEN Goto("gen_done") /\ UNCHANGED <<taken, events>>
     ELSE /\ Emit(ChunkOf(SubSeq(said, taken + 1, taken + n), taken + n = Len(said)))
          /\ taken' = taken + n /\ UNCHANGED pc
  /\ UNCHANGED <<start, req, prompt, text, acc, said, cuts, outcome>>

EchoChunk ==
  LET n == Min({EchoSize, Len(said) - taken}) IN
  /\ pc = "echo"
  /\ IF n = 0 THEN Goto("gen_done") /\ UNCHANGED <<taken, events>>
     ELSE /\ Emit(ChunkOf(SubSeq(said, taken + 1, taken + n), taken + n = Len(said)))
          /\ taken' = taken + n /\ UNCHANGED pc
  /\ UNCHANGED <<start, req, prompt, text, acc, said, cuts, outcome>>

-----------------------------------------------------------------------------
(***************************************************************************)
(* SubprocessSlot.                                                         *)
(***************************************************************************)

(* The bytes of a text: [c, k] is byte k of the character c *)
BytesOf(s) == FlattenSeq([i \in DOMAIN s |-> [k \in 1..Width(s[i]) |-> [c |-> s[i], k |-> k]]])

SizeOf(s) == Len(BytesOf(s))

(* Mutant: the buffer decoded byte by byte, each taken for a character *)
Decode_Bytewise(bytes) ==
  [i \in DOMAIN bytes |-> IF Width(bytes[i].c) = 1 THEN bytes[i].c ELSE Replacement]

(* from_utf8, or from_utf8_lossy: a character cut at the end of the buffer  *)
(* gives one replacement, each byte left of one cut before gives one too    *)
Decode(bytes) ==
  LET from[i \in 1..(Len(bytes) + 1)] ==
        IF i > Len(bytes) THEN <<>>
        ELSE IF bytes[i].k > 1 THEN <<Replacement>> \o from[i + 1]
        ELSE IF i + Width(bytes[i].c) > Len(bytes) + 1 THEN <<Replacement>>
        ELSE <<bytes[i].c>> \o from[i + Width(bytes[i].c)]
  IN  from[1]

Spawn ==
  /\ pc = "spawn" /\ Goto("read")
  /\ said' \in Outputs
  /\ UNCHANGED <<start, req, prompt, text, acc, taken, cuts, events, outcome>>

SpawnFails == pc = "spawn" /\ Fails

Unread == SubSeq(BytesOf(said), taken + 1, SizeOf(said))

(* Byte p is not the last of its character *)
Splits(p) == BytesOf(said)[p].k < Width(BytesOf(said)[p].c)

(* What is read is added to both texts, and goes out when it is enough *)
Read(n) ==
  LET s == Decode(SubSeq(Unread, 1, n)) IN
  /\ pc = "read" /\ n <= Len(Unread) /\ UNCHANGED pc
  /\ taken' = taken + n
  /\ text' = text \o s
  /\ IF SizeOf(acc \o s) >= FlushSize
     THEN acc' = <<>> /\ Emit(ChunkOf(acc \o s, FALSE))
     ELSE acc' = acc \o s /\ UNCHANGED events
  /\ cuts' = cuts \cup {p \in {taken + n} : Splits(p)}
  /\ UNCHANGED <<start, req, prompt, said, outcome>>

ReadEnd ==
  /\ pc = "read" /\ Unread = <<>> /\ Goto("tail")
  /\ UNCHANGED <<start, req, prompt, text, acc, said, taken, cuts, events, outcome>>

(* An error is logged and ends the reading like Ok(0) *)
ReadError ==
  /\ pc = "read" /\ Unread # <<>> /\ Goto("tail")
  /\ UNCHANGED <<start, req, prompt, text, acc, said, taken, cuts, events, outcome>>

FlushTail ==
  /\ pc = "tail" /\ Goto("stop") /\ acc' = <<>>
  /\ IF acc # <<>> THEN Emit(ChunkOf(acc, FALSE)) ELSE UNCHANGED events
  /\ UNCHANGED <<start, req, prompt, text, said, taken, cuts, outcome>>

StopMarker ==
  /\ pc = "stop" /\ Goto("gen_done")
  /\ Emit(ChunkOf(<<>>, TRUE))
  /\ UNCHANGED <<start, req, prompt, text, acc, said, taken, cuts, outcome>>

-----------------------------------------------------------------------------
(***************************************************************************)
(* LlamaSlot.                                                              *)
(***************************************************************************)

Generate ==
  /\ pc = "generate" /\ Goto("chunk")
  /\ text' \in Outputs
  /\ UNCHANGED <<start, req, prompt, acc, said, taken, cuts, events, outcome>>

GenerateFails == pc = "generate" /\ Fails

WholeChunk ==
  /\ pc = "chunk" /\ Goto("gen_done")
  /\ Emit(ChunkOf(text, FALSE))
  /\ UNCHANGED <<start, req, prompt, text, acc, said, taken, cuts, outcome>>

ClientDispatch(r) == r.mode = "Client" \/ (r.mode = "Auto" /\ r.tools # <<>>)

-----------------------------------------------------------------------------
(* The calls of the answer; the stub's is the first tool, canned *)
ToolCalls ==
  CASE kind = "stub"       -> IF req.tools = <<>> THEN <<>> ELSE <<Call(req.tools[1], Empty)>>
    [] kind = "subprocess" -> <<>>
    [] kind = "llama-cpp"  -> IF ClientDispatch(req) THEN ExtractToolCalls(text) ELSE <<>>

(* Only SubprocessSlot does not give the session id back *)
Complete ==
  /\ pc = "return"
  /\ ~(kind = "llama-cpp" /\ ClientDispatch(req) /\ Panics(text))
  /\ Return([kind |-> "ok", text |-> text, calls |-> ToolCalls,
             session |-> IF kind = "subprocess" THEN "none" ELSE req.session])

(* The panic of lenient_parse_object ends the task that serves the request: *)
(* the caller gets nothing, which the contract counts as a failure          *)
ExtractPanics ==
  /\ pc = "return" /\ kind = "llama-cpp" /\ ClientDispatch(req) /\ Panics(text)
  /\ Return([kind |-> "panic"])

Slot ==
  \/ Accept \/ Refuse \/ Queued \/ GenStart \/ GenDone \/ Complete \/ ExtractPanics
  \/ Synth \/ EchoChunk
  \/ Spawn \/ SpawnFails \/ ReadEnd \/ ReadError \/ FlushTail \/ StopMarker
  \/ \E n \in 1..ReadSize : Read(n)
  \/ Generate \/ GenerateFails \/ WholeChunk

Next == StartUp \/ Begin \/ Slot

Spec == Init /\ [][Next]_vars

-----------------------------------------------------------------------------
(***************************************************************************)
(* Properties.                                                             *)
(***************************************************************************)

Place == {"start", "exit", "elsewhere", "idle", "accept", "queued", "gen_start", "synth", "echo",
          "spawn", "read", "tail", "stop", "generate", "chunk", "gen_done", "return"}

(* Types; the slot keeps less than a chunk to itself, and a request that is *)
(* not streamed gives no event                                              *)
TypeOK ==
  /\ kind \in Backend \cup {"none"} /\ pc \in Place
  /\ why \in {"", "parse", "feature", "missing", "accel", "load"}
  /\ taken \in 0..SizeOf(said)
  /\ SizeOf(acc) < FlushSize
  /\ outcome.kind \in {"none", "error", "panic", "ok"}
  /\ ~req.stream => events = <<>>

Delivered ==
  FlattenSeq([i \in DOMAIN events |-> IF events[i].kind = "chunk" THEN events[i].text ELSE <<>>])

Progress ==
  FlattenSeq([i \in DOMAIN events |-> IF events[i].kind = "chunk" THEN <<>> ELSE <<events[i].kind>>])

(* Every slot keeps to the contract of SlotHandle: a refusal comes before   *)
(* any event, the sink gets the progress events in order and the chunks     *)
(* between the second and the third, and the chunks add up to the text of   *)
(* the answer, whatever the cuts of the reads and the flushes.              *)
Contract == INSTANCE SlotContract WITH
  stage     <- CASE pc \in {"start", "exit", "elsewhere", "idle"} -> "idle"
                 [] pc \in {"accept", "queued"} -> "accepted"
                 [] pc = "gen_start" -> "queued"
                 [] pc = "return" -> "gen_done"
                 [] OTHER -> "gen_start",
  streamed  <- req.stream,
  progress  <- Progress,
  delivered <- Delivered,
  answer    <- CASE outcome.kind = "none" -> <<>>
                 [] outcome.kind \in {"error", "panic"} -> <<"error">>
                 [] outcome.kind = "ok" -> <<"ok", outcome.text>>

RefinesContract == Contract!Spec

(* Where character i of what the child writes begins, and after which of    *)
(* its bytes a read ended                                                   *)
Before(i) == SizeOf(SubSeq(said, 1, i - 1))
CutsIn(i) == {k \in 1..(Width(said[i]) - 1) : Before(i) + k \in cuts}

(* What from_utf8_lossy makes of a cut character of which n bytes were      *)
(* read: one replacement for the bytes before the first cut, and one for    *)
(* each byte behind it                                                      *)
Remains(i, n) == [k \in 1..(1 + n - Min(CutsIn(i))) |-> Replacement]

(* Only characters that a read cut in two are lost, at any time and         *)
(* whatever the reads: every other character that was read is in the        *)
(* answer, in its place, and what is left of a cut one is no more and no    *)
(* less than its replacements.                                              *)
OnlyCutCharactersLost ==
  kind = "subprocess" =>
    text = FlattenSeq([i \in DOMAIN said |->
      IF taken <= Before(i) THEN <<>>
      ELSE IF CutsIn(i) = {} THEN <<said[i]>>
      ELSE Remains(i, Min({taken - Before(i), Width(said[i])}))])

(* The opening markers that begin a call: a closing one follows, and every  *)
(* opening one before it has been closed                                    *)
Opens ==
  {o \in DOMAIN text :
     /\ text[o] = "open" /\ \E c \in (o + 1)..Len(text) : text[c] = "close"
     /\ \A p \in 1..(o - 1) : text[p] = "open" => \E c \in p..o : text[c] = "close"}

CallAt(o) == ParseBody(SubSeq(text, o + 1, FirstOf(text, {"close"}, o + 1) - 1))

(* With markers that nest, repeat or lack their partner, the client gets    *)
(* exactly the calls that begin at an outermost opening marker, in order,   *)
(* with positional ids: one that does not parse costs none of the others.   *)
CallsComplete ==
  (kind = "llama-cpp" /\ outcome.kind = "ok" /\ ClientDispatch(req)) =>
    LET good    == {o \in Opens : CallAt(o).kind = "call"}
        Id(o)   == Cardinality({p \in good : p <= o})
    IN  /\ Len(outcome.calls) = Cardinality(good)
        /\ \A o \in good : outcome.calls[Id(o)] = CallAt(o)

IsResult(block) == \E i \in DOMAIN req.results : block.of = Response(req.results[i])

(* The model is given each tool result once and in order.  A transcript is  *)
(* opened by one system prompt, the client's own if it has one there, else  *)
(* the request's, and never by both ("avoid duplicating", turn_render.rs).  *)
(* A text is given no system prompt at all: run_inner does not read the     *)
(* request's for it.                                                        *)
PromptComplete ==
  (kind = "llama-cpp" /\ prompt # <<>>) =>
    LET results == Without(prompt, {i \in DOMAIN prompt : ~IsResult(prompt[i])})
        systems == {i \in DOMAIN prompt : prompt[i].as = "system"}
        turns   == IF req.input.kind = "turns" THEN req.input.turns ELSE <<>>
    IN  /\ [i \in DOMAIN results |-> results[i].of] = [i \in DOMAIN req.results |-> Response(req.results[i])]
        /\ req.input.kind = "text" => systems = {}
        /\ (req.input.kind = "turns" /\ (req.system # <<>> \/ OpensWithSystem(turns))) =>
             prompt[1] = Block("system", IF OpensWithSystem(turns) THEN turns[1].content ELSE req.system)
        /\ (\A i \in 2..Len(turns) : turns[i].role # "system") => systems \subseteq {1}

(* A command line without --backend is never answered with a demand for a   *)
(* flag or a feature: the default fits what was given (main.rs:350).        *)
DefaultIsBuildable ==
  why \in {"feature", "missing"} => "--backend" \in ToSet(argv)

=============================================================================
