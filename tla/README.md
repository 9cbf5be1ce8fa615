# A specification of chitin-model-api

TLA+ modules, TLC configurations and TLAPS proofs for the model API: the
server that owns the accelerator (`model_api_server`), the client library that
talks to it over a Unix socket (`model_api_client`), the llama.cpp session one
of the backends runs on (`chitin_llama`), and the text of tool calls
(`gemma_utils`).

    tlc -config PrefixCache_context.cfg PrefixCacheMC.tla    # one run
    tlapm PrefixCache_proofs.tla                             # the proofs of one component

Paths below are relative to `src/`.

## 1. The system

```
 Node callbacks        SyncClient            handle_client        slot (one per server)
 model_api_node  -->  one socket,   ==UDS==>  one task per   -->  LiteRtLmSlot: prefix cache
 a thread per call    one mutex               connection          LlamaSlot: one Session
                                                                  SubprocessSlot, StubSlot
                                          SIGUSR2 watcher thread --> cancel_in_flight
```

A client sends `Hello`, then requests. The server reads one message at a time
and runs each request to its end before it reads the next, so on one
connection the next request waits in the socket. Connections are independent
tasks on one executor; they meet in the slot, which is shared by all of them.
Work that blocks (a generation) runs on the `blocking` crate's thread pool.

### Components

| component | state | operations | interacts with | what is hard | correct when | module |
|---|---|---|---|---|---|---|
| `LiteRtLmSlot` (`model_api_server/src/litertlm_slot.rs`) | `prefix_cache`: hash -> `CachedConv`; `sessions`: id -> hash; `cancel_token` | `run_stream`, `cancel_in_flight` | called by every connection; LiteRT-LM conversations; SIGUSR2 thread | three mutexes taken one after another by concurrent calls; entries evicted or expired between the steps; errors from the middle; a token shared by all calls | an answer comes from the request's own messages and prompt (the prompt fails: `cache_prompts`); donors are what their hash says; the pool is bounded; the token never outlives its conversation | `PrefixCache` |
| `handle_client` (`model_api_server/src/lib.rs`) | the position in the connection, the event channel, `slot_task` | greet, read, stream, reply, cancel, shutdown | socket, slot (`run`, `run_stream`, `StreamSink`) | queue-empty and slot-finished are two reads; two bounded channels and a socket in a row; a client that stops reading or leaves | replies in order, one each, after all of their events; the generator is never stalled by the client | `Connection`, `StreamingRpc` |
| `SyncClient` (`model_api_client/src/sync.rs`) | the stream behind a mutex | `connect`, `inference`, `inference_stream`, `cancel`, `shutdown` | server; a caller's callback | threads that overlap, callbacks that panic, a server that dies, signals | a call gets the frames of its own request and returns | `SyncClient` |
| `Session` and `LlamaSlot` (`chitin_llama/src/session.rs`, `model_api_server/src/llama_slot.rs`) | the KV cache, `n_cur` | `prefill`, `step`, `push_token`, `generate_raw` | llama.cpp | the cache outlives the request; a decode that fails between two batches, or after `n_cur` was advanced | a token is sampled only behind the complete prompt of its request | `LlamaSession` |
| Framing (`model_api_server/src/framed.rs`, `model_api_client/src/framed.rs`) | none between frames | `encode`, `try_decode`, `write_frame_async`, `read_frame_async` | sockets | frames cut anywhere, oversized headers, EOF against truncation | the decoder yields the messages encoded, in order, whatever the reads return | `Framing`, `MessageFifo` |
| `SlotHandle`, `StreamSink`, `StubSlot` (`model_api_server/src/slot.rs`) | none | `run`, `run_stream`, `on_chunk` | handler, backends | a refusal or a failure between events | events in order, chunks that add up to the answer | `SlotContract`, `TextSlots`; the sink's queue in `Connection` |
| `SubprocessSlot` (`model_api_server/src/subprocess_slot.rs`) | a child process and its pipe | `run_stream` | handler | reads that cut a character, a tail below the flush size | only characters a read cuts are lost | `TextSlots` |
| Tool text and turn rendering (`tool_text.rs`, `turn_render.rs`, `chat_format.rs`, `tool_format.rs`) | none | `extract_tool_calls`, `tool_results_to_turns`, `render_turns`, `parse_body` | `LlamaSlot` | markers that nest, repeat or stay open; two sources of a system prompt | every call that begins at an outermost marker is found once, in order; the prompt holds each result and one system prompt | `ToolText`, in `TextSlots` |
| Lenient JSON (`gemma_utils/src/json_lenient.rs`) | none | `quote_bare_keys`, `escape_string_controls`, `un_escape_structural_quotes`, `lenient_parse_object` | `parse_body` | four repairs one on top of another, each with its own idea of where a string ends | valid JSON is left as it is; no key is swallowed, no data quote unescaped | `LenientJson`, `ToolArguments` |
| Server process (`model_api_server/src/main.rs`) | flags | `parse_args`, `build_slot`, serve, SIGUSR2 watcher | slot | what is compiled in meets what is given; a signal at any time | the default backend can be built from what was given | `Startup`, in `TextSlots`; the watcher in `PrefixCache` |
| Wire types (`model_api_proto`) | none | serde | all | | | kinds of messages in `StreamingRpc` |
| Node bindings (`model_api_node`) | an `Arc<SyncClient>` | one napi task per call | `SyncClient` | calls overlap on pool threads | | not modelled; the overlap is in `SyncClient` |
| Async client (`model_api_client/src/lib.rs`) | none | every method returns "not implemented" | | | | not modelled |
| KV files, prompt constants, Jinja templates, MTP notes (`chitin_llama`) | files | not reached from the server | llama.cpp | | | not modelled |

## 2. The modules

One module per component, with its MC module and its configurations beside it.

| module | is | MC module, configurations |
|---|---|---|
| `PrefixCache` | concurrent `run_stream` calls on one `LiteRtLmSlot` | `PrefixCacheMC`: `_context`, `_prompts`, `_cancel` |
| `PrefixCache_proofs` | its inductive invariants and ten theorems | |
| `StreamingRpc` | the abstract contract of a connection | through `Connection` and `SyncClient` |
| `Connection` | `handle_client`, the slot task, the generator, the client | `ConnectionMC`: `_stream` |
| `Connection_proofs` | its inductive invariant, and that it implements `StreamingRpc` | |
| `SyncClient` | threads on one `SyncClient`, with `StreamingRpc` for the server | `SyncClientMC`: `_calls`, `_signal` |
| `SyncClient_proofs` | its inductive invariant and two theorems | |
| `MessageFifo` | the abstract contract of one direction of a socket | through `Framing` |
| `Framing` | the codec over a socket that cuts bytes anywhere | `FramingMC`: `_frames` |
| `Framing_proofs` | its inductive invariant, and that it implements `MessageFifo` | |
| `LlamaSession` | requests in turn on one llama.cpp context | `LlamaSessionMC`: `_kv`, `_prompt` |
| `LlamaSession_proofs` | its inductive invariant and four theorems | |
| `LenientJson` | the repairs of malformed tool arguments, as functions on texts | through `ToolArguments` and `TextSlots` |
| `ToolArguments` | a model that writes arguments, and what the repairs owe it | `ToolArgumentsMC`: `_bodies`, `_total` |
| `ToolArguments_proofs` | five theorems on what the repairs do, for every body | |
| `ToolText` | prompts from turns and results, calls from answers | through `TextSlots` |
| `Startup` | the command line, the default backend, `build_slot` | through `TextSlots` |
| `SlotContract` | the abstract contract of `SlotHandle::run_stream` | through `TextSlots` |
| `TextSlots` | a server process with its stub, subprocess or llama.cpp slot | `TextSlotsMC`: `_serve` |
| `TextSlots_proofs` | its inductive invariants, and that it implements `SlotContract` | |
| `DataInduction` | what the proofs about texts rest on: induction, recursion, flattening | |

The abstract modules are the seams between the parts: `MessageFifo` is what the
connection assumes of the socket's codec and `Framing` provides, `SlotContract`
what the connection assumes of a slot and `TextSlots` provides, and
`StreamingRpc` what the client assumes of the server and `Connection` provides.

`StreamingRpc` is the hinge. `Connection` implements it (`RefinesRpc`, with
`phase` computed from the handler's position and `wire` the frames written),
and `SyncClient` is checked against it instead of against a whole server:
`SyncClient` uses the actions of `StreamingRpc` as its server's. The contract
leaves events optional, because the server drops them when its queue is full.

### PrefixCache

A *worker* is one `run_stream` in flight. One action is one critical section,
or one call of the engine made outside of any lock, so every interleaving of
two calls at their lock boundaries is a behaviour:

    Submit -> ReadPin -> LookupHit | LookupMiss -> CreateConversation
           -> RefuseNothingToSend | Arm -> SendMessage* -> Disarm
           -> Recache -> BindSession -> Return

with `LookupHitFails`, `CreateFails`, `SendFails` and `RecacheFails` for the
`?`s on the way. `Submit` also takes the early return for an empty turn list.
`CancelInFlight` is the SIGUSR2 thread. `Tick` is the clock.

| variable | code |
|---|---|
| `cache` | `prefix_cache`; `conv`, `turnCount`, `lastUsed` of a `CachedConv` |
| `sessions`, `pin` | `sessions`, and `session_pin` read from it before the closure starts |
| `token` | `cancel_token`: the worker whose conversation the handle cancels |
| `conv`, `todo` | the working `Conversation`, and `replay_msgs` not sent yet |

A hash is its canonical bytes (hashes are assumed injective), except that
`canonical_prefix_bytes` writes no byte for "no system prompt" and none for an
empty one, which the model keeps (`PromptBytes`). A conversation is the list of
its exchanges and the prompt and sampler it was created with. `Exchange.at`,
the position in the transcript, is bookkeeping for the properties.

### Connection

    generator --inner--> slot task --events--> handler --written--> client
              blocking             try_send            socket buffer

`backend = "relayed"` is `LiteRtLmSlot`, whose blocking closure sends to an
inner channel that the slot task drains into the sink; `"direct"` is a slot
that calls the sink itself. The handler's positions are the await points of
`handle_client` (`hello`, `read`, `drain`, `check`, `tail`, `await` and a write
per kind of frame). The split between `drain` and `check` matters: the code
finds the queue empty and *then* asks whether the slot has finished. `WriteFails`
is a write to a client that has gone: it drops the slot task and with it the
receiver of the inner channel, but a closure that has begun runs on.

### SyncClient

A call locks, writes, and reads until the frame that ends it. `lock` is the
mutex and `poisoned` its flag, `id` the number the server will give the
inference (bookkeeping), `abandoned` the inferences whose call was cut short by
a signal before the reply came. The server half is
`StreamingRpc` plus the FIFO of messages to it; it may close at any time, also
inside a frame (`ReadEof` then ends in an I/O error). A signal may interrupt the
first `read` of any frame, of `connect` and `shutdown` as well; only an inference
leaves something behind that a later inference can read.

### Framing

The socket is `wire`, every byte ever written, with `taken`, how many were read.
`BeginFrame` and `WriteMore` put any number of bytes that fit; `Stop` closes or
kills the writer wherever it is in a frame. The reader's phases are the reads of
`read_frame_async`: the first byte (the only place where an end of file is
clean), the rest of the header, the payload, and `Return`, which deserializes.
What the cap refuses it refuses before the first byte (`Fits`, `AfterHeader`).
`Damage` is what a peer of another version may leave on the wire: an oversized
header, or a payload that is no message. `TryDecode` is the second reader, over
a buffer; `BufferedReaderAgrees` holds it to the first in what it takes and in
what it refuses (but for the end of the input, which it does not see).
In the abstract `MessageFifo`, `cut` says that the writer stopped inside what it
sent last: such a frame is never delivered, and besides damage it is the only
cause of an error. `Serialize` is a constant: of bincode the proofs need only that no
message's bytes are a prefix of another's, because `deserialize` ignores what
follows the value.

### LenientJson, ToolText and ToolArguments

A text is a sequence of characters, one per class the scanners tell apart (a
letter that makes an escape and one that does not, one for control characters,
one outside ASCII, markers as single characters). The scanners are recursive
functions whose arguments are their loop variables; a turn of a loop (`KeyTurn`,
`EscapeTurn`) says what it pushes and where it goes on. Their domain is the places
of the text, so that a proof can speak of their values. `IsJson` stands for
`serde_json`, which accepts or not: a reader that goes from left to right and
knows what may come next (`Awaited`) and the closers of what is open. Of an
accepted object only its text is kept (`Parsed`). `Modes` and `Depths`, for the
properties, say of each place of a body whether it is in a string and how many
brackets are open there. `RescueEntry` keeps the slice that panics. `ToolText` adds the
marker scan of `extract_tool_calls` and Gemma 4's `parse_body`, and
on the way in the blocks of a prompt. `ToolArguments` writes a body piece by
piece and states what must hold of whatever is there. The alphabet has no `\u`:
of an escape that lacks its hex digits the properties say nothing.

### TextSlots

A server process from its command line on: `StartUp` parses it (`Startup`),
chooses a backend and builds it or ends with an error. A slot then serves one request
after another. An action is one event given to the sink or one read of the
child's stdout:

    Begin -> Accept | Refuse -> Queued -> GenStart
      stub:       Synth -> EchoChunk*
      subprocess: Spawn -> Read(n)* -> ReadEnd | ReadError -> FlushTail -> StopMarker
      llama-cpp:  Generate -> WholeChunk
    -> GenDone -> Complete

Bytes matter only in `Read`, which may cut a character: `BytesOf` and `Decode`
(`from_utf8_lossy`) model that. `cuts` is bookkeeping: after which bytes of the
child's output a read ended inside a character. `run` is `run_stream` without a sink
(`req.stream` false). A backend of `litert-lm` leaves this model: its slot is
`PrefixCache`.

### LlamaSession

`kv` is the content of the llama.cpp sequence, `nCur` the write head `Session`
believes in. They come apart when a decode fails: between two prefill batches
the cache is ahead, in `push_token` the head is. `Decode` models `llama_decode`
from how `Session` uses it: positions must continue the sequence and there must
be room. Requests are taken one at a time, because `LlamaSlot` holds the session
mutex for the whole of `generate_raw`.

## 3. The runs

Passing runs.

| run | instance | properties | shows |
|---|---|---|---|
| `cache_context` | 2 workers, pool of 2, TTL 1, 1 tick, 3 calls, 1 signal, one reply, six requests (a conversation, its continuation by a tool result under an *empty* prompt and one behind an answer the model never gave, a different conversation on the same session id, a transcript ending in the assistant's turn, a continuation under another prompt) | `TypeOK`, `CapacityBound`, `DonorMatchesKey`, `AnswerInContext`, `TokenNeverDangles`, `PromptsShareNoDonor`, `UserTailNeverRefused`, `EvictionSparesRecent` | concurrent inferences that hit, miss, evict, re-insert and fail answer from their own transcript and leave only honest donors; prompts of different text share none; what is evicted is the least recently used, when two inferences insert at once as well |
| `connection_stream` | both backends, all queues of 1, 3 messages, 4 chunks | `TypeOK`, `NothingHeldBack`, `RefinesRpc`, `GeneratorReleased`, `RequestAnswered` | the handler implements `StreamingRpc`, leaves nothing behind a reply, answers, and never stalls the generator |
| `client_calls` | 2 threads, 3 calls, 1 event, 1 panic, 1 interrupt | `TypeOK`, `FramesReachTheirCaller`, `CallsReturn` | panics, EOF, cut frames and overlap never shift replies between calls, an interrupt by no more than one, and every call returns |
| `framing` | 3 frames of three kinds and three kinds of damage, a cap of 3 bytes, a socket of 5 | `TypeOK`, `BufferedReaderAgrees`, `RefinesFifo`, `FramesArrive` | the codec implements `MessageFifo` wherever bytes are cut, its two readers take and refuse the same bytes, and neither side waits for the other for ever |
| `session_kv` | 7 cells, batches of 2, prompts to 5, answers to 3, 4 requests, 2 failures | `TypeOK`, `SamplesFromWholePrompt`, `RoomForAnswer`, `DamageIsFinal` | no failed request makes a later one answer from a damaged cache |
| `lenient_json` | every body of up to two entries from 8 keys, 12 values, 3 separators, and 4 keys, 12 values, 3 ends | `StrictUntouched`, `BareKeysRecovered`, `RepairsSettle`, `NoSiblingSwallowed`, `DataQuotesSurvive` | the repairs leave valid arguments alone, recover bare keys, un-escape no quote between letters, and do not swallow the entry behind a comma where the brackets and strings before it are sound |
| `text_slots` | command lines of up to two options beside `--socket`, every set of compiled-in backends, 84 requests, 15 answers with characters of one to four bytes, reads of up to 4 bytes, chunks of 4 | `TypeOK`, `OnlyCutCharactersLost`, `CallsComplete`, `PromptComplete`, `DefaultIsBuildable`, `RefinesContract` | every slot implements `SlotContract`: progress in order, chunks that add up; characters are lost only where a read cut them; calls are complete, and prompts as far as the slot makes them so |

Runs in which TLC finds a statement of the repository violated by its code.

| run | statement | what happens |
|---|---|---|
| `cache_prompts` | `AnswerUnderOwnPrompt`: "The effective system prompt is included in the prefix-cache hash, so a slot-default vs request-override produces distinct cache entries" (`litertlm_slot.rs:139`) | an override of `""` hashes like no prompt; the request is answered by a clone of a Conversation created without the prompt in effect for it |
| `cache_cancel` | `CancelReportsInFlight`: `cancel_in_flight` "returns true if a cancel was actually delivered (an inference was in flight), false otherwise" (`slot.rs:98`) | two inferences in flight; the one that finishes clears the token of the other; the signal then returns false while one streams |
| `client_signal` | `ReplyIsForRequest`: a call reads "until the terminal frame for that request" (`sync.rs:10`) | the `read` of the first header byte is not retried on `EINTR`; the call fails and the next one takes its reply |
| `session_prompt` | `AnswersFromOwnPrompt`: "every request re-prefills the full prompt" (`llama_slot.rs:204`), `clear_kv` is to be called "between unrelated requests" (`session.rs:227`) | nobody calls `clear_kv`; each request is appended to the last |
| `json_total` | `FailsRatherThanPanics`: "returns `None` when the body is ambiguous enough that we'd rather fail than guess" (`json_lenient.rs:32`) | for `{":x}` the key part is a single quote, and `key_part[1..0]` panics |

### Bounds, and why they are enough

* Queues of one place (`EventCap`, `InnerCap`, `SocketCap`; 64, 64 and the
  socket buffer in the code): what the code does depends on empty, full and
  in between, and with a capacity of one all three occur after one chunk. Four
  chunks fill the inner channel, the slot task, the event queue and the frame
  being written at the same time, and leave the generator blocked.
* Three client messages: a greeting and two requests, so that events or a
  reply could leak from one request into the next.
* Two workers and two threads: each hazard here is a step of one actor between
  two steps of another. `Symmetry` permutes them; it is used only where no
  liveness is checked.
* A pool of two with three calls fills, evicts, and re-inserts a key that is
  still present. A TTL of one tick expires an entry between any two steps. With
  one reply two inferences come to the same key; that a client's transcript and the
  model's answer differ is one of the requests.
* `LlamaSession`: five tokens in batches of two give prompts of three batches
  with a short last one, and seven cells are exhausted by the second request.
* `Framing`: a payload at the cap whose bytes also read as a header, a message
  beyond it, and a socket that holds a frame of one byte but not one of three:
  every cut of a frame between two reads or two writes occurs, and a reader that
  lost its place would find a plausible frame. Three frames let damage come
  first, in between and last.
* `ToolArguments`: what one scanner leaves for the next depends on a key, a
  value and an ending; two entries are needed for an entry to be swallowed, and
  a third adds no new neighbourhood.
* `TextSlots`: characters of one to four bytes, which is all UTF-8 has, against
  reads of up to four and chunks of four, so that a character is cut at each of
  its bytes, more than once too, and
  a tail stays below the flush size. Markers nest, repeat, and lack either
  partner; the argument bodies are those `lenient_json` tells apart.
* `MaxSignals`, `MaxPanics`, `MaxInterrupts`, `MaxFailures` bound the
  environment, not the code.

`CHECK_DEADLOCK FALSE` everywhere: the environments are bounded, and a
connection, a client, a socket, a context and a server process that cannot be
started really stop (after `Goodbye`, after the bounded calls).

### Fairness

* `Connection!FairSpec`: weak fairness of the handler, the generator, `Relay`
  and `SlotReturns`. The executor polls what is ready, and engine calls call
  back or return. Nothing is assumed of the client: it may never read and never
  hang up. `RequestAnswered` therefore speaks of behaviours in which the socket
  has room again and again.
* `SyncClient!FairSpec`: threads are scheduled, and the server reads and
  answers, which is `RequestAnswered` of `Connection`. Whoever waits for the
  mutex needs only weak fairness, as each holder's call ends and calls are
  bounded. `ThreadFairSpec` drops the server's fairness; the statement checked
  under it does not depend on it.
* `Framing!FairSpec`: weak fairness of the reader and of `WriteMore`. A task
  polled on a readable or writable socket goes on. Beginning a frame and
  stopping are the writer's choice, so `FramesArrive` allows for a writer that
  stops.
* The other specifications state safety only. That a text slot ends its request
  depends on the child or on llama.cpp, which nothing in the code bounds in time.

`TLC` checks each property against a modified definition that a plausible
mistake would give (named `<Definition>_<Mistake>` in the modules, with a
comment that starts "Mutant"): with it in place the property fails.

## 4. The proofs

`PrefixCache_proofs` proves, for every set of workers, texts, prompts,
sessions and requests and every capacity, TTL and bound that satisfy
`ConstantsAssumption`:

| theorem | says |
|---|---|
| `TypeCorrect` | `Spec => []TypeOK` |
| `PoolIsBounded` | `Spec => []CapacityBound` |
| `TokenIsLive` | `Spec => []TokenNeverDangles` |
| `DonorsMatchKeys` | `Spec => []DonorMatchesKey` |
| `AnswersInContext` | `Spec => []AnswerInContext` |
| `PromptsSeparate` | `Spec => []PromptsShareNoDonor` |
| `UserTailsAccepted` | `Spec => []UserTailNeverRefused` |
| `EvictionIsLru` | `Spec => EvictionSparesRecent` |
| `AnswersUnderOwnPrompt` | `Spec => []AnswerUnderOwnPrompt`, if `Unmixed` |
| `CancelHonestAlone` | `Spec => CancelReportsInFlight`, if `Alone` |

The assumption fixes no number: it says that constants have their types, that
`None` and "no worker" are not values of the set they extend, and that replies
are texts.

The invariant `IInv` carries, beside the properties:

* `DonorsOK` (a conjunct for each entry): the donor behind every key heard exactly the key's user and tool
  turns, and the key ends in the reply it gave. This is what makes a hit safe.
* `WorkerOK`: from the lookup on, a worker's conversation has heard exactly the
  request's turns outside `todo`, and `todo` lies behind what it has heard.
  `AnswerInContext` says this only at the end, which no step preserves by
  itself; `WorkerOK` is its form for every position in `run_stream`.
* a key in the pool ends in an assistant turn, which is what `UserTailNeverRefused`
  rests on: a cached prefix that covers the whole transcript ends as the key
  does, so a transcript that ends in a message to the model always has that
  message left to send.

The argument for a hit: equality of keys gives equality of turns (the key *is*
the turns), so the donor's history is that of the request's prefix, and the
suffix that remains is the worker's `todo`. The argument for the pool: the test
against the capacity and the insertion are in one critical section, and a victim
is removed unless the key is present already. The capacity proof needs the
finiteness of the pool, hence `IsFiniteSet` in `TypeOK`. `Recache` is the only
step that takes anything out (`OthersEvictNothing`), which gives `EvictionIsLru`.

The last two theorems have a condition, and the condition is the point.

* `Unmixed`: prompts in use differ in their bytes. A request with an *empty*
  prompt and one with none have the same bytes, share a key, and may be answered
  by a Conversation created with, or without, a system turn: `cache_prompts` finds
  it. Where requests do not mix the two, the prompts of all Conversations come
  from requests (`PromptsOK`), and equal bytes mean equal prompts. What holds
  without the condition is `PromptsSeparate`: prompts of different *text* are
  never mixed up.
* `Alone`: there is one worker. Then the token belongs to whoever streams
  (`Armed`), and what the signal returns is true. With two, `cache_cancel` shows
  that it is not: the promise of `slot.rs:98` holds for the one inference at a
  time its author had in mind and no further.

`Connection_proofs` proves, for queues of any size, any number of messages and
any length of a generation (`ConnectionAssumption`: they are naturals, and a
queue holds something):

| theorem | says |
|---|---|
| `ConnectionTypes` | `Spec => []TypeOK` |
| `NothingBehindReply` | `Spec => []NothingHeldBack` |
| `ImplementsRpc` | `Spec => RefinesRpc`, that is `Spec => Rpc!Spec` |

Its invariant `IInv` has four parts that matter.

* `OrderOK`: the contract wants a request's events in order on the wire. A step
  that writes a frame only keeps that if the frame's number is beyond what is
  there, which is a fact about the whole chain: numbers on the wire < the frame
  being written < the event queue < the inner channel, all of them at most
  `Ceiling`, the last number handed on by the generator or the slot task.
* `ControlOK`: which places of the slot and the generator go with each place of
  the handler. In the tail the slot has finished and its inner channel is empty;
  that is what makes "queue empty" mean "nothing left" there, and not in `drain`.
* `HeldOK`: every chunk made is on the wire, lost, in the frame being written, in
  a queue, or in the generator's hand. With `ControlOK` at `writeReply` the last
  four are empty.
* `FrameOK`: the frame that waits is the one its place calls for.

`NextImplements` then maps each step: a write to `Greet`, `Reject`, `Notify`,
`Answer` or `Leave`, reading a request to `Ask`, an end to `Close`, and
everything else to a stutter.

`LlamaSession_proofs` proves, for any context size, batch size, number of
requests and failures:

| theorem | says |
|---|---|
| `SessionTypes` | `Spec => []TypeOK` |
| `WholePrompt` | `Spec => []SamplesFromWholePrompt` |
| `FirstTokenFits` | `Spec => []RoomForAnswer` |
| `DamageStays` | `Spec => DamageIsFinal` |

`SamplesFromWholePrompt` speaks of the moment before a sample; the invariant
says what the cache ends in at every place of a request (`PrefillOK`, `StepOK`,
`PushOK`): in the first `done` tokens while prefilling, *unless* a failure left
the head behind, in which case no batch has entered and none can. Past the
prompt head and cache always agree, because a prefill that got through found
them so.

`SyncClient_proofs` proves, for any number of threads, calls, events, panics and
interrupted reads:

| theorem | says |
|---|---|
| `ClientTypes` | `Spec => []TypeOK` |
| `FramesAreForTheirCaller` | `Spec => FramesReachTheirCaller` |

That an inference reads its own frames depends on what earlier calls left
unread, so the property is far from inductive. With `Due` the least request a
frame still to be read may belong to (the last one issued, less those given up
on), the invariant bounds every request that can still appear:

* from below, on the wire unread (`UnreadOK`) and at the server unwritten
  (`UpcomingOK`). A read hands `Due` on; an interrupt lowers it by one, which is
  the `Cardinality(abandoned)` of the property.
* from above, because the server answers only what it was asked, and
  `issued = asked + ` the inferences still in `toServer`. The lemmas
  `PlacesAppend` and `PlacesTail` count those.
* `WireOK` orders the requests on the wire, and `CallersOK` says that the
  holder of the mutex waits for the last inference issued.

`Framing_proofs` proves, for any messages, damage, socket size, number of frames
and any cap up to 64 MiB:

| theorem | says |
|---|---|
| `CodecTypes` | `Spec => []TypeOK` |
| `CodecIsFifo` | `Spec => RefinesFifo`, that is `Spec => Fifo!Spec` |

`CodecAssumption` asks that lengths have their types, that no message's bytes are
a prefix of another's (without that, `deserialize`, which ignores what follows a
value, could not tell them apart), and that damage is damage. The cap enters
once: below 2^32 a header says what went into it (`HeaderLength`). The
invariant gives every byte of the wire a frame and a place in it:

* `LayoutOK`: frame i occupies the bytes from where frame i - 1 ends;
* `ContentOK`: those bytes are the frame's, as far as they are written;
* `WriterOK`: every frame but the last is written whole, and `out` is what is
  left of the last one;
* `ReaderOK`: the reader is in the frame behind the messages it has returned,
  what it holds is a prefix of that frame, and its phase is the one its length
  calls for.

From a prefix of four bytes or more the header read is the header written, so
the reader's `Expected` is the frame's length; a complete frame then decodes to
the message sent, or is damage (`Returned`), and an end of file in phase `first`
finds every frame delivered (`FifoEnd`). An end of file anywhere else is inside
the last frame: every frame before it was delivered, and this one is not whole
(`CutOff`), which is the one failure the contract allows without damage.

`CodecReadersAgree` (`Spec => []BufferedReaderAgrees`) is about the other reader:
`try_decode`, called again and again on all the bytes read so far, gives the
messages `read_frame_async` has returned. The invariant of the codec says where
each frame begins, so `try_decode` finds frame i there and goes on at frame
i + 1; by induction from the last message back to the first, what it decodes from
the beginning of frame i on are the messages received from the i-th on. That both
refuse the same needs a fact about a reader that has stopped (`StopOK`): what it
holds is what `try_decode` refuses, or the input has ended, and that stays so
(`EofStays`). A reader that goes on holds nothing `try_decode` refuses, unless the
frame is complete and about to be refused (`RefusedBoth`).

`TextSlots_proofs` proves, for any command lines, compiled-in backends, requests
and answers, any read and flush size and any way the reads cut the output
(`TextAssumption`: texts are texts, requests are requests, the sizes are positive):

| theorem | says |
|---|---|
| `SlotTypes` | `Spec => []TypeOK` |
| `SlotsKeepContract` | `Spec => RefinesContract`, that is `Spec => Contract!Spec` |
| `DefaultBackendFits` | `Spec => []DefaultIsBuildable` |
| `PromptIsComplete` | `Spec => []PromptComplete` |
| `OnlyCutsLose` | `Spec => []OnlyCutCharactersLost` |
| `CallsAreComplete` | `Spec => []CallsComplete` |

Four invariants carry them.

* `IInv`: the types; what the sink was given and what is still held back add up
  to the text (`ContentOK`), which with the ordering of the events is the
  contract; and a backend chosen by default can be built, which goes back to a
  fact about the command line (`DefaultFits`).
* `PromptOK`: the prompt is the one of the request in hand. `TextPrompt` and
  `TurnsPrompt` say at which place each block of such a prompt stands; the results
  are a window in it with no result before or behind, and are therefore found
  there in their order (`ResultsWindow`). What is proved of system prompts is what
  the slot does: a transcript opens with exactly one if there is one to give, a
  text gets none (section 5 on what the repository says of that).
* `CutOK`: `CutAt(said, cuts, taken, text)` says of every moment where each
  character of the text stands for which bytes: a character no read has cut is
  there as it is, and one cut after its k-th byte is one replacement for those k
  and one for each byte behind. A character is given up only where `cuts` has one
  of its bytes. The heart is `DecodeCuts`: decoding the next n bytes behind such a
  text gives such a text, with the place where these n bytes end as a further cut
  if it is inside a character. It goes by induction on the
  bytes of the read, with a lemma each for a byte that continues a character cut
  before (`ByteRead`), a character read whole (`CharRead`) and one the read ends
  in (`CharCut`); cuts to come change nothing behind (`LaterCut`). `ReadIsArrived`
  turns it into the formula of the property.
* `CallsOK`: what the client gets are the calls of the answer. The property counts
  outermost markers and the code scans for bodies. `CallsNumbered`, by induction
  on the place the scan is at, makes a bijection of the two: from each place on,
  the k-th call of the scan is the k-th outermost marker that closes and parses.

`ToolArguments_proofs` proves, for any pieces and any number of turns, which is to
say for every body:

| theorem | says |
|---|---|
| `DataQuotesStay` | `Spec => []DataQuotesSurvive` |
| `RepairsAlwaysSettle` | `Spec => []RepairsSettle` |
| `ValidTextUntouched` | `Spec => []StrictUntouched` |
| `BareKeysAlwaysRecovered` | `Spec => []BareKeysRecovered` |
| `SiblingsNeverSwallowed` | `Spec => []NoSiblingSwallowed` |

Nothing about the state needs strengthening here (`Types` says the body is a
text); the work is in what the functions compute.

* `DataQuotesStay`: an escaped quote that one of the three patterns covers is
  `Structural`: if a letter follows it, neither a letter nor a backslash stands
  before it. So no match covers the backslash of one between two letters
  (`LoneIs`). What is
  taken out is a set of places, and `KeptAt` is the order-preserving bijection
  from the places kept to the places of the result: an escaped quote between
  letters has its neighbours still beside it, and one in the result had them
  before.
* `RepairsAlwaysSettle` speaks of scanners that run over their own output. What
  a scanner has written so far is of no account to what it does next, so the
  statements are about what a text *ends in*: `Behind(t, k, x)` says that t has x
  from place k on, and `Copies(t, k, b, key)` that quote_bare_keys, at k and in
  that state, pushes what it reads. By induction from the end of the text,
  whatever ends in the output of quote_bare_keys from a place on is copied from
  there (`KeysSettle`), and the same for the output of escape_string_controls
  (`EscapesSettle`): so no bare key is left (`NoKeyLeft`). The case that takes
  thought is a letter that was *no* key because of what followed it: what the
  scanner made of what followed is still no colon (`NoKeyBehind`).
* The other half goes by the same induction: the output of
  escape_string_controls from a place on, with one of three closings behind it, is
  `Sound`: JSON reads its strings to their ends (`EscapesClose`). Only a backslash
  as the last character of all needs the closing `\"`.
* `ValidTextUntouched`: `Reads(s, i, a, open)` says that JSON, at place i, awaiting
  a, with these closers open, accepts the rest of s. `JsonReads` lists what it can
  have met there and where it goes on, always at a later place, so the induction
  is one on places although JSON is nested. What JSON reads from a place on, both
  scanners copy from there (`JsonKept`). The strength the induction needs is in
  `Keeps`: quote_bare_keys copies it whether or not it believes a key may come.
* `BareKeysAlwaysRecovered` is the same induction over two texts, s and what is
  left of it without the quotes of its bareable keys. `Restores` says that
  quote_bare_keys makes of the rest of the one the rest of the other. Now the
  scanner must believe that a key may come wherever JSON awaits one
  (`RestoresFrom`). What stays out of the bareable keys are strings that JSON reads
  as values: no colon follows them (`BareableIsKey`).
* `SiblingsNeverSwallowed` has no JSON to follow: the body may be anything. Three
  facts meet. First, quote_bare_keys moves neither the comma nor the colon the
  property speaks of: the text it makes has a comma outside of strings at depth 1
  as well, and a first colon outside of strings (`KeysCarried`). Second, a text
  the rescue takes for one entry has the layout `OneEntry`: before the value stand
  blanks, a brace, a quoted key with no quote inside, and a colon (`RescuedEntry`).
  So the comma is in the value, and `has_top_level_comma`, which counts for itself
  and from the value's beginning, finds it or one before it (`FindsComma`,
  `EntryParts`). Third, a value that is JSON needs no such look: JSON accepts no text
  with a comma at its top (`JsonUnparted`).

`DataInduction` is what makes these possible. The induction theorems of the
library take an operator as parameter, which the provers here cannot instantiate;
the same facts hold of *sets*: a subset of the naturals with 0 and the successor
of each member is all of them (`SetInduction`), a set of sequences closed under
`Append` holds them all (`AppendInduction`), and so does one of places that holds
each place when it holds those behind it (`DownInduction`). A recursive function
is a `CHOOSE`: `Recursion` builds, step by step, a function that satisfies an
equation whose calls descend, and the chosen one then satisfies it as well.
`WalkExists`, `LoopExists` and `ChaseExists` are its forms for functions on the
places of a text. `KeptExists` and the `Flatten` lemmas say what `FlattenSeq` does.

### Only model-checked

* Every liveness property (`GeneratorReleased`, `RequestAnswered`,
  `CallsReturn`, `FramesArrive`): fairness and `ENABLED` are out of TLAPS's
  reach.

Every invariant and every action property of a passing run is stated by a theorem,
and so are the refinements of `StreamingRpc`, `MessageFifo` and `SlotContract`.
`AnswerUnderOwnPrompt` and `CancelReportsInFlight`, which a run each finds violated,
are proved under the condition they need (`Unmixed` and `Alone`, above).

## 5. What reading for the model brought up

Behaviour that no property speaks of: for most of it the repository states
nothing to hold it against, and where it does the statement is quoted. The models
have it.

* A transcript that a cached prefix covers completely, because it ends in the
  assistant's turn, is refused ("nothing to send") on a warm cache and on a cold
  one answers its earlier messages again.
* On a cold start assistant turns are skipped, and the model generates its own
  answers to the replayed messages: the conversation that is cached under the
  transcript has heard its messages and not its answers (`Heard` says so).
* A failed `Conversation::clone` for the cache turns a finished, streamed
  answer into an error.
* `sessions` gains an entry per session id and loses none. Session ids are not
  distinguished from the empty string, so callers that pass "" share one pin.
* A write that fails drops the slot task; the generation goes on to its end on
  the pool thread and holds the engine.
* With the default one-thread executor a slot that emits without awaiting
  leaves the handler no turn before it has finished: events after the 64th
  are dropped every time, the final marker among them.
* A callback that panics poisons the mutex, and every later call fails.
* After a decode failed, `n_cur` and the cache disagree and every later request
  is an error until the server is restarted (`DamageIsFinal`).
* The TTL (`main.rs:104`, "prevents stale entries from holding GPU memory") is
  tested only in the lookup: an idle server keeps its expired conversations.
* `cancel` "returns immediately" (`sync.rs:189`) once it has the mutex, which an
  inference holds until its reply. And the server reads `Cancel` only between
  requests.
* "Concatenated chunk deltas should reconstruct the full text"
  (`tests/sync_client.rs:218`) holds as long as no more than 64 events wait:
  `try_send` drops the rest, and the request completes. The slots themselves
  do give out chunks that add up (`RefinesContract`).
* `subprocess_slot.rs` ends the answer at any read error, one of an interrupted
  read included, and reports success; it then waits for a child whose pipe
  nobody reads.
* The slots differ in how they end: the stub and `SubprocessSlot` send a stop
  marker, `LlamaSlot` none, although a chunk's `finish_reason` is "`Some` on the
  last chunk" (`model_api_proto/src/lib.rs:386`). `SlotContract` therefore has no
  stop marker. `SubprocessSlot` alone returns no session id and ignores tools, tool
  results and the request's system prompt.
* `inference_config.system_prompt` is a "system-prompt override for this turn"
  (`model_api_proto/src/lib.rs:215`), but `LlamaSlot` reads it only for turns and
  gives a `Text` input none (`llama_slot.rs:145`); `PromptComplete` says so.
* "The server hands these to the loaded model's `ToolFormat` adapter so the system
  prompt is rendered model-natively" (`model_api_proto/src/lib.rs:89`): no slot does.
  Tool definitions decide whether the answer is searched for calls, and reach no
  prompt.
* `LlamaSlot` takes `--max-tokens` as `_max_tokens` and does not use it.
* `--model` or `--socket` as the last word means "not given" without an error,
  and `--socket --model` takes the flag for a path.
* Tool results come behind the turns of a transcript and before a text.
* The repairs push bytes as characters (`b as char`): what is not ASCII comes
  out mangled from `quote_bare_keys` and `escape_string_controls`, hence the
  `Ascii` in `StrictUntouched`. An object that needs a repair loses its umlauts.
* An unmatched bracket or quote in a bare value hides a sibling's comma from
  `has_top_level_comma`, and the rescue swallows the sibling: in `{n:], w:..}`
  the bracket takes the depth below 0, and `], w:..` becomes the value of `n`,
  where "the parser refuses rather than guess wrong" (`json_lenient.rs:22`);
  `NoSiblingSwallowed` therefore counts as an entry's comma one that stands outside
  of strings with one bracket open. It also asks that the
  first colon is in no string: the rescue splits there, and in `{"n\":1" , "w":1}`
  that is inside the key. A bare value `a, c=d` is rewritten to `a, "c":d`
  before anything else looks at it.
* `un_escape_structural_quotes` is "idempotent: applying twice yields the same
  output" (`json_lenient.rs:326`), but of the two backslashes in a value that ends
  in `\\"` each application takes one.
* `escape_string_controls`: "if no controls were inside strings, the output equals
  the input" (`json_lenient.rs:399`), but a backslash that escapes nothing is
  doubled all the same, and text outside ASCII is mangled.
* Arguments with a `tool` entry of their own: `parse_body` overwrites it with the
  name of the call (the ChatML parser lets it override the name), and
  `extract_tool_calls` removes it.
* An opening marker repeated before the closing one ends up in the name of the
  call: `<|tool_call>call:a<|tool_call>call:b{}<tool_call|>` is one call of a tool
  nobody has. `CallsComplete` counts from outermost markers for that reason.

## 6. What is not modelled

* Loading of models and engines, logging, and how many
  megabytes of GPU memory there are: they run once or change no state.
* The bytes of frames outside of `Framing`: elsewhere a frame is atomic, except
  where `SyncClient` needs the first byte of a header (`ReadInterrupted`) or a
  frame cut by the server's death (`ReadEof`).
* The fields of the wire types and their encoding: bincode is a constant of
  `Framing`.
* The text of generations and prompts in `PrefixCache` and `Connection`: texts
  are model values there. `TextSlots` has them as characters.
* `--help`, the display name of a model, `resolve_gguf_path`, socket set-up:
  they change no state the other parts see. Of the command line `Startup` has the
  rest.
* The Node bindings: they convert arguments and start a thread per call; that
  the calls overlap is in `SyncClient`.
* The XML, ChatML and raw formats of `gemma_utils`: no slot uses them.
* `clear_kv`, `save_seq`, `load_seq` and the prefix-cache files of
  `chitin_llama`: no caller in the repository.
* The async client: it has no behaviour yet.
* Memory ordering below the mutexes and channels: the code shares nothing
  outside of them.

## 7. Plan

Modelled: everything in the table of section 1 but the Node bindings, the async
client and the files of `chitin_llama`. What is left to add, in this order:

1. `InferenceService`: what any cached slot promises (an answer is a function of
   the request's messages, prompt and sampler), implemented by `PrefixCache`.
2. That `Connection` over `MessageFifo` in both directions still implements
   `StreamingRpc`; today a frame is atomic there, which `CodecIsFifo` justifies.
3. The async client, once it has a behaviour.
