----------------------------- MODULE PrefixCache -----------------------------
(***************************************************************************)
(* LiteRtLmSlot (model_api_server/src/litertlm_slot.rs): inferences that   *)
(* share a pool of prefilled Conversations.                                *)
(*                                                                         *)
(* A worker is one call of run_stream in flight.  Connections are served   *)
(* by independent tasks, and the body of run_stream runs on the blocking   *)
(* pool, so workers interleave at every lock: the `sessions' mutex, the    *)
(* `prefix_cache' mutex and the `cancel_token' mutex are each taken and    *)
(* released separately.  One action is one critical section, or one C call *)
(* made outside of them.                                                   *)
(*                                                                         *)
(* A Conversation is the list of exchanges its KV cache holds, with the    *)
(* sampler and system prompt baked into it at creation.  Hashes are taken  *)
(* to be injective: a key IS the canonical bytes it digests.  The text of  *)
(* a turn stands for its content together with its tool_call_id.           *)
(***************************************************************************)
EXTENDS Integers, FiniteSets, Sequences

CONSTANTS
  Workers,        \* concurrent calls of run_stream
  Text,           \* contents of turns
  Replies,        \* texts the model may generate, a subset of Text
  Prompts,        \* system prompts a request or the operator may set
  EmptyPrompt,    \* Some(""), a member of Prompts
  NoPrompt,       \* None
  DefaultPrompt,  \* the slot's default_system_prompt
  Samplers,       \* effective (top_p, temperature) pairs
  Sessions,       \* wire session ids
  NoSession,      \* SessionMode::Stateless
  Requests,       \* the requests clients may send
  CacheSize,      \* --litertlm-prefix-cache-size
  Ttl,            \* --litertlm-prefix-cache-ttl-secs
  MaxCalls,       \* bound: calls of run_stream in a behaviour
  MaxTime,        \* bound: ticks of the clock
  MaxSignals,     \* bound: SIGUSR2 deliveries
  NoPin, NoHandle, NoRequest, NoConversation

Role == {"system", "user", "assistant", "tool"}

Turn == [role : Role, text : Text]

Request == [session : Sessions \cup {NoSession}, prompt : Prompts \cup {NoPrompt},
            sampler : Samplers, turns : Seq(Turn)]

ASSUME ConstantsAssumption ==
  /\ Replies \subseteq Text
  /\ EmptyPrompt \in Prompts /\ NoPrompt \notin Prompts
  /\ DefaultPrompt \in Prompts \cup {NoPrompt}
  /\ NoSession \notin Sessions
  /\ Requests \subseteq Request
  /\ NoHandle \notin Workers
  /\ CacheSize \in Nat /\ Ttl \in Nat
  /\ MaxCalls \in Nat /\ MaxTime \in Nat /\ MaxSignals \in Nat

(***************************************************************************)
(* `new' stores cache_size.max(1).                                         *)
(***************************************************************************)
Capacity == IF CacheSize = 0 THEN 1 ELSE CacheSize

-----------------------------------------------------------------------------
(***************************************************************************)
(* Keys and conversations.                                                 *)
(***************************************************************************)

EffectivePrompt(r) == IF r.prompt = NoPrompt THEN DefaultPrompt ELSE r.prompt

(* canonical_prefix_bytes writes nothing for None and nothing for Some("") *)
PromptBytes(p) == IF p = NoPrompt THEN EmptyPrompt ELSE p

Key == [prompt : Prompts, sampler : Samplers, turns : Seq(Turn)]

(* Mutant: the prompt hashed as the Option it is, not as its bytes *)
KeyOf_OptionHashed(r, turns) ==
  [prompt |-> EffectivePrompt(r), sampler |-> r.sampler, turns |-> turns]

(* Mutant: the system prompt left out of the hash *)
KeyOf_PromptIgnored(r, turns) ==
  [prompt |-> EmptyPrompt, sampler |-> r.sampler, turns |-> turns]

KeyOf(r, turns) ==
  [prompt |-> PromptBytes(EffectivePrompt(r)), sampler |-> r.sampler, turns |-> turns]

(* A message sent and the model's answer to it.  `at' is bookkeeping for the *)
(* properties: the position the message has in the transcript being replayed *)
Exchange == [at : Nat, sent : Turn, reply : Text]

Conversation == [prompt : Prompts \cup {NoPrompt}, sampler : Samplers, kv : Seq(Exchange)]

Entry == [conv : Conversation, turnCount : Nat, lastUsed : Nat]

Prefix(turns, n) == SubSeq(turns, 1, n)

IsSendable(turn) == turn.role \in {"user", "tool"}

AssistantTurn(text) == [role |-> "assistant", text |-> text]

-----------------------------------------------------------------------------
VARIABLES
  cache,      \* prefix_cache: a finite set of keys, with an Entry for each
  sessions,   \* wire session id |-> last full-conversation key, or NoPin
  token,      \* cancel_token: whose Conversation the handle cancels
  pc,         \* where each worker is in run_stream
  req,        \* its request
  pin,        \* session_pin, read before the blocking closure starts
  conv,       \* its working copy of a Conversation
  todo,       \* replay_msgs still to be sent, as positions in the request's turns
  now,        \* Instant::now()
  calls,      \* calls of run_stream made so far
  signal      \* deliveries of SIGUSR2: how many, and what the last returned

vars == <<cache, sessions, token, pc, req, pin, conv, todo, now, calls, signal>>

local   == <<req, pin, conv, todo>>
outside == <<now, calls, signal>>

Phase == {"idle", "pin", "lookup", "create", "replay", "send", "recache",
          "bind", "done", "refused", "failed"}

(* After Arm and before its guard drops: the Conversation may be streaming *)
Streaming(w) == pc[w] = "send"

Goto(w, from, to) == pc[w] = from /\ pc' = [pc EXCEPT ![w] = to]

Init ==
  /\ cache = [k \in {} |-> NoConversation]
  /\ sessions = [s \in Sessions |-> NoPin]
  /\ token = NoHandle
  /\ pc = [w \in Workers |-> "idle"]
  /\ req = [w \in Workers |-> NoRequest]
  /\ pin = [w \in Workers |-> NoPin]
  /\ conv = [w \in Workers |-> NoConversation]
  /\ todo = [w \in Workers |-> {}]
  /\ now = 0
  /\ calls = 0
  /\ signal = [count |-> 0, delivered |-> FALSE]

-----------------------------------------------------------------------------
(***************************************************************************)
(* run_stream up to the blocking closure.                                  *)
(***************************************************************************)

(* An empty turn list is an error before any state is touched *)
Submit(w, r) ==
  /\ calls < MaxCalls
  /\ Goto(w, "idle", IF r.turns = <<>> THEN "failed" ELSE "pin")
  /\ req' = [req EXCEPT ![w] = r]
  /\ calls' = calls + 1
  /\ UNCHANGED <<cache, sessions, token, pin, conv, todo, now, signal>>

ReadPin(w) ==
  /\ Goto(w, "pin", "lookup")
  /\ pin' = [pin EXCEPT ![w] = IF req[w].session = NoSession THEN NoPin
                               ELSE sessions[req[w].session]]
  /\ UNCHANGED <<cache, sessions, token, req, conv, todo, outside>>

-----------------------------------------------------------------------------
(***************************************************************************)
(* The lookup, under the prefix_cache lock: the session's pin when it is   *)
(* still usable, else the longest cached prefix, else nothing.             *)
(***************************************************************************)

Fresh(k) == now - cache[k].lastUsed < Ttl

PrefixKey(w, n) == KeyOf(req[w], Prefix(req[w].turns, n))

(* Mutant: a pin trusted without checking the request against its hash *)
PinUsable_Unverified(w) ==
  /\ pin[w] \in DOMAIN cache
  /\ Fresh(pin[w])
  /\ cache[pin[w]].turnCount <= Len(req[w].turns)

PinUsable(w) ==
  /\ pin[w] \in DOMAIN cache
  /\ Fresh(pin[w])
  /\ cache[pin[w]].turnCount <= Len(req[w].turns)
  /\ PrefixKey(w, cache[pin[w]].turnCount) = pin[w]

CachedPrefixes(w) ==
  {n \in 0..Len(req[w].turns) : PrefixKey(w, n) \in DOMAIN cache /\ Fresh(PrefixKey(w, n))}

(* At most one length: the pin's, else the longest; 0 is a cold miss *)
Chosen(w) ==
  (IF PinUsable(w) THEN {cache[pin[w]].turnCount}
   ELSE {n \in CachedPrefixes(w) : \A m \in CachedPrefixes(w) : m <= n}) \ {0}

ChosenKey(w, n) == IF PinUsable(w) THEN pin[w] ELSE PrefixKey(w, n)

(* Mutant: the whole transcript replayed on top of the cached prefix *)
ToReplay_All(w, n) == {i \in 1..Len(req[w].turns) : IsSendable(req[w].turns[i])}

(* sendable_contents of the suffix: assistant and system turns are skipped *)
ToReplay(w, n) == {i \in (n + 1)..Len(req[w].turns) : IsSendable(req[w].turns[i])}

Touch(k) == cache' = [cache EXCEPT ![k].lastUsed = now]

LookupHit(w) ==
  /\ Goto(w, "lookup", "replay")
  /\ \E n \in Chosen(w) :
       /\ Touch(ChosenKey(w, n))
       /\ conv' = [conv EXCEPT ![w] = cache[ChosenKey(w, n)].conv]
       /\ todo' = [todo EXCEPT ![w] = ToReplay(w, n)]
  /\ UNCHANGED <<sessions, token, req, pin, outside>>

(* Conversation::clone of the donor fails, after the entry was touched *)
LookupHitFails(w) ==
  /\ Goto(w, "lookup", "failed")
  /\ \E n \in Chosen(w) : Touch(ChosenKey(w, n))
  /\ UNCHANGED <<sessions, token, local, outside>>

LookupMiss(w) ==
  /\ Goto(w, "lookup", "create")
  /\ Chosen(w) = {}
  /\ UNCHANGED <<cache, sessions, token, local, outside>>

(* The cache lock is released before the engine is called *)
CreateConversation(w) ==
  /\ Goto(w, "create", "replay")
  /\ conv' = [conv EXCEPT ![w] =
                [prompt |-> EffectivePrompt(req[w]), sampler |-> req[w].sampler, kv |-> <<>>]]
  /\ todo' = [todo EXCEPT ![w] = ToReplay(w, 0)]
  /\ UNCHANGED <<cache, sessions, token, req, pin, outside>>

CreateFails(w) ==
  /\ Goto(w, "create", "failed")
  /\ UNCHANGED <<cache, sessions, token, local, outside>>

-----------------------------------------------------------------------------
(***************************************************************************)
(* Replaying the suffix.                                                   *)
(***************************************************************************)

(* "litertlm: nothing to send (suffix has no User/Tool turns)" *)
RefuseNothingToSend(w) ==
  /\ todo[w] = {}
  /\ Goto(w, "replay", "refused")
  /\ conv' = [conv EXCEPT ![w] = NoConversation]
  /\ UNCHANGED <<cache, sessions, token, req, pin, todo, outside>>

(* ArmCancel::new overwrites whatever handle is there *)
Arm(w) ==
  /\ todo[w] # {}
  /\ Goto(w, "replay", "send")
  /\ token' = w
  /\ UNCHANGED <<cache, sessions, local, outside>>

(* One send_message_stream: the message and the model's answer enter the KV. *)
(* A cancelled call that returns Ok leaves a shorter answer, also in Replies *)
SendMessage(w, reply) ==
  /\ Streaming(w)
  /\ \E i \in todo[w] :
       /\ \A j \in todo[w] : i <= j
       /\ conv' = [conv EXCEPT ![w].kv =
                     Append(@, [at |-> i, sent |-> req[w].turns[i], reply |-> reply])]
       /\ todo' = [todo EXCEPT ![w] = @ \ {i}]
  /\ UNCHANGED <<cache, sessions, token, pc, req, pin, outside>>

(* Mutant: no guard, the token cleared only on success *)
SendFails_TokenKept(w) ==
  /\ todo[w] # {}
  /\ Goto(w, "send", "failed")
  /\ conv' = [conv EXCEPT ![w] = NoConversation]
  /\ UNCHANGED <<cache, sessions, token, req, pin, todo, outside>>

(* The `?' on a failed send drops the guard first, then the Conversation *)
SendFails(w) ==
  /\ todo[w] # {}
  /\ Goto(w, "send", "failed")
  /\ token' = NoHandle
  /\ conv' = [conv EXCEPT ![w] = NoConversation]
  /\ UNCHANGED <<cache, sessions, req, pin, todo, outside>>

(* Mutant: the token left armed until the closure returns *)
Disarm_TokenKept(w) ==
  /\ todo[w] = {}
  /\ Goto(w, "send", "recache")
  /\ UNCHANGED <<cache, sessions, token, local, outside>>

(* ArmCancel::drop stores None, whoever armed the token last *)
Disarm(w) ==
  /\ todo[w] = {}
  /\ Goto(w, "send", "recache")
  /\ token' = NoHandle
  /\ UNCHANGED <<cache, sessions, local, outside>>

-----------------------------------------------------------------------------
(***************************************************************************)
(* Re-caching the advanced Conversation.                                   *)
(***************************************************************************)

LastReply(w) == conv[w].kv[Len(conv[w].kv)].reply

(* Mutant: re-cached under the hash of the request alone *)
FullTurns_RequestOnly(w) == req[w].turns

FullTurns(w) == Append(req[w].turns, AssistantTurn(LastReply(w)))

NewKey(w) == KeyOf(req[w], FullTurns(w))

(* Mutant: the newest entry evicted *)
LeastRecentlyUsed_Newest ==
  {k \in DOMAIN cache : \A j \in DOMAIN cache : cache[k].lastUsed >= cache[j].lastUsed}

LeastRecentlyUsed ==
  {k \in DOMAIN cache : \A j \in DOMAIN cache : cache[k].lastUsed <= cache[j].lastUsed}

(* Mutant: room made only when the pool is already over its size *)
Victims_OverSize(new) ==
  IF Cardinality(DOMAIN cache) > Capacity /\ new \notin DOMAIN cache
  THEN {{k} : k \in LeastRecentlyUsed}
  ELSE {{}}

(* At capacity, and the key is not a re-insertion: one victim, any of the oldest *)
Victims(new) ==
  IF Cardinality(DOMAIN cache) >= Capacity /\ new \notin DOMAIN cache
  THEN {{k} : k \in LeastRecentlyUsed}
  ELSE {{}}

Insert(new, entry, victims) ==
  cache' = [k \in (DOMAIN cache \ victims) \cup {new} |->
              IF k = new THEN entry ELSE cache[k]]

Recache(w) ==
  /\ Goto(w, "recache", "bind")
  /\ \E victims \in Victims(NewKey(w)) :
        Insert(NewKey(w),
               [conv |-> conv[w], turnCount |-> Len(FullTurns(w)), lastUsed |-> now],
               victims)
  /\ UNCHANGED <<sessions, token, local, outside>>

(* Conversation::clone fails: the finished answer is reported as an error *)
RecacheFails(w) ==
  /\ Goto(w, "recache", "failed")
  /\ conv' = [conv EXCEPT ![w] = NoConversation]
  /\ UNCHANGED <<cache, sessions, token, req, pin, todo, outside>>

(* A lock of its own, after the cache lock is released *)
BindSession(w) ==
  /\ Goto(w, "bind", "done")
  /\ sessions' = IF req[w].session = NoSession THEN sessions
                 ELSE [sessions EXCEPT ![req[w].session] = NewKey(w)]
  /\ UNCHANGED <<cache, token, local, outside>>

(* run_stream returns and the connection may call it again *)
Return(w) ==
  /\ pc[w] \in {"done", "refused", "failed"}
  /\ pc' = [pc EXCEPT ![w] = "idle"]
  /\ req' = [req EXCEPT ![w] = NoRequest]
  /\ pin' = [pin EXCEPT ![w] = NoPin]
  /\ conv' = [conv EXCEPT ![w] = NoConversation]
  /\ todo' = [todo EXCEPT ![w] = {}]
  /\ UNCHANGED <<cache, sessions, token, outside>>

-----------------------------------------------------------------------------
(***************************************************************************)
(* The environment: SIGUSR2 (cancel_in_flight on the watcher thread) and   *)
(* the clock.                                                              *)
(***************************************************************************)

CancelInFlight ==
  /\ signal.count < MaxSignals
  /\ signal' = [count |-> signal.count + 1, delivered |-> token # NoHandle]
  /\ UNCHANGED <<cache, sessions, token, pc, local, now, calls>>

Tick ==
  /\ now < MaxTime
  /\ now' = now + 1
  /\ UNCHANGED <<cache, sessions, token, pc, local, calls, signal>>

-----------------------------------------------------------------------------
Step(w) ==
  \/ ReadPin(w)
  \/ LookupHit(w) \/ LookupHitFails(w) \/ LookupMiss(w)
  \/ CreateConversation(w) \/ CreateFails(w)
  \/ RefuseNothingToSend(w) \/ Arm(w)
  \/ \E reply \in Replies : SendMessage(w, reply)
  \/ SendFails(w) \/ Disarm(w)
  \/ Recache(w) \/ RecacheFails(w) \/ BindSession(w)
  \/ Return(w)

Next ==
  \/ \E w \in Workers : \/ \E r \in Requests : Submit(w, r)
                        \/ Step(w)
  \/ CancelInFlight
  \/ Tick

Spec == Init /\ [][Next]_vars

-----------------------------------------------------------------------------
(***************************************************************************)
(* Properties.                                                             *)
(***************************************************************************)

TypeOK ==
  /\ DOMAIN cache \subseteq Key /\ IsFiniteSet(DOMAIN cache)
  /\ \A k \in DOMAIN cache : cache[k] \in Entry
  /\ sessions \in [Sessions -> Key \cup {NoPin}]
  /\ token \in Workers \cup {NoHandle}
  /\ pc \in [Workers -> Phase]
  /\ req \in [Workers -> Requests \cup {NoRequest}]
  /\ pin \in [Workers -> Key \cup {NoPin}]
  /\ conv \in [Workers -> Conversation \cup {NoConversation}]
  /\ todo \in [Workers -> SUBSET Nat]
  /\ now \in Nat /\ calls \in Nat
  /\ signal \in [count : Nat, delivered : BOOLEAN]

(* However many inferences finish at once, the pool never holds more donors *)
(* than the operator allowed: each one pins GPU memory.                     *)
CapacityBound == Cardinality(DOMAIN cache) <= Capacity

LastTurn(turns) == turns[Len(turns)]

(* kv was sent exactly the user and tool messages of turns outside `left',  *)
(* each of them once and in the order of the transcript                     *)
Heard(kv, turns, left) ==
  /\ \A e \in DOMAIN kv :
       /\ kv[e].at \in DOMAIN turns \ left
       /\ kv[e].sent = turns[kv[e].at]
       /\ IsSendable(kv[e].sent)
  /\ \A e, f \in DOMAIN kv : e < f => kv[e].at < kv[f].at
  /\ \A i \in DOMAIN turns \ left : IsSendable(turns[i]) => \E e \in DOMAIN kv : kv[e].at = i

(* A donor is what its key says: the user and tool messages of the key, no  *)
(* more and no fewer, were sent to it in that order, with the sampler and   *)
(* prompt bytes of the key, and the key's last reply is the one it gave.    *)
(* Working copies are advanced concurrently and never through the donor.    *)
DonorMatchesKey ==
  \A k \in DOMAIN cache :
    LET c == cache[k].conv
    IN  /\ cache[k].turnCount = Len(k.turns)
        /\ Heard(c.kv, k.turns, {})
        /\ LastTurn(k.turns) = AssistantTurn(LastTurn(c.kv).reply)
        /\ PromptBytes(c.prompt) = k.prompt /\ c.sampler = k.sampler

(* Whatever was cached, evicted, pinned or re-inserted meanwhile, an answer *)
(* is generated from the request's own user and tool messages, in order.    *)
AnswerInContext ==
  \A w \in Workers : pc[w] \in {"recache", "bind", "done"} =>
    /\ Heard(conv[w].kv, req[w].turns, {})
    /\ conv[w].sampler = req[w].sampler

(* "The effective system prompt is included in the prefix-cache hash, so a  *)
(* slot-default vs request-override produces distinct cache entries"        *)
(* (litertlm_slot.rs:139): the system prompt prefilled in the Conversation  *)
(* that answers is the one in effect for the request.  The code breaks it   *)
(* for an override that is empty, which hashes like no prompt at all.       *)
AnswerUnderOwnPrompt ==
  \A w \in Workers : conv[w] # NoConversation => conv[w].prompt = EffectivePrompt(req[w])

(* What the code does keep: a Conversation is never cloned, re-cached or    *)
(* found through a pin under a prompt that differs in its text from the one *)
(* it was prefilled with; only none and an empty one stand for each other.  *)
PromptsShareNoDonor ==
  \A w \in Workers : conv[w] # NoConversation =>
    PromptBytes(conv[w].prompt) = PromptBytes(EffectivePrompt(req[w]))

(* The handle in the cancel token belongs to a Conversation that is alive:  *)
(* it cannot be picked up once the Conversation may have been dropped.      *)
TokenNeverDangles == token # NoHandle => Streaming(token)

(* A request that ends in a user or tool turn always has something to send: *)
(* no cached prefix, and no pin, can swallow its last message.              *)
UserTailNeverRefused ==
  \A w \in Workers :
    (pc[w] = "refused" /\ req[w].turns # <<>>) => ~IsSendable(LastTurn(req[w].turns))

(* An entry leaves the pool only to make room for one that is not there, in *)
(* a full pool, and every entry that stays was used at least as recently.   *)
EvictionSparesRecent ==
  [][\A k \in DOMAIN cache \ DOMAIN cache' :
       /\ Cardinality(DOMAIN cache) = Capacity
       /\ DOMAIN cache' \ DOMAIN cache # {}
       /\ \A j \in DOMAIN cache \cap DOMAIN cache' : cache[k].lastUsed <= cache[j].lastUsed
    ]_vars

(* cancel_in_flight: "Returns true if a cancel was actually delivered (an   *)
(* inference was in flight), false otherwise" (slot.rs).                    *)
CancelReportsInFlight ==
  [][signal' # signal => (signal'.delivered <=> \E w \in Workers : Streaming(w))]_vars

=============================================================================
