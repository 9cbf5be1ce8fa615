---------------------------- MODULE LlamaSession -----------------------------
(***************************************************************************)
(* Session (chitin_llama/src/session.rs) as LlamaSlot drives it: requests  *)
(* from every connection take the session mutex in turn, and each runs     *)
(* generate_raw on the one llama.cpp context.  `head' counts requests in   *)
(* the order they got the mutex.                                           *)
(*                                                                         *)
(* A token in the KV cache is known by its request and its place in that   *)
(* request: the prompt's tokens first, then the produced ones.             *)
(***************************************************************************)
EXTENDS Integers, Sequences

CONSTANTS
  MaxSeqLen,    \* LoadConfig::max_seq_len, the cells of the context
  NBatch,       \* LoadConfig::n_batch
  MaxPrompt,    \* bound: tokens of a prompt
  MaxTokens,    \* bound: InferenceRequest::max_tokens
  MaxRequests,  \* bound: requests served
  MaxFailures   \* bound: decodes that fail although there is room

ASSUME SessionAssumption ==
  /\ MaxSeqLen \in Nat /\ NBatch \in Nat \ {0}
  /\ MaxPrompt \in Nat /\ MaxTokens \in Nat /\ MaxRequests \in Nat /\ MaxFailures \in Nat

VARIABLES
  kv,        \* the tokens of sequence 0, by position
  nCur,      \* Session::n_cur, the write head
  pc,        \* idle, prefill, step or push
  head,      \* the request that has the mutex
  prompt,    \* its prompt, in tokens
  budget,    \* its max_tokens
  done,      \* prompt tokens decoded
  produced,  \* tokens produced
  outcome,   \* how the last request ended
  failures

vars == <<kv, nCur, pc, head, prompt, budget, done, produced, outcome, failures>>

Token == [req : Nat, at : Nat]

(* The n tokens of the current request from its i-th on, 0 for the first *)
Tokens(i, n) == [k \in 1..n |-> [req |-> head, at |-> i + k - 1]]

LeastOf(a, b) == IF a <= b THEN a ELSE b

Init ==
  /\ kv = <<>> /\ nCur = 0 /\ pc = "idle"
  /\ head = 0 /\ prompt = 0 /\ budget = 0 /\ done = 0 /\ produced = 0
  /\ outcome = "none" /\ failures = 0

-----------------------------------------------------------------------------
(***************************************************************************)
(* llama_decode: it takes tokens only at the position after the last one   *)
(* ("inconsistent sequence positions" otherwise) and only while cells are  *)
(* free; what it refuses leaves the cache as it was.                       *)
(***************************************************************************)

CanDecode(pos, n) == pos = Len(kv) /\ Len(kv) + n <= MaxSeqLen

Decode(pos, tokens) == CanDecode(pos, Len(tokens)) /\ kv' = kv \o tokens

(* Refused, or failed for reasons of its own *)
DecodeFails(pos, n) ==
  /\ IF CanDecode(pos, n)
     THEN failures < MaxFailures /\ failures' = failures + 1
     ELSE UNCHANGED failures
  /\ UNCHANGED kv

-----------------------------------------------------------------------------
(***************************************************************************)
(* prefill.                                                                *)
(***************************************************************************)

(* Mutant: a prompt that leaves no room for an answer let in *)
FitsContext_Full(n) == nCur + n <= MaxSeqLen

FitsContext(n) == nCur + n < MaxSeqLen

Ends(how) == pc' = "idle" /\ outcome' = how

Begin(n, max) ==
  /\ pc = "idle" /\ head < MaxRequests
  /\ head' = head + 1
  /\ prompt' = n /\ budget' = max /\ done' = 0 /\ produced' = 0
  /\ IF n = 0 \/ ~FitsContext(n) THEN Ends("error") ELSE pc' = "prefill" /\ UNCHANGED outcome
  /\ UNCHANGED <<kv, nCur, failures>>

(* Mutant: chunks placed after whatever the cache holds *)
ChunkAt_EndOfCache == Len(kv)

ChunkAt == nCur + done

ChunkSize == LeastOf(NBatch, prompt - done)

(* One batch; the head moves when the last one is in *)
PrefillChunk ==
  /\ pc = "prefill"
  /\ Decode(ChunkAt, Tokens(done, ChunkSize))
  /\ done' = done + ChunkSize
  /\ IF done' = prompt
     THEN nCur' = nCur + prompt /\ pc' = "step"
     ELSE UNCHANGED <<nCur, pc>>
  /\ UNCHANGED <<head, prompt, budget, produced, outcome, failures>>

(* The chunks before stay in the cache, and n_cur does not count them *)
PrefillFails ==
  /\ pc = "prefill"
  /\ DecodeFails(ChunkAt, ChunkSize)
  /\ Ends("error")
  /\ UNCHANGED <<nCur, head, prompt, budget, done, produced>>

-----------------------------------------------------------------------------
(***************************************************************************)
(* generate_raw: sample, push, until max_tokens, end of generation or a    *)
(* push that fails.                                                        *)
(***************************************************************************)

Sample ==
  /\ pc = "step" /\ produced < budget
  /\ pc' = "push" /\ produced' = produced + 1
  /\ UNCHANGED <<kv, nCur, head, prompt, budget, done, outcome, failures>>

(* End of generation, or max_tokens reached *)
Stop ==
  /\ pc = "step"
  /\ Ends("ok")
  /\ UNCHANGED <<kv, nCur, head, prompt, budget, done, produced, failures>>

PushToken ==
  /\ pc = "push" /\ pc' = "step"
  /\ nCur' = nCur + 1
  /\ Decode(nCur, Tokens(prompt + produced - 1, 1))
  /\ UNCHANGED <<head, prompt, budget, done, produced, outcome, failures>>

(* Mutant: a failed push does not break the loop *)
PushFails_Ignored ==
  /\ pc = "push" /\ pc' = "step"
  /\ nCur' = nCur + 1
  /\ DecodeFails(nCur, 1)
  /\ UNCHANGED <<head, prompt, budget, done, produced, outcome>>

(* n_cur is advanced before the decode; generate_raw breaks and returns Ok *)
PushFails ==
  /\ pc = "push" /\ Ends("ok")
  /\ nCur' = nCur + 1
  /\ DecodeFails(nCur, 1)
  /\ UNCHANGED <<head, prompt, budget, done, produced>>

Next ==
  \/ \E n \in 0..MaxPrompt, max \in 0..MaxTokens : Begin(n, max)
  \/ PrefillChunk \/ PrefillFails
  \/ Sample \/ Stop
  \/ PushToken \/ PushFails

Spec == Init /\ [][Next]_vars

-----------------------------------------------------------------------------
(***************************************************************************)
(* Properties.                                                             *)
(***************************************************************************)

TypeOK ==
  /\ kv \in Seq(Token) /\ Len(kv) <= MaxSeqLen
  /\ nCur \in 0..(MaxSeqLen + 1)
  /\ pc \in {"idle", "prefill", "step", "push"}
  /\ head \in 0..MaxRequests /\ prompt \in 0..MaxPrompt /\ budget \in 0..MaxTokens
  /\ done \in 0..prompt /\ produced \in 0..budget
  /\ outcome \in {"none", "ok", "error"} /\ failures \in 0..MaxFailures

(* Whenever a token is sampled the cache ends in the request's own prompt,  *)
(* complete and in order whatever the batch size, followed by everything it *)
(* has produced, and the write head is just behind: no failure of an        *)
(* earlier request or push makes the model answer from a damaged cache.     *)
SamplesFromWholePrompt ==
  pc = "step" =>
    /\ nCur = Len(kv)
    /\ prompt + produced <= Len(kv)
    /\ \A i \in 1..(prompt + produced) :
         kv[Len(kv) - prompt - produced + i] = [req |-> head, at |-> i - 1]

(* A prompt that was let in has room for at least one token of the answer,  *)
(* so the first push is never refused for want of it.                       *)
RoomForAnswer == (pc = "push" /\ produced = 1) => CanDecode(nCur, 1)

(* The write head and the cache have come apart *)
Damaged == nCur + (IF pc = "prefill" THEN done ELSE 0) # Len(kv)

(* A decode that fails can leave the head behind the cache or ahead of it.  *)
(* From then on every request is an error: the two never meet again, so no  *)
(* answer is sampled from the remains of a request that failed.             *)
DamageIsFinal == [][Damaged => Damaged' /\ pc' # "step"]_vars

(* "Today every request re-prefills the full prompt" (llama_slot.rs), with  *)
(* clear_kv to "call between unrelated requests when running without a      *)
(* prefix cache" (session.rs): an answer is sampled from its own request.   *)
AnswersFromOwnPrompt ==
  pc = "step" => \A i \in DOMAIN kv : kv[i].req = head

=============================================================================
