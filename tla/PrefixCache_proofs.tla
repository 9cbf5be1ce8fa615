------------------------- MODULE PrefixCache_proofs -------------------------
(***************************************************************************)
(* The safety of PrefixCache for any number of workers, any cache size and *)
(* any requests.                                                           *)
(*                                                                         *)
(* Neither the bound on the pool nor what a donor holds is inductive alone:*)
(* what Recache stores was produced by a worker that may have started from *)
(* a donor.  IInv therefore relates each worker's Conversation to the part *)
(* of its transcript that is already replayed (WorkerOK).                  *)
(***************************************************************************)
EXTENDS PrefixCache, FiniteSetTheorems, SequenceTheorems, TLAPS

(* todo is what is left to send: sendable turns, all after what was heard *)
TodoOK(kv, turns, left) ==
  /\ left \subseteq DOMAIN turns
  /\ \A i \in left : IsSendable(turns[i])
  /\ \A e \in DOMAIN kv, i \in left : kv[e].at < i

ConversationOf(w) ==
  /\ conv[w] \in Conversation
  /\ conv[w].sampler = req[w].sampler
  /\ PromptBytes(conv[w].prompt) = PromptBytes(EffectivePrompt(req[w]))

WorkerOK(w) ==
  /\ pc[w] # "idle" => req[w] \in Requests
  /\ pc[w] \in {"pin", "lookup", "create", "replay", "send", "recache", "bind", "done"}
       => req[w].turns # <<>>
  /\ pc[w] \in {"replay", "send", "recache", "bind", "done"} => ConversationOf(w)
  /\ pc[w] \in {"replay", "send"} => /\ Heard(conv[w].kv, req[w].turns, todo[w])
                                     /\ TodoOK(conv[w].kv, req[w].turns, todo[w])
  /\ pc[w] = "replay" /\ IsSendable(LastTurn(req[w].turns)) => todo[w] # {}
  /\ pc[w] = "send" => todo[w] # {} \/ conv[w].kv # <<>>
  /\ pc[w] \in {"recache", "bind", "done"} => /\ Heard(conv[w].kv, req[w].turns, {})
                                              /\ conv[w].kv # <<>>
  /\ pc[w] = "refused" /\ req[w].turns # <<>> => ~IsSendable(LastTurn(req[w].turns))

DonorOK(k, entry) ==
  /\ k \in Key /\ entry \in Entry
  /\ k.turns # <<>> /\ entry.conv.kv # <<>>
  /\ entry.turnCount = Len(k.turns)
  /\ Heard(entry.conv.kv, k.turns, {})
  /\ LastTurn(k.turns) = AssistantTurn(LastTurn(entry.conv.kv).reply)
  /\ PromptBytes(entry.conv.prompt) = k.prompt /\ entry.conv.sampler = k.sampler

DonorsOK == \A k \in DOMAIN cache : DonorOK(k, cache[k])

IInv == /\ TypeOK
        /\ CapacityBound
        /\ DonorsOK
        /\ TokenNeverDangles
        /\ \A w \in Workers : WorkerOK(w)

-----------------------------------------------------------------------------
(* What a key computed from a request is                                    *)
LEMMA KeyOfType ==
  ASSUME NEW r \in Requests, NEW turns \in Seq(Turn)
  PROVE  /\ KeyOf(r, turns) \in Key
         /\ KeyOf(r, turns).turns = turns
         /\ KeyOf(r, turns).sampler = r.sampler
         /\ KeyOf(r, turns).prompt = PromptBytes(EffectivePrompt(r))
         /\ r.turns \in Seq(Turn) /\ r.session \in Sessions \cup {NoSession}
BY ConstantsAssumption DEF KeyOf, Key, PromptBytes, EffectivePrompt, Request

LEMMA PrefixType ==
  ASSUME NEW turns \in Seq(Turn), NEW n \in 0..Len(turns)
  PROVE  /\ Prefix(turns, n) \in Seq(Turn)
         /\ Len(Prefix(turns, n)) = n
         /\ \A i \in 1..n : Prefix(turns, n)[i] = turns[i]
BY SubSeqProperties DEF Prefix

(* The lookup only ever hits an entry whose key is the request's own prefix *)
LEMMA ChosenIsPrefix ==
  ASSUME TypeOK, DonorsOK, NEW w \in Workers, req[w] \in Requests, NEW n \in Chosen(w)
  PROVE  /\ n \in 1..Len(req[w].turns)
         /\ ChosenKey(w, n) \in DOMAIN cache
         /\ ChosenKey(w, n) = PrefixKey(w, n)
<1>1. req[w].turns \in Seq(Turn) /\ Len(req[w].turns) \in Nat
  BY KeyOfType, EmptySeq, LenProperties
<1>2. CASE PinUsable(w)
  <2>1. n = cache[pin[w]].turnCount /\ n # 0
    BY <1>2 DEF Chosen
  <2>2. pin[w] \in DOMAIN cache /\ n <= Len(req[w].turns) /\ PrefixKey(w, n) = pin[w]
    BY <1>2, <2>1 DEF PinUsable
  <2>3. n \in Nat
    BY <2>1, <2>2 DEF TypeOK, Entry
  <2> QED BY <1>1, <1>2, <2>1, <2>2, <2>3 DEF ChosenKey
<1>3. CASE ~PinUsable(w)
  BY <1>1, <1>3 DEF Chosen, CachedPrefixes, ChosenKey
<1> QED BY <1>2, <1>3

(* A donor for a prefix has heard what is due before the suffix is replayed *)
LEMMA HitReplaysSuffix ==
  ASSUME NEW turns \in Seq(Turn), NEW n \in 1..Len(turns), NEW kv \in Seq(Exchange),
         Heard(kv, Prefix(turns, n), {}),
         NEW left, left = {i \in (n + 1)..Len(turns) : IsSendable(turns[i])}
  PROVE  Heard(kv, turns, left) /\ TodoOK(kv, turns, left)
<1>1. /\ Len(Prefix(turns, n)) = n /\ DOMAIN Prefix(turns, n) = 1..n
      /\ \A i \in 1..n : Prefix(turns, n)[i] = turns[i]
  <2>1. n \in 0..Len(turns)
    BY LenProperties
  <2>2. /\ Prefix(turns, n) \in Seq(Turn) /\ Len(Prefix(turns, n)) = n
        /\ \A i \in 1..n : Prefix(turns, n)[i] = turns[i]
    BY <2>1, PrefixType
  <2> QED BY <2>2, LenProperties
<1>2. DOMAIN turns = 1..Len(turns) /\ Len(turns) \in Nat
  BY LenProperties
<1>3. \A e \in DOMAIN kv : /\ kv[e].at \in 1..n
                           /\ kv[e].sent = turns[kv[e].at]
                           /\ IsSendable(kv[e].sent)
  BY <1>1 DEF Heard
<1>4. \A e, f \in DOMAIN kv : e < f => kv[e].at < kv[f].at
  BY DEF Heard
<1>5. \A i \in 1..n : IsSendable(turns[i]) => \E e \in DOMAIN kv : kv[e].at = i
  BY <1>1 DEF Heard
<1>6. TodoOK(kv, turns, left)
  BY <1>2, <1>3 DEF TodoOK
<1>7. \A i \in DOMAIN turns \ left : IsSendable(turns[i]) => i \in 1..n
  BY <1>2
<1>8. \A i \in 1..n : i \in DOMAIN turns \ left
  BY <1>2
<1>9. /\ \A e \in DOMAIN kv : kv[e].at \in DOMAIN turns \ left
      /\ \A i \in DOMAIN turns \ left :
           IsSendable(turns[i]) => \E e \in DOMAIN kv : kv[e].at = i
  BY ONLY <1>3, <1>5, <1>7, <1>8
<1> QED BY <1>3, <1>4, <1>6, <1>9 DEF Heard

(* Sending the first of what is left keeps the replay in step               *)
LEMMA SendKeepsReplay ==
  ASSUME NEW turns \in Seq(Turn), NEW kv \in Seq(Exchange), NEW left \in SUBSET Nat,
         Heard(kv, turns, left), TodoOK(kv, turns, left),
         NEW i \in left, \A j \in left : i <= j, NEW reply \in Text,
         NEW x, x = [at |-> i, sent |-> turns[i], reply |-> reply]
  PROVE  /\ Append(kv, x) \in Seq(Exchange) /\ Append(kv, x) # <<>>
         /\ Heard(Append(kv, x), turns, left \ {i})
         /\ TodoOK(Append(kv, x), turns, left \ {i})
<1>1. i \in DOMAIN turns /\ turns[i] \in Turn /\ i \in Nat /\ IsSendable(turns[i])
  BY ElementOfSeq DEF TodoOK
<1>2. x \in Exchange
  BY <1>1 DEF Exchange
<1>3. /\ Append(kv, x) \in Seq(Exchange) /\ Append(kv, x) # <<>>
      /\ Len(Append(kv, x)) = Len(kv) + 1
      /\ DOMAIN Append(kv, x) = 1..(Len(kv) + 1) /\ DOMAIN kv = 1..Len(kv) /\ Len(kv) \in Nat
      /\ \A e \in 1..Len(kv) : Append(kv, x)[e] = kv[e]
      /\ Append(kv, x)[Len(kv) + 1] = x
  BY <1>2, AppendProperties, LenProperties
<1> DEFINE kv2 == Append(kv, x)
<1>4. \A e \in DOMAIN kv2 : e \in DOMAIN kv \/ e = Len(kv) + 1
  BY <1>3
<1>5. \A e \in DOMAIN kv2 : /\ kv2[e].at \in DOMAIN turns \ (left \ {i})
                            /\ kv2[e].sent = turns[kv2[e].at]
                            /\ IsSendable(kv2[e].sent)
  BY <1>1, <1>3, <1>4 DEF Heard
<1>6. \A e, f \in DOMAIN kv2 : e < f => kv2[e].at < kv2[f].at
  BY <1>3, <1>4 DEF Heard, TodoOK
<1>7. \A j \in DOMAIN turns \ (left \ {i}) :
        IsSendable(turns[j]) => \E e \in DOMAIN kv2 : kv2[e].at = j
  <2> SUFFICES ASSUME NEW j \in DOMAIN turns \ (left \ {i}), IsSendable(turns[j])
               PROVE  \E e \in DOMAIN kv2 : kv2[e].at = j
    OBVIOUS
  <2>1. CASE j = i
    BY <1>3, <2>1
  <2>2. CASE j # i
    BY <1>3, <2>2 DEF Heard
  <2> QED BY <2>1, <2>2
<1>8. \A e \in DOMAIN kv2, j \in left \ {i} : kv2[e].at < j
  BY <1>1, <1>3, <1>4 DEF TodoOK
<1>9. TodoOK(kv2, turns, left \ {i})
  BY <1>8 DEF TodoOK
<1> QED BY <1>3, <1>5, <1>6, <1>7, <1>9 DEF Heard

(* A finished Conversation is a donor for the request's turns and its reply *)
LEMMA FinishedIsDonor ==
  ASSUME NEW turns \in Seq(Turn), NEW kv \in Seq(Exchange), kv # <<>>, Heard(kv, turns, {}),
         NEW full, full = Append(turns, AssistantTurn(kv[Len(kv)].reply)),
         Replies \subseteq Text
  PROVE  /\ full \in Seq(Turn) /\ full # <<>>
         /\ Heard(kv, full, {})
         /\ LastTurn(full) = AssistantTurn(LastTurn(kv).reply)
<1>1. Len(kv) \in DOMAIN kv /\ kv[Len(kv)] \in Exchange
  BY LenProperties, EmptySeq, ElementOfSeq
<1>2. AssistantTurn(kv[Len(kv)].reply) \in Turn
  BY <1>1 DEF Exchange, AssistantTurn, Turn, Role
<1>3. /\ full \in Seq(Turn) /\ full # <<>> /\ Len(full) = Len(turns) + 1
      /\ DOMAIN full = 1..(Len(turns) + 1) /\ DOMAIN turns = 1..Len(turns) /\ Len(turns) \in Nat
      /\ \A i \in 1..Len(turns) : full[i] = turns[i]
      /\ full[Len(turns) + 1] = AssistantTurn(kv[Len(kv)].reply)
  BY <1>2, AppendProperties, LenProperties
<1>4. ~IsSendable(full[Len(turns) + 1])
  BY <1>3 DEF IsSendable, AssistantTurn
<1>5. Heard(kv, full, {})
  <2>1. \A e \in DOMAIN kv : /\ kv[e].at \in DOMAIN full
                             /\ kv[e].sent = full[kv[e].at]
                             /\ IsSendable(kv[e].sent)
    BY <1>3 DEF Heard
  <2>2. \A i \in DOMAIN full : IsSendable(full[i]) => \E e \in DOMAIN kv : kv[e].at = i
    BY <1>3, <1>4 DEF Heard
  <2> QED BY <2>1, <2>2 DEF Heard
<1> QED BY <1>3, <1>5 DEF LastTurn

-----------------------------------------------------------------------------
(***************************************************************************)
(* Preservation, one action at a time.                                     *)
(***************************************************************************)

(* A worker that did not move is as it was                                  *)
LEMMA OtherWorkers ==
  ASSUME NEW w \in Workers, \A v \in Workers : WorkerOK(v), WorkerOK(w)',
         \A v \in Workers \ {w} : /\ pc'[v] = pc[v] /\ req'[v] = req[v]
                                  /\ conv'[v] = conv[v] /\ todo'[v] = todo[v]
  PROVE  \A v \in Workers : WorkerOK(v)'
<1> SUFFICES ASSUME NEW v \in Workers, v # w PROVE WorkerOK(v)'
  OBVIOUS
<1> QED BY DEF WorkerOK, ConversationOf

(* Leaving the pool alone keeps what is said of it                          *)
LEMMA PoolUnchanged ==
  ASSUME IInv, cache' = cache
  PROVE  CapacityBound' /\ DonorsOK'
BY DEF IInv, CapacityBound, DonorsOK

LEMMA InitIInv == Init => IInv
<1> SUFFICES ASSUME Init PROVE IInv
  OBVIOUS
<1>1. DOMAIN cache = {}
  BY DEF Init
<1>2. TypeOK
  <2>1. IsFiniteSet(DOMAIN cache)
    BY <1>1, FS_EmptySet
  <2> QED BY <1>1, <2>1 DEF Init, TypeOK, Phase
<1>3. CapacityBound
  BY <1>1, FS_EmptySet, ConstantsAssumption DEF CapacityBound, Capacity
<1>4. DonorsOK /\ TokenNeverDangles
  BY <1>1 DEF DonorsOK, TokenNeverDangles, Init
<1>5. \A w \in Workers : WorkerOK(w)
  BY DEF Init, WorkerOK
<1> QED BY <1>2, <1>3, <1>4, <1>5 DEF IInv

(* The pin may be stale: nothing is concluded from it here                  *)
LEMMA ReadPinIInv ==
  ASSUME IInv, NEW w \in Workers, ReadPin(w)
  PROVE  IInv'
<1> USE DEF IInv
<1>1. TypeOK'
  <2>1. req[w] \in Requests /\ req[w].session \in Sessions \cup {NoSession}
    BY KeyOfType, EmptySeq DEF WorkerOK, ReadPin, Goto
  <2> QED BY <2>1 DEF TypeOK, Phase, ReadPin, Goto, outside
<1>2. CapacityBound' /\ DonorsOK'
  BY PoolUnchanged DEF ReadPin
<1>3. TokenNeverDangles'
  BY ConstantsAssumption DEF TokenNeverDangles, Streaming, TypeOK, Phase, ReadPin, Goto, outside
<1>4. WorkerOK(w)'
  BY DEF TypeOK, WorkerOK, ReadPin, Goto, outside
<1>5. \A v \in Workers : WorkerOK(v)'
  BY <1>4, OtherWorkers DEF TypeOK, Phase, ReadPin, Goto, outside
<1> QED BY <1>1, <1>2, <1>3, <1>5

(* A miss leaves everything but the phase alone                             *)
LEMMA LookupMissIInv ==
  ASSUME IInv, NEW w \in Workers, LookupMiss(w)
  PROVE  IInv'
<1> USE DEF IInv
<1>1. TypeOK'
  BY ConstantsAssumption DEF TypeOK, Phase, LookupMiss, Goto, local, outside
<1>2. CapacityBound' /\ DonorsOK'
  BY PoolUnchanged DEF LookupMiss
<1>3. TokenNeverDangles'
  BY ConstantsAssumption DEF TokenNeverDangles, Streaming, TypeOK, Phase, LookupMiss, Goto, local, outside
<1>4. WorkerOK(w)'
  BY DEF TypeOK, WorkerOK, LookupMiss, Goto, local, outside
<1>5. \A v \in Workers : WorkerOK(v)'
  BY <1>4, OtherWorkers DEF TypeOK, Phase, LookupMiss, Goto, local, outside
<1> QED BY <1>1, <1>2, <1>3, <1>5

(* Failing to create a Conversation ends the call                           *)
LEMMA CreateFailsIInv ==
  ASSUME IInv, NEW w \in Workers, CreateFails(w)
  PROVE  IInv'
<1> USE DEF IInv
<1>1. TypeOK'
  BY ConstantsAssumption DEF TypeOK, Phase, CreateFails, Goto, local, outside
<1>2. CapacityBound' /\ DonorsOK'
  BY PoolUnchanged DEF CreateFails
<1>3. TokenNeverDangles'
  BY ConstantsAssumption DEF TokenNeverDangles, Streaming, TypeOK, Phase, CreateFails, Goto, local, outside
<1>4. WorkerOK(w)'
  BY DEF TypeOK, WorkerOK, CreateFails, Goto, local, outside
<1>5. \A v \in Workers : WorkerOK(v)'
  BY <1>4, OtherWorkers DEF TypeOK, Phase, CreateFails, Goto, local, outside
<1> QED BY <1>1, <1>2, <1>3, <1>5

(* A refusal means that the transcript did not end in a user or tool turn   *)
LEMMA RefuseNothingToSendIInv ==
  ASSUME IInv, NEW w \in Workers, RefuseNothingToSend(w)
  PROVE  IInv'
<1> USE DEF IInv
<1>1. TypeOK'
  BY ConstantsAssumption DEF TypeOK, Phase, RefuseNothingToSend, Goto, outside
<1>2. CapacityBound' /\ DonorsOK'
  BY PoolUnchanged DEF RefuseNothingToSend
<1>3. TokenNeverDangles'
  BY ConstantsAssumption DEF TokenNeverDangles, Streaming, TypeOK, Phase, RefuseNothingToSend, Goto, outside
<1>4. WorkerOK(w)'
  BY DEF TypeOK, WorkerOK, RefuseNothingToSend, Goto, outside
<1>5. \A v \in Workers : WorkerOK(v)'
  BY <1>4, OtherWorkers DEF TypeOK, Phase, RefuseNothingToSend, Goto, outside
<1> QED BY <1>1, <1>2, <1>3, <1>5

(* Arming claims the token for a Conversation that is about to stream       *)
LEMMA ArmIInv ==
  ASSUME IInv, NEW w \in Workers, Arm(w)
  PROVE  IInv'
<1> USE DEF IInv
<1>1. TypeOK'
  BY ConstantsAssumption DEF TypeOK, Phase, Arm, Goto, local, outside
<1>2. CapacityBound' /\ DonorsOK'
  BY PoolUnchanged DEF Arm
<1>3. TokenNeverDangles'
  BY ConstantsAssumption DEF TokenNeverDangles, Streaming, TypeOK, Phase, Arm, Goto, local, outside
<1>4. WorkerOK(w)'
  BY DEF TypeOK, WorkerOK, ConversationOf, Arm, Goto, local, outside
<1>5. \A v \in Workers : WorkerOK(v)'
  BY <1>4, OtherWorkers DEF TypeOK, Phase, Arm, Goto, local, outside
<1> QED BY <1>1, <1>2, <1>3, <1>5

(* A failed send gives the token up before the Conversation is dropped      *)
LEMMA SendFailsIInv ==
  ASSUME IInv, NEW w \in Workers, SendFails(w)
  PROVE  IInv'
<1> USE DEF IInv
<1>1. TypeOK'
  BY ConstantsAssumption DEF TypeOK, Phase, SendFails, Goto, outside
<1>2. CapacityBound' /\ DonorsOK'
  BY PoolUnchanged DEF SendFails
<1>3. TokenNeverDangles'
  BY ConstantsAssumption DEF TokenNeverDangles, Streaming, TypeOK, Phase, SendFails, Goto, outside
<1>4. WorkerOK(w)'
  BY DEF TypeOK, WorkerOK, SendFails, Goto, outside
<1>5. \A v \in Workers : WorkerOK(v)'
  BY <1>4, OtherWorkers DEF TypeOK, Phase, SendFails, Goto, outside
<1> QED BY <1>1, <1>2, <1>3, <1>5

(* With nothing left to send, the whole transcript was heard                *)
LEMMA DisarmIInv ==
  ASSUME IInv, NEW w \in Workers, Disarm(w)
  PROVE  IInv'
<1> USE DEF IInv
<1>1. TypeOK'
  BY ConstantsAssumption DEF TypeOK, Phase, Disarm, Goto, local, outside
<1>2. CapacityBound' /\ DonorsOK'
  BY PoolUnchanged DEF Disarm
<1>3. TokenNeverDangles'
  BY ConstantsAssumption DEF TokenNeverDangles, Streaming, TypeOK, Phase, Disarm, Goto, local, outside
<1>4. WorkerOK(w)'
  BY DEF TypeOK, WorkerOK, ConversationOf, Disarm, Goto, local, outside
<1>5. \A v \in Workers : WorkerOK(v)'
  BY <1>4, OtherWorkers DEF TypeOK, Phase, Disarm, Goto, local, outside
<1> QED BY <1>1, <1>2, <1>3, <1>5

(* A failed clone ends the call without touching the pool                   *)
LEMMA RecacheFailsIInv ==
  ASSUME IInv, NEW w \in Workers, RecacheFails(w)
  PROVE  IInv'
<1> USE DEF IInv
<1>1. TypeOK'
  BY ConstantsAssumption DEF TypeOK, Phase, RecacheFails, Goto, outside
<1>2. CapacityBound' /\ DonorsOK'
  BY PoolUnchanged DEF RecacheFails
<1>3. TokenNeverDangles'
  BY ConstantsAssumption DEF TokenNeverDangles, Streaming, TypeOK, Phase, RecacheFails, Goto, outside
<1>4. WorkerOK(w)'
  BY DEF TypeOK, WorkerOK, RecacheFails, Goto, outside
<1>5. \A v \in Workers : WorkerOK(v)'
  BY <1>4, OtherWorkers DEF TypeOK, Phase, RecacheFails, Goto, outside
<1> QED BY <1>1, <1>2, <1>3, <1>5

(* A worker that returns forgets its request                                *)
LEMMA ReturnIInv ==
  ASSUME IInv, NEW w \in Workers, Return(w)
  PROVE  IInv'
<1> USE DEF IInv
<1>1. TypeOK'
  BY ConstantsAssumption DEF TypeOK, Phase, Return, outside
<1>2. CapacityBound' /\ DonorsOK'
  BY PoolUnchanged DEF Return
<1>3. TokenNeverDangles'
  BY ConstantsAssumption DEF TokenNeverDangles, Streaming, TypeOK, Phase, Return, outside
<1>4. WorkerOK(w)'
  BY DEF TypeOK, WorkerOK, Return, outside
<1>5. \A v \in Workers : WorkerOK(v)'
  BY <1>4, OtherWorkers DEF TypeOK, Phase, Return, outside
<1> QED BY <1>1, <1>2, <1>3, <1>5

(* A request whose turn list is empty fails before it looks at anything     *)
LEMMA SubmitIInv ==
  ASSUME IInv, NEW w \in Workers, NEW r \in Requests, Submit(w, r)
  PROVE  IInv'
<1> USE DEF IInv
<1>1. TypeOK'
  BY DEF TypeOK, Phase, Submit, Goto
<1>2. CapacityBound' /\ DonorsOK'
  BY PoolUnchanged DEF Submit
<1>3. TokenNeverDangles'
  BY ConstantsAssumption DEF TokenNeverDangles, Streaming, TypeOK, Phase, Submit, Goto
<1>4. WorkerOK(w)'
  BY DEF TypeOK, WorkerOK, Submit, Goto
<1>5. \A v \in Workers : WorkerOK(v)'
  BY <1>4, OtherWorkers DEF TypeOK, Phase, Submit, Goto
<1> QED BY <1>1, <1>2, <1>3, <1>5

(* A fresh Conversation has heard nothing, and everything is left to send   *)
LEMMA CreateConversationIInv ==
  ASSUME IInv, NEW w \in Workers, CreateConversation(w)
  PROVE  IInv'
<1> USE DEF IInv
<1> DEFINE c == [prompt |-> EffectivePrompt(req[w]), sampler |-> req[w].sampler, kv |-> <<>>]
           turns == req[w].turns
<1>1. /\ pc[w] = "create" /\ pc' = [pc EXCEPT ![w] = "replay"]
      /\ conv' = [conv EXCEPT ![w] = c] /\ todo' = [todo EXCEPT ![w] = ToReplay(w, 0)]
      /\ UNCHANGED <<cache, sessions, token, req, pin, now, calls, signal>>
  BY DEF CreateConversation, Goto, outside
<1>2. /\ req[w] \in Requests /\ turns # <<>> /\ turns \in Seq(Turn)
      /\ DOMAIN turns = 1..Len(turns) /\ Len(turns) \in Nat /\ Len(turns) >= 1
  <2>1. req[w] \in Requests /\ turns # <<>>
    BY <1>1 DEF WorkerOK
  <2>2. turns \in Seq(Turn)
    BY <2>1, KeyOfType, EmptySeq
  <2> QED BY <2>1, <2>2, EmptySeq, LenProperties
<1>3. c \in Conversation
  <2>1. req[w] \in Request
    BY <1>2, ConstantsAssumption
  <2>2. EffectivePrompt(req[w]) \in Prompts \cup {NoPrompt} /\ req[w].sampler \in Samplers
    BY <2>1, ConstantsAssumption DEF EffectivePrompt, Request
  <2>3. <<>> \in Seq(Exchange)
    BY EmptySeq
  <2> QED BY <2>2, <2>3 DEF Conversation
<1>4. ToReplay(w, 0) = {i \in 1..Len(turns) : IsSendable(turns[i])}
  BY DEF ToReplay
<1>5. TypeOK'
  BY <1>1, <1>3, <1>4 DEF TypeOK, Phase
<1>6. CapacityBound' /\ DonorsOK'
  BY <1>1, PoolUnchanged
<1>7. TokenNeverDangles'
  BY <1>1 DEF TokenNeverDangles, Streaming, TypeOK
<1>8. WorkerOK(w)'
  <2>1. /\ pc'[w] = "replay" /\ conv'[w] = c /\ todo'[w] = ToReplay(w, 0) /\ req'[w] = req[w]
    BY <1>1 DEF TypeOK
  <2>2. c.kv = <<>> /\ DOMAIN c.kv = {}
    OBVIOUS
  <2>3. Heard(c.kv, turns, ToReplay(w, 0))
    BY <1>2, <1>4, <2>2 DEF Heard
  <2>4. TodoOK(c.kv, turns, ToReplay(w, 0))
    BY <1>2, <1>4, <2>2 DEF TodoOK
  <2>5. IsSendable(LastTurn(turns)) => ToReplay(w, 0) # {}
    BY <1>2, <1>4 DEF LastTurn
  <2>6. ConversationOf(w)'
    BY <1>3, <2>1 DEF ConversationOf
  <2> QED BY <1>2, <2>1, <2>3, <2>4, <2>5, <2>6 DEF WorkerOK
<1>9. \A v \in Workers : WorkerOK(v)'
  BY <1>1, <1>8, OtherWorkers DEF TypeOK
<1> QED BY <1>5, <1>6, <1>7, <1>9

(* One more exchange: SendKeepsReplay                                       *)
LEMMA SendMessageIInv ==
  ASSUME IInv, NEW w \in Workers, NEW reply \in Replies, SendMessage(w, reply)
  PROVE  IInv'
<1> USE DEF IInv
<1> DEFINE turns == req[w].turns
           kv == conv[w].kv
           X(i) == [at |-> i, sent |-> turns[i], reply |-> reply]
<1>1. PICK i \in todo[w] :
        /\ \A j \in todo[w] : i <= j
        /\ conv' = [conv EXCEPT ![w].kv = Append(@, X(i))]
        /\ todo' = [todo EXCEPT ![w] = @ \ {i}]
  BY DEF SendMessage
<1>2. /\ pc[w] = "send"
      /\ UNCHANGED <<pc, cache, sessions, token, req, pin, now, calls, signal>>
  BY DEF SendMessage, Streaming, outside
<1>3. /\ req[w] \in Requests /\ turns # <<>> /\ turns \in Seq(Turn)
      /\ conv[w] \in Conversation /\ kv \in Seq(Exchange) /\ todo[w] \in SUBSET Nat
      /\ Heard(kv, turns, todo[w]) /\ TodoOK(kv, turns, todo[w])
      /\ ConversationOf(w)
  BY <1>2, KeyOfType, EmptySeq DEF WorkerOK, ConversationOf, Conversation, TypeOK
<1>4. reply \in Text
  BY ConstantsAssumption
<1>5. /\ Append(kv, X(i)) \in Seq(Exchange) /\ Append(kv, X(i)) # <<>>
      /\ Heard(Append(kv, X(i)), turns, todo[w] \ {i})
      /\ TodoOK(Append(kv, X(i)), turns, todo[w] \ {i})
  BY <1>1, <1>3, <1>4, SendKeepsReplay
<1> DEFINE c == [conv[w] EXCEPT !.kv = Append(kv, X(i))]
<1>6. /\ conv' = [conv EXCEPT ![w] = c] /\ c \in Conversation /\ c.kv = Append(kv, X(i))
      /\ c.sampler = conv[w].sampler /\ c.prompt = conv[w].prompt
  BY <1>1, <1>3, <1>5 DEF TypeOK, Conversation
<1>7. TypeOK'
  BY <1>1, <1>2, <1>6 DEF TypeOK
<1>8. CapacityBound' /\ DonorsOK'
  BY <1>2, PoolUnchanged
<1>9. TokenNeverDangles'
  BY <1>2 DEF TokenNeverDangles, Streaming
<1>10. WorkerOK(w)'
  <2>1. /\ pc'[w] = "send" /\ conv'[w] = c /\ todo'[w] = todo[w] \ {i} /\ req'[w] = req[w]
    BY <1>1, <1>2, <1>6 DEF TypeOK
  <2>2. ConversationOf(w)'
    BY <1>3, <1>6, <2>1 DEF ConversationOf
  <2> QED BY <1>3, <1>5, <1>6, <2>1, <2>2 DEF WorkerOK
<1>11. \A v \in Workers : WorkerOK(v)'
  BY <1>1, <1>2, <1>6, <1>10, OtherWorkers DEF TypeOK
<1> QED BY <1>7, <1>8, <1>9, <1>11

(* The new pin is the key that Recache stored                               *)
LEMMA BindSessionIInv ==
  ASSUME IInv, NEW w \in Workers, BindSession(w)
  PROVE  IInv'
<1> USE DEF IInv
<1>1. /\ pc[w] = "bind" /\ req[w] \in Requests /\ conv[w] \in Conversation
      /\ conv[w].kv \in Seq(Exchange) /\ conv[w].kv # <<>>
      /\ req[w].turns \in Seq(Turn) /\ req[w].session \in Sessions \cup {NoSession}
      /\ Heard(conv[w].kv, req[w].turns, {})
  BY KeyOfType, EmptySeq DEF WorkerOK, ConversationOf, Conversation, BindSession, Goto
<1>2. FullTurns(w) \in Seq(Turn)
  BY <1>1, FinishedIsDonor, ConstantsAssumption DEF FullTurns, LastReply
<1>3. NewKey(w) \in Key
  BY <1>1, <1>2, KeyOfType DEF NewKey
<1>4. TypeOK'
  BY <1>1, <1>3 DEF TypeOK, Phase, BindSession, Goto, local, outside
<1>5. CapacityBound' /\ DonorsOK'
  BY PoolUnchanged DEF BindSession
<1>6. TokenNeverDangles'
  BY DEF TokenNeverDangles, Streaming, TypeOK, BindSession, Goto
<1>7. WorkerOK(w)'
  BY DEF TypeOK, WorkerOK, ConversationOf, BindSession, Goto, local
<1>8. \A v \in Workers : WorkerOK(v)'
  BY <1>7, OtherWorkers DEF TypeOK, BindSession, Goto, local
<1> QED BY <1>4, <1>5, <1>6, <1>8

(* SIGUSR2 and the clock touch neither workers nor pool                     *)
LEMMA EnvironmentIInv ==
  ASSUME IInv, CancelInFlight \/ Tick
  PROVE  IInv'
<1> USE DEF IInv
<1>1. UNCHANGED <<cache, sessions, token, pc, req, pin, conv, todo>>
  BY DEF CancelInFlight, Tick, local
<1>2. TypeOK'
  <2>1. CASE CancelInFlight
    <3>1. (token # NoHandle) \in BOOLEAN
      OBVIOUS
    <3>2. signal' \in [count : Nat, delivered : BOOLEAN]
      <4>1. signal.count + 1 \in Nat
        BY DEF TypeOK
      <4>2. signal' = [count |-> signal.count + 1, delivered |-> token # NoHandle]
        BY <2>1 DEF CancelInFlight
      <4> QED BY <3>1, <4>1, <4>2, Zenon
    <3> QED BY <1>1, <2>1, <3>2 DEF TypeOK, CancelInFlight
  <2>2. CASE Tick
    BY <1>1, <2>2 DEF TypeOK, Tick
  <2> QED BY <2>1, <2>2
<1>3. CapacityBound' /\ DonorsOK' /\ TokenNeverDangles'
  BY <1>1, PoolUnchanged DEF TokenNeverDangles, Streaming
<1>4. \A v \in Workers : WorkerOK(v)'
  BY <1>1 DEF WorkerOK, ConversationOf
<1> QED BY <1>2, <1>3, <1>4

-----------------------------------------------------------------------------
(* Marking an entry as used changes nothing else about the pool             *)
LEMMA TouchKeepsPool ==
  ASSUME IInv, NEW k \in DOMAIN cache, Touch(k)
  PROVE  /\ DOMAIN cache' = DOMAIN cache
         /\ \A j \in DOMAIN cache : cache'[j] \in Entry /\ cache'[j].conv = cache[j].conv
         /\ CapacityBound' /\ DonorsOK'
<1> USE DEF IInv
<1>1. DOMAIN cache' = DOMAIN cache
  BY DEF Touch
<1>2. \A j \in DOMAIN cache : /\ cache'[j] \in Entry
                              /\ cache'[j].conv = cache[j].conv
                              /\ cache'[j].turnCount = cache[j].turnCount
  <2> SUFFICES ASSUME NEW j \in DOMAIN cache
               PROVE  /\ cache'[j] \in Entry
                      /\ cache'[j].conv = cache[j].conv
                      /\ cache'[j].turnCount = cache[j].turnCount
    OBVIOUS
  <2>1. cache[j] \in Entry /\ now \in Nat
    BY DEF TypeOK
  <2>2. cache'[j] = IF j = k THEN [cache[j] EXCEPT !.lastUsed = now] ELSE cache[j]
    BY DEF Touch
  <2> QED BY <2>1, <2>2 DEF Entry
<1>3. CapacityBound'
  BY <1>1 DEF CapacityBound
<1>4. DonorsOK'
  BY <1>1, <1>2 DEF DonorsOK, DonorOK
<1> QED BY <1>1, <1>2, <1>3, <1>4

(* A hit starts from a donor that heard exactly the request's own prefix    *)
LEMMA LookupHitIInv ==
  ASSUME IInv, NEW w \in Workers, LookupHit(w)
  PROVE  IInv'
<1> USE DEF IInv
<1> DEFINE turns == req[w].turns
<1>1. /\ pc[w] = "lookup" /\ pc' = [pc EXCEPT ![w] = "replay"]
      /\ UNCHANGED <<sessions, token, req, pin, now, calls, signal>>
  BY DEF LookupHit, Goto, outside
<1>2. PICK n \in Chosen(w) :
        /\ Touch(ChosenKey(w, n))
        /\ conv' = [conv EXCEPT ![w] = cache[ChosenKey(w, n)].conv]
        /\ todo' = [todo EXCEPT ![w] = ToReplay(w, n)]
  BY DEF LookupHit
<1> DEFINE k == ChosenKey(w, n)
           c == cache[k].conv
<1>3. req[w] \in Requests /\ turns # <<>>
  BY <1>1 DEF WorkerOK
<1>4. /\ turns \in Seq(Turn) /\ DOMAIN turns = 1..Len(turns)
      /\ Len(turns) \in Nat /\ Len(turns) >= 1
  <2>1. turns \in Seq(Turn)
    BY <1>3, KeyOfType, EmptySeq
  <2> QED BY <1>3, <2>1, EmptySeq, LenProperties
<1>5. n \in 1..Len(turns) /\ k \in DOMAIN cache /\ k = PrefixKey(w, n)
  BY <1>3, ChosenIsPrefix
<1>6. /\ Prefix(turns, n) \in Seq(Turn) /\ Len(Prefix(turns, n)) = n
      /\ \A i \in 1..n : Prefix(turns, n)[i] = turns[i]
  <2>1. n \in 0..Len(turns)
    BY <1>5
  <2> QED BY <1>4, <2>1, PrefixType
<1>7. /\ k.turns = Prefix(turns, n) /\ k.sampler = req[w].sampler
      /\ k.prompt = PromptBytes(EffectivePrompt(req[w]))
  BY <1>3, <1>5, <1>6, KeyOfType DEF PrefixKey
<1>8. DonorOK(k, cache[k])
  BY <1>5 DEF DonorsOK
<1>9. /\ c \in Conversation /\ c.kv \in Seq(Exchange) /\ Heard(c.kv, Prefix(turns, n), {})
      /\ c.sampler = req[w].sampler /\ PromptBytes(c.prompt) = PromptBytes(EffectivePrompt(req[w]))
  BY <1>7, <1>8 DEF DonorOK, Entry, Conversation
<1>10. ToReplay(w, n) = {i \in (n + 1)..Len(turns) : IsSendable(turns[i])}
  BY DEF ToReplay
<1>11. Heard(c.kv, turns, ToReplay(w, n)) /\ TodoOK(c.kv, turns, ToReplay(w, n))
  BY <1>4, <1>5, <1>9, <1>10, HitReplaysSuffix
<1>12. IsSendable(LastTurn(turns)) => ToReplay(w, n) # {}
  <2> SUFFICES ASSUME IsSendable(LastTurn(turns)) PROVE Len(turns) \in ToReplay(w, n)
    OBVIOUS
  <2>1. ~IsSendable(LastTurn(k.turns))
    BY <1>8 DEF DonorOK, AssistantTurn, IsSendable
  <2>2. n # Len(turns)
    BY <1>5, <1>6, <1>7, <2>1 DEF LastTurn
  <2> QED BY <1>4, <1>5, <1>10, <2>2 DEF LastTurn
<1>13. /\ DOMAIN cache' = DOMAIN cache
       /\ \A j \in DOMAIN cache : cache'[j] \in Entry
       /\ CapacityBound' /\ DonorsOK'
  BY <1>2, <1>5, TouchKeepsPool
<1>14. TypeOK'
  <2>1. ToReplay(w, n) \in SUBSET Nat
    BY <1>4, <1>5, <1>10
  <2> QED BY <1>1, <1>2, <1>9, <1>13, <2>1 DEF TypeOK, Phase
<1>15. TokenNeverDangles'
  BY <1>1 DEF TokenNeverDangles, Streaming, TypeOK
<1>16. WorkerOK(w)'
  <2>1. /\ pc'[w] = "replay" /\ conv'[w] = c /\ todo'[w] = ToReplay(w, n) /\ req'[w] = req[w]
    BY <1>1, <1>2 DEF TypeOK
  <2>2. ConversationOf(w)'
    BY <1>9, <2>1 DEF ConversationOf
  <2> QED BY <1>3, <1>11, <1>12, <2>1, <2>2 DEF WorkerOK
<1>17. \A v \in Workers : WorkerOK(v)'
  BY <1>1, <1>2, <1>16, OtherWorkers DEF TypeOK
<1> QED BY <1>13, <1>14, <1>15, <1>17

(* A clone that fails leaves the donor marked as used, and as it was        *)
LEMMA LookupHitFailsIInv ==
  ASSUME IInv, NEW w \in Workers, LookupHitFails(w)
  PROVE  IInv'
<1> USE DEF IInv
<1>1. /\ pc[w] = "lookup" /\ pc' = [pc EXCEPT ![w] = "failed"]
      /\ UNCHANGED <<sessions, token, req, pin, conv, todo, now, calls, signal>>
  BY DEF LookupHitFails, Goto, local, outside
<1>2. PICK n \in Chosen(w) : Touch(ChosenKey(w, n))
  BY DEF LookupHitFails
<1>3. req[w] \in Requests
  BY <1>1 DEF WorkerOK
<1>4. /\ DOMAIN cache' = DOMAIN cache
      /\ \A j \in DOMAIN cache : cache'[j] \in Entry
      /\ CapacityBound' /\ DonorsOK'
  BY <1>2, <1>3, ChosenIsPrefix, TouchKeepsPool
<1>5. TypeOK'
  BY <1>1, <1>4 DEF TypeOK, Phase
<1>6. TokenNeverDangles'
  BY <1>1 DEF TokenNeverDangles, Streaming, TypeOK
<1>7. WorkerOK(w)'
  BY <1>1, <1>3 DEF WorkerOK, TypeOK
<1>8. \A v \in Workers : WorkerOK(v)'
  BY <1>1, <1>7, OtherWorkers DEF TypeOK
<1> QED BY <1>4, <1>5, <1>6, <1>8

(* One entry in and, in a full pool, one entry out                          *)
LEMMA InsertKeepsBound ==
  ASSUME IInv, NEW new, NEW victims \in Victims(new),
         NEW D, D = (DOMAIN cache \ victims) \cup {new}
  PROVE  IsFiniteSet(D) /\ Cardinality(D) <= Capacity
<1> USE DEF IInv
<1>1. /\ IsFiniteSet(DOMAIN cache) /\ Cardinality(DOMAIN cache) \in Nat
      /\ Cardinality(DOMAIN cache) <= Capacity /\ Capacity \in Nat
  BY FS_CardinalityType, ConstantsAssumption DEF TypeOK, CapacityBound, Capacity
<1>2. CASE Cardinality(DOMAIN cache) >= Capacity /\ new \notin DOMAIN cache
  <2>1. PICK k \in DOMAIN cache : victims = {k}
    BY <1>2 DEF Victims, LeastRecentlyUsed
  <2>2. /\ IsFiniteSet(DOMAIN cache \ {k})
        /\ Cardinality(DOMAIN cache \ {k}) = Cardinality(DOMAIN cache) - 1
    BY <1>1, FS_RemoveElement
  <2> DEFINE rest == DOMAIN cache \ {k}
  <2>3. /\ IsFiniteSet(rest \cup {new})
        /\ Cardinality(rest \cup {new}) = Cardinality(DOMAIN cache)
    <3>1. new \notin rest
      BY <1>2
    <3>2. IsFiniteSet(rest) /\ Cardinality(rest) = Cardinality(DOMAIN cache) - 1
      BY <2>2
    <3> HIDE DEF rest
    <3>3. IsFiniteSet(rest \cup {new}) /\ Cardinality(rest \cup {new}) = Cardinality(rest) + 1
      BY <3>1, <3>2, FS_AddElement
    <3> QED BY <1>1, <3>2, <3>3
  <2> QED BY <1>1, <2>1, <2>3
<1>3. CASE ~(Cardinality(DOMAIN cache) >= Capacity /\ new \notin DOMAIN cache)
  <2>1. victims = {}
    BY <1>3 DEF Victims
  <2>2. D = DOMAIN cache \cup {new}
    BY <2>1
  <2>3. /\ IsFiniteSet(DOMAIN cache \cup {new})
        /\ Cardinality(DOMAIN cache \cup {new}) =
             IF new \in DOMAIN cache THEN Cardinality(DOMAIN cache) ELSE Cardinality(DOMAIN cache) + 1
    BY <1>1, FS_AddElement
  <2> QED BY <1>1, <1>3, <2>2, <2>3
<1> QED BY <1>2, <1>3

(* What is stored is a donor for the key it is stored under                 *)
LEMMA RecacheIInv ==
  ASSUME IInv, NEW w \in Workers, Recache(w)
  PROVE  IInv'
<1> USE DEF IInv
<1> DEFINE new == NewKey(w)
           entry == [conv |-> conv[w], turnCount |-> Len(FullTurns(w)), lastUsed |-> now]
<1>1. /\ pc[w] = "recache" /\ pc' = [pc EXCEPT ![w] = "bind"]
      /\ UNCHANGED <<sessions, token, req, pin, conv, todo, now, calls, signal>>
  BY DEF Recache, Goto, local, outside
<1>2. PICK victims \in Victims(new) :
        cache' = [k \in (DOMAIN cache \ victims) \cup {new} |-> IF k = new THEN entry ELSE cache[k]]
  BY DEF Recache, Insert
<1>3. /\ req[w] \in Requests /\ conv[w] \in Conversation
      /\ conv[w].kv \in Seq(Exchange) /\ conv[w].kv # <<>>
      /\ Heard(conv[w].kv, req[w].turns, {})
      /\ conv[w].sampler = req[w].sampler
      /\ PromptBytes(conv[w].prompt) = PromptBytes(EffectivePrompt(req[w]))
  BY <1>1 DEF WorkerOK, ConversationOf, Conversation
<1>4. req[w].turns \in Seq(Turn)
  BY <1>3, KeyOfType, EmptySeq
<1>5. /\ FullTurns(w) \in Seq(Turn) /\ FullTurns(w) # <<>>
      /\ Heard(conv[w].kv, FullTurns(w), {})
      /\ LastTurn(FullTurns(w)) = AssistantTurn(LastTurn(conv[w].kv).reply)
  <2>1. FullTurns(w) = Append(req[w].turns, AssistantTurn(conv[w].kv[Len(conv[w].kv)].reply))
    BY DEF FullTurns, LastReply
  <2>2. Replies \subseteq Text
    BY ConstantsAssumption
  <2> QED BY <1>3, <1>4, <2>1, <2>2, FinishedIsDonor
<1>6. /\ new \in Key /\ new.turns = FullTurns(w) /\ new.sampler = req[w].sampler
      /\ new.prompt = PromptBytes(EffectivePrompt(req[w]))
  BY <1>3, <1>5, KeyOfType DEF NewKey
<1>7. entry \in Entry
  BY <1>3, <1>5, LenProperties DEF Entry, TypeOK
<1>8. DonorOK(new, entry)
  BY <1>3, <1>5, <1>6, <1>7 DEF DonorOK
<1>9. /\ DOMAIN cache' = (DOMAIN cache \ victims) \cup {new}
      /\ cache'[new] = entry
      /\ \A k \in DOMAIN cache' : k # new => k \in DOMAIN cache /\ cache'[k] = cache[k]
  BY <1>2
<1>10. DonorsOK'
  BY <1>8, <1>9 DEF DonorsOK
<1>11. IsFiniteSet(DOMAIN cache') /\ CapacityBound'
  BY <1>9, InsertKeepsBound DEF CapacityBound
<1>12. TypeOK'
  <2>1. DOMAIN cache' \subseteq Key /\ \A k \in DOMAIN cache' : cache'[k] \in Entry
    BY <1>10 DEF DonorsOK, DonorOK
  <2> QED BY <1>1, <1>11, <2>1 DEF TypeOK, Phase
<1>13. TokenNeverDangles'
  BY <1>1 DEF TokenNeverDangles, Streaming, TypeOK
<1>14. WorkerOK(w)'
  BY <1>1 DEF WorkerOK, ConversationOf, TypeOK
<1>15. \A v \in Workers : WorkerOK(v)'
  BY <1>1, <1>14, OtherWorkers DEF TypeOK
<1> QED BY <1>10, <1>11, <1>12, <1>13, <1>15

-----------------------------------------------------------------------------
(***************************************************************************)
(* The theorems.                                                           *)
(***************************************************************************)

LEMMA NextIInv == IInv /\ [Next]_vars => IInv'
<1> SUFFICES ASSUME IInv, [Next]_vars PROVE IInv'
  OBVIOUS
<1>1. ASSUME NEW w \in Workers, NEW r \in Requests, Submit(w, r) PROVE IInv'
  BY <1>1, SubmitIInv
<1>2. ASSUME NEW w \in Workers, Step(w) PROVE IInv'
  <2>1. CASE ReadPin(w)
    BY <2>1, ReadPinIInv
  <2>2. CASE LookupHit(w) \/ LookupHitFails(w) \/ LookupMiss(w)
    BY <2>2, LookupHitIInv, LookupHitFailsIInv, LookupMissIInv
  <2>3. CASE CreateConversation(w) \/ CreateFails(w)
    BY <2>3, CreateConversationIInv, CreateFailsIInv
  <2>4. CASE RefuseNothingToSend(w) \/ Arm(w)
    BY <2>4, RefuseNothingToSendIInv, ArmIInv
  <2>5. CASE \E reply \in Replies : SendMessage(w, reply)
    BY <2>5, SendMessageIInv
  <2>6. CASE SendFails(w) \/ Disarm(w)
    BY <2>6, SendFailsIInv, DisarmIInv
  <2>7. CASE Recache(w) \/ RecacheFails(w) \/ BindSession(w)
    BY <2>7, RecacheIInv, RecacheFailsIInv, BindSessionIInv
  <2>8. CASE Return(w)
    BY <2>8, ReturnIInv
  <2> QED BY <1>2, <2>1, <2>2, <2>3, <2>4, <2>5, <2>6, <2>7, <2>8 DEF Step
<1>3. CASE CancelInFlight \/ Tick
  BY <1>3, EnvironmentIInv
<1>4. CASE UNCHANGED vars
  BY <1>4 DEF IInv, vars, TypeOK, CapacityBound, DonorsOK, TokenNeverDangles, Streaming,
              WorkerOK, ConversationOf
<1> QED BY <1>1, <1>2, <1>3, <1>4 DEF Next

LEMMA SpecIInv == Spec => []IInv
BY InitIInv, NextIInv, PTL DEF Spec

(* Every variable of the slot keeps its type: in particular every key in    *)
(* the pool and every session pin is the hash of some transcript.           *)
THEOREM TypeCorrect == Spec => []TypeOK
BY SpecIInv, PTL DEF IInv

(* `--litertlm-prefix-cache-size' bounds the donors held, however many      *)
(* requests re-cache at the same time; a size of 0 is served as 1.          *)
THEOREM PoolIsBounded == Spec => []CapacityBound
BY SpecIInv, PTL DEF IInv

(* SIGUSR2 never reaches a Conversation that may already be dropped.        *)
THEOREM TokenIsLive == Spec => []TokenNeverDangles
BY SpecIInv, PTL DEF IInv

(* Each donor holds the messages, sampler and prompt bytes its key digests. *)
THEOREM DonorsMatchKeys == Spec => []DonorMatchesKey
<1>1. IInv => DonorMatchesKey
  BY DEF IInv, DonorsOK, DonorOK, DonorMatchesKey
<1> QED BY <1>1, SpecIInv, PTL

(* An answer is generated from the request's own messages, each once and in *)
(* order, whichever donor the inference started from.                       *)
THEOREM AnswersInContext == Spec => []AnswerInContext
<1>1. IInv => AnswerInContext
  BY DEF IInv, WorkerOK, ConversationOf, AnswerInContext
<1> QED BY <1>1, SpecIInv, PTL

(* A request whose last turn is a message to the model is never refused for *)
(* lack of anything to send.                                                *)
THEOREM UserTailsAccepted == Spec => []UserTailNeverRefused
<1>1. IInv => UserTailNeverRefused
  BY DEF IInv, WorkerOK, UserTailNeverRefused
<1> QED BY <1>1, SpecIInv, PTL

-----------------------------------------------------------------------------
(***************************************************************************)
(* Who leaves the pool.                                                    *)
(***************************************************************************)

(* An entry leaves the pool only when its slot is needed for a new one      *)
LEMMA InsertEvicts ==
  ASSUME IInv, NEW new, NEW entry, NEW victims \in Victims(new), Insert(new, entry, victims),
         NEW k \in DOMAIN cache \ DOMAIN cache'
  PROVE  /\ Cardinality(DOMAIN cache) = Capacity
         /\ DOMAIN cache' \ DOMAIN cache # {}
         /\ \A j \in DOMAIN cache \cap DOMAIN cache' : cache[k].lastUsed <= cache[j].lastUsed
<1>1. DOMAIN cache' = (DOMAIN cache \ victims) \cup {new}
  BY DEF Insert
<1>2. k \in victims
  BY <1>1
<1>3. /\ Cardinality(DOMAIN cache) >= Capacity /\ new \notin DOMAIN cache
      /\ k \in LeastRecentlyUsed
  BY <1>2 DEF Victims
<1>4. Cardinality(DOMAIN cache) = Capacity
  <2>1. Cardinality(DOMAIN cache) \in Nat /\ Capacity \in Nat
    BY FS_CardinalityType, ConstantsAssumption DEF IInv, TypeOK, Capacity
  <2> QED BY <1>3, <2>1 DEF IInv, CapacityBound
<1> QED BY <1>1, <1>3, <1>4 DEF LeastRecentlyUsed

(* Recache is the only step that takes an entry out of the pool             *)
LEMMA OthersEvictNothing ==
  ASSUME IInv, [Next]_vars, ~\E w \in Workers : Recache(w)
  PROVE  DOMAIN cache' = DOMAIN cache
<1>1. ASSUME NEW w \in Workers, NEW r \in Requests, Submit(w, r) PROVE cache' = cache
  BY <1>1 DEF Submit
<1>2. ASSUME NEW w \in Workers, Step(w) PROVE DOMAIN cache' = DOMAIN cache
  <2>1. CASE LookupHit(w)
    BY <2>1 DEF LookupHit, Touch
  <2>2. CASE LookupHitFails(w)
    BY <2>2 DEF LookupHitFails, Touch
  <2>3. CASE ~(LookupHit(w) \/ LookupHitFails(w))
    BY <1>2, <2>3 DEF Step, ReadPin, LookupMiss, CreateConversation, CreateFails,
         RefuseNothingToSend, Arm, SendMessage, SendFails, Disarm, RecacheFails, BindSession, Return
  <2> QED BY <2>1, <2>2, <2>3
<1>3. CASE CancelInFlight \/ Tick \/ UNCHANGED vars
  BY <1>3 DEF CancelInFlight, Tick, vars
<1> QED BY <1>1, <1>2, <1>3 DEF Next

(* Whatever finishes at once, the eviction in run_stream (min_by_key on     *)
(* last_used, under the cache lock) takes an entry only in a full pool, for *)
(* one that was not in it, and never one used later than one that stays.    *)
THEOREM EvictionIsLru == Spec => EvictionSparesRecent
<1>1. ASSUME IInv, [Next]_vars,
             NEW k \in DOMAIN cache \ DOMAIN cache'
      PROVE  /\ Cardinality(DOMAIN cache) = Capacity
             /\ DOMAIN cache' \ DOMAIN cache # {}
             /\ \A j \in DOMAIN cache \cap DOMAIN cache' : cache[k].lastUsed <= cache[j].lastUsed
  <2>1. PICK w \in Workers : Recache(w)
    BY <1>1, OthersEvictNothing
  <2>2. PICK victims \in Victims(NewKey(w)) :
          Insert(NewKey(w),
                 [conv |-> conv[w], turnCount |-> Len(FullTurns(w)), lastUsed |-> now], victims)
    BY <2>1 DEF Recache
  <2> QED BY <1>1, <2>2, InsertEvicts
<1>2. IInv /\ [Next]_vars =>
        [\A k \in DOMAIN cache \ DOMAIN cache' :
           /\ Cardinality(DOMAIN cache) = Capacity
           /\ DOMAIN cache' \ DOMAIN cache # {}
           /\ \A j \in DOMAIN cache \cap DOMAIN cache' : cache[k].lastUsed <= cache[j].lastUsed
        ]_vars
  BY <1>1
<1> QED BY <1>2, SpecIInv, PTL DEF Spec, EvictionSparesRecent

-----------------------------------------------------------------------------
(***************************************************************************)
(* The prompt a Conversation was created with.                             *)
(***************************************************************************)

Effective == {EffectivePrompt(r) : r \in Requests}

(* No two prompts in use have the same bytes: requests either leave the     *)
(* prompt out or give an empty one, but not some this and some that         *)
Unmixed == \A p, q \in Effective : PromptBytes(p) = PromptBytes(q) => p = q

Holding == {"replay", "send", "recache", "bind", "done"}

HolderOK(w) ==
  /\ pc[w] \in Holding => conv[w].prompt \in Effective
  /\ conv[w] # NoConversation => pc[w] \in Holding

(* Every Conversation, working copy or donor, was created for a request     *)
PromptsOK ==
  /\ \A k \in DOMAIN cache : cache[k].conv.prompt \in Effective
  /\ \A w \in Workers : HolderOK(w)

(* A step of one worker                                                     *)
LEMMA PromptsKept ==
  ASSUME PromptsOK, NEW w \in Workers,
         \A k \in DOMAIN cache' : cache'[k].conv.prompt \in Effective,
         \A v \in Workers \ {w} : pc'[v] = pc[v] /\ conv'[v] = conv[v],
         HolderOK(w)'
  PROVE  PromptsOK'
<1>1. ASSUME NEW v \in Workers, v # w PROVE HolderOK(v)'
  BY <1>1 DEF PromptsOK, HolderOK, Effective, EffectivePrompt
<1>2. Effective' = Effective
  BY DEF Effective, EffectivePrompt
<1> QED BY <1>1, <1>2 DEF PromptsOK

(* Conversations enter with the prompt of a request, and are only copied    *)
LEMMA PromptsStep ==
  ASSUME IInv, PromptsOK, [Next]_vars
  PROVE  PromptsOK'
<1> USE DEF PromptsOK, HolderOK, Holding
<1>0. Effective' = Effective
  BY DEF Effective, EffectivePrompt
<1>1. ASSUME NEW w \in Workers, NEW r \in Requests, Submit(w, r) PROVE PromptsOK'
  BY <1>0, <1>1, PromptsKept DEF IInv, TypeOK, Submit, Goto
<1>2. ASSUME NEW w \in Workers, Step(w) PROVE PromptsOK'
  <2>1. CASE ReadPin(w) \/ LookupMiss(w) \/ CreateFails(w) \/ Arm(w) \/ Disarm(w) \/ BindSession(w)
    BY <1>0, <2>1, PromptsKept DEF IInv, TypeOK, ReadPin, LookupMiss, CreateFails, Arm, Disarm,
                                   BindSession, Goto, local
  <2>2. CASE RefuseNothingToSend(w) \/ SendFails(w) \/ RecacheFails(w) \/ Return(w)
    BY <1>0, <2>2, PromptsKept DEF IInv, TypeOK, RefuseNothingToSend, SendFails, RecacheFails,
                                   Return, Goto
  <2>3. CASE CreateConversation(w)
    <3>1. req[w] \in Requests
      BY <2>3 DEF IInv, WorkerOK, CreateConversation, Goto
    <3>2. EffectivePrompt(req[w]) \in Effective
      BY <3>1 DEF Effective
    <3> QED BY <1>0, <2>3, <3>2, PromptsKept DEF IInv, TypeOK, CreateConversation, Goto
  <2>4. CASE \E reply \in Replies : SendMessage(w, reply)
    <3>1. PICK reply \in Replies, i \in todo[w] :
            conv' = [conv EXCEPT ![w].kv =
                       Append(@, [at |-> i, sent |-> req[w].turns[i], reply |-> reply])]
      BY <2>4 DEF SendMessage
    <3>2. pc[w] = "send" /\ UNCHANGED <<pc, cache>>
      BY <2>4 DEF SendMessage, Streaming
    <3>3. conv[w] \in Conversation
      BY <3>2 DEF IInv, WorkerOK, ConversationOf
    <3>4. conv'[w].prompt = conv[w].prompt
      BY <3>1, <3>3 DEF IInv, TypeOK, Conversation
    <3>5. \A v \in Workers \ {w} : conv'[v] = conv[v]
      BY <3>1 DEF IInv, TypeOK
    <3> QED BY <1>0, <3>2, <3>4, <3>5, PromptsKept
  <2>5. CASE LookupHit(w) \/ LookupHitFails(w)
    <3>1. PICK n \in Chosen(w) : Touch(ChosenKey(w, n))
      BY <2>5 DEF LookupHit, LookupHitFails
    <3>2. ChosenKey(w, n) \in DOMAIN cache
      BY <2>5, ChosenIsPrefix DEF IInv, WorkerOK, LookupHit, LookupHitFails, Goto
    <3>3. \A k \in DOMAIN cache' : cache'[k].conv.prompt \in Effective
      BY <3>1, <3>2, TouchKeepsPool
    <3>4. CASE LookupHit(w)
      <4>1. PICK m \in Chosen(w) : conv' = [conv EXCEPT ![w] = cache[ChosenKey(w, m)].conv]
        BY <3>4 DEF LookupHit
      <4>2. ChosenKey(w, m) \in DOMAIN cache
        BY <2>5, ChosenIsPrefix DEF IInv, WorkerOK, LookupHit, LookupHitFails, Goto
      <4> QED BY <1>0, <3>3, <3>4, <4>1, <4>2, PromptsKept DEF IInv, TypeOK, LookupHit, Goto
    <3>5. CASE LookupHitFails(w)
      BY <1>0, <3>3, <3>5, PromptsKept DEF IInv, TypeOK, LookupHitFails, Goto, local
    <3> QED BY <2>5, <3>4, <3>5
  <2>6. CASE Recache(w)
    <3>1. pc[w] = "recache" /\ pc' = [pc EXCEPT ![w] = "bind"] /\ conv' = conv
      BY <2>6 DEF Recache, Goto, local
    <3>2. \A k \in DOMAIN cache' :
            \/ cache'[k].conv = conv[w]
            \/ k \in DOMAIN cache /\ cache'[k] = cache[k]
      BY <2>6 DEF Recache, Insert
    <3> QED BY <1>0, <3>1, <3>2, PromptsKept DEF IInv, TypeOK
  <2> QED BY <1>2, <2>1, <2>2, <2>3, <2>4, <2>5, <2>6 DEF Step
<1>3. CASE CancelInFlight \/ Tick \/ UNCHANGED vars
  BY <1>0, <1>3 DEF CancelInFlight, Tick, vars, local
<1> QED BY <1>1, <1>2, <1>3 DEF Next

LEMMA PromptsInvariance == Spec => []PromptsOK
<1>1. Init => PromptsOK
  BY DEF Init, PromptsOK, HolderOK, Holding
<1>2. IInv /\ PromptsOK /\ [Next]_vars => PromptsOK'
  BY PromptsStep
<1> QED BY <1>1, <1>2, SpecIInv, PTL DEF Spec

(* The Conversation a call holds has the prompt bytes of its request's keys *)
LEMMA SameBytes ==
  ASSUME IInv, PromptsOK, NEW w \in Workers, conv[w] # NoConversation
  PROVE  /\ req[w] \in Requests /\ conv[w].prompt \in Effective
         /\ PromptBytes(conv[w].prompt) = PromptBytes(EffectivePrompt(req[w]))
<1>1. pc[w] \in Holding /\ conv[w].prompt \in Effective
  BY DEF PromptsOK, HolderOK
<1> QED BY <1>1 DEF IInv, WorkerOK, ConversationOf, Holding

(* Whatever calls run_stream serves at once, and whatever was evicted,      *)
(* pinned or re-cached meanwhile, none of them answers out of a             *)
(* Conversation that was prefilled with another system prompt's text.       *)
THEOREM PromptsSeparate == Spec => []PromptsShareNoDonor
<1>1. IInv /\ PromptsOK => PromptsShareNoDonor
  BY SameBytes DEF PromptsShareNoDonor
<1> QED BY <1>1, SpecIInv, PromptsInvariance, PTL

(* What the doc of default_system_prompt says holds of run_stream as long   *)
(* as requests do not mix an empty prompt with none (which hash to the same *)
(* bytes in canonical_prefix_bytes): the prompt in effect for the request   *)
(* is the one prefilled in the Conversation that answers.                   *)
THEOREM AnswersUnderOwnPrompt ==
  ASSUME Unmixed
  PROVE  Spec => []AnswerUnderOwnPrompt
<1>1. IInv /\ PromptsOK => AnswerUnderOwnPrompt
  <2> SUFFICES ASSUME IInv, PromptsOK, NEW w \in Workers, conv[w] # NoConversation
               PROVE  conv[w].prompt = EffectivePrompt(req[w])
    BY DEF AnswerUnderOwnPrompt
  <2>1. /\ req[w] \in Requests /\ conv[w].prompt \in Effective
        /\ PromptBytes(conv[w].prompt) = PromptBytes(EffectivePrompt(req[w]))
    BY SameBytes
  <2>2. EffectivePrompt(req[w]) \in Effective
    BY <2>1 DEF Effective
  <2> QED BY <2>1, <2>2 DEF Unmixed
<1> QED BY <1>1, SpecIInv, PromptsInvariance, PTL

-----------------------------------------------------------------------------
(***************************************************************************)
(* The signal, with one inference at a time.                               *)
(***************************************************************************)

(* No two calls of run_stream overlap                                       *)
Alone == \A v, w \in Workers : v = w

(* The token belongs to the Conversation that streams                       *)
Armed == \A w \in Workers : Streaming(w) => token = w

(* With one worker nobody else overwrites the token or clears it            *)
LEMMA ArmedStep ==
  ASSUME Alone, IInv, Armed, [Next]_vars
  PROVE  Armed'
<1> USE DEF Armed, Streaming
<1>1. ASSUME NEW w \in Workers, NEW r \in Requests, Submit(w, r) PROVE Armed'
  BY <1>1 DEF Submit, Goto, IInv, TypeOK
<1>2. ASSUME NEW w \in Workers, Step(w) PROVE Armed'
  <2>1. \A v \in Workers : v = w
    BY DEF Alone
  <2>2. CASE Arm(w)
    BY <2>1, <2>2 DEF Arm
  <2>3. CASE \E reply \in Replies : SendMessage(w, reply)
    BY <2>3 DEF SendMessage
  <2>4. CASE ~Arm(w) /\ ~\E reply \in Replies : SendMessage(w, reply)
    <3>1. pc'[w] # "send"
      BY <1>2, <2>4 DEF Step, Goto, IInv, TypeOK, ReadPin, LookupHit, LookupHitFails, LookupMiss,
           CreateConversation, CreateFails, RefuseNothingToSend, SendFails, Disarm, Recache,
           RecacheFails, BindSession, Return
    <3> QED BY <2>1, <3>1
  <2> QED BY <2>2, <2>3, <2>4
<1>3. CASE CancelInFlight \/ Tick \/ UNCHANGED vars
  BY <1>3 DEF CancelInFlight, Tick, vars
<1> QED BY <1>1, <1>2, <1>3 DEF Next

(* Only the watcher thread reports a delivery                               *)
LEMMA SignalStep ==
  ASSUME [Next]_vars, signal' # signal
  PROVE  signal'.delivered <=> token # NoHandle
<1>1. ASSUME NEW w \in Workers, NEW r \in Requests, Submit(w, r) PROVE FALSE
  BY <1>1 DEF Submit
<1>2. ASSUME NEW w \in Workers, Step(w) PROVE FALSE
  BY <1>2 DEF Step, outside, ReadPin, LookupHit, LookupHitFails, LookupMiss, CreateConversation,
       CreateFails, RefuseNothingToSend, Arm, SendMessage, SendFails, Disarm, Recache, RecacheFails,
       BindSession, Return
<1>3. CASE Tick \/ UNCHANGED vars
  BY <1>3 DEF Tick, vars
<1>4. CASE CancelInFlight
  BY <1>4 DEF CancelInFlight
<1> QED BY <1>1, <1>2, <1>3, <1>4 DEF Next

(* slot.rs promises that cancel_in_flight returns true exactly when an      *)
(* inference was in flight.  The single cell that ArmCancel sets and clears *)
(* keeps that promise as long as no two calls of run_stream overlap.        *)
THEOREM CancelHonestAlone ==
  ASSUME Alone
  PROVE  Spec => CancelReportsInFlight
<1>1. Init => Armed
  BY DEF Init, Armed, Streaming
<1>2. IInv /\ Armed /\ [Next]_vars => Armed'
  BY ArmedStep
<1>3. IInv /\ Armed /\ [Next]_vars =>
        [signal' # signal => (signal'.delivered <=> \E w \in Workers : Streaming(w))]_vars
  <2> SUFFICES ASSUME IInv, Armed, [Next]_vars, signal' # signal
               PROVE  signal'.delivered <=> \E w \in Workers : Streaming(w)
    OBVIOUS
  <2>1. signal'.delivered <=> token # NoHandle
    BY SignalStep
  <2>2. (token # NoHandle) <=> \E w \in Workers : Streaming(w)
    BY ConstantsAssumption DEF IInv, TypeOK, TokenNeverDangles, Armed
  <2> QED BY <2>1, <2>2
<1> QED BY <1>1, <1>2, <1>3, SpecIInv, PTL DEF Spec, CancelReportsInFlight

=============================================================================
