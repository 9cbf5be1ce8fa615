------------------------ MODULE LlamaSession_proofs -------------------------
(***************************************************************************)
(* What the cache of a llama.cpp session holds when a token is sampled,    *)
(* for any context, batch size and number of failures.                     *)
(*                                                                         *)
(* SamplesFromWholePrompt speaks of one place only.  IInv says what the    *)
(* cache ends in at every place of a request, as long as the write head    *)
(* and the cache agree, and that past the prompt they always do.           *)
(***************************************************************************)
EXTENDS LlamaSession, SequenceTheorems, TLAPS

(* The sequence s ends in the first n tokens of request r *)
EndsWith(s, r, n) ==
  /\ n <= Len(s)
  /\ \A i \in 1..n : s[Len(s) - n + i] = [req |-> r, at |-> i - 1]

PrefillOK ==
  pc = "prefill" =>
    /\ done < prompt /\ nCur + prompt < MaxSeqLen /\ produced = 0
    /\ Len(kv) # nCur + done => done = 0
    /\ Len(kv) = nCur + done => EndsWith(kv, head, done)

StepOK ==
  pc = "step" =>
    /\ nCur = Len(kv) /\ EndsWith(kv, head, prompt + produced)
    /\ produced = 0 => nCur < MaxSeqLen

PushOK ==
  pc = "push" =>
    /\ produced > 0
    /\ nCur = Len(kv) /\ EndsWith(kv, head, prompt + produced - 1)
    /\ produced = 1 => nCur < MaxSeqLen

IInv == TypeOK /\ PrefillOK /\ StepOK /\ PushOK

-----------------------------------------------------------------------------
(* A batch decoded behind the first n tokens of the request extends them *)
LEMMA DecodeExtends ==
  ASSUME NEW n \in Nat, NEW m \in Nat, TypeOK, EndsWith(kv, head, n),
         kv' = kv \o Tokens(n, m)
  PROVE  /\ kv' \in Seq(Token) /\ Len(kv') = Len(kv) + m
         /\ EndsWith(kv', head, n + m)
<1>1. kv \in Seq(Token) /\ head \in Nat
  BY SessionAssumption DEF TypeOK
<1>2. Tokens(n, m) \in Seq(Token) /\ Len(Tokens(n, m)) = m
  <2>1. \A k \in 1..m : [req |-> head, at |-> n + k - 1] \in Token
    BY <1>1 DEF Token
  <2>2. Tokens(n, m) \in [1..m -> Token]
    BY <2>1 DEF Tokens
  <2>3. Tokens(n, m) \in Seq(Token)
    BY <2>2, SeqDef
  <2> QED BY <2>2, <2>3, LenProperties
<1>3. kv' \in Seq(Token) /\ Len(kv') = Len(kv) + m
  BY <1>1, <1>2, ConcatProperties
<1>4. ASSUME NEW i \in 1..(n + m)
      PROVE  kv'[Len(kv') - (n + m) + i] = [req |-> head, at |-> i - 1]
  <2>1. CASE i <= n
    <3>1. Len(kv') - (n + m) + i = Len(kv) - n + i
      BY <1>1, <1>3
    <3>2. Len(kv) - n + i \in 1..Len(kv)
      BY <1>1, <2>1 DEF EndsWith
    <3>3. kv'[Len(kv) - n + i] = kv[Len(kv) - n + i]
      BY <1>1, <1>2, <3>2, ConcatProperties
    <3>4. kv[Len(kv) - n + i] = [req |-> head, at |-> i - 1]
      BY <2>1 DEF EndsWith
    <3> QED BY <3>1, <3>3, <3>4
  <2>2. CASE i > n
    <3>1. /\ Len(kv') - (n + m) + i = Len(kv) + (i - n)
          /\ i - n \in 1..m
      BY <1>1, <1>3, <2>2
    <3>2. kv'[Len(kv) + (i - n)] = Tokens(n, m)[i - n]
      BY <1>1, <1>2, <3>1, ConcatProperties
    <3>3. Tokens(n, m)[i - n] = [req |-> head, at |-> i - 1]
      BY <3>1 DEF Tokens
    <3> QED BY <3>1, <3>2, <3>3
  <2>3. i <= n \/ i > n
    OBVIOUS
  <2> QED BY <2>1, <2>2, <2>3
<1>5. n + m <= Len(kv')
  BY <1>1, <1>3 DEF EndsWith
<1> QED BY <1>3, <1>4, <1>5 DEF EndsWith

(* A batch is never empty and never runs past the prompt *)
LEMMA ChunkBounds ==
  ASSUME TypeOK, done < prompt
  PROVE  ChunkSize \in 1..(prompt - done)
BY SessionAssumption DEF TypeOK, ChunkSize, LeastOf

LEMMA InitIInv == Init => IInv
BY SessionAssumption
   DEF Init, IInv, TypeOK, PrefillOK, StepOK, PushOK

-----------------------------------------------------------------------------
LEMMA BeginIInv ==
  ASSUME IInv, NEW n \in 0..MaxPrompt, NEW max \in 0..MaxTokens, Begin(n, max)
  PROVE  IInv'
<1> USE SessionAssumption DEF IInv, Begin, Ends, FitsContext
<1>1. TypeOK'
  BY DEF TypeOK
<1>2. PrefillOK'
  BY DEF TypeOK, PrefillOK, EndsWith
<1>3. StepOK' /\ PushOK'
  BY DEF TypeOK, StepOK, PushOK
<1> QED BY <1>1, <1>2, <1>3

LEMMA PrefillChunkIInv ==
  ASSUME IInv, PrefillChunk
  PROVE  IInv'
<1> USE SessionAssumption DEF IInv, PrefillChunk
<1>1. /\ done < prompt /\ nCur + prompt < MaxSeqLen /\ produced = 0
      /\ done \in Nat /\ prompt \in Nat /\ nCur \in Nat
  BY DEF PrefillOK, TypeOK
<1>2. ChunkSize \in 1..(prompt - done)
  BY <1>1, ChunkBounds
<1>3. Len(Tokens(done, ChunkSize)) = ChunkSize
  BY <1>2 DEF Tokens
<1>4. Len(kv) = nCur + done /\ Len(kv) + ChunkSize <= MaxSeqLen
  BY <1>3 DEF Decode, CanDecode, ChunkAt
<1>5. EndsWith(kv, head, done)
  BY <1>4 DEF PrefillOK
<1>6. /\ kv' \in Seq(Token) /\ Len(kv') = Len(kv) + ChunkSize
      /\ EndsWith(kv', head, done + ChunkSize)
  <2>1. TypeOK /\ ChunkSize \in Nat /\ kv' = kv \o Tokens(done, ChunkSize)
    BY <1>1, <1>2 DEF Decode
  <2> QED BY ONLY <1>1, <1>5, <2>1, DecodeExtends
<1>7. EndsWith(kv', head, done') /\ Len(kv') = nCur + done' /\ done' \in 0..prompt
  BY <1>1, <1>2, <1>4, <1>6
<1>8. CASE done' = prompt
  <2>1. nCur' = nCur + prompt /\ pc' = "step"
    BY <1>8
  <2>2. TypeOK'
    BY <1>1, <1>4, <1>6, <1>7, <2>1 DEF TypeOK
  <2>3. StepOK'
    <3>1. /\ prompt' = prompt /\ produced' = 0 /\ head' = head
          /\ prompt + 0 = done' /\ nCur' < MaxSeqLen /\ nCur' = Len(kv')
      BY <1>1, <1>7, <1>8, <2>1
    <3>2. EndsWith(kv', head', prompt' + produced')
      BY <1>1, <1>7, <3>1
    <3> QED BY <3>1, <3>2 DEF StepOK
  <2> QED BY <2>1, <2>2, <2>3 DEF PrefillOK, PushOK
<1>9. CASE done' # prompt
  <2>1. UNCHANGED <<nCur, pc>>
    BY <1>9
  <2>2. TypeOK'
    BY <1>1, <1>4, <1>6, <1>7, <2>1 DEF TypeOK
  <2>3. PrefillOK'
    BY <1>1, <1>6, <1>7, <1>9, <2>1 DEF PrefillOK, EndsWith
  <2> QED BY <2>1, <2>2, <2>3 DEF StepOK, PushOK
<1> QED BY <1>8, <1>9

LEMMA PrefillFailsIInv ==
  ASSUME IInv, PrefillFails
  PROVE  IInv'
BY SessionAssumption
   DEF IInv, PrefillFails, DecodeFails, Ends, TypeOK, PrefillOK, StepOK, PushOK

LEMMA SampleIInv ==
  ASSUME IInv, Sample
  PROVE  IInv'
<1> USE SessionAssumption DEF IInv, Sample
<1>1. TypeOK'
  BY DEF TypeOK
<1>2. prompt + produced' - 1 = prompt + produced
  BY DEF TypeOK
<1>3. PushOK'
  BY <1>2 DEF TypeOK, StepOK, PushOK, EndsWith
<1> QED BY <1>1, <1>3 DEF PrefillOK, StepOK

LEMMA StopIInv ==
  ASSUME IInv, Stop
  PROVE  IInv'
BY DEF IInv, Stop, Ends, TypeOK, PrefillOK, StepOK, PushOK

LEMMA PushTokenIInv ==
  ASSUME IInv, PushToken
  PROVE  IInv'
<1> USE SessionAssumption DEF IInv, PushToken
<1> DEFINE n == prompt + produced - 1
<1>1. /\ nCur = Len(kv) /\ EndsWith(kv, head, n) /\ produced > 0
      /\ n \in Nat /\ n + 1 = prompt + produced
  BY DEF PushOK, TypeOK
<1>2. Len(Tokens(n, 1)) = 1
  BY DEF Tokens
<1>3. Len(kv) + 1 <= MaxSeqLen
  BY <1>2 DEF Decode, CanDecode
<1>4. /\ kv' \in Seq(Token) /\ Len(kv') = Len(kv) + 1
      /\ EndsWith(kv', head, n + 1)
  BY <1>1, DecodeExtends DEF Decode
<1>5. TypeOK'
  BY <1>1, <1>3, <1>4 DEF TypeOK
<1>6. StepOK'
  BY <1>1, <1>4 DEF StepOK, EndsWith, TypeOK
<1> QED BY <1>5, <1>6 DEF PrefillOK, PushOK

LEMMA PushFailsIInv ==
  ASSUME IInv, PushFails
  PROVE  IInv'
BY SessionAssumption
   DEF IInv, PushFails, DecodeFails, Ends, TypeOK, PrefillOK, StepOK, PushOK

LEMMA NextIInv == IInv /\ [Next]_vars => IInv'
<1> SUFFICES ASSUME IInv, [Next]_vars PROVE IInv'
  OBVIOUS
<1>1. ASSUME NEW n \in 0..MaxPrompt, NEW max \in 0..MaxTokens, Begin(n, max) PROVE IInv'
  BY <1>1, BeginIInv
<1>2. CASE PrefillChunk
  BY <1>2, PrefillChunkIInv
<1>3. CASE PrefillFails
  BY <1>3, PrefillFailsIInv
<1>4. CASE Sample
  BY <1>4, SampleIInv
<1>5. CASE Stop
  BY <1>5, StopIInv
<1>6. CASE PushToken
  BY <1>6, PushTokenIInv
<1>7. CASE PushFails
  BY <1>7, PushFailsIInv
<1>8. CASE UNCHANGED vars
  BY <1>8 DEF vars, IInv, TypeOK, PrefillOK, StepOK, PushOK, EndsWith
<1> QED BY <1>1, <1>2, <1>3, <1>4, <1>5, <1>6, <1>7, <1>8 DEF Next

LEMMA SpecIInv == Spec => []IInv
BY InitIInv, NextIInv, PTL DEF Spec

-----------------------------------------------------------------------------
(* The cache never outgrows the context, and the write head is at most one  *)
(* place past it.                                                           *)
THEOREM SessionTypes == Spec => []TypeOK
BY SpecIInv, PTL DEF IInv

(* Whenever step samples, the cache ends in the whole prompt of the request *)
(* and all that it produced, for any batch size and any failures before.    *)
THEOREM WholePrompt == Spec => []SamplesFromWholePrompt
<1>1. IInv => SamplesFromWholePrompt
  <2> SUFFICES ASSUME IInv, pc = "step"
               PROVE  /\ nCur = Len(kv) /\ prompt + produced <= Len(kv)
                      /\ \A i \in 1..(prompt + produced) :
                           kv[Len(kv) - prompt - produced + i] = [req |-> head, at |-> i - 1]
    BY DEF SamplesFromWholePrompt
  <2>1. prompt \in Nat /\ produced \in Nat /\ Len(kv) \in Nat
    BY SessionAssumption, LenProperties DEF IInv, TypeOK
  <2>2. nCur = Len(kv) /\ EndsWith(kv, head, prompt + produced)
    BY DEF IInv, StepOK
  <2>3. ASSUME NEW i \in 1..(prompt + produced)
        PROVE  kv[Len(kv) - prompt - produced + i] = [req |-> head, at |-> i - 1]
    <3>1. Len(kv) - prompt - produced + i = Len(kv) - (prompt + produced) + i
      BY <2>1
    <3>2. kv[Len(kv) - (prompt + produced) + i] = [req |-> head, at |-> i - 1]
      BY <2>2 DEF EndsWith
    <3> QED BY <3>1, <3>2
  <2> QED BY <2>2, <2>3 DEF EndsWith
<1> QED BY <1>1, SpecIInv, PTL

(* The check of prefill leaves a cell for the first token of the answer.    *)
THEOREM FirstTokenFits == Spec => []RoomForAnswer
<1>1. IInv => RoomForAnswer
  BY SessionAssumption DEF IInv, TypeOK, PushOK, RoomForAnswer, CanDecode
<1> QED BY <1>1, SpecIInv, PTL

(* Once a decode that failed has separated the write head from the cache,   *)
(* no request samples again.                                                *)
THEOREM DamageStays == Spec => DamageIsFinal
<1>1. IInv /\ [Next]_vars => [Damaged => Damaged' /\ pc' # "step"]_vars
  <2> SUFFICES ASSUME IInv, Next, Damaged PROVE Damaged' /\ pc' # "step"
    OBVIOUS
  <2> USE SessionAssumption DEF IInv, Damaged
  <2>1. pc \in {"idle", "prefill"}
    BY DEF TypeOK, StepOK, PushOK
  <2>2. ASSUME NEW n \in 0..MaxPrompt, NEW max \in 0..MaxTokens, Begin(n, max)
        PROVE  Damaged' /\ pc' # "step"
    BY <2>2 DEF TypeOK, Begin, Ends
  <2>3. ~PrefillChunk
    BY DEF PrefillChunk, Decode, CanDecode, ChunkAt
  <2>4. CASE PrefillFails
    BY <2>4 DEF TypeOK, PrefillFails, PrefillOK, DecodeFails, Ends
  <2> QED BY <2>1, <2>2, <2>3, <2>4 DEF Next, Sample, Stop, PushToken, PushFails
<1> QED BY <1>1, SpecIInv, PTL DEF Spec, DamageIsFinal

=============================================================================
