-------------------------- MODULE SyncClient_proofs --------------------------
(***************************************************************************)
(* The safety of SyncClient for any number of threads, calls, events,      *)
(* panics and interrupted reads.                                           *)
(*                                                                         *)
(* That an inference reads its own frames is not inductive: what it will   *)
(* read depends on what earlier calls left unread.  IInv therefore bounds  *)
(* from below every request that can still appear on the wire, unread      *)
(* (UnreadOK) or unwritten (UpcomingOK), and from above by what the server *)
(* was asked, which is what was issued less what is still on its way.      *)
(***************************************************************************)
EXTENDS SyncClient, FiniteSetTheorems, SequenceTheorems, TLAPS

(* The request of the next reply the server can write *)
Upcoming == IF phase = "busy" THEN asked ELSE asked + 1

WireOK ==
  /\ phase = "new" => wire = <<>>
  /\ phase = "busy" => asked >= 1
  /\ \A j \in 1..Len(wire) : wire[j].req <= asked
  /\ \A j \in 2..Len(wire) : wire[j] # Rpc!Farewell => wire[j].req >= 1
  /\ \A i \in 1..Len(wire) : wire[i].type \in Rpc!ReplyTypes => wire[i].req < Upcoming
  /\ \A i, j \in 1..Len(wire) :
       i < j /\ wire[i].type \in Rpc!ReplyTypes /\ wire[j] # Rpc!Farewell => wire[i].req < wire[j].req

(* Where the inferences are in a queue *)
Places(q) == {i \in 1..Len(q) : q[i] = "inference"}

(* A call waits for the reply to the last inference issued *)
Waiting == lock \in Threads /\ pc[lock] = "read" /\ op[lock] \in Inferences

(* The least request that a frame still to be read can belong to *)
Due == (issued - Cardinality(abandoned)) + (IF Waiting THEN 0 ELSE 1)

CallersOK ==
  /\ link # "up" => issued = 0 /\ lock = NoThread /\ \A t \in Threads : pc[t] = "idle"
  /\ link = "up" => taken >= 1
  /\ poisoned => lock = NoThread
  /\ Waiting => id[lock] = issued /\ issued >= 1 /\ issued \notin abandoned

UnreadOK ==
  link = "up" /\ ~poisoned =>
    \A j \in (taken + 1)..Len(wire) : wire[j] # Rpc!Farewell => wire[j].req >= Due

UpcomingOK ==
  link = "up" /\ ~poisoned /\ phase # "closed" => Upcoming >= Due

IInv ==
  /\ TypeOK
  /\ issued = asked + Cardinality(Places(toServer))
  /\ WireOK /\ CallersOK /\ UnreadOK /\ UpcomingOK

Queued == Operation \cup {"hello"}

-----------------------------------------------------------------------------
(* How the number of inferences in a queue changes *)
LEMMA PlacesFinite ==
  ASSUME NEW q \in Seq(Queued)
  PROVE  IsFiniteSet(Places(q)) /\ Cardinality(Places(q)) \in Nat
<1>1. Len(q) \in Nat
  BY LenProperties
<1>2. IsFiniteSet(1..Len(q))
  BY <1>1, FS_Interval
<1>3. Places(q) \in SUBSET (1..Len(q))
  BY DEF Places
<1> QED BY <1>2, <1>3, FS_Subset, FS_CardinalityType

LEMMA PlacesAppend ==
  ASSUME NEW q \in Seq(Queued), NEW m \in Queued
  PROVE  /\ Append(q, m) \in Seq(Queued)
         /\ m = "inference" => Cardinality(Places(Append(q, m))) = Cardinality(Places(q)) + 1
         /\ m # "inference" => Cardinality(Places(Append(q, m))) = Cardinality(Places(q))
<1> DEFINE r == Append(q, m)
<1>1. /\ r \in Seq(Queued) /\ Len(r) = Len(q) + 1 /\ \A i \in 1..Len(q) : r[i] = q[i]
      /\ r[Len(q) + 1] = m /\ Len(q) \in Nat
  BY AppendProperties, LenProperties
<1> HIDE DEF r
<1>2. Len(q) + 1 \notin Places(q)
  BY <1>1 DEF Places
<1>3. CASE m = "inference"
  <2>1. Places(r) = Places(q) \cup {Len(q) + 1}
    BY <1>1, <1>3 DEF Places
  <2>2. Cardinality(Places(q) \cup {Len(q) + 1}) = Cardinality(Places(q)) + 1
    BY <1>2, PlacesFinite, FS_AddElement
  <2> QED BY <1>1, <1>3, <2>1, <2>2 DEF r
<1>4. CASE m # "inference"
  <2>1. Places(r) = Places(q)
    BY <1>1, <1>4 DEF Places
  <2> QED BY <1>1, <1>4, <2>1 DEF r
<1> QED BY <1>3, <1>4

LEMMA PlacesTail ==
  ASSUME NEW q \in Seq(Queued), q # <<>>
  PROVE  /\ Tail(q) \in Seq(Queued)
         /\ Head(q) = "inference" => Cardinality(Places(Tail(q))) = Cardinality(Places(q)) - 1
         /\ Head(q) # "inference" => Cardinality(Places(Tail(q))) = Cardinality(Places(q))
<1> DEFINE r == Tail(q)
           A == Places(q) \ {1}
           B == Places(r)
           f == [i \in A |-> i - 1]
<1>1. /\ r \in Seq(Queued) /\ Len(r) = Len(q) - 1 /\ \A i \in 1..Len(r) : r[i] = q[i + 1]
      /\ Len(q) \in Nat /\ Len(q) >= 1 /\ Head(q) = q[1]
  BY HeadTailProperties, LenProperties, EmptySeq
<1> HIDE DEF r
<1>2. ASSUME NEW i \in A PROVE i - 1 \in B
  <2>1. i \in 1..Len(q) /\ i # 1 /\ q[i] = "inference"
    BY DEF Places
  <2>2. i - 1 \in 1..Len(r) /\ (i - 1) + 1 = i
    BY <1>1, <2>1
  <2>3. r[i - 1] = "inference"
    BY <1>1, <2>1, <2>2
  <2> QED BY <2>2, <2>3 DEF Places
<1>3. ASSUME NEW j \in B PROVE \E i \in A : f[i] = j
  <2>1. j \in 1..Len(r) /\ r[j] = "inference"
    BY DEF Places
  <2>2. j + 1 \in 1..Len(q) /\ j + 1 # 1 /\ (j + 1) - 1 = j
    BY <1>1, <2>1
  <2>3. j + 1 \in A
    BY <1>1, <2>1, <2>2 DEF Places
  <2> QED BY <2>2, <2>3
<1>4. f \in Bijection(A, B)
  <2>1. f \in [A -> B]
    BY <1>2
  <2>2. \A i, j \in A : f[i] = f[j] => i = j
    BY <1>1 DEF Places
  <2> HIDE DEF f, A, B
  <2> QED BY <1>3, <2>1, <2>2 DEF Bijection, Injection, Surjection, IsInjective
<1>5. IsFiniteSet(A) /\ Cardinality(A) = IF 1 \in Places(q) THEN Cardinality(Places(q)) - 1 ELSE Cardinality(Places(q))
  BY PlacesFinite, FS_RemoveElement
<1>6. Cardinality(B) = Cardinality(A)
  BY <1>4, <1>5, FS_Bijection DEF ExistsBijection
<1>7. 1 \in Places(q) <=> Head(q) = "inference"
  BY <1>1 DEF Places
<1> HIDE DEF A, B, f
<1>8. Cardinality(Places(r)) = IF 1 \in Places(q) THEN Cardinality(Places(q)) - 1 ELSE Cardinality(Places(q))
  BY <1>5, <1>6 DEF B
<1> QED BY <1>1, <1>7, <1>8 DEF r

-----------------------------------------------------------------------------
LEMMA InitIInv == Init => IInv
<1> SUFFICES ASSUME Init PROVE IInv
  OBVIOUS
<1>1. /\ link = "new" /\ toServer = <<>> /\ wire = <<>> /\ taken = 0 /\ asked = 0 /\ phase = "new"
      /\ issued = 0 /\ lock = NoThread /\ poisoned = FALSE
      /\ pc = [t \in Threads |-> "idle"] /\ op = [t \in Threads |-> "cancel"]
      /\ id = [t \in Threads |-> 0] /\ result = [t \in Threads |-> "none"] /\ abandoned = {}
  BY DEF Init
<1>2. <<>> \in Seq(Queued) /\ <<>> \in Seq(Frame) /\ Len(<<>>) = 0
  BY EmptySeq
<1>3. NoThread \notin Threads
  BY ClientAssumption
<1>4. TypeOK
  <2>1. \A t \in Threads : pc[t] \in {"write", "read"} <=> lock = t
    BY <1>1, <1>3
  <2>2. op \in [Threads -> Operation] /\ result \in [Threads -> Results]
    BY <1>1 DEF Operation, Results
  <2>3. toServer \in Seq(Operation \cup {"hello"}) /\ wire \in Seq(Frame)
    BY <1>1, <1>2 DEF Queued
  <2>4. taken \in 0..Len(wire) /\ asked \in 0..issued /\ issued \in Nat /\ abandoned \subseteq 1..issued
    BY <1>1, <1>2
  <2>5. id \in [Threads -> 0..issued] /\ pc \in [Threads -> {"idle", "lock", "write", "read"}]
    BY <1>1
  <2> QED BY <1>1, <2>1, <2>2, <2>3, <2>4, <2>5 DEF TypeOK
<1>5. Places(toServer) = {}
  BY <1>1, <1>2 DEF Places
<1>6. issued = asked + Cardinality(Places(toServer))
  BY <1>1, <1>5, FS_EmptySet
<1>7. WireOK
  BY <1>1, <1>2 DEF WireOK
<1>8. CallersOK /\ UnreadOK /\ UpcomingOK
  BY <1>1, <1>3 DEF CallersOK, UnreadOK, UpcomingOK, Waiting
<1> QED BY <1>4, <1>6, <1>7, <1>8 DEF IInv

(* Numbers the arithmetic is about *)
LEMMA Counts ==
  ASSUME IInv
  PROVE  /\ Len(wire) \in Nat /\ taken \in Nat /\ taken <= Len(wire)
         /\ issued \in Nat /\ asked \in Nat /\ asked <= issued
         /\ toServer \in Seq(Queued) /\ wire \in Seq(Frame)
         /\ IsFiniteSet(abandoned) /\ Cardinality(abandoned) \in Nat
         /\ \A j \in 1..Len(wire) : wire[j].req \in Nat
         /\ Upcoming \in Nat /\ Due \in Int
<1>1. /\ wire \in Seq(Frame) /\ taken \in 0..Len(wire) /\ asked \in 0..issued /\ issued \in Nat
      /\ abandoned \in SUBSET (1..issued) /\ toServer \in Seq(Queued)
  BY DEF IInv, TypeOK, Queued
<1>2. Len(wire) \in Nat
  BY <1>1, LenProperties
<1>3. IsFiniteSet(abandoned) /\ Cardinality(abandoned) \in Nat
  <2>1. IsFiniteSet(1..issued)
    BY <1>1, FS_Interval
  <2> QED BY <1>1, <2>1, FS_Subset, FS_CardinalityType
<1>4. \A j \in 1..Len(wire) : wire[j].req \in Nat
  <2> SUFFICES ASSUME NEW j \in 1..Len(wire) PROVE wire[j].req \in Nat
    OBVIOUS
  <2>1. wire[j] \in Frame
    BY <1>1, ElementOfSeq
  <2> QED BY <2>1 DEF Frame
<1>5. Upcoming \in Nat
  BY <1>1 DEF Upcoming
<1>6. Due \in Int
  BY <1>1, <1>3 DEF Due
<1> QED BY <1>1, <1>2, <1>3, <1>4, <1>5, <1>6

-----------------------------------------------------------------------------
(* A frame that the server may write next keeps the order of replies *)
LEMMA WireAppend ==
  ASSUME IInv, NEW f \in Frame, wire' = Append(wire, f), asked' = asked,
         phase # "closed", phase' # "new", phase' = "busy" => asked >= 1,
         f.req <= asked, Upcoming <= Upcoming',
         f.type \in Rpc!ReplyTypes => f.req < Upcoming',
         wire = <<>> \/ f = Rpc!Farewell \/ (f.req >= Upcoming /\ f.req >= 1)
  PROVE  WireOK'
<1> DEFINE l == Len(wire)
<1>1. /\ l \in Nat /\ asked \in Nat /\ Upcoming \in Nat /\ \A j \in 1..l : wire[j].req \in Nat
      /\ wire \in Seq(Frame) /\ f.req \in Nat
  BY Counts DEF Frame
<1>2. Len(wire') = l + 1 /\ (\A j \in 1..l : wire'[j] = wire[j]) /\ wire'[l + 1] = f
  BY <1>1, AppendProperties
<1>3. Upcoming' \in Nat
  BY <1>1 DEF Upcoming
<1> DEFINE u == Upcoming
           v == Upcoming'
<1>4. u \in Nat /\ v \in Nat /\ u <= v
  BY <1>1, <1>3
<1>5. /\ \A j \in 1..l : wire[j].req <= asked
      /\ \A j \in 2..l : wire[j] # Rpc!Farewell => wire[j].req >= 1
      /\ \A i \in 1..l : wire[i].type \in Rpc!ReplyTypes => wire[i].req < u
      /\ \A i, j \in 1..l :
           i < j /\ wire[i].type \in Rpc!ReplyTypes /\ wire[j] # Rpc!Farewell => wire[i].req < wire[j].req
  BY DEF IInv, WireOK
<1>6. l = 0 \/ f = Rpc!Farewell \/ (f.req >= u /\ f.req >= 1)
  BY EmptySeq
<1>7. f.type \in Rpc!ReplyTypes => f.req < v
  OBVIOUS
<1> HIDE DEF l, u, v
<1>8. ASSUME NEW j \in 1..(l + 1) PROVE j \in 1..l \/ j = l + 1
  BY <1>1
<1>9. ASSUME NEW j \in 1..(l + 1) PROVE wire'[j].req <= asked
  BY <1>2, <1>5, <1>8
<1>10. ASSUME NEW j \in 2..(l + 1), wire'[j] # Rpc!Farewell PROVE wire'[j].req >= 1
  <2>1. CASE j \in 2..l
    <3>1. j \in 1..l
      BY <1>1, <2>1
    <3> QED BY <1>2, <1>5, <1>10, <2>1, <3>1
  <2>2. CASE j = l + 1 /\ l >= 1
    BY <1>1, <1>2, <1>6, <1>10, <2>2
  <2>3. j \in 2..l \/ (j = l + 1 /\ l >= 1)
    BY <1>1
  <2> QED BY <2>1, <2>2, <2>3
<1>11. ASSUME NEW i \in 1..(l + 1), wire'[i].type \in Rpc!ReplyTypes PROVE wire'[i].req < v
  <2>1. CASE i \in 1..l
    <3>1. wire[i].req < u /\ wire[i].req \in Nat /\ wire'[i] = wire[i]
      BY <1>1, <1>2, <1>5, <1>11, <2>1
    <3> QED BY <1>4, <3>1
  <2>2. CASE i = l + 1
    BY <1>2, <1>7, <1>11, <2>2
  <2> QED BY <1>8, <2>1, <2>2
<1>12. ASSUME NEW i \in 1..(l + 1), NEW j \in 1..(l + 1),
              i < j, wire'[i].type \in Rpc!ReplyTypes, wire'[j] # Rpc!Farewell
       PROVE  wire'[i].req < wire'[j].req
  <2>1. i \in 1..l
    BY <1>1, <1>12
  <2>2. CASE j \in 1..l
    BY <1>2, <1>5, <1>12, <2>1, <2>2
  <2>3. CASE j = l + 1
    <3>1. f # Rpc!Farewell /\ f.req >= u
      BY <1>1, <1>2, <1>6, <1>12, <2>1, <2>3
    <3>2. wire[i].req < u /\ wire[i].req \in Nat /\ wire'[i] = wire[i]
      BY <1>1, <1>2, <1>5, <1>12, <2>1
    <3> QED BY <1>1, <1>2, <1>4, <2>3, <3>1, <3>2
  <2> QED BY <1>8, <2>2, <2>3
<1>13. Len(wire)' = l + 1
  BY <1>2
<1>14. (\A j \in 1..Len(wire) : wire[j].req <= asked)'
  BY <1>9, <1>13
<1>15. (\A j \in 2..Len(wire) : wire[j] # Rpc!Farewell => wire[j].req >= 1)'
  BY <1>10, <1>13 DEF Rpc!Farewell
<1>16. (\A i \in 1..Len(wire) : wire[i].type \in Rpc!ReplyTypes => wire[i].req < Upcoming)'
  BY <1>11, <1>13 DEF v, Rpc!ReplyTypes
<1>17. (\A i, j \in 1..Len(wire) :
          i < j /\ wire[i].type \in Rpc!ReplyTypes /\ wire[j] # Rpc!Farewell => wire[i].req < wire[j].req)'
  BY <1>12, <1>13 DEF Rpc!Farewell, Rpc!ReplyTypes
<1> QED BY <1>14, <1>15, <1>16, <1>17 DEF WireOK

(* ... and brings nobody a frame of an earlier request *)
LEMMA ServerAppends ==
  ASSUME IInv, UNCHANGED threads,
         NEW f \in Frame, wire' = Append(wire, f), asked' = asked,
         phase # "closed", phase' \in {"idle", "busy", "closed"}, phase' = "busy" => asked >= 1,
         toServer' \in Seq(Queued), Cardinality(Places(toServer')) = Cardinality(Places(toServer)),
         f.req <= asked, Upcoming <= Upcoming',
         f.type \in Rpc!ReplyTypes => f.req < Upcoming',
         (wire = <<>> /\ phase = "new") \/ f = Rpc!Farewell \/ (f.req >= Upcoming /\ f.req >= 1)
  PROVE  IInv'
<1> DEFINE l == Len(wire)
<1>1. /\ l \in Nat /\ taken \in Nat /\ taken <= l /\ issued \in Nat /\ asked \in Nat /\ asked <= issued
      /\ wire \in Seq(Frame) /\ Upcoming \in Nat /\ Due \in Int /\ f.req \in Nat
  BY Counts DEF Frame
<1>2. /\ Len(wire') = l + 1 /\ (\A j \in 1..l : wire'[j] = wire[j]) /\ wire'[l + 1] = f
      /\ wire' \in Seq(Frame)
  BY <1>1, AppendProperties
<1>3. /\ link' = link /\ taken' = taken /\ issued' = issued /\ lock' = lock /\ poisoned' = poisoned
      /\ pc' = pc /\ op' = op /\ id' = id /\ result' = result /\ abandoned' = abandoned
  BY DEF threads
<1>4. Due' = Due /\ Waiting' = Waiting /\ Upcoming' \in Nat
  BY <1>1, <1>3 DEF Due, Waiting, Upcoming
<1>5. TypeOK'
  <2>1. taken' \in 0..Len(wire') /\ asked' \in 0..issued'
    BY <1>1, <1>2, <1>3
  <2> QED BY <1>2, <1>3, <2>1 DEF IInv, TypeOK, Queued
<1>6. WireOK'
  BY WireAppend
<1>7. CallersOK'
  BY <1>3, <1>4 DEF IInv, CallersOK
<1>8. UnreadOK'
  <2> SUFFICES ASSUME link = "up", ~poisoned, NEW j \in (taken + 1)..(l + 1), wire'[j] # Rpc!Farewell
               PROVE  wire'[j].req >= Due
    BY <1>2, <1>3, <1>4 DEF UnreadOK, Rpc!Farewell
  <2>1. CASE j \in 1..l
    <3>1. j \in (taken + 1)..l
      BY <1>1, <2>1
    <3> QED BY <1>2, <2>1, <3>1 DEF IInv, UnreadOK
  <2>2. CASE j = l + 1
    <3>1. taken >= 1
      BY DEF IInv, CallersOK
    <3>2. l # 0
      BY <1>1, <3>1
    <3>3. wire # <<>>
      BY <3>2, EmptySeq
    <3>4. f.req >= Upcoming
      BY <1>2, <2>2, <3>3
    <3>5. Upcoming >= Due
      BY DEF IInv, UpcomingOK
    <3> QED BY <1>1, <1>2, <2>2, <3>4, <3>5
  <2> QED BY <1>1, <2>1, <2>2
<1>9. UpcomingOK'
  <2>1. link = "up" /\ ~poisoned => Upcoming >= Due
    BY DEF IInv, UpcomingOK
  <2>2. link = "up" /\ ~poisoned => Upcoming' >= Due
    BY <1>1, <1>4, <2>1
  <2> QED BY <1>3, <1>4, <2>2 DEF UpcomingOK
<1>10. (issued = asked + Cardinality(Places(toServer)))'
  BY <1>3 DEF IInv
<1> QED BY <1>5, <1>6, <1>7, <1>8, <1>9, <1>10 DEF IInv

(* A step of the server that writes nothing *)
LEMMA ServerKeeps ==
  ASSUME IInv, UNCHANGED threads, wire' = wire, phase' \in {"new", "idle", "busy", "closed"},
         phase' = "new" => phase = "new", phase' = "busy" => asked' >= 1,
         phase' # "closed" => phase # "closed",
         asked' \in Nat, asked <= asked', Upcoming <= Upcoming',
         toServer' \in Seq(Queued), issued = asked' + Cardinality(Places(toServer'))
  PROVE  IInv'
<1>1. /\ Len(wire) \in Nat /\ taken \in Nat /\ taken <= Len(wire) /\ issued \in Nat
      /\ asked \in Nat /\ asked <= issued /\ \A j \in 1..Len(wire) : wire[j].req \in Nat
      /\ Upcoming \in Nat /\ Due \in Int
  BY Counts
<1>2. /\ link' = link /\ taken' = taken /\ issued' = issued /\ lock' = lock /\ poisoned' = poisoned
      /\ pc' = pc /\ op' = op /\ id' = id /\ result' = result /\ abandoned' = abandoned
  BY DEF threads
<1>3. Due' = Due /\ Waiting' = Waiting /\ Upcoming' \in Nat
  <2>1. Upcoming' \in Nat
    <3>1. asked' \in Nat
      OBVIOUS
    <3> DEFINE a == asked'
    <3>2. a \in Nat
      BY <3>1
    <3> HIDE DEF a
    <3>3. a + 1 \in Nat
      BY <3>2
    <3>4. asked' + 1 \in Nat
      BY <3>3 DEF a
    <3> QED BY <3>1, <3>4, Zenon DEF Upcoming
  <2>2. Waiting' = Waiting
    BY <1>2 DEF Waiting
  <2> QED BY <1>2, <2>1, <2>2 DEF Due
<1>4. asked' <= issued
  <2>1. Cardinality(Places(toServer')) \in Nat
    BY PlacesFinite
  <2> QED BY <1>1, <2>1
<1>5. TypeOK'
  <2>1. asked' \in 0..issued'
    BY <1>2, <1>4
  <2> QED BY <1>2, <2>1 DEF IInv, TypeOK, Queued
<1>6. WireOK'
  <2>1. (\A j \in 1..Len(wire) : wire[j].req <= asked)'
    <3> SUFFICES ASSUME NEW j \in 1..Len(wire) PROVE wire[j].req <= asked'
      OBVIOUS
    <3>1. wire[j].req <= asked /\ wire[j].req \in Nat
      BY <1>1 DEF IInv, WireOK
    <3> QED BY <1>1, <3>1
  <2>2. (\A i \in 1..Len(wire) : wire[i].type \in Rpc!ReplyTypes => wire[i].req < Upcoming)'
    <3> SUFFICES ASSUME NEW i \in 1..Len(wire), wire[i].type \in Rpc!ReplyTypes
                 PROVE  wire[i].req < Upcoming'
      BY DEF Rpc!ReplyTypes
    <3>1. wire[i].req < Upcoming /\ wire[i].req \in Nat
      BY <1>1 DEF IInv, WireOK
    <3> QED BY <1>1, <1>3, <3>1
  <2>3. (\A j \in 2..Len(wire) : wire[j] # Rpc!Farewell => wire[j].req >= 1)'
    BY DEF IInv, WireOK, Rpc!Farewell
  <2>4. (\A i, j \in 1..Len(wire) :
           i < j /\ wire[i].type \in Rpc!ReplyTypes /\ wire[j] # Rpc!Farewell => wire[i].req < wire[j].req)'
    BY DEF IInv, WireOK, Rpc!Farewell, Rpc!ReplyTypes
  <2>5. (phase = "new" => wire = <<>>)'
    BY DEF IInv, WireOK
  <2> QED BY <2>1, <2>2, <2>3, <2>4, <2>5 DEF WireOK
<1>7. CallersOK'
  BY <1>2, <1>3 DEF IInv, CallersOK
<1>8. UnreadOK'
  BY <1>2, <1>3 DEF IInv, UnreadOK, Rpc!Farewell
<1>9. UpcomingOK'
  <2>1. link = "up" /\ ~poisoned /\ phase # "closed" => Upcoming >= Due
    BY DEF IInv, UpcomingOK
  <2>2. link = "up" /\ ~poisoned /\ phase' # "closed" => Upcoming' >= Due
    BY <1>1, <1>3, <2>1
  <2> QED BY <1>2, <1>3, <2>2 DEF UpcomingOK
<1>10. (issued = asked + Cardinality(Places(toServer)))'
  BY <1>2
<1> QED BY <1>5, <1>6, <1>7, <1>8, <1>9, <1>10 DEF IInv

LEMMA ServerReadsIInv ==
  ASSUME IInv, ServerReads
  PROVE  IInv'
<1>1. /\ asked \in Nat /\ issued \in Nat /\ asked <= issued /\ toServer \in Seq(Queued) /\ wire \in Seq(Frame)
      /\ Upcoming \in Nat /\ Due \in Int /\ issued = asked + Cardinality(Places(toServer))
  BY Counts DEF IInv
<1>2. ASSUME NEW m \in {"hello", "inference", "cancel", "shutdown"}, Receives(m)
      PROVE  /\ toServer' \in Seq(Queued) /\ UNCHANGED threads
             /\ m = "inference" => Cardinality(Places(toServer')) = Cardinality(Places(toServer)) - 1
             /\ m # "inference" => Cardinality(Places(toServer')) = Cardinality(Places(toServer))
  <2>1. toServer # <<>> /\ Head(toServer) = m /\ toServer' = Tail(toServer) /\ UNCHANGED threads
    BY <1>2 DEF Receives
  <2> QED BY <1>1, <2>1, PlacesTail
<1>3. CASE Receives("hello") /\ Rpc!Greet
  <2>1. phase = "new" /\ phase' = "idle" /\ wire' = Append(wire, Rpc!Greeting) /\ asked' = asked
    BY <1>3 DEF Rpc!Greet
  <2>2. Rpc!Greeting \in Frame /\ Rpc!Greeting.req = 0 /\ Rpc!Greeting.type \notin Rpc!ReplyTypes
    BY DEF Rpc!Greeting, Frame, Rpc!ReplyTypes
  <2>3. wire = <<>>
    BY <2>1 DEF IInv, WireOK
  <2>4. Upcoming' = Upcoming
    BY <2>1 DEF Upcoming
  <2> QED BY <1>1, <1>2, <1>3, <2>1, <2>2, <2>3, <2>4, ServerAppends
<1>4. CASE Receives("hello") /\ Rpc!Reject
  <2>1. phase = "new" /\ phase' = "closed" /\ wire' = Append(wire, Rpc!Mismatch) /\ asked' = asked
    BY <1>4 DEF Rpc!Reject
  <2>2. Rpc!Mismatch \in Frame /\ Rpc!Mismatch.req = 0
    BY DEF Rpc!Mismatch, Frame, Rpc!ReplyTypes
  <2>3. wire = <<>>
    BY <2>1 DEF IInv, WireOK
  <2>4. Upcoming' = Upcoming /\ Upcoming' = asked + 1
    BY <2>1 DEF Upcoming
  <2> QED BY <1>1, <1>2, <1>4, <2>1, <2>2, <2>3, <2>4, ServerAppends
<1>5. CASE Receives("shutdown") /\ Rpc!Leave
  <2>1. phase = "idle" /\ phase' = "closed" /\ wire' = Append(wire, Rpc!Farewell) /\ asked' = asked
    BY <1>5 DEF Rpc!Leave
  <2>2. Rpc!Farewell \in Frame /\ Rpc!Farewell.req = 0 /\ Rpc!Farewell.type \notin Rpc!ReplyTypes
    BY DEF Rpc!Farewell, Frame, Rpc!ReplyTypes
  <2>4. Upcoming' = Upcoming
    BY <2>1 DEF Upcoming
  <2> QED BY <1>1, <1>2, <1>5, <2>1, <2>2, <2>4, ServerAppends
<1>6. CASE Receives("cancel") /\ UNCHANGED server
  <2>1. wire' = wire /\ asked' = asked /\ phase' = phase
    BY <1>6 DEF server
  <2>2. Upcoming' = Upcoming
    BY <2>1 DEF Upcoming
  <2>3. phase' \in {"new", "idle", "busy", "closed"} /\ (phase' = "busy" => asked' >= 1)
    BY <2>1 DEF IInv, TypeOK, WireOK
  <2>4. /\ toServer' \in Seq(Queued) /\ UNCHANGED threads
        /\ Cardinality(Places(toServer')) = Cardinality(Places(toServer))
    BY <1>2, <1>6
  <2> QED BY <1>1, <2>1, <2>2, <2>3, <2>4, ServerKeeps
<1>7. CASE Receives("inference") /\ Rpc!Ask
  <2>1. phase = "idle" /\ phase' = "busy" /\ asked' = asked + 1 /\ wire' = wire
    BY <1>7 DEF Rpc!Ask
  <2>2. Upcoming' = Upcoming
    BY <2>1 DEF Upcoming
  <2>3. /\ toServer' \in Seq(Queued) /\ UNCHANGED threads
        /\ Cardinality(Places(toServer')) = Cardinality(Places(toServer)) - 1
    BY <1>2, <1>7
  <2>4. issued = asked' + Cardinality(Places(toServer')) /\ asked' \in Nat /\ asked <= asked' /\ asked' >= 1
    <3>1. Cardinality(Places(toServer)) \in Nat
      BY <1>1, PlacesFinite
    <3> QED BY <1>1, <2>1, <2>3, <3>1
  <2> QED BY <1>1, <2>1, <2>2, <2>3, <2>4, ServerKeeps
<1> QED BY <1>3, <1>4, <1>5, <1>6, <1>7 DEF ServerReads

LEMMA ServerWritesIInv ==
  ASSUME IInv, ServerWrites
  PROVE  IInv'
<1>1. /\ asked \in Nat /\ toServer \in Seq(Queued) /\ toServer' = toServer /\ UNCHANGED threads
  BY Counts DEF ServerWrites
<1>2. ASSUME phase = "busy"
      PROVE  Upcoming = asked /\ asked >= 1
  BY <1>2 DEF Upcoming, IInv, WireOK
<1>3. ASSUME NEW n \in 1..MaxEvents, Rpc!Notify(n) PROVE IInv'
  <2>1. phase = "busy" /\ wire' = Append(wire, Rpc!Event(asked, n)) /\ asked' = asked /\ phase' = phase
    BY <1>3 DEF Rpc!Notify
  <2>2. /\ Rpc!Event(asked, n) \in Frame /\ Rpc!Event(asked, n).req = asked
        /\ Rpc!Event(asked, n).type \notin Rpc!ReplyTypes
    BY <1>1, ClientAssumption DEF Rpc!Event, Frame, Rpc!ReplyTypes
  <2>3. Upcoming' = Upcoming
    BY <2>1 DEF Upcoming
  <2> QED BY <1>1, <1>2, <2>1, <2>2, <2>3, ServerAppends
<1>4. ASSUME NEW type \in Rpc!ReplyTypes, Rpc!Answer(type) PROVE IInv'
  <2>1. phase = "busy" /\ phase' = "idle" /\ wire' = Append(wire, Rpc!Reply(type, asked)) /\ asked' = asked
    BY <1>4 DEF Rpc!Answer
  <2>2. Rpc!Reply(type, asked) \in Frame /\ Rpc!Reply(type, asked).req = asked
    BY <1>1 DEF Rpc!Reply, Frame, Rpc!ReplyTypes
  <2>3. Upcoming' = asked + 1
    BY <2>1 DEF Upcoming
  <2> QED BY <1>1, <1>2, <2>1, <2>2, <2>3, ServerAppends
<1> QED BY <1>3, <1>4 DEF ServerWrites

LEMMA ServerDiesIInv ==
  ASSUME IInv, ServerDies
  PROVE  IInv'
<1>1. /\ toServer' = toServer /\ UNCHANGED threads
      /\ phase # "closed" /\ phase' = "closed" /\ wire' = wire /\ asked' = asked
  BY DEF ServerDies, Rpc!Close
<1>2. /\ asked \in Nat /\ asked <= issued /\ toServer \in Seq(Queued) /\ issued \in Nat
      /\ issued = asked + Cardinality(Places(toServer))
  BY Counts DEF IInv
<1>3. Upcoming <= Upcoming'
  BY <1>1, <1>2 DEF Upcoming
<1> QED BY <1>1, <1>2, <1>3, ServerKeeps

-----------------------------------------------------------------------------
(* A step of the client during which every frame keeps being due *)
LEMMA ClientKeeps ==
  ASSUME IInv, UNCHANGED server, TypeOK', CallersOK',
         (issued = asked + Cardinality(Places(toServer)))',
         link' = "up" => link = "up", ~poisoned' => ~poisoned, taken <= taken',
         ~poisoned' => Due' = Due
  PROVE  IInv'
<1>1. wire' = wire /\ asked' = asked /\ phase' = phase
  BY DEF server
<1>2. Len(wire) \in Nat /\ taken \in Nat /\ taken' \in 0..Len(wire) /\ Upcoming' = Upcoming
  BY <1>1, Counts DEF TypeOK, Upcoming
<1>3. WireOK'
  BY <1>1 DEF IInv, WireOK, Upcoming, Rpc!Farewell, Rpc!ReplyTypes
<1>4. UnreadOK'
  <2>1. (taken' + 1)..Len(wire) \subseteq (taken + 1)..Len(wire)
    BY <1>2
  <2>2. link = "up" /\ ~poisoned =>
          \A j \in (taken + 1)..Len(wire) : wire[j] # Rpc!Farewell => wire[j].req >= Due
    BY DEF IInv, UnreadOK
  <2>3. link' = "up" /\ ~poisoned' =>
          \A j \in (taken' + 1)..Len(wire) : wire[j] # Rpc!Farewell => wire[j].req >= Due'
    BY <2>1, <2>2
  <2> QED BY <1>1, <2>3 DEF UnreadOK, Rpc!Farewell
<1>5. UpcomingOK'
  BY <1>1, <1>2 DEF IInv, UpcomingOK
<1> QED BY <1>3, <1>4, <1>5 DEF IInv

(* The mutex says who is between lock and return *)
LEMMA Holder ==
  ASSUME TypeOK, NEW t \in Threads, pc[t] \in {"write", "read"}
  PROVE  lock = t /\ lock # NoThread
BY ClientAssumption DEF TypeOK

LEMMA ReturnTypes ==
  ASSUME TypeOK, NEW t \in Threads, pc[t] \in {"write", "read"},
         NEW outcome \in Results, Returns(t, outcome)
  PROVE  /\ lock' = NoThread /\ pc' \in [Threads -> {"idle", "lock", "write", "read"}]
         /\ \A s \in Threads : pc'[s] \in {"write", "read"} <=> lock' = s
         /\ result' \in [Threads -> Results] /\ ~Waiting'
<1>1. lock' = NoThread /\ pc' = [pc EXCEPT ![t] = "idle"] /\ result' = [result EXCEPT ![t] = outcome]
  BY DEF Returns, Ends
<1>2. NoThread \notin Threads /\ lock = t
  BY Holder, ClientAssumption
<1>3. pc \in [Threads -> {"idle", "lock", "write", "read"}] /\ result \in [Threads -> Results]
  BY DEF TypeOK
<1>4. ASSUME NEW s \in Threads PROVE pc'[s] \in {"write", "read"} <=> lock' = s
  <2>1. CASE s = t
    BY <1>1, <1>2, <1>3, <2>1
  <2>2. CASE s # t
    BY <1>1, <1>2, <1>3, <2>2 DEF TypeOK
  <2> QED BY <2>1, <2>2
<1> QED BY <1>1, <1>2, <1>3, <1>4 DEF Waiting

LEMMA SendHelloIInv ==
  ASSUME IInv, SendHello
  PROVE  IInv'
<1>1. /\ link = "new" /\ link' = "greeting" /\ toServer' = Append(toServer, "hello")
      /\ UNCHANGED <<server, taken, issued, lock, poisoned, pc, op, id, result, abandoned>>
      /\ wire' = wire /\ asked' = asked /\ phase' = phase
  BY DEF SendHello, server
<1>2. toServer' \in Seq(Queued) /\ Cardinality(Places(toServer')) = Cardinality(Places(toServer))
  <2>1. toServer \in Seq(Queued) /\ "hello" \in Queued
    BY Counts DEF Queued
  <2> QED BY <1>1, <2>1, PlacesAppend
<1>3. TypeOK'
  BY <1>1, <1>2 DEF IInv, TypeOK, Queued
<1>4. Waiting' = Waiting
  BY <1>1 DEF Waiting
<1>5. CallersOK'
  BY <1>1, <1>4 DEF IInv, CallersOK
<1>6. (issued = asked + Cardinality(Places(toServer)))'
  BY <1>1, <1>2 DEF IInv
<1>7. WireOK'
  BY <1>1 DEF IInv, WireOK, Upcoming, Rpc!Farewell, Rpc!ReplyTypes
<1>8. UnreadOK' /\ UpcomingOK'
  BY <1>1 DEF UnreadOK, UpcomingOK
<1> QED BY <1>3, <1>5, <1>6, <1>7, <1>8 DEF IInv

LEMMA ConnectedIInv ==
  ASSUME IInv, Connected
  PROVE  IInv'
<1>1. /\ link = "greeting" /\ link' \in {"up", "failed"}
      /\ UNCHANGED <<toServer, server, issued, lock, poisoned, pc, op, id, result, abandoned>>
      /\ wire' = wire /\ asked' = asked /\ phase' = phase /\ toServer' = toServer
      /\ \/ taken < Len(wire) /\ taken' = taken + 1
         \/ link' = "failed" /\ taken' = taken
  BY DEF Connected, server
<1>2. /\ Len(wire) \in Nat /\ taken \in Nat /\ taken <= Len(wire) /\ asked \in Nat /\ asked <= issued
      /\ abandoned \in SUBSET (1..issued) /\ \A j \in 1..Len(wire) : wire[j].req \in Nat
  BY Counts DEF IInv, TypeOK
<1>3. issued = 0 /\ lock = NoThread /\ asked = 0
  BY <1>1, <1>2 DEF IInv, CallersOK
<1>4. taken' \in 0..Len(wire) /\ (link' = "up" => taken' >= 1)
  BY <1>1, <1>2
<1>5. TypeOK'
  BY <1>1, <1>4 DEF IInv, TypeOK
<1>6. ~Waiting'
  BY <1>1, <1>3, ClientAssumption DEF Waiting
<1>7. CallersOK'
  <2>1. \A t \in Threads : pc'[t] = "idle"
    BY <1>1 DEF IInv, CallersOK
  <2> QED BY <1>1, <1>3, <1>4, <1>6, <2>1 DEF CallersOK
<1>8. Due' = 1
  <2>1. abandoned = {}
    BY <1>2, <1>3
  <2>2. Cardinality(abandoned') = 0
    BY <1>1, <2>1, FS_EmptySet
  <2> QED BY <1>1, <1>3, <1>6, <2>2 DEF Due
<1>9. WireOK'
  BY <1>1 DEF IInv, WireOK, Upcoming, Rpc!Farewell, Rpc!ReplyTypes
<1>10. UnreadOK'
  <2>1. link' = "up" => (taken' + 1)..Len(wire) \subseteq 2..Len(wire)
    BY <1>2, <1>4
  <2>2. \A j \in 2..Len(wire) : wire[j] # Rpc!Farewell => wire[j].req >= 1
    BY DEF IInv, WireOK
  <2>3. link' = "up" => \A j \in (taken' + 1)..Len(wire) : wire[j] # Rpc!Farewell => wire[j].req >= 1
    BY <2>1, <2>2
  <2> QED BY <1>1, <1>8, <2>3 DEF UnreadOK, Rpc!Farewell
<1>11. UpcomingOK'
  <2>1. Upcoming >= 1
    BY <1>2 DEF IInv, WireOK, Upcoming
  <2>2. Upcoming' = Upcoming
    BY <1>1 DEF Upcoming
  <2> QED BY <1>8, <2>1, <2>2 DEF UpcomingOK
<1>12. (issued = asked + Cardinality(Places(toServer)))'
  BY <1>1 DEF IInv
<1> QED BY <1>5, <1>7, <1>9, <1>10, <1>11, <1>12 DEF IInv

LEMMA CallIInv ==
  ASSUME IInv, NEW t \in Threads, NEW o \in Operation, Call(t, o)
  PROVE  IInv'
<1>1. /\ link = "up" /\ pc[t] = "idle" /\ pc' = [pc EXCEPT ![t] = "lock"] /\ op' = [op EXCEPT ![t] = o]
      /\ link' = link /\ toServer' = toServer /\ UNCHANGED server /\ taken' = taken /\ issued' = issued
      /\ lock' = lock /\ poisoned' = poisoned /\ id' = id /\ result' = result /\ abandoned' = abandoned
      /\ wire' = wire /\ asked' = asked /\ phase' = phase
  BY DEF Call, server
<1>2. /\ pc \in [Threads -> {"idle", "lock", "write", "read"}] /\ op \in [Threads -> Operation]
      /\ \A s \in Threads : pc[s] \in {"write", "read"} <=> lock = s
  BY DEF IInv, TypeOK
<1>3. lock # t
  BY <1>1, <1>2
<1>4. \A s \in Threads : pc'[s] \in {"write", "read"} <=> lock' = s
  BY <1>1, <1>2
<1>5. TypeOK'
  BY <1>1, <1>2, <1>4 DEF IInv, TypeOK
<1>6. Waiting' = Waiting
  BY <1>1, <1>2, <1>3 DEF Waiting
<1> QED BY <1>1, <1>5, <1>6, ClientKeeps, Counts DEF IInv, CallersOK, Due

LEMMA LockPoisonedIInv ==
  ASSUME IInv, NEW t \in Threads, LockPoisoned(t)
  PROVE  IInv'
<1>1. /\ pc[t] = "lock" /\ pc' = [pc EXCEPT ![t] = "idle"] /\ result' = [result EXCEPT ![t] = "poisoned"]
      /\ link' = link /\ toServer' = toServer /\ UNCHANGED server /\ taken' = taken /\ issued' = issued
      /\ lock = NoThread /\ lock' = lock /\ poisoned' = poisoned /\ id' = id /\ op' = op
      /\ abandoned' = abandoned /\ wire' = wire /\ asked' = asked /\ phase' = phase
  BY DEF LockPoisoned, Ends, server
<1>2. /\ pc \in [Threads -> {"idle", "lock", "write", "read"}] /\ result \in [Threads -> Results]
      /\ \A s \in Threads : pc[s] \in {"write", "read"} <=> lock = s
  BY DEF IInv, TypeOK
<1>3. \A s \in Threads : pc'[s] \in {"write", "read"} <=> lock' = s
  BY <1>1, <1>2
<1>4. result' \in [Threads -> Results]
  BY <1>1, <1>2 DEF Results
<1>5. TypeOK'
  BY <1>1, <1>2, <1>3, <1>4 DEF IInv, TypeOK
<1>6. ~Waiting /\ ~Waiting'
  BY <1>1, ClientAssumption DEF Waiting
<1> QED BY <1>1, <1>5, <1>6, ClientKeeps, Counts DEF IInv, CallersOK, Due

LEMMA LockIInv ==
  ASSUME IInv, NEW t \in Threads, Lock(t)
  PROVE  IInv'
<1>1. /\ pc[t] = "lock" /\ pc' = [pc EXCEPT ![t] = "write"] /\ lock = NoThread /\ lock' = t /\ ~poisoned
      /\ link' = link /\ toServer' = toServer /\ UNCHANGED server /\ taken' = taken /\ issued' = issued
      /\ poisoned' = poisoned /\ id' = id /\ op' = op /\ result' = result
      /\ abandoned' = abandoned /\ wire' = wire /\ asked' = asked /\ phase' = phase
  BY DEF Lock, server
<1>2. /\ pc \in [Threads -> {"idle", "lock", "write", "read"}] /\ NoThread \notin Threads
      /\ \A s \in Threads : pc[s] \in {"write", "read"} <=> lock = s
  BY ClientAssumption DEF IInv, TypeOK
<1>3. \A s \in Threads : pc'[s] \in {"write", "read"} <=> lock' = s
  BY <1>1, <1>2
<1>4. TypeOK'
  BY <1>1, <1>2, <1>3 DEF IInv, TypeOK
<1>5. ~Waiting /\ ~Waiting'
  BY <1>1, <1>2 DEF Waiting
<1>6. link = "up"
  BY <1>1 DEF IInv, CallersOK
<1> QED BY <1>1, <1>4, <1>5, <1>6, ClientKeeps, Counts DEF IInv, CallersOK, Due

LEMMA WriteMessageIInv ==
  ASSUME IInv, NEW t \in Threads, WriteMessage(t)
  PROVE  IInv'
<1> DEFINE m == IF op[t] \in Inferences THEN "inference" ELSE op[t]
<1>1. /\ pc[t] = "write" /\ toServer' = Append(toServer, m)
      /\ link' = link /\ UNCHANGED server /\ taken' = taken /\ poisoned' = poisoned /\ op' = op
      /\ abandoned' = abandoned /\ wire' = wire /\ asked' = asked /\ phase' = phase
      /\ IF op[t] \in Inferences
         THEN issued' = issued + 1 /\ id' = [id EXCEPT ![t] = issued + 1]
         ELSE issued' = issued /\ id' = id
      /\ IF op[t] = "cancel" THEN Returns(t, "sent")
         ELSE pc' = [pc EXCEPT ![t] = "read"] /\ lock' = lock /\ result' = result
  BY DEF WriteMessage, server
<1>2. /\ pc \in [Threads -> {"idle", "lock", "write", "read"}] /\ NoThread \notin Threads
      /\ \A s \in Threads : pc[s] \in {"write", "read"} <=> lock = s
      /\ op \in [Threads -> Operation] /\ id \in [Threads -> 0..issued] /\ result \in [Threads -> Results]
      /\ abandoned \in SUBSET (1..issued) /\ TypeOK /\ op[t] \in Operation
  BY ClientAssumption DEF IInv, TypeOK
<1>3. /\ issued \in Nat /\ asked \in Nat /\ asked <= issued /\ toServer \in Seq(Queued)
      /\ issued = asked + Cardinality(Places(toServer)) /\ Cardinality(abandoned) \in Nat
  BY Counts DEF IInv
<1>4. lock = t
  BY <1>1, <1>2
<1>5. ~Waiting
  BY <1>1, <1>4 DEF Waiting
<1>6. m \in Queued /\ (m = "inference" <=> op[t] \in Inferences)
  BY <1>2 DEF Queued, Operation, Inferences
<1> HIDE DEF m
<1>7. toServer' \in Seq(Queued) /\ issued' = asked' + Cardinality(Places(toServer'))
  <2>1. Cardinality(Places(toServer)) \in Nat
    BY <1>3, PlacesFinite
  <2>2. /\ toServer' \in Seq(Queued)
        /\ m = "inference" => Cardinality(Places(toServer')) = Cardinality(Places(toServer)) + 1
        /\ m # "inference" => Cardinality(Places(toServer')) = Cardinality(Places(toServer))
    BY <1>1, <1>3, <1>6, PlacesAppend
  <2> QED BY <1>1, <1>3, <1>6, <2>1, <2>2
<1>8. link = "up"
  BY <1>1 DEF IInv, CallersOK
<1>9. ~poisoned
  BY <1>2, <1>4 DEF IInv, CallersOK
<1>10. CASE op[t] = "cancel"
  <2>1. Returns(t, "sent") /\ op[t] \notin Inferences /\ issued' = issued /\ id' = id
    BY <1>1, <1>10 DEF Inferences
  <2>2. /\ lock' = NoThread /\ pc' \in [Threads -> {"idle", "lock", "write", "read"}]
        /\ \A s \in Threads : pc'[s] \in {"write", "read"} <=> lock' = s
        /\ result' \in [Threads -> Results] /\ ~Waiting'
    BY <1>1, <1>2, <2>1, ReturnTypes DEF Results
  <2>3. TypeOK'
    BY <1>1, <1>7, <2>1, <2>2 DEF IInv, TypeOK, Queued
  <2>4. Due' = Due
    BY <1>1, <1>5, <2>1, <2>2 DEF Due
  <2>5. CallersOK'
    BY <1>1, <1>8, <1>9, <2>1, <2>2 DEF IInv, CallersOK
  <2> QED BY <1>1, <1>7, <2>3, <2>4, <2>5, ClientKeeps, Counts
<1>11. CASE op[t] # "cancel"
  <2>1. pc' = [pc EXCEPT ![t] = "read"] /\ lock' = lock /\ result' = result
    BY <1>1, <1>11
  <2>2. /\ pc' \in [Threads -> {"idle", "lock", "write", "read"}] /\ pc'[t] = "read"
        /\ \A s \in Threads : pc'[s] \in {"write", "read"} <=> lock' = s
    BY <1>1, <1>2, <2>1
  <2>3. Waiting' <=> op[t] \in Inferences
    BY <1>1, <1>4, <2>1, <2>2 DEF Waiting
  <2>4. CASE op[t] \in Inferences
    <3>1. issued' = issued + 1 /\ id' = [id EXCEPT ![t] = issued + 1]
      BY <1>1, <2>4
    <3>2. issued' \in Nat /\ asked' \in 0..issued' /\ abandoned' \subseteq 1..issued' /\ issued' \notin abandoned' /\ issued' >= 1
      BY <1>1, <1>2, <1>3, <3>1
    <3>3. id' \in [Threads -> 0..issued'] /\ id'[t] = issued'
      BY <1>2, <1>3, <3>1
    <3>4. TypeOK'
      BY <1>1, <1>7, <2>1, <2>2, <3>2, <3>3 DEF IInv, TypeOK, Queued
    <3>5. Due' = Due
      BY <1>1, <1>3, <1>5, <2>3, <2>4, <3>1 DEF Due
    <3>6. CallersOK'
      BY <1>1, <1>4, <1>8, <1>9, <2>1, <3>2, <3>3 DEF IInv, CallersOK
    <3> QED BY <1>1, <1>7, <3>4, <3>5, <3>6, ClientKeeps, Counts
  <2>5. CASE op[t] \notin Inferences
    <3>1. issued' = issued /\ id' = id
      BY <1>1, <2>5
    <3>2. TypeOK'
      BY <1>1, <1>7, <2>1, <2>2, <3>1 DEF IInv, TypeOK, Queued
    <3>3. Due' = Due
      BY <1>1, <1>5, <2>3, <2>5, <3>1 DEF Due
    <3>4. CallersOK'
      BY <1>1, <1>8, <1>9, <2>1, <2>3, <2>5, <3>1 DEF IInv, CallersOK
    <3> QED BY <1>1, <1>7, <3>2, <3>3, <3>4, ClientKeeps, Counts
  <2> QED BY <2>4, <2>5
<1> QED BY <1>10, <1>11

(* What the end of a call preserves, but for what is due *)
LEMMA ReturnMoves ==
  ASSUME IInv, NEW t \in Threads, pc[t] \in {"write", "read"}, NEW outcome \in Results, Returns(t, outcome),
         UNCHANGED <<link, toServer, server, issued, op, id>>,
         taken' \in taken..Len(wire), abandoned' \in SUBSET (1..issued), poisoned' \in BOOLEAN
  PROVE  /\ TypeOK' /\ CallersOK' /\ WireOK' /\ (issued = asked + Cardinality(Places(toServer)))'
         /\ link = "up" /\ ~Waiting' /\ wire' = wire /\ asked' = asked /\ phase' = phase
<1>1. /\ lock' = NoThread /\ pc' \in [Threads -> {"idle", "lock", "write", "read"}]
      /\ \A s \in Threads : pc'[s] \in {"write", "read"} <=> lock' = s
      /\ result' \in [Threads -> Results] /\ ~Waiting'
  BY ReturnTypes DEF IInv
<1>2. wire' = wire /\ asked' = asked /\ phase' = phase
  BY DEF server
<1>3. taken \in Nat /\ Len(wire) \in Nat /\ taken' \in 0..Len(wire) /\ taken <= taken'
  BY Counts
<1>4. TypeOK'
  BY <1>1, <1>2, <1>3 DEF IInv, TypeOK
<1>5. link = "up"
  BY DEF IInv, CallersOK
<1>6. CallersOK'
  BY <1>1, <1>3, <1>5 DEF IInv, CallersOK
<1>7. (issued = asked + Cardinality(Places(toServer)))'
  BY <1>2 DEF IInv
<1>8. WireOK'
  BY <1>2 DEF IInv, WireOK, Upcoming, Rpc!Farewell, Rpc!ReplyTypes
<1> QED BY <1>1, <1>2, <1>4, <1>5, <1>6, <1>7, <1>8

(* A call that ends as it should, or before it asked for anything *)
LEMMA ReturnKeeps ==
  ASSUME IInv, NEW t \in Threads, pc[t] \in {"write", "read"}, NEW outcome \in Results, Returns(t, outcome),
         UNCHANGED <<link, toServer, server, issued, op, id>>,
         taken' \in taken..Len(wire), abandoned' \in SUBSET (1..issued), poisoned' \in BOOLEAN,
         poisoned => poisoned', ~poisoned' => Due' = Due
  PROVE  IInv'
<1>1. TypeOK' /\ CallersOK' /\ (issued = asked + Cardinality(Places(toServer)))'
  BY ReturnMoves
<1>2. taken <= taken'
  BY Counts
<1> QED BY <1>1, <1>2, ClientKeeps

LEMMA WriteFailsIInv ==
  ASSUME IInv, NEW t \in Threads, WriteFails(t)
  PROVE  IInv'
<1>1. /\ pc[t] = "write" /\ Returns(t, "io-error") /\ UNCHANGED <<link, toServer, server, issued, op, id>>
      /\ taken' = taken /\ poisoned' = poisoned /\ abandoned' = abandoned
  BY DEF WriteFails
<1>2. "io-error" \in Results /\ TypeOK
  BY DEF Results, IInv
<1>3. ~Waiting /\ ~Waiting'
  BY <1>1, <1>2, Holder, ReturnTypes DEF Waiting
<1>4. Due' = Due
  BY <1>1, <1>3 DEF Due
<1>5. taken' \in taken..Len(wire) /\ abandoned' \in SUBSET (1..issued) /\ poisoned' \in BOOLEAN
  BY <1>1, Counts DEF IInv, TypeOK
<1> QED BY <1>1, <1>2, <1>4, <1>5, ReturnKeeps

LEMMA SkipFrameIInv ==
  ASSUME IInv, NEW t \in Threads, SkipFrame(t)
  PROVE  IInv'
<1>1. /\ pc[t] = "read" /\ taken < Len(wire) /\ taken' = taken + 1
      /\ UNCHANGED <<link, toServer, server, issued, op, id, abandoned, lock, poisoned, pc, result>>
  BY DEF SkipFrame, Takes
<1>2. wire' = wire /\ asked' = asked /\ phase' = phase
  BY <1>1 DEF server
<1>3. taken \in Nat /\ Len(wire) \in Nat /\ taken' \in 0..Len(wire) /\ taken <= taken' /\ taken' >= 1
  BY <1>1, Counts
<1>4. Waiting' = Waiting /\ Due' = Due
  BY <1>1 DEF Waiting, Due
<1>5. TypeOK'
  BY <1>1, <1>2, <1>3 DEF IInv, TypeOK
<1>6. CallersOK'
  BY <1>1, <1>3, <1>4 DEF IInv, CallersOK
<1>7. (issued = asked + Cardinality(Places(toServer)))'
  BY <1>1, <1>2 DEF IInv
<1> QED BY <1>1, <1>3, <1>4, <1>5, <1>6, <1>7, ClientKeeps

LEMMA CallbackPanicsIInv ==
  ASSUME IInv, NEW t \in Threads, CallbackPanics(t)
  PROVE  IInv'
<1>1. /\ pc[t] = "read" /\ Returns(t, "panicked") /\ UNCHANGED <<link, toServer, server, issued, op, id>>
      /\ taken < Len(wire) /\ taken' = taken + 1 /\ poisoned' = TRUE /\ abandoned' = abandoned
  BY DEF CallbackPanics, Takes
<1>2. taken' \in taken..Len(wire) /\ abandoned' \in SUBSET (1..issued) /\ "panicked" \in Results
  BY <1>1, Counts DEF IInv, TypeOK, Results
<1> QED BY <1>1, <1>2, ReturnKeeps

LEMMA ReadGoodbyeIInv ==
  ASSUME IInv, NEW t \in Threads, ReadGoodbye(t)
  PROVE  IInv'
<1>1. /\ pc[t] = "read" /\ op[t] = "shutdown" /\ Returns(t, "closed")
      /\ UNCHANGED <<link, toServer, server, issued, op, id>>
      /\ taken < Len(wire) /\ taken' = taken + 1 /\ poisoned' = poisoned /\ abandoned' = abandoned
  BY DEF ReadGoodbye, Takes
<1>2. "closed" \in Results /\ TypeOK
  BY DEF Results, IInv
<1>3. ~Waiting /\ ~Waiting'
  BY <1>1, <1>2, Holder, ReturnTypes DEF Waiting, Inferences
<1>4. Due' = Due
  BY <1>1, <1>3 DEF Due
<1>5. taken' \in taken..Len(wire) /\ abandoned' \in SUBSET (1..issued) /\ poisoned' \in BOOLEAN
  BY <1>1, Counts DEF IInv, TypeOK
<1> QED BY <1>1, <1>2, <1>4, <1>5, ReturnKeeps

(* Of an inference that waits, every frame still to come is its own or, at *)
(* worst, of as many requests before it as were given up                   *)
LEMMA WaitingReads ==
  ASSUME IInv, NEW t \in Threads, pc[t] = "read", op[t] \in Inferences
  PROVE  /\ lock = t /\ link = "up" /\ ~poisoned /\ Waiting
         /\ id[t] = issued /\ issued \notin abandoned /\ issued \in 1..issued
         /\ Due = issued - Cardinality(abandoned)
         /\ \A j \in (taken + 1)..Len(wire) : wire[j] # Rpc!Farewell => wire[j].req >= Due /\ wire[j].req <= issued
<1>1. lock = t /\ lock # NoThread
  BY Holder DEF IInv
<1>2. link = "up" /\ ~poisoned
  BY <1>1 DEF IInv, CallersOK
<1>3. Waiting
  BY <1>1 DEF Waiting
<1>4. id[t] = issued /\ issued \notin abandoned
  BY <1>1, <1>3 DEF IInv, CallersOK
<1>5. issued \in Nat /\ asked \in Nat /\ asked <= issued /\ Cardinality(abandoned) \in Nat /\ taken \in Nat /\ Len(wire) \in Nat
  BY Counts
<1>6. Due = issued - Cardinality(abandoned)
  BY <1>3, <1>5 DEF Due
<1>7. ASSUME NEW j \in (taken + 1)..Len(wire), wire[j] # Rpc!Farewell
      PROVE  wire[j].req >= Due /\ wire[j].req <= issued
  <2>1. wire[j].req >= Due
    BY <1>2, <1>7 DEF IInv, UnreadOK
  <2>2. j \in 1..Len(wire)
    BY <1>5
  <2>3. wire[j].req <= asked /\ wire[j].req \in Nat
    BY <2>2, Counts DEF IInv, WireOK
  <2> QED BY <1>5, <2>1, <2>3
<1>8. issued >= 1
  BY <1>3 DEF IInv, CallersOK
<1>9. issued \in 1..issued
  BY <1>5, <1>8
<1> QED BY <1>1, <1>2, <1>3, <1>4, <1>6, <1>7, <1>9

LEMMA ReadEofIInv ==
  ASSUME IInv, NEW t \in Threads, ReadEof(t)
  PROVE  IInv'
<1>1. PICK outcome \in {"closed", "disconnected", "io-error"} :
        /\ pc[t] = "read" /\ phase = "closed" /\ taken = Len(wire) /\ Returns(t, outcome)
        /\ UNCHANGED <<link, toServer, server, issued, op, id>>
        /\ taken' = taken /\ poisoned' = poisoned /\ abandoned' = abandoned
  BY DEF ReadEof
<1>2. outcome \in Results
  BY DEF Results
<1>3. taken' \in taken..Len(wire) /\ abandoned' \in SUBSET (1..issued) /\ poisoned' \in BOOLEAN
  BY <1>1, Counts DEF IInv, TypeOK
<1>4. /\ TypeOK' /\ CallersOK' /\ WireOK' /\ (issued = asked + Cardinality(Places(toServer)))'
      /\ wire' = wire /\ phase' = phase
  BY <1>1, <1>2, <1>3, ReturnMoves
<1>5. (taken' + 1)..Len(wire) = {}
  BY <1>1, Counts
<1>6. UnreadOK'
  BY <1>4, <1>5 DEF UnreadOK
<1>7. UpcomingOK'
  BY <1>1, <1>4 DEF UpcomingOK
<1> QED BY <1>4, <1>6, <1>7 DEF IInv

(* What is left unread behind a reply belongs to later requests *)
LEMMA ReadReplyIInv ==
  ASSUME IInv, NEW t \in Threads, ReadReply(t)
  PROVE  IInv'
<1>1. /\ pc[t] = "read" /\ op[t] \in Inferences
      /\ taken < Len(wire) /\ wire[taken + 1].type \in Rpc!ReplyTypes /\ taken' = taken + 1
      /\ Returns(t, IF wire[taken + 1].type = "complete" THEN "complete" ELSE "server-error")
      /\ UNCHANGED <<link, toServer, server, issued, op, id>>
      /\ poisoned' = poisoned /\ abandoned' = abandoned
  BY DEF ReadReply, Takes
<1>2. (IF wire[taken + 1].type = "complete" THEN "complete" ELSE "server-error") \in Results
  BY DEF Results
<1>3. /\ taken \in Nat /\ Len(wire) \in Nat /\ issued \in Nat /\ Cardinality(abandoned) \in Nat
      /\ \A j \in 1..Len(wire) : wire[j].req \in Nat
      /\ Upcoming \in Nat
  BY Counts
<1>4. taken' \in taken..Len(wire) /\ abandoned' \in SUBSET (1..issued) /\ poisoned' \in BOOLEAN
  BY <1>1, <1>3 DEF IInv, TypeOK
<1>5. /\ TypeOK' /\ CallersOK' /\ WireOK' /\ (issued = asked + Cardinality(Places(toServer)))'
      /\ ~Waiting' /\ wire' = wire /\ asked' = asked /\ phase' = phase
  BY <1>1, <1>2, <1>4, ReturnMoves
<1> DEFINE f == wire[taken + 1]
           d == issued - Cardinality(abandoned)
<1>6. taken + 1 \in 1..Len(wire) /\ taken + 1 \in (taken + 1)..Len(wire)
  BY <1>1, <1>3
<1>7. f.req \in Nat /\ d \in Int /\ Due' = d + 1
  BY <1>1, <1>3, <1>5, <1>6 DEF Due
<1>8. f # Rpc!Farewell
  BY <1>1 DEF Rpc!Farewell, Rpc!ReplyTypes
<1>9. f.req >= d
  BY <1>1, <1>6, <1>8, WaitingReads
<1>10. UnreadOK'
  <2>1. ASSUME NEW j \in (taken' + 1)..Len(wire), wire[j] # Rpc!Farewell
        PROVE  wire[j].req >= d + 1
    <3>1. j \in 1..Len(wire) /\ taken + 1 < j
      BY <1>1, <1>3
    <3>2. f.req < wire[j].req
      BY <1>1, <1>6, <2>1, <3>1 DEF IInv, WireOK
    <3>3. wire[j].req \in Nat
      BY <1>3, <3>1
    <3> HIDE DEF f, d
    <3> QED BY <1>7, <1>9, <3>2, <3>3
  <2> QED BY <1>5, <1>7, <2>1 DEF UnreadOK, Rpc!Farewell
<1>11. UpcomingOK'
  <2>1. f.req < Upcoming
    BY <1>1, <1>6 DEF IInv, WireOK
  <2>2. Upcoming' = Upcoming
    BY <1>5 DEF Upcoming
  <2>3. Upcoming >= d + 1
    <3> HIDE DEF f, d
    <3> QED BY <1>3, <1>7, <1>9, <2>1
  <2> QED BY <1>7, <2>2, <2>3 DEF UpcomingOK
<1> QED BY <1>5, <1>10, <1>11 DEF IInv

(* A call given up leaves one reply more behind *)
LEMMA ReadInterruptedIInv ==
  ASSUME IInv, NEW t \in Threads, ReadInterrupted(t)
  PROVE  IInv'
<1>1. /\ pc[t] = "read" /\ Returns(t, "io-error") /\ UNCHANGED <<link, toServer, server, issued, op, id>>
      /\ taken' = taken /\ poisoned' = poisoned
      /\ abandoned' = IF op[t] \in Inferences THEN abandoned \cup {id[t]} ELSE abandoned
  BY DEF ReadInterrupted
<1>2. "io-error" \in Results /\ TypeOK
  BY DEF Results, IInv
<1>3. /\ issued \in Nat /\ IsFiniteSet(abandoned) /\ Cardinality(abandoned) \in Nat
      /\ taken' \in taken..Len(wire) /\ poisoned' \in BOOLEAN /\ abandoned \in SUBSET (1..issued)
  BY <1>1, Counts DEF IInv, TypeOK
<1>4. ~Waiting'
  BY <1>1, <1>2, ReturnTypes
<1>5. CASE op[t] \in Inferences
  <2>1. id[t] = issued /\ issued \notin abandoned /\ issued \in 1..issued /\ Due = issued - Cardinality(abandoned)
    BY <1>1, <1>5, WaitingReads
  <2>2. abandoned' = abandoned \cup {issued} /\ abandoned' \in SUBSET (1..issued)
    BY <1>1, <1>3, <1>5, <2>1
  <2>3. Cardinality(abandoned') = Cardinality(abandoned) + 1
    BY <1>3, <2>1, <2>2, FS_AddElement
  <2>4. Due' = Due
    <3>1. Due' = (issued - (Cardinality(abandoned) + 1)) + 1
      BY <1>1, <1>4, <2>3 DEF Due
    <3> QED BY <1>3, <2>1, <3>1
  <2> QED BY <1>1, <1>2, <1>3, <2>2, <2>4, ReturnKeeps
<1>6. CASE op[t] \notin Inferences
  <2>1. lock = t
    BY <1>1, <1>2, Holder
  <2>2. ~Waiting
    BY <1>6, <2>1 DEF Waiting
  <2>3. abandoned' = abandoned
    BY <1>1, <1>6
  <2>4. Due' = Due
    BY <1>1, <1>4, <2>2, <2>3 DEF Due
  <2> QED BY <1>1, <1>2, <1>3, <2>3, <2>4, ReturnKeeps
<1> QED BY <1>5, <1>6

-----------------------------------------------------------------------------
LEMMA StutterIInv ==
  ASSUME IInv, UNCHANGED vars
  PROVE  IInv'
<1>1. /\ wire' = wire /\ asked' = asked /\ phase' = phase /\ link' = link /\ toServer' = toServer
      /\ taken' = taken /\ issued' = issued /\ lock' = lock /\ poisoned' = poisoned /\ pc' = pc
      /\ op' = op /\ id' = id /\ result' = result /\ abandoned' = abandoned
  BY DEF vars
<1>2. Waiting' = Waiting /\ Upcoming' = Upcoming /\ Due' = Due
  BY <1>1 DEF Waiting, Upcoming, Due
<1>3. TypeOK'
  BY <1>1 DEF IInv, TypeOK
<1>4. WireOK'
  BY <1>1, <1>2 DEF IInv, WireOK, Rpc!Farewell, Rpc!ReplyTypes
<1>5. CallersOK'
  BY <1>1, <1>2 DEF IInv, CallersOK
<1>6. UnreadOK' /\ UpcomingOK'
  BY <1>1, <1>2 DEF IInv, UnreadOK, UpcomingOK, Rpc!Farewell
<1>7. (issued = asked + Cardinality(Places(toServer)))'
  BY <1>1 DEF IInv
<1> QED BY <1>3, <1>4, <1>5, <1>6, <1>7 DEF IInv

LEMMA NextIInv == IInv /\ [Next]_vars => IInv'
<1> SUFFICES ASSUME IInv, [Next]_vars PROVE IInv'
  OBVIOUS
<1>1. CASE SendHello \/ Connected
  BY <1>1, SendHelloIInv, ConnectedIInv
<1>2. ASSUME NEW t \in Threads, NEW o \in Operation, Call(t, o) PROVE IInv'
  BY <1>2, CallIInv
<1>3. ASSUME NEW t \in Threads, Thread(t) PROVE IInv'
  BY <1>3, LockPoisonedIInv, LockIInv, WriteMessageIInv, WriteFailsIInv, SkipFrameIInv, CallbackPanicsIInv,
     ReadReplyIInv, ReadGoodbyeIInv, ReadEofIInv, ReadInterruptedIInv DEF Thread
<1>4. CASE ServerReads \/ ServerWrites \/ ServerDies
  BY <1>4, ServerReadsIInv, ServerWritesIInv, ServerDiesIInv
<1>5. CASE UNCHANGED vars
  BY <1>5, StutterIInv
<1> QED BY <1>1, <1>2, <1>3, <1>4, <1>5 DEF Next

LEMMA SpecIInv == Spec => []IInv
BY InitIInv, NextIInv, PTL DEF Spec

(* Only the holder of the mutex is between lock and return (sync.rs: the    *)
(* guard lives for the whole call), however many threads call; the server   *)
(* never accepts more than was issued.                                      *)
THEOREM ClientTypes == Spec => []TypeOK
<1>1. IInv => TypeOK
  BY DEF IInv
<1> QED BY <1>1, SpecIInv, PTL

(* A frame that an inference reads while it waits for its terminal frame    *)
(* (the loops of inference and inference_stream) is its own, for any number *)
(* of threads, calls, panics and dead servers; each interrupted call shifts *)
(* it by one at most.                                                       *)
THEOREM FramesAreForTheirCaller == Spec => FramesReachTheirCaller
<1> DEFINE Reads(t) ==
      (pc[t] = "read" /\ op[t] \in Inferences /\ taken' # taken) =>
         wire[taken'] = Rpc!Farewell \/ wire[taken'].req \in (id[t] - Cardinality(abandoned))..id[t]
<1>1. IInv /\ [Next]_vars => [\A t \in Threads : Reads(t)]_vars
  <2> SUFFICES ASSUME IInv, Next, NEW t \in Threads,
                      pc[t] = "read", op[t] \in Inferences, taken' # taken, wire[taken'] # Rpc!Farewell
               PROVE  wire[taken'].req \in (id[t] - Cardinality(abandoned))..id[t]
    OBVIOUS
  <2>1. /\ taken \in Nat /\ Len(wire) \in Nat /\ issued \in Nat /\ Cardinality(abandoned) \in Nat
        /\ \A j \in 1..Len(wire) : wire[j].req \in Nat
    BY Counts
  <2>2. /\ id[t] = issued /\ link = "up" /\ Due = issued - Cardinality(abandoned)
        /\ \A j \in (taken + 1)..Len(wire) :
             wire[j] # Rpc!Farewell => wire[j].req >= Due /\ wire[j].req <= issued
    BY WaitingReads
  <2>3. taken' = taken + 1 /\ taken < Len(wire)
    BY <2>2 DEF Next, SendHello, Connected, Call, Thread, LockPoisoned, Lock, WriteMessage, WriteFails,
                SkipFrame, CallbackPanics, ReadReply, ReadGoodbye, ReadEof, ReadInterrupted, Takes,
                ServerReads, ServerWrites, ServerDies, Receives, threads
  <2>4. taken + 1 \in (taken + 1)..Len(wire) /\ taken + 1 \in 1..Len(wire)
    BY <2>1, <2>3
  <2>5. wire[taken'].req >= Due /\ wire[taken'].req <= issued /\ wire[taken'].req \in Nat
    BY <2>1, <2>2, <2>3, <2>4
  <2> QED BY <2>1, <2>2, <2>5
<1> QED BY <1>1, SpecIInv, PTL DEF Spec, FramesReachTheirCaller

=============================================================================
