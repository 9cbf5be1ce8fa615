----------------------------- MODULE SyncClient ------------------------------
(***************************************************************************)
(* SyncClient (model_api_client/src/sync.rs): threads that share one       *)
(* connection behind one mutex, against a server that behaves as           *)
(* StreamingRpc says (which Connection implements).                        *)
(*                                                                         *)
(* A call takes the mutex, writes one message and, but for cancel, reads   *)
(* frames until the one that ends it.  The mutex is held throughout, the   *)
(* callback of inference_stream included.  The Node bindings run each call *)
(* on a thread of its own, so calls overlap.  No read or write times out.  *)
(***************************************************************************)
EXTENDS Integers, FiniteSets, Sequences

CONSTANTS
  Threads,        \* threads that share the client
  NoThread,       \* the mutex is free
  MaxCalls,       \* bound: calls made
  MaxEvents,      \* bound: events of one request
  MaxPanics,      \* bound: callbacks that panic
  MaxInterrupts   \* bound: reads cut short by a signal handler

ASSUME ClientAssumption ==
  /\ NoThread \notin Threads
  /\ MaxCalls \in Nat /\ MaxEvents \in Nat /\ MaxPanics \in Nat /\ MaxInterrupts \in Nat

Inferences == {"inference", "inference_stream"}
Operation  == Inferences \cup {"cancel", "shutdown"}

VARIABLES
  link,        \* connect: "new", "greeting", "up" or "failed"
  toServer,    \* messages on their way to the server
  wire,        \* frames the server has written
  taken,       \* how many of them have been read
  asked,       \* inferences the server has accepted
  phase,       \* the server's side of the connection
  issued,      \* inferences written by the client
  lock,        \* who holds the mutex
  poisoned,    \* a thread panicked while it held it
  pc,          \* where each thread is in its call
  op,          \* which call it is
  id,          \* the number of its inference on this connection
  result,      \* how its last call ended
  abandoned,   \* inferences whose call was interrupted before the reply
  calls, panics

vars == <<link, toServer, wire, taken, asked, phase, issued, lock, poisoned,
          pc, op, id, result, abandoned, calls, panics>>

server == <<wire, asked, phase>>
budget == <<calls, panics>>

Rpc == INSTANCE StreamingRpc WITH Numbers <- 1..MaxEvents

Frame == [type : {"hello", "goodbye", "event"} \cup Rpc!ReplyTypes, req : Nat, n : Nat]

Results == {"none", "complete", "server-error", "sent", "closed", "disconnected",
            "io-error", "poisoned", "panicked"}

Init ==
  /\ link = "new" /\ toServer = <<>>
  /\ wire = <<>> /\ taken = 0 /\ asked = 0 /\ phase = "new"
  /\ issued = 0 /\ lock = NoThread /\ poisoned = FALSE
  /\ pc = [t \in Threads |-> "idle"]
  /\ op = [t \in Threads |-> "cancel"]
  /\ id = [t \in Threads |-> 0]
  /\ result = [t \in Threads |-> "none"]
  /\ abandoned = {} /\ calls = 0 /\ panics = 0

-----------------------------------------------------------------------------
(***************************************************************************)
(* connect.                                                                *)
(***************************************************************************)

SendHello ==
  /\ link = "new" /\ phase # "closed" /\ link' = "greeting"
  /\ toServer' = Append(toServer, "hello")
  /\ UNCHANGED <<server, taken, issued, lock, poisoned, pc, op, id, result, abandoned, budget>>

(* Hello of our version, or ProtocolVersion, Server, Disconnected or Io *)
Connected ==
  /\ link = "greeting"
  /\ \/ /\ taken < Len(wire)
        /\ taken' = taken + 1
        /\ link' = IF wire[taken'] = Rpc!Greeting THEN "up" ELSE "failed"
     \/ /\ taken = Len(wire) /\ (phase = "closed" \/ MaxInterrupts > 0)
        /\ link' = "failed"
        /\ UNCHANGED taken
  /\ UNCHANGED <<toServer, server, issued, lock, poisoned, pc, op, id, result, abandoned, budget>>

-----------------------------------------------------------------------------
(***************************************************************************)
(* A call: lock, write, read.                                              *)
(***************************************************************************)

Call(t, o) ==
  /\ link = "up" /\ calls < MaxCalls
  /\ pc[t] = "idle" /\ pc' = [pc EXCEPT ![t] = "lock"]
  /\ op' = [op EXCEPT ![t] = o]
  /\ calls' = calls + 1
  /\ UNCHANGED <<link, toServer, server, taken, issued, lock, poisoned, id, result, abandoned, panics>>

Ends(t, outcome) ==
  /\ pc' = [pc EXCEPT ![t] = "idle"]
  /\ result' = [result EXCEPT ![t] = outcome]

(* The guard goes out of scope *)
Returns(t, outcome) == lock' = NoThread /\ Ends(t, outcome)

(* Mutant: the guard taken out of a PoisonError *)
LockPoisoned_Recovered(t) ==
  /\ pc[t] = "lock" /\ lock = NoThread /\ poisoned
  /\ lock' = t /\ pc' = [pc EXCEPT ![t] = "write"]
  /\ UNCHANGED <<link, toServer, server, taken, issued, poisoned, op, id, result, abandoned, budget>>

(* "client mutex poisoned" *)
LockPoisoned(t) ==
  /\ pc[t] = "lock" /\ lock = NoThread /\ poisoned
  /\ Ends(t, "poisoned")
  /\ UNCHANGED <<link, toServer, server, taken, issued, lock, poisoned, op, id, abandoned, budget>>

(* Mutant: cancel does not wait for the mutex *)
Lock_CancelSkips(t) ==
  /\ pc[t] = "lock" /\ ~poisoned
  /\ lock = NoThread \/ op[t] = "cancel"
  /\ lock' = IF op[t] = "cancel" THEN lock ELSE t
  /\ pc' = [pc EXCEPT ![t] = "write"]
  /\ UNCHANGED <<link, toServer, server, taken, issued, poisoned, op, id, result, abandoned, budget>>

Lock(t) ==
  /\ pc[t] = "lock" /\ lock = NoThread /\ ~poisoned
  /\ lock' = t /\ pc' = [pc EXCEPT ![t] = "write"]
  /\ UNCHANGED <<link, toServer, server, taken, issued, poisoned, op, id, result, abandoned, budget>>

WriteMessage(t) ==
  /\ pc[t] = "write" /\ phase # "closed"
  /\ toServer' = Append(toServer, IF op[t] \in Inferences THEN "inference" ELSE op[t])
  /\ IF op[t] \in Inferences
     THEN issued' = issued + 1 /\ id' = [id EXCEPT ![t] = issued + 1]
     ELSE UNCHANGED <<issued, id>>
  /\ IF op[t] = "cancel" THEN Returns(t, "sent")
     ELSE pc' = [pc EXCEPT ![t] = "read"] /\ UNCHANGED <<lock, result>>
  /\ UNCHANGED <<link, server, taken, poisoned, op, abandoned, budget>>

WriteFails(t) ==
  /\ pc[t] = "write" /\ phase = "closed"
  /\ Returns(t, "io-error")
  /\ UNCHANGED <<link, toServer, server, taken, issued, poisoned, op, id, abandoned, budget>>

(* The next frame, if there is one and it is of these types *)
Takes(t, types) ==
  /\ pc[t] = "read"
  /\ taken < Len(wire) /\ wire[taken + 1].type \in types
  /\ taken' = taken + 1
  /\ UNCHANGED <<link, toServer, server, issued, op, id, abandoned, calls>>

(* Events go to the callback or nowhere; greetings, farewells and, while it *)
(* waits for Goodbye, replies are skipped                                   *)
SkipFrame(t) ==
  /\ \/ Takes(t, {"event", "hello"})
     \/ op[t] \in Inferences /\ Takes(t, {"goodbye"})
     \/ op[t] = "shutdown" /\ Takes(t, Rpc!ReplyTypes)
  /\ UNCHANGED <<lock, poisoned, pc, result, panics>>

(* The callback unwinds through inference_stream and poisons the mutex *)
CallbackPanics(t) ==
  /\ op[t] = "inference_stream" /\ Takes(t, {"event"})
  /\ panics < MaxPanics /\ panics' = panics + 1
  /\ Returns(t, "panicked")
  /\ poisoned' = TRUE

ReadReply(t) ==
  /\ op[t] \in Inferences /\ Takes(t, Rpc!ReplyTypes)
  /\ Returns(t, IF wire[taken + 1].type = "complete" THEN "complete" ELSE "server-error")
  /\ UNCHANGED <<poisoned, panics>>

ReadGoodbye(t) ==
  /\ op[t] = "shutdown" /\ Takes(t, {"goodbye"})
  /\ Returns(t, "closed")
  /\ UNCHANGED <<poisoned, panics>>

(* Mutant: end of file taken for a read to be tried again *)
ReadEof_Retried(t) ==
  /\ pc[t] = "read" /\ phase = "closed" /\ taken = Len(wire)
  /\ UNCHANGED vars

(* At the end of what was written, which may be inside a frame *)
ReadEof(t) ==
  /\ pc[t] = "read" /\ phase = "closed" /\ taken = Len(wire)
  /\ \E cut \in BOOLEAN :
       Returns(t, IF cut THEN "io-error" ELSE IF op[t] = "shutdown" THEN "closed" ELSE "disconnected")
  /\ UNCHANGED <<link, toServer, server, taken, issued, poisoned, op, id, abandoned, budget>>

(* The first byte of a header is read with `read', which is not retried when *)
(* a signal interrupts it (read_exact is): the call returns, its reply does  *)
(* not                                                                       *)
ReadInterrupted(t) ==
  /\ pc[t] = "read" /\ taken = Len(wire) /\ phase # "closed"
  /\ Cardinality(abandoned) < MaxInterrupts
  /\ abandoned' = IF op[t] \in Inferences THEN abandoned \cup {id[t]} ELSE abandoned
  /\ Returns(t, "io-error")
  /\ UNCHANGED <<link, toServer, server, taken, issued, poisoned, op, id, budget>>

Thread(t) ==
  \/ LockPoisoned(t) \/ Lock(t)
  \/ WriteMessage(t) \/ WriteFails(t)
  \/ SkipFrame(t) \/ CallbackPanics(t) \/ ReadReply(t) \/ ReadGoodbye(t)
  \/ ReadEof(t) \/ ReadInterrupted(t)

-----------------------------------------------------------------------------
(***************************************************************************)
(* The server, as StreamingRpc describes it.                               *)
(***************************************************************************)

threads == <<link, taken, issued, lock, poisoned, pc, op, id, result, abandoned, budget>>

Receives(m) ==
  /\ toServer # <<>> /\ Head(toServer) = m
  /\ toServer' = Tail(toServer)
  /\ UNCHANGED threads

ServerReads ==
  \/ Receives("hello") /\ (Rpc!Greet \/ Rpc!Reject)
  \/ Receives("inference") /\ Rpc!Ask
  \/ Receives("cancel") /\ phase = "idle" /\ UNCHANGED server
  \/ Receives("shutdown") /\ Rpc!Leave

ServerWrites ==
  /\ \/ \E n \in 1..MaxEvents : Rpc!Notify(n)
     \/ \E type \in Rpc!ReplyTypes : Rpc!Answer(type)
  /\ UNCHANGED <<toServer, threads>>

ServerDies == Rpc!Close /\ UNCHANGED <<toServer, threads>>

-----------------------------------------------------------------------------
Next ==
  \/ SendHello \/ Connected
  \/ \E t \in Threads : \/ \E o \in Operation : Call(t, o)
                        \/ Thread(t)
  \/ ServerReads \/ ServerWrites \/ ServerDies

Spec == Init /\ [][Next]_vars

ThreadsFair == WF_vars(Connected) /\ \A t \in Threads : WF_vars(Thread(t))

(* Threads are scheduled; the server may take as long as it likes *)
ThreadFairSpec == Spec /\ ThreadsFair

(* The server reads what it is sent and answers what it has accepted, which *)
(* Connection shows of handle_client                                        *)
FairSpec == Spec /\ ThreadsFair /\ WF_vars(ServerReads) /\ WF_vars(ServerWrites)

-----------------------------------------------------------------------------
(***************************************************************************)
(* Properties.                                                             *)
(***************************************************************************)

(* Types, and who may be between the lock and the return of a call *)
TypeOK ==
  /\ link \in {"new", "greeting", "up", "failed"}
  /\ toServer \in Seq(Operation \cup {"hello"})
  /\ wire \in Seq(Frame) /\ taken \in 0..Len(wire) /\ asked \in 0..issued /\ issued \in Nat
  /\ phase \in {"new", "idle", "busy", "closed"}
  /\ lock \in Threads \cup {NoThread} /\ poisoned \in BOOLEAN
  /\ pc \in [Threads -> {"idle", "lock", "write", "read"}]
  /\ \A t \in Threads : pc[t] \in {"write", "read"} <=> lock = t
  /\ op \in [Threads -> Operation] /\ id \in [Threads -> 0..issued]
  /\ result \in [Threads -> Results]
  /\ abandoned \subseteq 1..issued

(* The frame an inference reads, and it reads every one that comes, belongs *)
(* to it: threads that overlap, calls that end in an error and callbacks    *)
(* that panic never shift the replies by one.  Only a call cut short by a   *)
(* signal does, and then by no more than the reply it left behind (or, for  *)
(* an interrupted shutdown, the farewell it did not wait for).              *)
FramesReachTheirCaller ==
  [][\A t \in Threads :
       (pc[t] = "read" /\ op[t] \in Inferences /\ taken' # taken) =>
          wire[taken'] = Rpc!Farewell \/ wire[taken'].req \in (id[t] - Cardinality(abandoned))..id[t]]_vars

(* Every call returns, whatever other threads do and whenever the server    *)
(* dies: the mutex is never left locked and end of file never waited on.    *)
CallsReturn == \A t \in Threads : pc[t] # "idle" ~> pc[t] = "idle"

(* "Each call writes a ClientMessage and reads ServerMessages until the     *)
(* terminal frame for that request arrives" (sync.rs).                      *)
ReplyIsForRequest ==
  [][\A t \in Threads :
       (op[t] \in Inferences /\ pc[t] = "read" /\ result'[t] \in {"complete", "server-error"}
          /\ pc'[t] = "idle") => wire[taken'].req = id[t]]_vars

=============================================================================
