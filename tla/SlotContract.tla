---------------------------- MODULE SlotContract -----------------------------
(***************************************************************************)
(* What SlotHandle::run_stream promises the connection handler of one      *)
(* request at a time: a request the slot cannot serve is refused before    *)
(* any event; otherwise the progress events queued, gen_start and gen_done *)
(* come in this order, the chunks between the last two, and then the       *)
(* answer, whose text is what the chunks add up to.  Without a sink the    *)
(* same happens unseen.  TextSlots implements this.                        *)
(***************************************************************************)
EXTENDS Sequences, SequencesExt

CONSTANT Text   \* what a chunk or an answer may hold

VARIABLES
  stage,      \* "idle", "accepted", or the last progress event
  streamed,   \* the request has a sink
  progress,   \* the progress events the sink got
  delivered,  \* the text of the chunks the sink got
  answer      \* of the last request: <<>>, <<"error">> or <<"ok", text>>

vars == <<stage, streamed, progress, delivered, answer>>

Init == stage = "idle" /\ streamed = FALSE /\ progress = <<>> /\ delivered = <<>> /\ answer = <<>>

Accept ==
  /\ stage = "idle" /\ stage' = "accepted"
  /\ streamed' \in BOOLEAN /\ progress' = <<>> /\ delivered' = <<>> /\ answer' = <<>>

Report(from, event) ==
  /\ stage = from /\ stage' = event
  /\ progress' = IF streamed THEN Append(progress, event) ELSE progress
  /\ UNCHANGED <<streamed, delivered, answer>>

Chunk ==
  /\ stage = "gen_start" /\ streamed
  /\ delivered' \in Text /\ IsPrefix(delivered, delivered')
  /\ UNCHANGED <<stage, streamed, progress, answer>>

Complete ==
  /\ stage = "gen_done" /\ stage' = "idle"
  /\ answer' \in {"ok"} \X Text
  /\ streamed => answer'[2] = delivered
  /\ UNCHANGED <<streamed, progress, delivered>>

(* A request is refused or its generation fails; never in between *)
Fail ==
  /\ stage \in {"accepted", "gen_start", "gen_done"} /\ stage' = "idle"
  /\ answer' = <<"error">>
  /\ UNCHANGED <<streamed, progress, delivered>>

Next ==
  \/ Accept \/ Chunk \/ Complete \/ Fail
  \/ Report("accepted", "queued")
  \/ Report("queued", "gen_start")
  \/ Report("gen_start", "gen_done")

Spec == Init /\ [][Next]_vars

=============================================================================
