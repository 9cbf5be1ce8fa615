--------------------------- MODULE LlamaSessionMC ----------------------------
(***************************************************************************)
(* A context of seven cells and batches of two tokens: prompts span up to  *)
(* three batches and the context fills within two or three requests.       *)
(***************************************************************************)
EXTENDS LlamaSession

=============================================================================
