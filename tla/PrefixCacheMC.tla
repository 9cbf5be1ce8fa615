---------------------------- MODULE PrefixCacheMC ----------------------------
(***************************************************************************)
(* Small instances of PrefixCache for TLC.                                 *)
(***************************************************************************)
EXTENDS PrefixCache, TLC

U(x) == [role |-> "user", text |-> x]
A(x) == [role |-> "assistant", text |-> x]
T(x) == [role |-> "tool", text |-> x]
S(x) == [role |-> "system", text |-> x]

MCText    == {"u1", "u2", "a1", "a2", "t1", "s1"}
MCReplies == {"a1", "a2"}
OneReply  == {"a1"}

Ask(session, prompt, turns) ==
  [session |-> session, prompt |-> prompt, sampler |-> "warm", turns |-> turns]

(***************************************************************************)
(* On one session: a conversation, its continuation by a tool result under *)
(* an override that is empty, one behind an answer the model never gave,   *)
(* and a different conversation, longer than what is pinned for the first. *)
(* Beside them a transcript that ends in the assistant's turn, which a     *)
(* cached prefix may cover, and a continuation under another prompt.       *)
(***************************************************************************)
SharedSession ==
  {Ask("x", NoPrompt, <<U("u1")>>), Ask("x", "", <<U("u1"), A("a1"), T("t1")>>),
   Ask("x", NoPrompt, <<S("s1"), U("u2"), U("u1")>>),
   Ask("x", NoPrompt, <<U("u1"), A("a2"), U("u2")>>),
   Ask(NoSession, NoPrompt, <<U("u1"), A("a1")>>),
   Ask(NoSession, "sys", <<U("u1"), A("a1"), U("u2")>>)}

(***************************************************************************)
(* The same conversation under the default prompt, under an override, and  *)
(* under an override that is empty.                                        *)
(***************************************************************************)
PromptOverrides == {Ask("x", p, t) : p \in {NoPrompt, "", "sys"},
                                     t \in {<<U("u1")>>, <<U("u1"), A("a1"), U("u2")>>}}

OneQuestion == {Ask(NoSession, NoPrompt, <<U("u1")>>)}

Symmetry == Permutations(Workers)

=============================================================================
