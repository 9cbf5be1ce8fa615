----------------------------- MODULE TextSlotsMC -----------------------------
(***************************************************************************)
(* Reads of up to four bytes and chunks of four, against characters of one *)
(* to four bytes; answers whose markers nest, repeat and lack their        *)
(* partner, with arguments that are strict, repaired, rescued, refused and *)
(* the ones the rescue panics on; command lines of up to two options       *)
(* beside --socket.                                                        *)
(***************************************************************************)
EXTENDS TextSlots

Q == Quote

Arguments == [strict  |-> <<"{", Q, "n", Q, ":", "1", "}">>,
              leaked  |-> <<"{", "n", ":", "leak", "w", "leak", "}">>,
              bare    |-> <<"{", "n", ":", "w", " ", "w", "}">>,
              hopeless |-> <<"{", "n", ":", "w", ",", "w", "}">>,
              panic   |-> <<"{", Q, ":", "w", "}">>]

CallOf(name, args) == <<"open", "call:">> \o name \o args \o <<"close">>

MCOutputs ==
  {<<>>, <<"n", "U", "T", "w", "F">>, <<"F", "U", "U", "n", "n", "n">>}
    \cup {CallOf(<<"n">>, Arguments[k]) : k \in DOMAIN Arguments}
    \cup {CallOf(<<"n">>, Arguments.hopeless) \o CallOf(<<"w">>, Arguments.strict),
          <<"open">> \o CallOf(<<"w">>, Arguments.strict) \o <<"open", "n", "close">>,
          <<"close", "open", "n", "close", "close", "open", "w">>,
          <<"open", "close">>, <<"open", " ", "U", "n", "close">>, <<"open", "call:", "{", "}", "close">>,
          <<"open", "~", "close", "open", "n", "close">>}

Says(role, content) == [role |-> role, content |-> content]

Asked ==
  {[kind |-> "text", text |-> <<"n", "w">>], [kind |-> "audio"],
   [kind |-> "turns", turns |-> <<>>],
   [kind |-> "turns", turns |-> <<Says("system", <<"n">>), Says("user", <<"w">>)>>],
   [kind |-> "turns", turns |-> <<Says("user", <<"n", "n">>), Says("assistant", <<"w">>), Says("user", <<"w", "n">>)>>]}

MCRequests ==
  {[input |-> i, tools |-> t, results |-> r, mode |-> m, system |-> s, session |-> "s1", stream |-> b] :
     i \in Asked, t \in {<<>>, <<<<"w">>>>}, r \in {<<>>, <<"r1", "r2">>},
     m \in {"Auto"}, s \in {<<>>, <<"1">>}, b \in BOOLEAN}
  \cup {[input |-> [kind |-> "text", text |-> <<>>], tools |-> t, results |-> <<"r1">>, mode |-> m,
         system |-> <<>>, session |-> "none", stream |-> TRUE] :
           t \in {<<>>, <<<<"w">>>>}, m \in {"Server", "Client"}}

Options ==
  {<<>>, <<"--model", "path">>, <<"--model">>, <<"--llama-bin", "path">>,
   <<"--backend", "subprocess">>, <<"--backend", "llama-cpp">>, <<"--backend", "litert-lm">>, <<"--backend", "path">>,
   <<"--backend">>, <<"--litertlm-accel", "path">>, <<"--max-tokens", "7">>, <<"--max-tokens", "path">>,
   <<"--litertlm-no-system-prompt">>}

MCArgvs ==
  {<<"--socket", "path">> \o a \o b : a \in Options, b \in Options}
    \cup {a \o <<"--socket">> \o b : a \in Options, b \in Options}
=============================================================================
