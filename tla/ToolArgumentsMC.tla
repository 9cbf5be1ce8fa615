--------------------------- MODULE ToolArgumentsMC ---------------------------
(* Two entries: a key, a value and what ends the entry, each from a few well *)
(* and badly formed texts                                                   *)
EXTENDS ToolArguments

Q == Quote
B == Backslash
LF == "LF"

Keys == {<<"n", ":">>, <<"w", " ", "=">>, <<Q, "n", Q, ":">>, <<Q, "n", B, Q, ":">>,
         <<B, Q, "n", B, Q, ":">>, <<Q, "n", B, Q, "w", Q, ":">>, <<Q, ":">>, <<>>}

Values ==
  {<<"1">>, <<"n", "w">>, <<"U">>, <<"]">>,
   <<Q, "n", Q>>, <<Q, "n", B, Q, "w", Q>>, <<Q, B, "w", LF, Q>>, <<Q, "n", B, Q>>, <<Q, "n", ",", B, B, Q>>,
   <<"[", "1", ",", "n", "=", "1", "]">>, <<"[", "1", ",", "1", "]">>, <<"{", Q, "w", Q, ":", "1", "}">>}

MCPieces ==
  <<Keys, Values, {<<",">>, <<" ", ",", LF>>, <<"}">>},
    {<<"w", ":">>, <<Q, "w", Q, " ", ":">>, <<B, Q, "w", B, Q, ":">>, <<>>}, Values, {<<"}">>, <<"}", "}">>, <<>>}>>
=============================================================================
