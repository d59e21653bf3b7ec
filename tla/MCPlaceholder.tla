---------------------------- MODULE MCPlaceholder ----------------------------
(* Two keys; values that are text, empty, null, missing, placeholders,     *)
(* and parts of one that make a whole with the text they land in.          *)
EXTENDS Placeholder

CONSTANTS x, y, t

MCValues ==
  {Missing, NullValue, <<>>, <<t>>, <<"$">>, <<"$", "(">>, <<"(", y, ")">>,
   Ref(x), Ref(y), <<t>> \o Ref(y), Ref(y) \o Ref(y), Ref(y) \o <<")">>}

MCTemplates ==
  {<<t>>, Ref(x), Ref(x) \o <<t>> \o Ref(y), Ref(y) \o Ref(x), Ref(x) \o <<"(", y, ")">>,
   <<"$">> \o Ref(x), <<"$", "(">> \o Ref(x) \o <<")">>, <<"$", "(", x>>, Ref(t),
   Ref(x) \o Ref(x)}
=============================================================================
