----------------------------- MODULE MCEbnfReader ----------------------------
(* Every source of at most MaxTokens tokens, over a vocabulary with one name *)
(* and one token of each kind that the properties tell apart.                *)
EXTENDS EbnfReader

MCNames == {"A"}
MCVocabulary ==
  {<<"TX", "A">>, <<"TX", "!">>, <<"ST", "ok">>, <<"ST", "!">>,
   <<"DEF", "">>, <<"ALT", "">>, <<"LP", "">>, <<"RP", "">>, <<"STAR", "">>, <<"QM", "">>,
   <<"CA", "">>, <<"SC", "">>, <<"CS", "">>, <<"OB", "">>, <<"SUB", "">>}
==============================================================================
