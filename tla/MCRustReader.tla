----------------------------- MODULE MCRustReader ----------------------------
(* Every source of at most MaxTokens tokens that nest. *)
EXTENDS RustReader

MCNames == {"A"}
MCVocabulary ==
  {<<"TX", "A">>, <<"DEF", "">>, <<"ALT", "">>, <<"LP", "">>, <<"RP", "">>, <<"STAR", "">>}

==============================================================================
