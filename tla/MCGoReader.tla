------------------------------ MODULE MCGoReader ------------------------------
(* Every source of at most MaxTokens lexemes and spaces. *)
EXTENDS GoReader

MCNames == {"A"}
MCVocabulary ==
  {<<"TX", "A">>, <<"ST", "ok">>, <<"DEF", "">>, <<"DEFE", "">>, <<"ALT", "">>, <<"LP", "">>,
   <<"RP", "">>, <<"STAR", "">>, <<"CA", "">>, <<"SC", "">>, <<"SUB", "">>}
\* What the loops consume, and a name.
MCFewKinds ==
  {<<"TX", "A">>, <<"DEF", "">>, <<"ALT", "">>, <<"LP", "">>, <<"RP", "">>, <<"STAR", "">>,
   <<"CA", "">>, <<"SC", "">>}

==============================================================================
