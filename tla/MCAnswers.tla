------------------------------ MODULE MCAnswers ------------------------------
(***************************************************************************)
(* Answers, with one source per way to end.                                *)
(***************************************************************************)
EXTENDS Answers

MCSources ==
  [read : {"named", "engine"}, emit : {"spec"}, install : {"ok"}, prefix : {"other"}]
    \cup [read : {"ok"}, emit : {"error", "panic-error", "panic-text", "panic-other"}, install : {"ok"},
          prefix : {"bnf", "abnf", "other"}]
    \cup [read : {"ok"}, emit : {"spec"}, install : {"ok", "refused"}, prefix : {"other"}]
================================================================================
