------------------------------- MODULE Lexemes -------------------------------
(***************************************************************************)
(* The tokens of EBNF source, as the lexer configured by getEbnfParser     *)
(* (ts/src/converter.ts) hands them to the rule table.  A token is a kind  *)
(* and a text.  Space and comments never reach the table.                  *)
(*                                                                         *)
(* The text says no more than the rule actions tell apart: which name a TX *)
(* is, and, as "!", that the token's decoder refuses it - a bareword that  *)
(* is no symbol name, an empty literal, a character class or a code point  *)
(* that cannot be decoded.                                                 *)
(***************************************************************************)
EXTENDS Naturals, Sequences

CONSTANTS Names,     (* symbol names                                        *)
          Vocabulary (* the tokens a source may hold, other than its end    *)

FixedKinds == {"DEF", "DEFE", "ALT", "LP", "RP", "STAR", "PLUS", "QM", "CA", "SC",
               "OS", "CS", "OB", "CB", "SUB"}

Lexeme ==
  ({"TX"} \X (Names \cup {"!"}))
    \cup ({"ST", "CC", "HX"} \X {"ok", "!"})
    \cup (FixedKinds \X {""})

Kind(tkn) == tkn[1]
Text(tkn) == tkn[2]
EndOfSource == <<"ZZ", "">>

ASSUME VocabularyAssumption == Vocabulary \subseteq Lexeme
ASSUME NamesDecoded == "!" \notin Names

==============================================================================
