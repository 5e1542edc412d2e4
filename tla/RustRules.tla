------------------------------- MODULE RustRules ------------------------------
(***************************************************************************)
(* rs/src/parser_ebnf.rs: the same rule table, given to the Rust engine as *)
(* a document, and what that port adds to it: limits on nesting, kept      *)
(* while the source is read, because a Rust stack that runs out aborts the *)
(* process.                                                                *)
(*                                                                         *)
(* Two registers on the parse context follow the tree as the hooks of the  *)
(* table build it.  nest is how deep the element most recently completed   *)
(* nests; level is the deepest element completed in the innermost open     *)
(* group.  A group keeps the enclosing value of level in its own rule.     *)
(* (The rule elem is called item in that port.)                            *)
(***************************************************************************)
EXTENDS EbnfRules

CONSTANTS MaxGroupDepth,  (* rule levels at which a group may open          *)
          MaxNestDepth    (* how deep an element may nest                   *)

\* 520 and 130 in the code.  The outermost atom is the sixth rule of a stack, so a
\* MaxGroupDepth below 6 admits no group; StackBounded needs it above 1.
ASSUME LimitsAssumption == MaxGroupDepth \in Nat \ {0, 1} /\ MaxNestDepth \in Nat \ {0}

VARIABLES nest,           (* NEST_KEY                                       *)
          level,          (* LEVEL_KEY                                      *)
          outerMax        (* u.outerMax of each rule on the stack           *)

registers == <<nest, level, outerMax>>

\* What is left of outerMax, and what is new, once the stack has changed.
Kept == [i \in DOMAIN stack' |-> IF i \in DOMAIN outerMax THEN outerMax[i] ELSE 0]

RustInit == Init /\ nest = 0 /\ level = 0 /\ outerMax = <<0>>

RustLex == Lex /\ UNCHANGED registers

\* The rule on top is about to run an alternative with one of these actions.
About(rule, actions) ==
  /\ status = "reading" /\ Top.rule = rule /\ ~NeedsToken
  /\ Choice # 0 /\ Alternatives[Choice].a \in actions

\* An ActionError: the engine gives up.
RefuseDepth(why) == status' = why /\ UNCHANGED <<src, pos, stack, out, registers>>

TakeStep == Step(Top.rule, Top.state)

-----------------------------------------------------------------------------
\* A postfix operator wraps the atom one level deeper.
wrap_one_deeper ==
  /\ About("post", {"opt", "star", "plus"})
  /\ \/ MaxNestDepth < nest + 1 /\ RefuseDepth("element-nesting")
     \/ nest + 1 <= MaxNestDepth /\ TakeStep /\ nest' = nest + 1 /\ UNCHANGED level /\ outerMax' = Kept

\* Mutants: any number of groups may be open; a group goes on counting in the level
\* around it.
atom_lp_unlimited ==
  /\ About("atom", {"open-group"})
  /\ TakeStep /\ UNCHANGED nest
  /\ level' = 0
  /\ outerMax' = [Kept EXCEPT ![Len(stack)] = level]

atom_lp_inherits ==
  /\ About("atom", {"open-group"})
  /\ \/ MaxGroupDepth < Len(stack) /\ RefuseDepth("rule-depth")
     \/ /\ Len(stack) <= MaxGroupDepth
        /\ TakeStep /\ UNCHANGED <<nest, level>>
        /\ outerMax' = [Kept EXCEPT ![Len(stack)] = level]

\* A group opens: its contents are counted from nothing.
atom_lp ==
  /\ About("atom", {"open-group"})
  /\ \/ MaxGroupDepth < Len(stack) /\ RefuseDepth("rule-depth")
     \/ /\ Len(stack) <= MaxGroupDepth
        /\ TakeStep /\ UNCHANGED nest
        /\ level' = 0
        /\ outerMax' = [Kept EXCEPT ![Len(stack)] = level]

\* A group closes: it nests one deeper than what it holds.
atom_group_close ==
  /\ About("atom", {"close-group"})
  /\ \/ MaxNestDepth < level + 1 /\ RefuseDepth("element-nesting")
     \/ /\ level + 1 <= MaxNestDepth
        /\ TakeStep
        /\ nest' = level + 1
        /\ level' = outerMax[Len(stack)]
        /\ outerMax' = Kept

\* Every atom is a terminal until it turns out to be a group.
atom_bo ==
  /\ status = "reading" /\ Top.rule = "elem" /\ Top.state = "open"
  /\ TakeStep /\ nest' = 1 /\ UNCHANGED level /\ outerMax' = Kept

\* Mutant: level takes the last element instead of the deepest.
item_bc_last ==
  /\ status = "reading" /\ Top.rule = "elem" /\ Top.state = "close" /\ Top.u # <<>>
  /\ TakeStep /\ UNCHANGED nest
  /\ level' = nest
  /\ outerMax' = Kept

\* The postfix chain has closed, and the element is complete.
item_bc ==
  /\ status = "reading" /\ Top.rule = "elem" /\ Top.state = "close" /\ Top.u # <<>>
  /\ TakeStep /\ UNCHANGED nest
  /\ level' = IF level < nest THEN nest ELSE level
  /\ outerMax' = Kept

\* Every other step of the table.
RustStep ==
  /\ status = "reading"
  /\ Top.rule = "post" => ~About("post", {"opt", "star", "plus"})
  /\ Top.rule = "atom" => ~About("atom", {"open-group", "close-group"})
  /\ Top.rule = "elem" => Top.state = "close" /\ Top.u = <<>>
  /\ TakeStep /\ UNCHANGED <<nest, level>> /\ outerMax' = Kept

RustNext ==
  RustLex \/ wrap_one_deeper \/ atom_lp \/ atom_group_close \/ atom_bo \/ item_bc \/ RustStep

RustSpec == RustInit /\ [][RustNext]_<<vars, registers>> /\ WF_<<vars, registers>>(RustNext)

-----------------------------------------------------------------------------
\* "a run of thousands never builds a rule stack either" (DIVERGENCE.md:178): the
\* engine's stack is bounded, whatever is read.
StackBounded == Len(stack) <= MaxGroupDepth + MaxNestDepth + 3

==============================================================================
