---------------------------- MODULE AutomationMC ----------------------------
(* Instances of Automation for TLC. *)
EXTENDS Automation, TLC

CONSTANTS trigger, text, logic, template, last

\* trigger -> text -> logic, which leads back to the text, on to a template and a
\* last message, or nowhere.
MCNode == {trigger, text, logic, template, last}
MCSucc ==
  (trigger :> {text}) @@ (text :> {logic}) @@ (logic :> {text, template, End})
  @@ (template :> {last}) @@ (last :> {})

\* A circle of two.
ShortNode == {trigger, text, logic}
ShortSucc == (trigger :> {text}) @@ (text :> {logic}) @@ (logic :> {text})

\* Every ten minutes.
MCEvery == [r \in Scheduled |-> 10]
=============================================================================
