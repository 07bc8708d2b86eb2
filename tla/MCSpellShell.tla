---------------------------- MODULE MCSpellShell ----------------------------
(* An instance of SpellShell for TLC: a spell that others can cast, and one *)
(* for oneself only.                                                       *)
EXTENDS SpellShell

CONSTANTS root, ward

RootLasts == [sp \in {root, ward} |-> 1]
==============================================================================
