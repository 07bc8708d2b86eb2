---------------------------- MODULE MCBoxRegistry ----------------------------
(* An instance of BoxRegistry for TLC.                                     *)
EXTENDS BoxRegistry

CONSTANTS t1, t2, t3, alice, bert

SomeTuples == {t1, t2, t3}
SomeNames  == {alice, bert}
==============================================================================
