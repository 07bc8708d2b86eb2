--------------------------- MODULE OrderedDelivery ---------------------------
(***************************************************************************)
(* What a packet stream promises to the code it dispatches to (the opcode  *)
(* handlers and the fragment sequence): packets of a session arrive in the *)
(* order that session sent them, each at most once, possibly with gaps,    *)
(* and one handler call never mixes two sessions.                          *)
(***************************************************************************)
EXTENDS Integers, Sequences

CONSTANTS Sessions,   \* session ids
          MaxSend     \* bound: packets a session sends

VARIABLES passed,     \* the packets passed on by the last step, in order
          high        \* 1 + the last position of each session passed on

Init == passed = <<>> /\ high = [s \in Sessions |-> 0]

\* Nothing to pass on.
Quiet == passed' = <<>> /\ UNCHANGED high

\* Some packets of session s, all newer than the last one passed on.
Pass(s) ==
  /\ passed' # <<>>
  /\ \A i \in DOMAIN passed' :
        /\ passed'[i].s = s
        /\ passed'[i].n >= high[s] /\ passed'[i].n < MaxSend
  /\ \A i, j \in DOMAIN passed' : i < j => passed'[i].n < passed'[j].n
  /\ high' = [high EXCEPT ![s] = passed'[Len(passed')].n + 1]

Next == Quiet \/ \E s \in Sessions : Pass(s)

Spec == Init /\ [][Next]_<<passed, high>>
==============================================================================
