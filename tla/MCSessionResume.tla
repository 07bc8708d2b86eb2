--------------------------- MODULE MCSessionResume ---------------------------
(* An instance of SessionResume for TLC.                                   *)
EXTENDS SessionResume

CONSTANTS s1, s2

TwoSpawns == {s1, s2}

\* The tail that Replay sends is what the scan of replaySince keeps, on every ring
\* that is numbered upwards.
ASSUME ReplayIsTheScan ==
  \A n \in 0 .. 3 : \A nums \in [1 .. n -> 1 .. 4] : \A last \in 0 .. 4 :
    LET ring == [i \in 1 .. n |-> [seq |-> nums[i]]] IN
    (\A i, j \in 1 .. n : i < j => nums[i] < nums[j]) =>
      From(ring, Cardinality({i \in 1 .. n : nums[i] <= last}) + 1)
        = SelectSeq(ring, LAMBDA env : env.seq > last)
===============================================================================
