------------------------------ MODULE MCCapture ------------------------------
(* Three packets; a recording of three records of 5, 2 and 2 units with one   *)
(* unit of a fourth, read through a buffer of 6 units.                        *)
EXTENDS Capture

AllSources == Kinds
Ends == <<5, 7, 9, 12>>
RecordEnd == [i \in 0 .. 4 |-> IF i = 0 THEN 0 ELSE Ends[i]]
=============================================================================
