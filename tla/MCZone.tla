------------------------------- MODULE MCZone -------------------------------
(* Instances of Zone for TLC.                                                 *)
EXTENDS Zone, TLC

CONSTANTS i1, i2, east, west

Alike == Permutations(Ids) \cup Permutations(Zones)

\* The client and the group are not looked at together: neither touches the other.
Apart == ~s.on \/ s.peers = <<>>
=============================================================================
