---------------------------- MODULE MCZoneRouting ----------------------------
(* An instance of ZoneRouting for TLC.                                     *)
EXTENDS ZoneRouting

CONSTANT p1

OnePort   == {p1}
OneHost   == [b \in Boxes |-> "desk"]
================================================================
