--------------------------- MODULE MCPacketStream ---------------------------
(* Instances of PacketStream for TLC.                                      *)
EXTENDS PacketStream

CONSTANTS alice, bob   \* two client endpoints on one host

\* One session, long enough for its sequence numbers to wrap.
OneSession == {1}
OneOwner   == [s \in OneSession |-> alice]

\* A session of each client, and a second one of the first client.
ThreeSessions == {1, 2, 3}
ThreeOwner    == [s \in ThreeSessions |-> IF s = 2 THEN bob ELSE alice]

==============================================================================
