----------------------------- MODULE ZoneRouting -----------------------------
(***************************************************************************)
(* Which box a zone packet belongs to (EQPacket::dispatchPacket with the   *)
(* lookups of BoxRegistry and ZoneServerObserver).  Zone packets carry no  *)
(* identity: a box learns the port of its next zone server from the        *)
(* OP_ZoneServerInfo of its world session, takes the first packet to that  *)
(* port, and keeps the 5-tuple until the next announcement.                *)
(*                                                                         *)
(* Box b is the b-th world session observed, box 1 the primary, whose      *)
(* streams are the global ones.  A zone session is a number: its client    *)
(* port is fresh, so the number stands for the whole 5-tuple.  Stamps      *)
(* (last_seen_ms, zone_await_ms) are kept as ranks, the newest MaxBoxes and *)
(* 0 for none, and two ages: past the binding window, past the idle        *)
(* time-to-live.                                                           *)
(*                                                                         *)
(* The game client of a box is told a port, leaves its zone session and    *)
(* opens a new one.  Four things can go wrong: an announcement is not      *)
(* captured, two clients of one host zone at once, packets of the session  *)
(* left reach a port that is awaited again, an idle box is freed.  A       *)
(* session routed to a box and then silent for the time-to-live is over,   *)
(* and the client of a freed box keeps to its zone.                        *)
(***************************************************************************)
EXTENDS Integers, FiniteSets, Sequences

CONSTANTS
  MaxBoxes,     \* bound: boxes observed
  MaxSessions,  \* bound: zone sessions opened
  Host,         \* box -> client_ip
  Ports,        \* zone server ports
  NoPort,       \* no port announced
  Allowed       \* the mishaps that may happen

Boxes == 1 .. MaxBoxes

Mishaps == {"missed", "crossed", "late", "evicted"}

ASSUME RoutingAssumption ==
  /\ MaxBoxes \in Nat /\ MaxSessions \in Nat
  /\ NoPort \notin Ports
  /\ Allowed \subseteq Mishaps
  /\ DOMAIN Host = Boxes

VARIABLES
  seen,      \* world sessions observed so far
  boxes,     \* the boxes not yet freed
  bound,     \* zone_client_port and zone_server_port_bound, 0: unbound
  expects,   \* expected_zone_server_port
  awaits,    \* rank of zone_await_ms
  recent,    \* rank of last_seen_ms
  age,       \* 0: inside the binding window, 1: past it, 2: past the TTL
  told,      \* the port a client is about to connect to
  heard,     \* whether the capture saw it announced
  zone,      \* the zone session a client is in
  sessions,  \* the zone sessions opened: owner, port, announcement heard
  over,      \* sessions that have fallen silent for good
  calm,      \* no mishap so far
  fate       \* of the last zone packet: "own" stream, "foreign" stream, or
             \* dropped: "lost" of a session that was announced, else "unknown"

registry == <<boxes, bound, expects, awaits, recent, age>>
clients  == <<told, heard, zone, sessions, over>>
vars     == <<seen, registry, clients, calm, fate>>

Dropped == MaxBoxes + 1
Primary == 1

\* The box of s with the newest stamp: the loops that compare with best.
Newest(rank, s) == CHOOSE b \in s : \A c \in s : rank[c] <= rank[b]

\* Box b is stamped now.
Stamped(rank, b) ==
  [c \in Boxes |-> IF c = b THEN MaxBoxes
                   ELSE IF rank[c] > rank[b] THEN rank[c] - 1 ELSE rank[c]]

\* Box b is freed, its stamp with it.
Unstamped(rank, b) ==
  [c \in Boxes |-> IF c = b THEN 0
                   ELSE IF rank[c] # 0 /\ rank[c] < rank[b] THEN rank[c] + 1 ELSE rank[c]]

SameHost(b) == {c \in boxes : Host[c] = Host[b]}
-----------------------------------------------------------------------------
(* Lookups and routing of a packet p: its session, whose it is, the zone    *)
(* server's port, whether it is a SessionRequest, and whether it is due:    *)
(* of the session its client is in, and heard announced.                    *)

BoundTo(p) == {b \in boxes : bound[b] = p.session}

\* Mutant: a box that decodes a live session is not skipped.
ExpectingAny(p) == {b \in SameHost(p.owner) : expects[b] = p.port}

\* lookupByExpectedZone, before its tiebreak.
Expecting(p) == {b \in SameHost(p.owner) : bound[b] = 0 /\ expects[b] = p.port}

\* lookupByRecentWorld, before its choice.
WorldActive(p) == {b \in SameHost(p.owner) : bound[b] = 0 /\ age[b] = 0}

\* Mutant: the expected port is asked before the known 5-tuple.
PickBoxExpectedFirst(p) ==
  IF Expecting(p) # {} THEN Newest(awaits, Expecting(p))
  ELSE IF BoundTo(p) # {} THEN Newest(recent, BoundTo(p))
  ELSE IF p.request /\ WorldActive(p) # {} THEN Newest(recent, WorldActive(p))
  ELSE Dropped

\* pickBox: the box bound to the 5-tuple, else the newest one told this port,
\* else, for a SessionRequest, the unbound box last active.
PickBox(p) ==
  IF BoundTo(p) # {} THEN CHOOSE b \in BoundTo(p) : TRUE
  ELSE IF Expecting(p) # {} THEN Newest(awaits, Expecting(p))
  ELSE IF p.request /\ WorldActive(p) # {} THEN Newest(recent, WorldActive(p))
  ELSE Dropped

Fate(p, b) ==
  IF b = p.owner THEN "own"
  ELSE IF b # Dropped THEN "foreign"
  ELSE IF p.due /\ p.owner \in boxes THEN "lost"
  ELSE "unknown"

\* The zone branch of dispatchPacket.  Traffic nobody claims goes to the
\* global streams while there is at most one box.
Dispatch(p) ==
  LET b == PickBox(p)
  IN  IF b # Dropped
      THEN /\ bound' = [bound EXCEPT ![b] = p.session]
           /\ recent' = Stamped(recent, b)
           /\ age' = [age EXCEPT ![b] = 0]
           /\ fate' = Fate(p, b)
           /\ UNCHANGED <<boxes, expects, awaits>>
      ELSE /\ fate' = Fate(p, IF Cardinality(boxes) <= 1 THEN Primary ELSE Dropped)
           /\ UNCHANGED registry
-----------------------------------------------------------------------------
Init ==
  /\ seen = 0 /\ boxes = {}
  /\ bound = [b \in Boxes |-> 0]
  /\ expects = [b \in Boxes |-> NoPort]
  /\ awaits = [b \in Boxes |-> 0] /\ recent = [b \in Boxes |-> 0]
  /\ age = [b \in Boxes |-> 0]
  /\ told = [b \in Boxes |-> NoPort]
  /\ heard = [b \in Boxes |-> FALSE]
  /\ zone = [b \in Boxes |-> 0]
  /\ sessions = <<>> /\ over = {}
  /\ calm = TRUE /\ fate = "own"

\* BoxRegistry::observe of a new world session.
Observe ==
  /\ seen < MaxBoxes
  /\ seen' = seen + 1
  /\ boxes' = boxes \cup {seen'}
  /\ recent' = Stamped(recent, seen')
  /\ UNCHANGED <<bound, expects, awaits, age, clients, calm, fate>>

\* BoxRegistry::observe of other world traffic.
World(b) ==
  /\ recent' = Stamped(recent, b)
  /\ age' = [age EXCEPT ![b] = 0]
  /\ UNCHANGED <<seen, boxes, bound, expects, awaits, clients, calm, fate>>

\* Mutant: the observer keeps the old binding.
HearAnnouncementKeeps(b, q) ==
  /\ expects' = [expects EXCEPT ![b] = q]
  /\ awaits' = Stamped(awaits, b)
  /\ UNCHANGED bound

\* ZoneServerObserver: the box awaits its next session.
HearAnnouncement(b, q) ==
  /\ expects' = [expects EXCEPT ![b] = q]
  /\ awaits' = Stamped(awaits, b)
  /\ bound' = [bound EXCEPT ![b] = 0]

\* Another client of b's host is about to zone, or its box awaits port q.
Busy(b, q) ==
  \E c \in SameHost(b) \ {b} :
    told[c] # NoPort \/ (bound[c] = 0 /\ expects[c] = q)

\* The world server tells the client of b where to zone (captured or not).
Announce(b, q, capture) ==
  /\ ~capture => "missed" \in Allowed
  /\ Busy(b, q) => "crossed" \in Allowed
  /\ calm' = (calm /\ capture /\ ~Busy(b, q))
  /\ told' = [told EXCEPT ![b] = q]
  /\ heard' = [heard EXCEPT ![b] = capture]
  /\ zone' = [zone EXCEPT ![b] = 0]
  /\ IF capture
     THEN /\ HearAnnouncement(b, q)
          /\ recent' = Stamped(recent, b)
          /\ age' = [age EXCEPT ![b] = 0]
          /\ UNCHANGED boxes
     ELSE UNCHANGED registry
  /\ UNCHANGED <<seen, sessions, over, fate>>

\* The client opens its zone session; the SessionRequest is captured or not.
Connect(b, capture) ==
  LET s == Len(sessions) + 1
  IN  /\ told[b] # NoPort
      /\ s <= MaxSessions
      /\ sessions' = Append(sessions, [owner |-> b, port |-> told[b], heard |-> heard[b]])
      /\ zone' = [zone EXCEPT ![b] = s]
      /\ told' = [told EXCEPT ![b] = NoPort]
      /\ heard' = [heard EXCEPT ![b] = FALSE]
      /\ IF capture
         THEN Dispatch([session |-> s, owner |-> b, port |-> told[b],
                        request |-> TRUE, due |-> heard[b]])
         ELSE UNCHANGED <<registry, fate>>
      /\ UNCHANGED <<seen, over, calm>>

\* A packet of the session a client is in, or a late one of a session it left.
Zone(s) ==
  LET current == zone[sessions[s].owner] = s
      p == [session |-> s, owner |-> sessions[s].owner, port |-> sessions[s].port,
            request |-> FALSE, due |-> sessions[s].heard /\ current]
      late == ~current /\ Expecting(p) # {}
  IN  /\ s \notin over
      /\ late => "late" \in Allowed
      /\ calm' = (calm /\ ~late)
      /\ Dispatch(p)
      /\ UNCHANGED <<seen, clients>>

\* Time passes without a packet of box b.
GrowOld(b) ==
  /\ age[b] < IF "evicted" \in Allowed THEN 2 ELSE 1
  /\ age' = [age EXCEPT ![b] = @ + 1]
  /\ UNCHANGED <<seen, boxes, bound, expects, awaits, recent, clients, calm, fate>>

\* evictStale frees box b, and with it its observer and streams.
Evict(b) ==
  /\ "evicted" \in Allowed
  /\ b # Primary /\ age[b] = 2
  /\ boxes' = boxes \ {b}
  /\ bound' = [bound EXCEPT ![b] = 0]
  /\ expects' = [expects EXCEPT ![b] = NoPort]
  /\ age' = [age EXCEPT ![b] = 0]
  /\ awaits' = Unstamped(awaits, b)
  /\ recent' = Unstamped(recent, b)
  /\ over' = over \cup ({bound[b]} \ {0})
  /\ calm' = FALSE
  /\ UNCHANGED <<seen, told, heard, zone, sessions, fate>>

Next ==
  \/ Observe
  \/ \E b \in boxes : World(b) \/ GrowOld(b) \/ Evict(b)
  \/ \E b \in boxes, q \in Ports, c \in BOOLEAN : Announce(b, q, c)
  \/ \E b \in boxes, c \in BOOLEAN : Connect(b, c)
  \/ \E s \in DOMAIN sessions : Zone(s)

Spec == Init /\ [][Next]_vars
-----------------------------------------------------------------------------
(* Properties.                                                             *)

\* Types.
TypeOK ==
  /\ seen \in 0 .. MaxBoxes
  /\ boxes \subseteq 1 .. seen
  /\ bound \in [Boxes -> 0 .. Len(sessions)]
  /\ expects \in [Boxes -> Ports \cup {NoPort}]
  /\ age \in [Boxes -> 0 .. 2]
  /\ recent \in [Boxes -> 0 .. MaxBoxes] /\ awaits \in [Boxes -> 0 .. MaxBoxes]
  /\ \A b \in Boxes : /\ recent[b] # 0 <=> b \in boxes
                      /\ awaits[b] # 0 <=> expects[b] # NoPort
  /\ fate \in {"own", "foreign", "lost", "unknown"}

\* No session is decoded by two boxes.
Exclusive ==
  \A b, c \in boxes : bound[b] = bound[c] /\ bound[b] # 0 => b = c

\* A box that decodes a session is not taken away from it by the traffic of
\* others: only its own announcement frees it.
NotStolen ==
  [][\A b \in boxes \cap boxes' :
       bound[b] # 0 /\ bound'[b] # bound[b] =>
         bound'[b] = 0 /\ told'[b] # NoPort]_vars

\* While every announcement is captured, clients of one host zone one at a
\* time and no box is freed, each session is decoded by its own box, from its
\* first packet captured: no stream is fed another client's session, which
\* would corrupt its reassembly, and nothing announced is lost.
EachItsOwn == calm => fate \notin {"foreign", "lost"}

\* The same with the types of the registry: stamps are ranks, a registered box
\* has one, a box that awaits a session has the other.
RoutedOK == TypeOK /\ EachItsOwn
==============================================================================
