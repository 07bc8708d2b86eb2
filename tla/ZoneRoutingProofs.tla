-------------------------- MODULE ZoneRoutingProofs --------------------------
(* Theorems about ZoneRouting, for every number of boxes and sessions, all  *)
(* hosts and ports, and whatever mishaps are allowed.                       *)
EXTENDS ZoneRouting, FiniteSetTheorems, WellFoundedInduction, TLAPS

\* What the properties rest on: a freed box is unbound, so that a box that is
\* observed later cannot share its session.
BoundInv ==
  /\ bound \in [Boxes -> Nat]
  /\ \A b \in Boxes \ boxes : bound[b] = 0
  /\ Exclusive

RouteInv ==
  /\ seen \in Nat /\ boxes \subseteq Boxes /\ boxes \subseteq 1 .. seen
  /\ recent \in [Boxes -> 0 .. MaxBoxes] /\ awaits \in [Boxes -> 0 .. MaxBoxes]
  /\ told \in [Boxes -> Ports \cup {NoPort}]
  /\ DOMAIN sessions = 1 .. Len(sessions) /\ Len(sessions) \in Nat
  /\ BoundInv

-----------------------------------------------------------------------------
\* Among some boxes there is one with the newest stamp.
LEMMA NewestIn ==
  ASSUME NEW rank \in [Boxes -> 0 .. MaxBoxes],
         NEW s \in SUBSET Boxes, s # {}
  PROVE  Newest(rank, s) \in s
<1> DEFINE less == {e \in Nat \X Nat : e[1] < e[2]}
           ages == {n \in Nat : \E b \in s : n = MaxBoxes - rank[b]}
<1>1. IsWellFoundedOn(less, Nat)
  BY NatLessThanWellFounded DEF OpToRel
<1>2. ages \in SUBSET Nat /\ ages # {}
  <2>1. PICK b \in s : TRUE
    OBVIOUS
  <2>2. MaxBoxes - rank[b] \in Nat
    BY RoutingAssumption
  <2> QED
    BY <2>2
<1>3. PICK m \in ages : \A n \in ages : ~(<<n, m>> \in less)
  <2> HIDE DEF less, ages
  <2> QED
    BY <1>1, <1>2, WFMin
<1>4. PICK b \in s : m = MaxBoxes - rank[b]
  OBVIOUS
<1>5. \A c \in s : rank[c] <= rank[b]
  <2> SUFFICES ASSUME NEW c \in s, rank[c] > rank[b]
               PROVE  FALSE
    BY RoutingAssumption DEF Boxes
  <2>1. MaxBoxes - rank[c] \in ages /\ m \in Nat /\ MaxBoxes - rank[c] \in Nat
    <3>1. rank[c] \in 0 .. MaxBoxes
      OBVIOUS
    <3>2. MaxBoxes - rank[c] \in Nat
      BY <3>1, RoutingAssumption
    <3> QED
      BY <3>2, <1>2
  <2>2. MaxBoxes - rank[c] < m
    BY <1>4, RoutingAssumption
  <2>3. <<MaxBoxes - rank[c], m>> \in less
    BY <2>1, <2>2
  <2> HIDE DEF less, ages
  <2> QED
    BY <1>3, <2>1, <2>3
<1> QED
  BY <1>5 DEF Newest

\* Stamps stay ranks.
LEMMA StampedRank ==
  ASSUME NEW rank \in [Boxes -> 0 .. MaxBoxes], NEW b \in Boxes
  PROVE  /\ Stamped(rank, b) \in [Boxes -> 0 .. MaxBoxes]
         /\ Unstamped(rank, b) \in [Boxes -> 0 .. MaxBoxes]
<1>1. Stamped(rank, b) \in [Boxes -> 0 .. MaxBoxes]
  BY RoutingAssumption DEF Stamped
<1>2. Unstamped(rank, b) \in [Boxes -> 0 .. MaxBoxes]
  BY RoutingAssumption DEF Unstamped
<1> QED
  BY <1>1, <1>2

\* pickBox finds the box bound to the session, else an unbound one.
LEMMA PickBoxSound ==
  ASSUME RouteInv, NEW p, PickBox(p) # Dropped
  PROVE  /\ PickBox(p) \in boxes
         /\ \/ bound[PickBox(p)] = p.session
            \/ bound[PickBox(p)] = 0 /\ BoundTo(p) = {}
<1> DEFINE b == PickBox(p)
<1>1. CASE BoundTo(p) # {}
  <2>1. b \in BoundTo(p)
    BY <1>1 DEF PickBox
  <2> QED
    BY <2>1 DEF BoundTo
<1>2. CASE BoundTo(p) = {} /\ Expecting(p) # {}
  <2>1. b = Newest(awaits, Expecting(p))
    BY <1>2 DEF PickBox
  <2>2. Expecting(p) \in SUBSET Boxes
    BY DEF Expecting, SameHost, RouteInv
  <2>3. b \in Expecting(p)
    BY <1>2, <2>1, <2>2, NewestIn DEF RouteInv
  <2> QED
    BY <1>2, <2>3 DEF Expecting, SameHost
<1>3. CASE BoundTo(p) = {} /\ Expecting(p) = {}
  <2>1. b = Newest(recent, WorldActive(p)) /\ WorldActive(p) # {}
    BY <1>3 DEF PickBox
  <2>2. WorldActive(p) \in SUBSET Boxes
    BY DEF WorldActive, SameHost, RouteInv
  <2>3. b \in WorldActive(p)
    BY <2>1, <2>2, NewestIn DEF RouteInv
  <2> QED
    BY <1>3, <2>3 DEF WorldActive, SameHost
<1> QED
  BY <1>1, <1>2, <1>3

\* Routing a packet binds at most one unbound box, to a session nobody decodes.
LEMMA DispatchSound ==
  ASSUME RouteInv, NEW p, p.session \in Nat \ {0}, Dispatch(p)
  PROVE  /\ boxes' = boxes /\ awaits' = awaits
         /\ recent' \in [Boxes -> 0 .. MaxBoxes]
         /\ BoundInv'
         /\ \A b \in Boxes : bound[b] # 0 => bound'[b] = bound[b]
<1>1. CASE PickBox(p) = Dropped
  <2>1. UNCHANGED <<boxes, bound, awaits, recent>>
    BY <1>1 DEF Dispatch, registry
  <2> QED
    BY <2>1 DEF RouteInv, BoundInv, Exclusive
<1>2. CASE PickBox(p) # Dropped
  <2> DEFINE b == PickBox(p)
  <2>1. /\ b \in boxes
        /\ bound[b] = p.session \/ (bound[b] = 0 /\ BoundTo(p) = {})
    BY <1>2, PickBoxSound
  <2>2. /\ bound' = [bound EXCEPT ![b] = p.session]
        /\ recent' = Stamped(recent, b)
        /\ boxes' = boxes /\ awaits' = awaits
    BY <1>2 DEF Dispatch
  <2>3. b \in Boxes
    BY <2>1 DEF RouteInv
  <2> HIDE DEF b
  <2>4. recent' \in [Boxes -> 0 .. MaxBoxes]
    BY <2>2, <2>3, StampedRank DEF RouteInv
  <2>5. bound' \in [Boxes -> Nat] /\ \A c \in Boxes \ boxes : bound'[c] = 0
    BY <2>1, <2>2 DEF RouteInv, BoundInv
  <2>6. \A c \in Boxes : bound[c] # 0 => bound'[c] = bound[c]
    BY <2>1, <2>2, <2>3 DEF RouteInv, BoundInv
  <2>7. \A c, d \in boxes : bound'[c] = bound'[d] /\ bound'[c] # 0 => c = d
    BY <2>1, <2>2, <2>3 DEF RouteInv, BoundInv, Exclusive, BoundTo
  <2> QED
    BY <2>2, <2>4, <2>5, <2>6, <2>7 DEF BoundInv, Exclusive
<1> QED
  BY <1>1, <1>2

-----------------------------------------------------------------------------
\* Unbinding a box keeps the bindings apart.
LEMMA UnboundApart ==
  ASSUME RouteInv, NEW b \in Boxes,
         bound' = [bound EXCEPT ![b] = 0], boxes' \subseteq boxes,
         boxes \ boxes' \subseteq {b}
  PROVE  BoundInv'
BY DEF RouteInv, BoundInv, Exclusive

\* The registry starts with no box, so nothing is bound.
LEMMA Start == Init => RouteInv
BY RoutingAssumption DEF Init, RouteInv, BoundInv, Exclusive, Boxes

\* Every step, of the daemon, of the clients or of time, keeps the invariant.
LEMMA RouteStep == RouteInv /\ [Next]_vars => RouteInv'
<1> SUFFICES ASSUME RouteInv, [Next]_vars
             PROVE  RouteInv'
  OBVIOUS
<1>1. ASSUME Observe
      PROVE  RouteInv'
  <2>1. /\ seen' = seen + 1 /\ seen' \in Boxes /\ boxes' = boxes \cup {seen'}
        /\ recent' = Stamped(recent, seen')
    BY <1>1, RoutingAssumption DEF Observe, RouteInv, Boxes
  <2>2. UNCHANGED <<bound, awaits, told, sessions>>
    BY <1>1 DEF Observe, clients
  <2>3. recent' \in [Boxes -> 0 .. MaxBoxes]
    BY <2>1, StampedRank DEF RouteInv
  <2>4. seen' \notin boxes /\ bound[seen'] = 0
    BY <2>1 DEF RouteInv, BoundInv
  <2>5. BoundInv'
    BY <2>1, <2>2, <2>4 DEF RouteInv, BoundInv, Exclusive
  <2> QED
    BY <2>1, <2>2, <2>3, <2>5 DEF RouteInv
<1>2. ASSUME NEW b \in boxes, World(b) \/ GrowOld(b)
      PROVE  RouteInv'
  <2>1. UNCHANGED <<seen, boxes, bound, awaits, told, sessions>>
    BY <1>2 DEF World, GrowOld, clients
  <2>2. recent' \in [Boxes -> 0 .. MaxBoxes]
    BY <1>2, StampedRank DEF World, GrowOld, RouteInv
  <2> QED
    BY <2>1, <2>2 DEF RouteInv, BoundInv, Exclusive
<1>3. ASSUME NEW b \in boxes, Evict(b)
      PROVE  RouteInv'
  <2>1. /\ boxes' = boxes \ {b} /\ bound' = [bound EXCEPT ![b] = 0]
        /\ awaits' = Unstamped(awaits, b) /\ recent' = Unstamped(recent, b)
        /\ UNCHANGED <<seen, told, sessions>>
    BY <1>3 DEF Evict
  <2>2. b \in Boxes
    BY DEF RouteInv
  <2>3. BoundInv'
    BY <2>1, <2>2, UnboundApart
  <2>4. /\ recent' \in [Boxes -> 0 .. MaxBoxes]
        /\ awaits' \in [Boxes -> 0 .. MaxBoxes]
    BY <2>1, <2>2, StampedRank DEF RouteInv
  <2> QED
    BY <2>1, <2>3, <2>4 DEF RouteInv
<1>4. ASSUME NEW b \in boxes, NEW q \in Ports, NEW c \in BOOLEAN, Announce(b, q, c)
      PROVE  RouteInv'
  <2>1. /\ told' = [told EXCEPT ![b] = q]
        /\ boxes' = boxes
        /\ UNCHANGED <<seen, sessions>>
    BY <1>4 DEF Announce, registry
  <2>2. b \in Boxes
    BY DEF RouteInv
  <2>3. told' \in [Boxes -> Ports \cup {NoPort}]
    BY <2>1 DEF RouteInv
  <2>4. CASE c
    <3>1. /\ bound' = [bound EXCEPT ![b] = 0]
          /\ awaits' = Stamped(awaits, b) /\ recent' = Stamped(recent, b)
      BY <1>4, <2>4 DEF Announce, HearAnnouncement
    <3>2. BoundInv'
      BY <2>1, <2>2, <3>1, UnboundApart
    <3>3. /\ recent' \in [Boxes -> 0 .. MaxBoxes]
          /\ awaits' \in [Boxes -> 0 .. MaxBoxes]
      BY <2>2, <3>1, StampedRank DEF RouteInv
    <3> QED
      BY <2>1, <2>3, <3>2, <3>3 DEF RouteInv
  <2>5. CASE ~c
    <3>1. UNCHANGED <<bound, awaits, recent>>
      BY <1>4, <2>5 DEF Announce, registry
    <3> QED
      BY <2>1, <2>3, <3>1 DEF RouteInv, BoundInv, Exclusive
  <2> QED
    BY <2>4, <2>5
<1>5. ASSUME NEW b \in boxes, NEW c \in BOOLEAN, Connect(b, c)
      PROVE  RouteInv'
  <2> DEFINE s == Len(sessions) + 1
             p == [session |-> s, owner |-> b, port |-> told[b],
                   request |-> TRUE, due |-> heard[b]]
  <2>1. /\ sessions' = Append(sessions, [owner |-> b, port |-> told[b], heard |-> heard[b]])
        /\ told' = [told EXCEPT ![b] = NoPort]
        /\ seen' = seen
    BY <1>5 DEF Connect
  <2>2. told' \in [Boxes -> Ports \cup {NoPort}]
    BY <2>1 DEF RouteInv
  <2>3. DOMAIN sessions' = 1 .. Len(sessions') /\ Len(sessions') \in Nat
    BY <2>1 DEF RouteInv
  <2>4. CASE c
    <3>1. Dispatch(p)
      BY <1>5, <2>4 DEF Connect
    <3>2. p.session \in Nat \ {0}
      BY DEF RouteInv
    <3> HIDE DEF p
    <3>3. /\ boxes' = boxes /\ awaits' = awaits
          /\ recent' \in [Boxes -> 0 .. MaxBoxes]
          /\ BoundInv'
      BY <3>1, <3>2, DispatchSound
    <3> QED
      BY <2>1, <2>2, <2>3, <3>3 DEF RouteInv
  <2>5. CASE ~c
    <3>1. UNCHANGED <<boxes, bound, awaits, recent>>
      BY <1>5, <2>5 DEF Connect, registry
    <3> QED
      BY <2>1, <2>2, <2>3, <3>1 DEF RouteInv, BoundInv, Exclusive
  <2> QED
    BY <2>4, <2>5
<1>6. ASSUME NEW s \in DOMAIN sessions, Zone(s)
      PROVE  RouteInv'
  <2> DEFINE p == [session |-> s, owner |-> sessions[s].owner, port |-> sessions[s].port,
                   request |-> FALSE,
                   due |-> sessions[s].heard /\ zone[sessions[s].owner] = s]
  <2>1. Dispatch(p) /\ UNCHANGED <<seen, told, sessions>>
    BY <1>6 DEF Zone, clients
  <2>2. p.session \in Nat \ {0}
    BY DEF RouteInv
  <2> HIDE DEF p
  <2>3. /\ boxes' = boxes /\ awaits' = awaits
        /\ recent' \in [Boxes -> 0 .. MaxBoxes]
        /\ BoundInv'
    BY <2>1, <2>2, DispatchSound
  <2> QED
    BY <2>1, <2>3 DEF RouteInv
<1>7. ASSUME UNCHANGED vars
      PROVE  RouteInv'
  BY <1>7 DEF vars, registry, clients, RouteInv, BoundInv, Exclusive
<1> QED
  BY <1>1, <1>2, <1>3, <1>4, <1>5, <1>6, <1>7 DEF Next

\* The inductive invariant of the routing: stamps are ranks, boxes are distinct
\* numbers, a box no longer registered is unbound and two bindings differ.
THEOREM RouteInvariant == Spec => []RouteInv
<1> QED
  BY Start, RouteStep, PTL DEF Spec
-----------------------------------------------------------------------------

\* No zone session is ever decoded by two boxes (EQPacket::dispatchPacket).
THEOREM OneDecoder == Spec => []Exclusive
<1>1. RouteInv => Exclusive
  BY DEF RouteInv, BoundInv
<1> QED
  BY <1>1, RouteInvariant, PTL

\* A bound box is freed by its own announcement only (ZoneServerObserver).
THEOREM BoundStays == Spec => NotStolen
<1> DEFINE Keeps ==
      \A b \in boxes \cap boxes' :
        bound[b] # 0 /\ bound'[b] # bound[b] => bound'[b] = 0 /\ told'[b] # NoPort
<1>1. RouteInv /\ [Next]_vars => Keeps
  <2> SUFFICES ASSUME RouteInv, [Next]_vars
               PROVE  Keeps
    OBVIOUS
  <2>1. ASSUME UNCHANGED bound
        PROVE  Keeps
    BY <2>1
  <2>2. ASSUME NEW b \in boxes, Evict(b)
        PROVE  Keeps
    BY <2>2 DEF Evict, RouteInv, BoundInv
  <2>3. ASSUME NEW b \in boxes, NEW q \in Ports, NEW c \in BOOLEAN, Announce(b, q, c)
        PROVE  Keeps
    <3>1. told'[b] # NoPort
      BY <2>3, RoutingAssumption DEF Announce, RouteInv
    <3>2. CASE c
      BY <2>3, <3>1, <3>2 DEF Announce, HearAnnouncement, RouteInv, BoundInv
    <3>3. CASE ~c
      BY <2>3, <3>3 DEF Announce, registry
    <3> QED
      BY <3>2, <3>3
  <2>4. ASSUME NEW b \in boxes, NEW c \in BOOLEAN, Connect(b, c)
        PROVE  Keeps
    <3> DEFINE p == [session |-> Len(sessions) + 1, owner |-> b, port |-> told[b],
                     request |-> TRUE, due |-> heard[b]]
    <3>1. CASE c
      <4>1. Dispatch(p)
        BY <2>4, <3>1 DEF Connect
      <4>2. p.session \in Nat \ {0}
        BY DEF RouteInv
      <4> HIDE DEF p
      <4>3. \A d \in Boxes : bound[d] # 0 => bound'[d] = bound[d]
        BY <4>1, <4>2, DispatchSound
      <4> QED
        BY <4>3 DEF RouteInv
    <3>2. CASE ~c
      BY <2>4, <3>2 DEF Connect, registry
    <3> QED
      BY <3>1, <3>2
  <2>5. ASSUME NEW s \in DOMAIN sessions, Zone(s)
        PROVE  Keeps
    <3> DEFINE p == [session |-> s, owner |-> sessions[s].owner, port |-> sessions[s].port,
                     request |-> FALSE,
                     due |-> sessions[s].heard /\ zone[sessions[s].owner] = s]
    <3>1. Dispatch(p)
      BY <2>5 DEF Zone
    <3>2. p.session \in Nat \ {0}
      BY DEF RouteInv
    <3> HIDE DEF p
    <3>3. \A d \in Boxes : bound[d] # 0 => bound'[d] = bound[d]
      BY <3>1, <3>2, DispatchSound
    <3> QED
      BY <3>3 DEF RouteInv
  <2>6. ASSUME Observe \/ (\E b \in boxes : World(b) \/ GrowOld(b)) \/ UNCHANGED vars
        PROVE  Keeps
    <3>1. UNCHANGED bound
      BY <2>6 DEF Observe, World, GrowOld, vars, registry
    <3> QED
      BY <2>1, <3>1
  <2> QED
    BY <2>2, <2>3, <2>4, <2>5, <2>6 DEF Next
<1> QED
  BY <1>1, RouteInvariant, PTL DEF Spec, NotStolen

-----------------------------------------------------------------------------
(* Every packet to its own box, as long as nothing goes wrong. *)
\* Stamps are a ranking: no two boxes share one, and the stamped boxes hold the
\* highest ranks.
Ranked(rank) ==
  /\ rank \in [Boxes -> 0 .. MaxBoxes]
  /\ \A b, c \in Boxes : rank[b] = rank[c] /\ rank[b] # 0 => b = c
  /\ \A b \in Boxes : rank[b] # 0 =>
       \A k \in rank[b] .. MaxBoxes : \E c \in Boxes : rank[c] = k

\* A stamp never runs down to none: while a box has no stamp, not all ranks
\* are taken.
LEMMA RankLeft ==
  ASSUME NEW rank, Ranked(rank), NEW b \in Boxes, rank[b] = 0, NEW c \in Boxes
  PROVE  rank[c] # 1
<1> SUFFICES ASSUME rank[c] = 1 PROVE FALSE
  OBVIOUS
<1> DEFINE f == [k \in Boxes |-> CHOOSE d \in Boxes : rank[d] = k]
<1>1. \A k \in Boxes : f[k] \in Boxes \ {b} /\ rank[f[k]] = k
  <2> SUFFICES ASSUME NEW k \in Boxes
               PROVE  f[k] \in Boxes \ {b} /\ rank[f[k]] = k
    OBVIOUS
  <2>1. k \in rank[c] .. MaxBoxes /\ k # 0
    BY RoutingAssumption DEF Boxes
  <2>2. \E d \in Boxes : rank[d] = k
    BY <2>1 DEF Ranked
  <2>3. f[k] \in Boxes /\ rank[f[k]] = k
    BY <2>2
  <2> QED
    BY <2>1, <2>3
<1> HIDE DEF f
<1>2. f \in [Boxes -> Boxes \ {b}]
  BY <1>1 DEF f
<1>3. /\ IsFiniteSet(Boxes) /\ Cardinality(Boxes) \in Nat
      /\ IsFiniteSet(Boxes \ {b})
      /\ Cardinality(Boxes \ {b}) = Cardinality(Boxes) - 1
  <2>1. IsFiniteSet(Boxes)
    BY FS_Interval, RoutingAssumption DEF Boxes
  <2> QED
    BY <2>1, FS_RemoveElement, FS_CardinalityType
<1>4. PICK x \in Boxes, y \in Boxes : x # y /\ f[x] = f[y]
  <2>1. Cardinality(Boxes \ {b}) < Cardinality(Boxes)
    BY <1>3
  <2> QED
    BY <1>2, <1>3, <2>1, FS_PigeonHole
<1> QED
  BY <1>1, <1>4

LEMMA StampedRanked ==
  ASSUME NEW rank, Ranked(rank), NEW b \in Boxes
  PROVE  /\ Ranked(Stamped(rank, b))
         /\ \A c \in Boxes : Stamped(rank, b)[c] # 0 <=> c = b \/ rank[c] # 0
<1> DEFINE new == Stamped(rank, b)
           r == rank[b]
<1>1. rank \in [Boxes -> 0 .. MaxBoxes] /\ MaxBoxes \in Nat /\ r \in 0 .. MaxBoxes
      /\ b \in 1 .. MaxBoxes
  BY RoutingAssumption DEF Ranked, Boxes
<1>2. \A c \in Boxes : new[c] = IF c = b THEN MaxBoxes
                                ELSE IF rank[c] > r THEN rank[c] - 1 ELSE rank[c]
  BY DEF Stamped
<1>3. new \in [Boxes -> 0 .. MaxBoxes]
  BY <1>1, StampedRank
<1>4. \A c \in Boxes : new[c] # 0 <=> c = b \/ rank[c] # 0
  <2> TAKE c \in Boxes
  <2>1. CASE c = b
    BY <1>1, <1>2, <2>1
  <2>2. CASE c # b /\ rank[c] > r
    <3>1. rank[c] # 1
      <4>1. CASE r = 0
        BY <4>1, RankLeft
      <4>2. CASE r # 0
        BY <1>1, <2>2, <4>2
      <4> QED
        BY <4>1, <4>2
    <3> QED
      BY <1>1, <1>2, <2>2, <3>1
  <2>3. CASE c # b /\ ~(rank[c] > r)
    BY <1>1, <1>2, <2>3
  <2> QED
    BY <2>1, <2>2, <2>3
<1> HIDE DEF new
<1>5. ASSUME NEW c \in Boxes, NEW d \in Boxes, new[c] = new[d], new[c] # 0
      PROVE  c = d
  <2>1. /\ rank[c] \in 0 .. MaxBoxes /\ rank[d] \in 0 .. MaxBoxes
        /\ rank[c] = rank[d] /\ rank[c] # 0 => c = d
        /\ rank[c] = r /\ r # 0 => c = b
        /\ rank[d] = r /\ r # 0 => d = b
    BY <1>1 DEF Ranked
  <2>2. c = b \/ rank[c] # 0
    BY <1>4, <1>5
  <2>3. d = b \/ rank[d] # 0
    BY <1>4, <1>5
  <2> QED
    BY <1>1, <1>2, <1>5, <2>1, <2>2, <2>3
<1>6. ASSUME NEW c \in Boxes, new[c] # 0, NEW k \in new[c] .. MaxBoxes
      PROVE  \E d \in Boxes : new[d] = k
  <2>1. CASE k = MaxBoxes
    BY <1>2, <2>1
  <2>2. CASE k # MaxBoxes
    <3>1. c # b /\ rank[c] # 0 /\ rank[c] \in 0 .. MaxBoxes
          /\ new[c] \in 0 .. MaxBoxes
      BY <1>1, <1>2, <1>3, <1>4, <1>6, <2>2
    <3>2. \A j \in rank[c] .. MaxBoxes : \E d \in Boxes : rank[d] = j
      BY <3>1 DEF Ranked
    <3>3. CASE k >= r
      <4>1. k + 1 \in rank[c] .. MaxBoxes
        BY <1>1, <1>2, <1>6, <2>2, <3>1, <3>3
      <4>2. PICK d \in Boxes : rank[d] = k + 1
        BY <3>2, <4>1
      <4>3. d # b /\ rank[d] > r /\ rank[d] - 1 = k
        BY <1>1, <1>3, <1>6, <3>3, <4>2
      <4> QED
        BY <1>2, <4>3
    <3>4. CASE k < r
      <4>1. k \in rank[c] .. MaxBoxes
        BY <1>1, <1>2, <1>6, <2>2, <3>1, <3>4
      <4>2. PICK d \in Boxes : rank[d] = k
        BY <3>2, <4>1
      <4>3. d # b /\ ~(rank[d] > r)
        BY <1>1, <1>3, <1>6, <3>4, <4>2
      <4> QED
        BY <1>2, <4>2, <4>3
    <3> QED
      BY <1>1, <1>3, <1>6, <3>3, <3>4
  <2> QED
    BY <2>1, <2>2
<1>7. Ranked(new)
  BY <1>3, <1>5, <1>6 DEF Ranked
<1> QED
  BY <1>4, <1>7 DEF new

LEMMA UnstampedRanked ==
  ASSUME NEW rank, Ranked(rank), NEW b \in Boxes
  PROVE  /\ Ranked(Unstamped(rank, b))
         /\ \A c \in Boxes : Unstamped(rank, b)[c] # 0 <=> c # b /\ rank[c] # 0
<1> DEFINE new == Unstamped(rank, b)
           r == rank[b]
<1>1. rank \in [Boxes -> 0 .. MaxBoxes] /\ MaxBoxes \in Nat /\ r \in 0 .. MaxBoxes
      /\ b \in 1 .. MaxBoxes
  BY RoutingAssumption DEF Ranked, Boxes
<1>2. \A c \in Boxes :
        new[c] = IF c = b THEN 0
                 ELSE IF rank[c] # 0 /\ rank[c] < r THEN rank[c] + 1 ELSE rank[c]
  BY DEF Unstamped
<1>3. new \in [Boxes -> 0 .. MaxBoxes]
  BY <1>1, StampedRank
<1>4. \A c \in Boxes : new[c] # 0 <=> c # b /\ rank[c] # 0
  BY <1>1, <1>2
<1> HIDE DEF new
<1>5. ASSUME NEW c \in Boxes, NEW d \in Boxes, new[c] = new[d], new[c] # 0
      PROVE  c = d
  <2>1. /\ rank[c] \in 0 .. MaxBoxes /\ rank[d] \in 0 .. MaxBoxes
        /\ rank[c] = rank[d] /\ rank[c] # 0 => c = d
        /\ rank[c] = r /\ r # 0 => c = b
        /\ rank[d] = r /\ r # 0 => d = b
    BY <1>1 DEF Ranked
  <2>2. c # b /\ rank[c] # 0 /\ d # b /\ rank[d] # 0
    BY <1>4, <1>5
  <2> QED
    BY <1>1, <1>2, <1>5, <2>1, <2>2
<1>6. ASSUME NEW c \in Boxes, new[c] # 0, NEW k \in new[c] .. MaxBoxes
      PROVE  \E d \in Boxes : new[d] = k
  <2>1. c # b /\ rank[c] # 0 /\ rank[c] \in 0 .. MaxBoxes
        /\ new[c] \in 0 .. MaxBoxes /\ k \in 1 .. MaxBoxes
    BY <1>1, <1>3, <1>4, <1>6
  <2>2. \A j \in rank[c] .. MaxBoxes : \E d \in Boxes : rank[d] = j
    BY <2>1 DEF Ranked
  <2>3. CASE k > r
    <3>1. k \in rank[c] .. MaxBoxes
      BY <1>1, <1>2, <1>6, <2>1, <2>3
    <3>2. PICK d \in Boxes : rank[d] = k
      BY <2>2, <3>1
    <3>3. d # b /\ ~(rank[d] < r)
      BY <1>1, <2>1, <2>3, <3>2
    <3> QED
      BY <1>2, <3>2, <3>3
  <2>4. CASE k <= r
    <3>1. rank[c] < r /\ new[c] = rank[c] + 1
      <4>1. rank[c] = r => c = b
        BY <1>1, <2>1 DEF Ranked
      <4> QED
        BY <1>1, <1>2, <1>6, <2>1, <2>4, <4>1
    <3>2. k - 1 \in rank[c] .. MaxBoxes /\ k - 1 # 0
      BY <1>1, <1>6, <2>1, <3>1
    <3>3. PICK d \in Boxes : rank[d] = k - 1
      BY <2>2, <3>2
    <3>4. d # b /\ rank[d] # 0 /\ rank[d] < r /\ rank[d] + 1 = k
      BY <1>1, <2>1, <2>4, <3>2, <3>3
    <3> QED
      BY <1>2, <3>4
  <2> QED
    BY <1>1, <2>1, <2>3, <2>4
<1>7. Ranked(new)
  BY <1>3, <1>5, <1>6 DEF Ranked
<1> QED
  BY <1>4, <1>7 DEF new

\* The types, with the rankings and what the clients are up to.
ClientsOK ==
  /\ heard \in [Boxes -> BOOLEAN] /\ zone \in [Boxes -> Nat]
  /\ \A s \in DOMAIN sessions :
       /\ sessions[s].owner \in 1 .. seen /\ sessions[s].port \in Ports
       /\ sessions[s].heard \in BOOLEAN

Types == TypeOK /\ Ranked(recent) /\ Ranked(awaits) /\ ClientsOK

LEMMA FateType == \A p, b : Fate(p, b) \in {"own", "foreign", "lost", "unknown"}
BY DEF Fate

\* Routing a packet keeps the registry well typed.
LEMMA DispatchTyped ==
  ASSUME RouteInv, Types, NEW p, p.session \in 1 .. Len(sessions'),
         Len(sessions') \in Nat, Len(sessions') >= Len(sessions), Dispatch(p)
  PROVE  /\ boxes' = boxes /\ expects' = expects /\ awaits' = awaits
         /\ bound' \in [Boxes -> 0 .. Len(sessions')]
         /\ age' \in [Boxes -> 0 .. 2]
         /\ Ranked(recent') /\ \A b \in Boxes : recent'[b] # 0 <=> b \in boxes
         /\ fate' \in {"own", "foreign", "lost", "unknown"}
<1>1. /\ bound \in [Boxes -> 0 .. Len(sessions)] /\ age \in [Boxes -> 0 .. 2]
      /\ Ranked(recent) /\ \A b \in Boxes : recent[b] # 0 <=> b \in boxes
      /\ boxes \subseteq Boxes /\ Len(sessions) \in Nat
  BY DEF Types, TypeOK, RouteInv
<1>2. CASE PickBox(p) = Dropped
  <2>1. UNCHANGED <<boxes, bound, expects, awaits, recent, age>>
        /\ \E b : fate' = Fate(p, b)
    BY <1>2 DEF Dispatch, registry
  <2>2. fate' \in {"own", "foreign", "lost", "unknown"}
    BY <2>1, FateType
  <2>3. bound' \in [Boxes -> 0 .. Len(sessions')]
    <3>1. 0 .. Len(sessions) \subseteq 0 .. Len(sessions')
      BY <1>1
    <3> QED
      BY <1>1, <2>1, <3>1
  <2> QED
    BY <1>1, <2>1, <2>2, <2>3
<1>3. CASE PickBox(p) # Dropped
  <2> DEFINE b == PickBox(p)
  <2>1. b \in boxes /\ b \in Boxes
    BY <1>1, <1>3, PickBoxSound
  <2>2. /\ bound' = [bound EXCEPT ![b] = p.session]
        /\ recent' = Stamped(recent, b)
        /\ age' = [age EXCEPT ![b] = 0]
        /\ fate' = Fate(p, b)
        /\ UNCHANGED <<boxes, expects, awaits>>
    BY <1>3 DEF Dispatch
  <2> HIDE DEF b
  <2>3. Ranked(recent') /\ \A c \in Boxes : recent'[c] # 0 <=> c \in boxes
    BY <1>1, <2>1, <2>2, StampedRanked
  <2>4. bound' \in [Boxes -> 0 .. Len(sessions')]
    <3>1. 0 .. Len(sessions) \subseteq 0 .. Len(sessions')
          /\ p.session \in 0 .. Len(sessions')
      BY <1>1
    <3>2. bound \in [Boxes -> 0 .. Len(sessions')]
      BY <1>1, <3>1
    <3> QED
      BY <2>2, <3>1, <3>2
  <2>5. age' \in [Boxes -> 0 .. 2]
    <3> DEFINE Ages == 0 .. 2
    <3>1. age \in [Boxes -> Ages] /\ age' = [age EXCEPT ![b] = 0] /\ 0 \in Ages
      BY <1>1, <2>2
    <3> HIDE DEF Ages
    <3>2. age' \in [Boxes -> Ages]
      BY <3>1
    <3> QED
      BY <3>2 DEF Ages
  <2>6. fate' \in {"own", "foreign", "lost", "unknown"}
    BY <2>2, FateType
  <2> QED
    BY <2>2, <2>3, <2>4, <2>5, <2>6
<1> QED
  BY <1>2, <1>3

\* The types hold at the start, and every step keeps them.
LEMMA TypesInit == Init => Types
BY RoutingAssumption DEF Init, Types, TypeOK, Ranked, ClientsOK, Boxes

LEMMA TypesStep ==
  ASSUME RouteInv, Types, RouteInv', [Next]_vars
  PROVE  Types'
<1>1. /\ bound \in [Boxes -> 0 .. Len(sessions)] /\ age \in [Boxes -> 0 .. 2]
      /\ expects \in [Boxes -> Ports \cup {NoPort}]
      /\ Ranked(recent) /\ \A b \in Boxes : recent[b] # 0 <=> b \in boxes
      /\ Ranked(awaits) /\ \A b \in Boxes : awaits[b] # 0 <=> expects[b] # NoPort
      /\ boxes \subseteq Boxes /\ Len(sessions) \in Nat
      /\ seen \in 0 .. MaxBoxes /\ boxes \subseteq 1 .. seen
      /\ fate \in {"own", "foreign", "lost", "unknown"}
      /\ MaxBoxes \in Nat
  BY RoutingAssumption DEF Types, TypeOK, RouteInv
<1>2. ASSUME Observe
      PROVE  Types'
  <2>1. /\ seen' = seen + 1 /\ seen' \in 1 .. MaxBoxes
        /\ boxes' = boxes \cup {seen'} /\ recent' = Stamped(recent, seen')
        /\ UNCHANGED <<bound, expects, awaits, age, told, heard, zone, sessions, fate>>
    BY <1>1, <1>2 DEF Observe, clients
  <2>2. Ranked(recent') /\ \A b \in Boxes : recent'[b] # 0 <=> b \in boxes'
    <3>1. seen' \in Boxes
      BY <2>1 DEF Boxes
    <3> QED
      BY <1>1, <2>1, <3>1, StampedRanked
  <2>3. boxes' \subseteq 1 .. seen' /\ 1 .. seen \subseteq 1 .. seen'
    BY <1>1, <2>1
  <2>4. ClientsOK'
    BY <2>1, <2>3 DEF Types, ClientsOK
  <2>5. TypeOK'
    BY <1>1, <2>1, <2>2, <2>3 DEF TypeOK, Ranked
  <2> QED
    BY <1>1, <2>1, <2>2, <2>4, <2>5 DEF Types
<1>3. ASSUME NEW b \in boxes, World(b) \/ GrowOld(b)
      PROVE  Types'
  <2>1. UNCHANGED <<seen, boxes, bound, expects, awaits, told, heard, zone, sessions, fate>>
    BY <1>3 DEF World, GrowOld, clients
  <2>2. age' \in [Boxes -> 0 .. 2]
    <3>1. CASE World(b)
      BY <1>1, <3>1 DEF World
    <3>2. CASE GrowOld(b)
      <4>1. age[b] < 2 /\ age' = [age EXCEPT ![b] = @ + 1]
        BY <1>1, <3>2 DEF GrowOld
      <4>2. age[b] + 1 \in 0 .. 2
        BY <1>1, <4>1
      <4> QED
        BY <1>1, <4>1, <4>2
    <3> QED
      BY <1>3, <3>1, <3>2
  <2>3. Ranked(recent') /\ \A c \in Boxes : recent'[c] # 0 <=> c \in boxes'
    <3>1. recent' = recent \/ recent' = Stamped(recent, b)
      BY <1>3 DEF World, GrowOld
    <3> QED
      BY <1>1, <2>1, <3>1, StampedRanked
  <2>4. TypeOK'
    BY <1>1, <2>1, <2>2, <2>3 DEF TypeOK, Ranked
  <2> QED
    BY <2>1, <2>3, <2>4 DEF Types, ClientsOK
<1>4. ASSUME NEW b \in boxes, Evict(b)
      PROVE  Types'
  <2>1. /\ boxes' = boxes \ {b} /\ bound' = [bound EXCEPT ![b] = 0]
        /\ expects' = [expects EXCEPT ![b] = NoPort] /\ age' = [age EXCEPT ![b] = 0]
        /\ awaits' = Unstamped(awaits, b) /\ recent' = Unstamped(recent, b)
        /\ UNCHANGED <<seen, told, heard, zone, sessions, fate>>
    BY <1>4 DEF Evict
  <2>2. Ranked(recent') /\ \A c \in Boxes : recent'[c] # 0 <=> c \in boxes'
    BY <1>1, <2>1, UnstampedRanked
  <2>3. Ranked(awaits') /\ \A c \in Boxes : awaits'[c] # 0 <=> expects'[c] # NoPort
    BY <1>1, <2>1, UnstampedRanked
  <2>4. /\ bound' \in [Boxes -> 0 .. Len(sessions')]
        /\ expects' \in [Boxes -> Ports \cup {NoPort}]
        /\ age' \in [Boxes -> 0 .. 2]
        /\ boxes' \subseteq 1 .. seen'
    <3>1. 0 \in 0 .. 2 /\ 0 \in 0 .. Len(sessions)
      BY <1>1
    <3> QED
      BY <1>1, <2>1, <3>1
  <2>5. TypeOK'
    BY <1>1, <2>1, <2>2, <2>3, <2>4 DEF TypeOK, Ranked
  <2> QED
    BY <2>1, <2>2, <2>3, <2>5 DEF Types, ClientsOK
<1>5. ASSUME NEW b \in boxes, NEW q \in Ports, NEW c \in BOOLEAN, Announce(b, q, c)
      PROVE  Types'
  <2>1. /\ heard' = [heard EXCEPT ![b] = c] /\ zone' = [zone EXCEPT ![b] = 0]
        /\ boxes' = boxes
        /\ UNCHANGED <<seen, sessions, fate>>
    BY <1>5 DEF Announce, registry
  <2>2. ClientsOK'
    BY <2>1 DEF Types, ClientsOK
  <2>3. CASE c
    <3>1. /\ expects' = [expects EXCEPT ![b] = q]
          /\ awaits' = Stamped(awaits, b) /\ bound' = [bound EXCEPT ![b] = 0]
          /\ recent' = Stamped(recent, b) /\ age' = [age EXCEPT ![b] = 0]
      BY <1>5, <2>3 DEF Announce, HearAnnouncement
    <3>2. Ranked(recent') /\ \A d \in Boxes : recent'[d] # 0 <=> d \in boxes'
      BY <1>1, <2>1, <3>1, StampedRanked
    <3>3. Ranked(awaits') /\ \A d \in Boxes : awaits'[d] # 0 <=> expects'[d] # NoPort
      BY <1>1, <3>1, StampedRanked, RoutingAssumption
    <3>4. /\ bound' \in [Boxes -> 0 .. Len(sessions')]
          /\ expects' \in [Boxes -> Ports \cup {NoPort}]
          /\ age' \in [Boxes -> 0 .. 2]
      <4>1. 0 \in 0 .. 2 /\ 0 \in 0 .. Len(sessions)
        BY <1>1
      <4> QED
        BY <1>1, <2>1, <3>1, <4>1
    <3>5. TypeOK'
      BY <1>1, <2>1, <3>2, <3>3, <3>4 DEF TypeOK, Ranked
    <3> QED
      BY <2>2, <3>2, <3>3, <3>5 DEF Types
  <2>4. CASE ~c
    <3>1. UNCHANGED <<bound, expects, awaits, recent, age>>
      BY <1>5, <2>4 DEF Announce, registry
    <3> QED
      BY <1>1, <2>1, <2>2, <3>1 DEF Types, TypeOK, Ranked
  <2> QED
    BY <2>3, <2>4
<1>6. ASSUME NEW b \in boxes, NEW c \in BOOLEAN, Connect(b, c)
      PROVE  Types'
  <2> DEFINE s == Len(sessions) + 1
             p == [session |-> s, owner |-> b, port |-> told[b],
                   request |-> TRUE, due |-> heard[b]]
  <2>1. /\ told[b] # NoPort
        /\ sessions' = Append(sessions, [owner |-> b, port |-> told[b], heard |-> heard[b]])
        /\ zone' = [zone EXCEPT ![b] = s] /\ heard' = [heard EXCEPT ![b] = FALSE]
        /\ seen' = seen
    BY <1>6 DEF Connect
  <2>2. Len(sessions') = Len(sessions) + 1 /\ DOMAIN sessions' = 1 .. Len(sessions) + 1
    BY <1>1, <2>1 DEF RouteInv
  <2>3. told[b] \in Ports /\ b \in 1 .. seen /\ heard[b] \in BOOLEAN /\ b \in Boxes
    BY <1>1, <2>1 DEF RouteInv, Types, ClientsOK
  <2>4. ClientsOK'
    <3>1. ASSUME NEW t \in DOMAIN sessions'
          PROVE  /\ sessions'[t].owner \in 1 .. seen' /\ sessions'[t].port \in Ports
                 /\ sessions'[t].heard \in BOOLEAN
      <4>1. CASE t = Len(sessions) + 1
        BY <2>1, <2>3, <4>1
      <4>2. CASE t # Len(sessions) + 1
        <5>1. t \in DOMAIN sessions /\ sessions'[t] = sessions[t]
          BY <1>1, <2>1, <2>2, <4>2 DEF RouteInv
        <5> QED
          BY <2>1, <5>1 DEF Types, ClientsOK
      <4> QED
        BY <4>1, <4>2
    <3>2. heard' \in [Boxes -> BOOLEAN] /\ zone' \in [Boxes -> Nat]
      BY <1>1, <2>1, <2>3 DEF Types, ClientsOK
    <3> QED
      BY <3>1, <3>2 DEF ClientsOK
  <2>5. CASE c
    <3>1. Dispatch(p)
      BY <1>6, <2>5 DEF Connect
    <3>2. p.session \in 1 .. Len(sessions') /\ Len(sessions') \in Nat
          /\ Len(sessions') >= Len(sessions)
      BY <1>1, <2>2
    <3> HIDE DEF p
    <3>3. /\ boxes' = boxes /\ expects' = expects /\ awaits' = awaits
          /\ bound' \in [Boxes -> 0 .. Len(sessions')]
          /\ age' \in [Boxes -> 0 .. 2]
          /\ Ranked(recent') /\ \A d \in Boxes : recent'[d] # 0 <=> d \in boxes
          /\ fate' \in {"own", "foreign", "lost", "unknown"}
      BY <3>1, <3>2, DispatchTyped
    <3>4. TypeOK'
      BY <1>1, <2>1, <3>3 DEF TypeOK, Ranked
    <3> QED
      BY <1>1, <2>4, <3>3, <3>4 DEF Types
  <2>6. CASE ~c
    <3>1. UNCHANGED <<boxes, bound, expects, awaits, recent, age, fate>>
      BY <1>6, <2>6 DEF Connect, registry
    <3>2. bound' \in [Boxes -> 0 .. Len(sessions')]
      <4>1. 0 .. Len(sessions) \subseteq 0 .. Len(sessions')
        BY <1>1, <2>2
      <4> QED
        BY <1>1, <3>1, <4>1
    <3>3. TypeOK'
      BY <1>1, <2>1, <3>1, <3>2 DEF TypeOK, Ranked
    <3> QED
      BY <1>1, <2>4, <3>1, <3>3 DEF Types
  <2> QED
    BY <2>5, <2>6
<1>7. ASSUME NEW s \in DOMAIN sessions, Zone(s)
      PROVE  Types'
  <2> DEFINE p == [session |-> s, owner |-> sessions[s].owner, port |-> sessions[s].port,
                   request |-> FALSE,
                   due |-> sessions[s].heard /\ zone[sessions[s].owner] = s]
  <2>1. Dispatch(p) /\ UNCHANGED <<seen, told, heard, zone, sessions>>
    BY <1>7 DEF Zone, clients
  <2>2. p.session \in 1 .. Len(sessions') /\ Len(sessions') \in Nat
        /\ Len(sessions') >= Len(sessions)
    BY <1>1, <2>1 DEF RouteInv
  <2> HIDE DEF p
  <2>3. /\ boxes' = boxes /\ expects' = expects /\ awaits' = awaits
        /\ bound' \in [Boxes -> 0 .. Len(sessions')]
        /\ age' \in [Boxes -> 0 .. 2]
        /\ Ranked(recent') /\ \A d \in Boxes : recent'[d] # 0 <=> d \in boxes
        /\ fate' \in {"own", "foreign", "lost", "unknown"}
    BY <2>1, <2>2, DispatchTyped
  <2>4. TypeOK'
    BY <1>1, <2>1, <2>3 DEF TypeOK, Ranked
  <2>5. ClientsOK'
    BY <2>1 DEF Types, ClientsOK
  <2> QED
    BY <1>1, <2>3, <2>4, <2>5 DEF Types
<1>8. CASE UNCHANGED vars
  <2>1. UNCHANGED <<seen, boxes, bound, expects, awaits, recent, age, told, heard,
                    zone, sessions, fate>>
    BY <1>8 DEF vars, registry, clients
  <2> QED
    BY <2>1 DEF Types, TypeOK, ClientsOK, Ranked
<1> QED
  BY <1>2, <1>3, <1>4, <1>5, <1>6, <1>7, <1>8 DEF Next

\* As long as nothing has gone wrong: every box decodes the session its client
\* is in or none, a client about to zone goes where its box awaits it, and no
\* two unbound boxes of one host await the same port.
AtHome ==
  /\ boxes = 1 .. seen
  /\ \A b \in Boxes :
       /\ bound[b] # 0 => bound[b] = zone[b]
       /\ told[b] # NoPort => heard[b] /\ zone[b] = 0 /\ expects[b] = told[b]
       /\ zone[b] # 0 => /\ zone[b] \in DOMAIN sessions
                         /\ sessions[zone[b]].owner = b
                         /\ sessions[zone[b]].port = expects[b]
  /\ \A b, c \in Boxes :
       /\ Host[b] = Host[c] /\ b # c
       /\ bound[b] = 0 /\ bound[c] = 0 /\ expects[b] # NoPort
       => expects[b] # expects[c]
  /\ \A b \in Boxes \ boxes : told[b] = NoPort /\ expects[b] = NoPort
  /\ fate \notin {"foreign", "lost"}

RoutedInv == RouteInv /\ Types /\ (calm => AtHome)

\* The box that awaits a packet of its own client is the only candidate.
LEMMA OnlyCandidate ==
  ASSUME RoutedInv, AtHome, NEW p, p.owner \in boxes, BoundTo(p) = {},
         bound[p.owner] = 0, expects[p.owner] = p.port, p.port \in Ports
  PROVE  PickBox(p) = p.owner
<1>1. p.owner \in Boxes /\ boxes \subseteq Boxes
  BY DEF RoutedInv, RouteInv
<1>2. Expecting(p) = {p.owner}
  BY <1>1, RoutingAssumption DEF Expecting, SameHost, AtHome
<1>3. Newest(awaits, {p.owner}) \in {p.owner}
  <2>1. {p.owner} \in SUBSET Boxes /\ {p.owner} # {}
    BY <1>1
  <2>2. awaits \in [Boxes -> 0 .. MaxBoxes]
    BY DEF RoutedInv, RouteInv
  <2> QED
    BY <2>1, <2>2, NewestIn
<1> QED
  BY <1>2, <1>3 DEF PickBox

\* A packet routed to its owner's box leaves everyone at home.
LEMMA OwnPacket ==
  ASSUME RoutedInv, AtHome, NEW p, p.owner \in boxes, PickBox(p) = p.owner,
         Dispatch(p)
  PROVE  /\ boxes' = boxes /\ expects' = expects
         /\ bound' = [bound EXCEPT ![p.owner] = p.session]
         /\ fate' = "own"
<1>1. p.owner # Dropped
  BY RoutingAssumption DEF RoutedInv, RouteInv, Boxes, Dropped
<1> QED
  BY <1>1 DEF Dispatch, Fate

\* A client that was told its port opens its session there, and its box is the
\* one that takes it.
LEMMA ConnectHome ==
  ASSUME RoutedInv, AtHome, NEW b \in boxes, NEW c \in BOOLEAN, Connect(b, c)
  PROVE  AtHome'
<1> DEFINE s == Len(sessions) + 1
           p == [session |-> s, owner |-> b, port |-> told[b],
                 request |-> TRUE, due |-> heard[b]]
<1>1. /\ told[b] # NoPort
      /\ sessions' = Append(sessions, [owner |-> b, port |-> told[b], heard |-> heard[b]])
      /\ zone' = [zone EXCEPT ![b] = s] /\ told' = [told EXCEPT ![b] = NoPort]
      /\ heard' = [heard EXCEPT ![b] = FALSE]
      /\ seen' = seen
  BY DEF Connect
<1>2. /\ b \in Boxes /\ Len(sessions) \in Nat /\ DOMAIN sessions = 1 .. Len(sessions)
      /\ bound \in [Boxes -> 0 .. Len(sessions)]
      /\ told \in [Boxes -> Ports \cup {NoPort}] /\ boxes \subseteq Boxes
      /\ zone \in [Boxes -> Nat] /\ heard \in [Boxes -> BOOLEAN]
  BY DEF RoutedInv, RouteInv, Types, TypeOK, ClientsOK
<1>3. /\ heard[b] /\ zone[b] = 0 /\ expects[b] = told[b] /\ bound[b] = 0
      /\ told[b] \in Ports
  BY <1>1, <1>2 DEF AtHome
<1>4. /\ boxes' = boxes /\ expects' = expects /\ fate' \notin {"foreign", "lost"}
      /\ \A d \in Boxes : bound'[d] = bound[d] \/ (d = b /\ bound'[d] = s)
  <2>1. CASE c
    <3>1. Dispatch(p)
      BY <2>1 DEF Connect
    <3>2. /\ p.owner = b /\ p.session = s /\ p.port = told[b]
          /\ BoundTo(p) = {}
      BY <1>2 DEF BoundTo
    <3> HIDE DEF p
    <3>3. PickBox(p) = b
      BY <1>3, <3>2, OnlyCandidate
    <3>4. /\ boxes' = boxes /\ expects' = expects
          /\ bound' = [bound EXCEPT ![b] = s] /\ fate' = "own"
      BY <3>1, <3>2, <3>3, OwnPacket
    <3>5. ASSUME NEW d \in Boxes
          PROVE  bound'[d] = bound[d] \/ (d = b /\ bound'[d] = s)
      <4> HIDE DEF s
      <4>1. DOMAIN bound = Boxes
        BY <1>2
      <4> QED
        BY <1>2, <3>4, <4>1
    <3> QED
      BY <3>4, <3>5
  <2>2. CASE ~c
    <3>1. UNCHANGED <<boxes, bound, expects, fate>>
      BY <2>2 DEF Connect, registry
    <3> QED
      BY <3>1 DEF AtHome
  <2> QED
    BY <2>1, <2>2
<1> HIDE DEF p
<1>5. /\ DOMAIN sessions' = 1 .. s /\ sessions'[s].owner = b
      /\ sessions'[s].port = told[b]
      /\ \A t \in DOMAIN sessions : t \in DOMAIN sessions' /\ sessions'[t] = sessions[t]
  BY <1>1, <1>2
<1>6. s # 0
  BY <1>2
<1>7. ASSUME NEW d \in Boxes
      PROVE  /\ bound'[d] # 0 => bound'[d] = zone'[d]
             /\ told'[d] # NoPort =>
                  heard'[d] /\ zone'[d] = 0 /\ expects'[d] = told'[d]
             /\ zone'[d] # 0 => /\ zone'[d] \in DOMAIN sessions'
                                /\ sessions'[zone'[d]].owner = d
                                /\ sessions'[zone'[d]].port = expects'[d]
  <2>1. CASE d = b
    BY <1>1, <1>2, <1>3, <1>4, <1>5, <2>1
  <2>2. CASE d # b
    <3>1. /\ bound'[d] = bound[d] /\ zone'[d] = zone[d] /\ told'[d] = told[d]
          /\ heard'[d] = heard[d] /\ expects'[d] = expects[d]
      BY <1>1, <1>2, <1>4, <2>2
    <3> QED
      BY <1>5, <3>1 DEF AtHome
  <2> QED
    BY <2>1, <2>2
<1>8. \A d, e \in Boxes :
        /\ Host[d] = Host[e] /\ d # e
        /\ bound'[d] = 0 /\ bound'[e] = 0 /\ expects'[d] # NoPort
        => expects'[d] # expects'[e]
  <2>1. \A d \in Boxes : bound'[d] = 0 => bound[d] = 0
    BY <1>3, <1>4, <1>6
  <2> QED
    BY <1>4, <2>1 DEF AtHome
<1>9. boxes' = 1 .. seen'
  BY <1>1, <1>4 DEF AtHome
<1>10. \A d \in Boxes \ boxes' : told'[d] = NoPort /\ expects'[d] = NoPort
  BY <1>1, <1>4 DEF AtHome
<1> QED
  BY <1>4, <1>7, <1>8, <1>9, <1>10 DEF AtHome

\* An announcement that is captured, to no other client of the host, keeps the
\* ports that are awaited apart.
LEMMA AnnounceHome ==
  ASSUME RoutedInv, AtHome, NEW b \in boxes, NEW q \in Ports, NEW c \in BOOLEAN,
         Announce(b, q, c), calm'
  PROVE  AtHome'
<1>1. c /\ ~Busy(b, q)
  BY DEF Announce
<1>2. /\ told' = [told EXCEPT ![b] = q] /\ heard' = [heard EXCEPT ![b] = TRUE]
      /\ zone' = [zone EXCEPT ![b] = 0]
      /\ expects' = [expects EXCEPT ![b] = q] /\ bound' = [bound EXCEPT ![b] = 0]
      /\ UNCHANGED <<boxes, seen, sessions, fate>>
  BY <1>1 DEF Announce, HearAnnouncement
<1>3. /\ b \in Boxes /\ boxes \subseteq Boxes
      /\ bound \in [Boxes -> 0 .. Len(sessions)]
      /\ told \in [Boxes -> Ports \cup {NoPort}]
      /\ expects \in [Boxes -> Ports \cup {NoPort}]
      /\ zone \in [Boxes -> Nat] /\ heard \in [Boxes -> BOOLEAN]
      /\ \A d \in Boxes : awaits[d] # 0 <=> expects[d] # NoPort
  BY DEF RoutedInv, RouteInv, Types, TypeOK, ClientsOK
<1>4. \A d \in boxes : Host[d] = Host[b] /\ d # b =>
        told[d] = NoPort /\ ~(bound[d] = 0 /\ expects[d] = q)
  BY <1>1 DEF Busy, SameHost
<1>5. ASSUME NEW d \in Boxes
      PROVE  /\ bound'[d] # 0 => bound'[d] = zone'[d]
             /\ told'[d] # NoPort =>
                  heard'[d] /\ zone'[d] = 0 /\ expects'[d] = told'[d]
             /\ zone'[d] # 0 => /\ zone'[d] \in DOMAIN sessions'
                                /\ sessions'[zone'[d]].owner = d
                                /\ sessions'[zone'[d]].port = expects'[d]
  <2>1. CASE d = b
    BY <1>2, <1>3, <2>1
  <2>2. CASE d # b
    <3>1. /\ bound'[d] = bound[d] /\ zone'[d] = zone[d] /\ told'[d] = told[d]
          /\ heard'[d] = heard[d] /\ expects'[d] = expects[d]
          /\ sessions' = sessions
      BY <1>2, <1>3, <2>2
    <3> QED
      BY <3>1 DEF AtHome
  <2> QED
    BY <2>1, <2>2
<1>6. \A d \in Boxes : Host[d] = Host[b] /\ d # b =>
        ~(bound'[d] = 0 /\ expects'[d] = q)
  <2> SUFFICES ASSUME NEW d \in Boxes, Host[d] = Host[b], d # b,
                      bound'[d] = 0, expects'[d] = q
               PROVE  FALSE
    OBVIOUS
  <2>1. bound[d] = 0 /\ expects[d] = q
    BY <1>2, <1>3
  <2>2. d \notin boxes
    BY <1>4, <2>1
  <2>3. expects[d] = NoPort
    BY <2>2 DEF AtHome
  <2> QED
    BY <2>1, <2>3, RoutingAssumption
<1>7. ASSUME NEW d \in Boxes, NEW e \in Boxes, Host[d] = Host[e], d # e,
             bound'[d] = 0, bound'[e] = 0, expects'[d] # NoPort
      PROVE  expects'[d] # expects'[e]
  <2>1. CASE d = b
    <3>1. expects'[d] = q
      BY <1>2, <1>3, <2>1
    <3> QED
      BY <1>6, <1>7, <2>1, <3>1
  <2>2. CASE e = b
    <3>1. expects'[e] = q
      BY <1>2, <1>3, <2>2
    <3> QED
      BY <1>6, <1>7, <2>2, <3>1
  <2>3. CASE d # b /\ e # b
    <3>1. /\ bound[d] = 0 /\ bound[e] = 0
          /\ expects'[d] = expects[d] /\ expects'[e] = expects[e]
      BY <1>2, <1>3, <1>7, <2>3
    <3> QED
      BY <1>7, <3>1 DEF AtHome
  <2> QED
    BY <2>1, <2>2, <2>3
<1>8. \A d \in Boxes \ boxes' : told'[d] = NoPort /\ expects'[d] = NoPort
  BY <1>2, <1>3 DEF AtHome
<1>9. boxes' = 1 .. seen' /\ fate' \notin {"foreign", "lost"}
  BY <1>2 DEF AtHome
<1> QED
  BY <1>5, <1>7, <1>8, <1>9 DEF AtHome

\* A packet of the session a client is in goes to its box; one of a session left
\* goes nowhere, or to the global streams of the only box.
LEMMA ZoneHome ==
  ASSUME RoutedInv, AtHome, NEW s \in DOMAIN sessions, Zone(s), calm'
  PROVE  AtHome'
<1> DEFINE o == sessions[s].owner
           p == [session |-> s, owner |-> o, port |-> sessions[s].port,
                 request |-> FALSE, due |-> sessions[s].heard /\ zone[o] = s]
<1>1. /\ Dispatch(p) /\ UNCHANGED <<seen, told, heard, zone, sessions>>
      /\ zone[o] = s \/ Expecting(p) = {}
  BY DEF Zone, clients
<1>2. /\ o \in boxes /\ o \in Boxes /\ p.port \in Ports
      /\ s \in Nat \ {0} /\ seen \in Nat /\ boxes \subseteq Boxes
      /\ bound \in [Boxes -> Nat]
  BY DEF AtHome, RoutedInv, RouteInv, BoundInv, Types, ClientsOK
<1>3. /\ p.owner = o /\ p.session = s /\ p.port = sessions[s].port
      /\ p.request = FALSE /\ p.due = (sessions[s].heard /\ zone[o] = s)
  OBVIOUS
<1>4. BoundTo(p) \subseteq {o} /\ (BoundTo(p) # {} => zone[o] = s)
  <2> HIDE DEF p
  <2>1. ASSUME NEW d \in BoundTo(p)
        PROVE  d = o /\ zone[o] = s
    <3>1. d \in Boxes /\ bound[d] = s
      BY <1>2, <1>3 DEF BoundTo
    <3>2. zone[d] = s /\ s # 0
      BY <1>2, <3>1 DEF AtHome
    <3>3. o = d
      BY <3>1, <3>2 DEF AtHome
    <3> QED
      BY <3>2, <3>3
  <2> QED
    BY <2>1
<1> HIDE DEF p
<1>5. CASE zone[o] = s
  <2>1. expects[o] = p.port
    BY <1>2, <1>3, <1>5 DEF AtHome
  <2>2. bound[o] = 0 \/ bound[o] = s
    BY <1>2, <1>5 DEF AtHome
  <2>3. PickBox(p) = o
    <3>1. CASE bound[o] = s
      <4>1. BoundTo(p) = {o}
        BY <1>2, <1>3, <1>4, <3>1 DEF BoundTo
      <4> QED
        BY <4>1 DEF PickBox
    <3>2. CASE bound[o] = 0
      <4>1. BoundTo(p) = {}
        BY <1>2, <1>3, <1>4, <3>2 DEF BoundTo
      <4> QED
        BY <1>2, <1>3, <2>1, <3>2, <4>1, OnlyCandidate
    <3> QED
      BY <2>2, <3>1, <3>2
  <2>4. /\ boxes' = boxes /\ expects' = expects
        /\ bound' = [bound EXCEPT ![o] = s] /\ fate' = "own"
    BY <1>1, <1>2, <1>3, <2>3, OwnPacket
  <2> HIDE DEF o
  <2>5. \A d \in Boxes :
          /\ bound'[d] # 0 => bound'[d] = zone[d]
          /\ bound'[d] = 0 => bound[d] = 0
    BY <1>2, <1>5, <2>4 DEF AtHome
  <2> QED
    BY <1>1, <2>4, <2>5 DEF AtHome
<1>6. CASE zone[o] # s
  <2>1. BoundTo(p) = {} /\ Expecting(p) = {} /\ ~p.request /\ ~p.due
    BY <1>1, <1>3, <1>4, <1>6
  <2>2. PickBox(p) = Dropped
    BY <2>1 DEF PickBox
  <2>3. /\ UNCHANGED <<boxes, bound, expects>>
        /\ fate' = Fate(p, IF Cardinality(boxes) <= 1 THEN Primary ELSE Dropped)
    BY <1>1, <2>2 DEF Dispatch, registry
  <2>4. CASE Cardinality(boxes) <= 1
    <3>1. Cardinality(boxes) = seen
      <4>1. boxes = 1 .. seen
        BY DEF AtHome
      <4>2. Cardinality(1 .. seen) = IF 1 > seen THEN 0 ELSE seen - 1 + 1
        BY <1>2, FS_Interval
      <4> QED
        BY <1>2, <4>1, <4>2
    <3>2. o = Primary
      BY <1>2, <2>4, <3>1 DEF AtHome, Primary
    <3>3. fate' = "own"
      BY <1>3, <2>3, <2>4, <3>2 DEF Fate
    <3> QED
      BY <1>1, <2>3, <3>3 DEF AtHome
  <2>5. CASE ~(Cardinality(boxes) <= 1)
    <3>1. o # Dropped
      BY <1>2, RoutingAssumption DEF Boxes, Dropped
    <3>2. fate' = "unknown"
      BY <1>3, <2>1, <2>3, <2>5, <3>1 DEF Fate
    <3> QED
      BY <1>1, <2>3, <3>2 DEF AtHome
  <2> QED
    BY <2>4, <2>5
<1> QED
  BY <1>5, <1>6

LEMMA RoutedInit == Init => RoutedInv
<1> SUFFICES ASSUME Init PROVE RoutedInv
  OBVIOUS
<1>1. AtHome
  BY RoutingAssumption DEF Init, AtHome, Boxes
<1> QED
  BY <1>1, Start, TypesInit DEF RoutedInv

LEMMA RoutedStep == RoutedInv /\ [Next]_vars => RoutedInv'
<1> SUFFICES ASSUME RoutedInv, [Next]_vars PROVE RoutedInv'
  OBVIOUS
<1>1. RouteInv'
  BY RouteStep DEF RoutedInv
<1>2. Types'
  BY <1>1, TypesStep DEF RoutedInv
<1>3. ASSUME calm' PROVE AtHome'
  <2>1. calm
    BY <1>3 DEF Next, Observe, World, GrowOld, Evict, Announce, Connect, Zone, vars
  <2>2. AtHome
    BY <2>1 DEF RoutedInv
  <2>3. CASE Observe
    <3>1. /\ seen' = seen + 1 /\ boxes' = boxes \cup {seen + 1} /\ seen \in Nat
          /\ UNCHANGED <<bound, expects, told, heard, zone, sessions, fate>>
      BY <2>3 DEF Observe, clients, RoutedInv, RouteInv
    <3>2. boxes' = 1 .. seen'
      BY <2>2, <3>1 DEF AtHome
    <3> QED
      BY <2>2, <3>1, <3>2 DEF AtHome
  <2>4. ASSUME NEW b \in boxes, World(b) \/ GrowOld(b) \/ Evict(b)
        PROVE  AtHome'
    <3>1. UNCHANGED <<seen, boxes, bound, expects, told, heard, zone, sessions, fate>>
      BY <1>3, <2>4 DEF World, GrowOld, Evict, clients
    <3> QED
      BY <2>2, <3>1 DEF AtHome
  <2>5. ASSUME NEW b \in boxes, NEW q \in Ports, NEW c \in BOOLEAN, Announce(b, q, c)
        PROVE  AtHome'
    BY <1>3, <2>2, <2>5, AnnounceHome
  <2>6. ASSUME NEW b \in boxes, NEW c \in BOOLEAN, Connect(b, c)
        PROVE  AtHome'
    BY <2>2, <2>6, ConnectHome
  <2>7. ASSUME NEW s \in DOMAIN sessions, Zone(s)
        PROVE  AtHome'
    BY <1>3, <2>2, <2>7, ZoneHome
  <2>8. CASE UNCHANGED vars
    <3>1. UNCHANGED <<seen, boxes, bound, expects, told, heard, zone, sessions, fate>>
      BY <2>8 DEF vars, registry, clients
    <3> QED
      BY <2>2, <3>1 DEF AtHome
  <2> QED
    BY <2>3, <2>4, <2>5, <2>6, <2>7, <2>8 DEF Next
<1> QED
  BY <1>1, <1>2, <1>3 DEF RoutedInv

\* As long as every announcement is captured, the clients of one host zone one
\* at a time, nothing arrives late and no box is freed, dispatchPacket feeds
\* every zone session to the streams of its own box and loses nothing that was
\* announced, for any number of boxes, hosts and ports; and the stamps that
\* break the ties of its lookups are always ranks.
THEOREM RoutesItsOwn == Spec => []RoutedOK
<1>1. RoutedInv => RoutedOK
  BY DEF RoutedInv, Types, AtHome, RoutedOK, EachItsOwn
<1> QED
  BY <1>1, RoutedInit, RoutedStep, PTL DEF Spec
=============================================================================
