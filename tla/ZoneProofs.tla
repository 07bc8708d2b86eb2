----------------------------- MODULE ZoneProofs -----------------------------
(***************************************************************************)
(* Theorems about Zone, for every set of ids, names and zones, every size  *)
(* of the group and of the ring of dead spawns, and any number of packets. *)
(***************************************************************************)
EXTENDS Zone, FiniteSetTheorems, TLAPS

-----------------------------------------------------------------------------
(* The managers' state, part by part.                                      *)

\* The record the operators on it take and give back.
Shape(t) ==
  t = [zone |-> t.zone, zoning |-> t.zoning, me |-> t.me, name |-> t.name, real |-> t.real,
       kind |-> t.kind, defaults |-> t.defaults, spawns |-> t.spawns, drops |-> t.drops,
       doors |-> t.doors, players |-> t.players, dead |-> t.dead, pos |-> t.pos, cnt |-> t.cnt,
       peers |-> t.peers, on |-> t.on, view |-> t.view, self |-> t.self, shown |-> t.shown,
       snap |-> t.snap]

\* Player, ZoneMgr and the ring.
PlayerOK(t) ==
  /\ t.zone \in Zones \cup {"unknown"} /\ t.zoning \in BOOLEAN
  /\ t.name \in Names /\ t.real \in BOOLEAN /\ t.kind \in Kinds /\ t.defaults \in BOOLEAN
  /\ t.players \subseteq Ids \cup {0}
  /\ t.dead \in [Ring -> Ids \cup {0}] /\ t.pos \in Ring /\ t.cnt \in 0 .. MaxDead

\* SpawnShell's maps and the player's id.
ShellOK(t) ==
  /\ t.me \in Ids \cup {0}
  /\ DOMAIN t.spawns \subseteq Ids
  /\ \A id \in DOMAIN t.spawns : t.spawns[id] \in [name : Names, kind : Kinds]
  /\ t.drops \subseteq Ids /\ t.doors \subseteq Ids

\* A member points to no freed object.
Pointers == Ids \cup {Nil, Self, Left}

GroupOK(t) ==
  /\ DOMAIN t.peers \subseteq Pals \cup {"me"}
  /\ Cardinality(DOMAIN t.peers) <= MaxPeers
  /\ \A n \in DOMAIN t.peers : t.peers[n] \in Pointers

\* What the client was told.
ToldOK(t) ==
  /\ t.on \in BOOLEAN /\ t.view \subseteq Ids \cup {0} /\ t.self \in Ids \cup {0}
  /\ t.shown \in Zones \cup {"unknown", "none"} /\ t.snap \in Zones \cup {"unknown", "none"}

Good(t) == Shape(t) /\ PlayerOK(t) /\ ShellOK(t) /\ GroupOK(t) /\ ToldOK(t)

-----------------------------------------------------------------------------
(* What an operator leaves alone.                                          *)

SamePlayer(t, u) ==
  /\ u.zone = t.zone /\ u.zoning = t.zoning /\ u.name = t.name /\ u.real = t.real
  /\ u.kind = t.kind /\ u.defaults = t.defaults /\ u.players = t.players
  /\ u.dead = t.dead /\ u.pos = t.pos /\ u.cnt = t.cnt

SameShell(t, u) == u.me = t.me /\ u.spawns = t.spawns /\ u.drops = t.drops /\ u.doors = t.doors

SameGroup(t, u) == u.peers = t.peers

\* The members are the same, whatever they point to.
SameRoster(t, u) == DOMAIN u.peers = DOMAIN t.peers

\* What the client knows but for its items.
SameZone(t, u) == u.on = t.on /\ u.self = t.self /\ u.shown = t.shown /\ u.snap = t.snap

SameTold(t, u) == SameZone(t, u) /\ u.view = t.view

\* The client holds what the managers do.
Synced(t) == t.view = View(t) /\ t.self = t.me /\ t.shown = t.zone /\ t.snap = t.zone

\* The members that a new spawn's player is one of point to it.
Joined(t, u) ==
  \A i \in DOMAIN u.spawns \ DOMAIN t.spawns :
    u.spawns[i].kind = "pc" /\ u.spawns[i].name \in DOMAIN u.peers
      => u.peers[u.spawns[i].name] = i

\* The items' ids are the same.
SameItems(t, u) ==
  u.me = t.me /\ u.drops = t.drops /\ u.doors = t.doors /\ DOMAIN u.spawns = DOMAIN t.spawns

\* The same items are held and shown.
Stays(t, u) ==
  Good(u) /\ SameItems(t, u) /\ SameTold(t, u) /\ SameRoster(t, u)

\* There is a spawn at id, and it is shown.
Grows(t, u, id) ==
  /\ Good(u) /\ SameZone(t, u) /\ SameRoster(t, u) /\ Joined(t, u)
  /\ u.me = t.me /\ u.drops = t.drops /\ u.doors = t.doors
  /\ DOMAIN u.spawns = DOMAIN t.spawns \cup {id}
  /\ u.view = IF t.on THEN t.view \cup {id} ELSE t.view

-----------------------------------------------------------------------------
(* SessionAdapter's operators.                                             *)

LEMMA AddedIs ==
  ASSUME NEW t, Good(t), NEW id \in Ids \cup {0}
  PROVE  LET u == Added(t, id) IN
         /\ Good(u) /\ SameShell(t, u) /\ SamePlayer(t, u) /\ SameGroup(t, u) /\ SameZone(t, u)
         /\ u.view = IF t.on THEN t.view \cup {id} ELSE t.view
<1> DEFINE V == IF t.on THEN t.view \cup {id} ELSE t.view
           u == Added(t, id)
<1>1. u = [t EXCEPT !.view = V]
  BY DEF Added, Good, Shape
<1>2. V \subseteq Ids \cup {0}
  BY DEF Good, ToldOK
<1> HIDE DEF V, u
<1>3. /\ Shape(u) /\ SameShell(t, u) /\ SamePlayer(t, u) /\ SameGroup(t, u) /\ SameZone(t, u)
      /\ u.view = V
  BY <1>1 DEF Good, Shape, SameShell, SamePlayer, SameGroup, SameZone
<1>4. PlayerOK(u) /\ ShellOK(u) /\ GroupOK(u)
  BY <1>3 DEF Good, PlayerOK, ShellOK, GroupOK, SamePlayer, SameShell, SameGroup
<1>5. ToldOK(u)
  BY <1>2, <1>3 DEF Good, ToldOK, SameZone
<1> QED
  BY <1>3, <1>4, <1>5 DEF Good, u, V

LEMMA RemovedIs ==
  ASSUME NEW t, Good(t), NEW id
  PROVE  LET u == Removed(t, id) IN
         /\ Good(u) /\ SameShell(t, u) /\ SamePlayer(t, u) /\ SameGroup(t, u) /\ SameZone(t, u)
         /\ u.view = IF t.on THEN t.view \ {id} ELSE t.view
<1> DEFINE V == IF t.on THEN t.view \ {id} ELSE t.view
           u == Removed(t, id)
<1>1. u = [t EXCEPT !.view = V]
  BY DEF Removed, Good, Shape
<1>2. V \subseteq Ids \cup {0}
  BY DEF Good, ToldOK
<1> HIDE DEF V, u
<1>3. /\ Shape(u) /\ SameShell(t, u) /\ SamePlayer(t, u) /\ SameGroup(t, u) /\ SameZone(t, u)
      /\ u.view = V
  BY <1>1 DEF Good, Shape, SameShell, SamePlayer, SameGroup, SameZone
<1>4. PlayerOK(u) /\ ShellOK(u) /\ GroupOK(u)
  BY <1>3 DEF Good, PlayerOK, ShellOK, GroupOK, SamePlayer, SameShell, SameGroup
<1>5. ToldOK(u)
  BY <1>2, <1>3 DEF Good, ToldOK, SameZone
<1> QED
  BY <1>3, <1>4, <1>5 DEF Good, u, V

LEMMA SnapshotIs ==
  ASSUME NEW t, Good(t)
  PROVE  LET u == Snapshot(t) IN
         /\ Good(u) /\ SameShell(t, u) /\ SamePlayer(t, u) /\ SameGroup(t, u) /\ u.on = t.on
         /\ ~t.on => SameTold(t, u)
         /\ t.on => Synced(u)
<1> DEFINE u == Snapshot(t)
<1>1. View(t) \subseteq Ids \cup {0}
  BY DEF View, Good, ShellOK
<1>2. /\ Shape(u) /\ SameShell(t, u) /\ SamePlayer(t, u) /\ SameGroup(t, u) /\ u.on = t.on
      /\ ~t.on => SameTold(t, u)
      /\ t.on => u.view = View(t) /\ u.self = t.me /\ u.shown = t.zone /\ u.snap = t.zone
  BY DEF Snapshot, Good, Shape, SameShell, SamePlayer, SameGroup, SameZone, SameTold
<1> HIDE DEF u
<1>3. PlayerOK(u) /\ ShellOK(u) /\ GroupOK(u)
  BY <1>2 DEF Good, PlayerOK, ShellOK, GroupOK, SamePlayer, SameShell, SameGroup
<1>4. ToldOK(u)
  BY <1>1, <1>2 DEF Good, PlayerOK, ShellOK, ToldOK, SameTold, SameZone
<1>5. View(u) = View(t)
  BY <1>2 DEF View, SameShell
<1>6. t.on => Synced(u)
  BY <1>2, <1>5 DEF Synced, SameShell, SamePlayer
<1> QED
  BY <1>2, <1>3, <1>4, <1>6 DEF Good, u

LEMMA ZoneToldIs ==
  ASSUME NEW t, Good(t)
  PROVE  LET u == ZoneTold(t) IN
         /\ Good(u) /\ SameShell(t, u) /\ SamePlayer(t, u) /\ SameGroup(t, u) /\ u.on = t.on
         /\ u.snap = t.snap /\ u.self = t.self
         /\ (~t.on \/ t.shown = t.zone) => SameTold(t, u)
         /\ t.on => u.shown = t.zone
<1> DEFINE u == ZoneTold(t)
<1>1. /\ Shape(u) /\ SameShell(t, u) /\ SamePlayer(t, u) /\ SameGroup(t, u) /\ u.on = t.on
      /\ u.snap = t.snap /\ u.self = t.self
      /\ (~t.on \/ t.shown = t.zone) => SameTold(t, u)
      /\ t.on /\ t.shown # t.zone => u.view = {} /\ u.shown = t.zone
  BY DEF ZoneTold, Good, Shape, SameShell, SamePlayer, SameGroup, SameZone, SameTold
<1> HIDE DEF u
<1>2. PlayerOK(u) /\ ShellOK(u) /\ GroupOK(u)
  BY <1>1 DEF Good, PlayerOK, ShellOK, GroupOK, SamePlayer, SameShell, SameGroup
<1>3. ToldOK(u) /\ (t.on => u.shown = t.zone)
  BY <1>1 DEF Good, PlayerOK, ToldOK, SameTold, SameZone
<1> QED
  BY <1>1, <1>2, <1>3 DEF Good, u

LEMMA ZoneRetoldIs ==
  ASSUME NEW t, Good(t)
  PROVE  LET u == ZoneRetold(t) IN
         /\ Good(u) /\ SameShell(t, u) /\ SamePlayer(t, u) /\ SameGroup(t, u) /\ u.on = t.on
         /\ ~t.on => SameTold(t, u)
         /\ t.on => u.shown = t.zone /\ u.snap = t.zone
         /\ t.on /\ t.zone # t.snap => Synced(u)
         /\ t.on /\ t.zone = t.snap /\ t.shown = t.snap => SameTold(t, u)
<1> DEFINE v == ZoneTold(t)
           w == Snapshot(v)
<1>1. /\ Good(v) /\ SameShell(t, v) /\ SamePlayer(t, v) /\ SameGroup(t, v) /\ v.on = t.on
      /\ v.snap = t.snap /\ v.self = t.self
      /\ (~t.on \/ t.shown = t.zone) => SameTold(t, v)
      /\ t.on => v.shown = t.zone
  BY ZoneToldIs
<1>2. /\ Good(w) /\ SameShell(v, w) /\ SamePlayer(v, w) /\ SameGroup(v, w) /\ w.on = v.on
      /\ v.on => Synced(w)
  BY <1>1, SnapshotIs
<1>3. ZoneRetold(t) = IF t.on /\ t.zone # t.snap THEN w ELSE v
  BY DEF ZoneRetold
<1> HIDE DEF v, w
<1>4. CASE t.on /\ t.zone # t.snap
  BY <1>1, <1>2, <1>3, <1>4 DEF SameShell, SamePlayer, SameGroup, SameZone, SameTold, Synced
<1>5. CASE ~(t.on /\ t.zone # t.snap)
  BY <1>1, <1>3, <1>5 DEF SameShell, SamePlayer, SameGroup, SameZone, SameTold, Synced
<1> QED
  BY <1>4, <1>5

-----------------------------------------------------------------------------
(* GroupMgr's operators.                                                   *)

LEMMA Constants ==
  /\ Nil \notin Ids /\ Self \notin Ids /\ Left \notin Ids /\ Freed \notin Pointers
  /\ 0 \notin Ids /\ MaxPeers \in Nat /\ MaxDead \in Nat \ {0}
BY ZoneAssumption DEF Nil, Self, Left, Freed, Pointers

\* What a search for a player finds.
LEMMA FoundIs ==
  ASSUME NEW t, Good(t), NEW n
  PROVE  Found(t, n) \subseteq Ids \cup {Nil, Self} /\ Found(t, n) \subseteq Pointers
<1>1. {id \in DOMAIN t.spawns : t.spawns[id] = [name |-> n, kind |-> "pc"]} \subseteq Ids
  BY DEF Good, ShellOK
<1> QED
  BY <1>1 DEF Found, Pointers

LEMMA PointsIs ==
  ASSUME NEW t, Good(t), NEW n, NEW p \in Pointers
  PROVE  LET u == Points(t, n, p) IN
         /\ Good(u) /\ SameShell(t, u) /\ SamePlayer(t, u) /\ SameTold(t, u) /\ SameRoster(t, u)
         /\ n \in DOMAIN t.peers => u.peers[n] = p
<1> DEFINE u == Points(t, n, p)
<1>1. CASE n \notin DOMAIN t.peers
  BY <1>1 DEF Points, SameShell, SamePlayer, SameTold, SameZone, SameRoster
<1>2. CASE n \in DOMAIN t.peers
  <2>1. u = [t EXCEPT !.peers = [t.peers EXCEPT ![n] = p]]
    BY <1>2 DEF Points
  <2>2. /\ Shape(u) /\ SameShell(t, u) /\ SamePlayer(t, u) /\ SameTold(t, u)
        /\ u.peers = [t.peers EXCEPT ![n] = p]
    BY <2>1 DEF Good, Shape, SameShell, SamePlayer, SameTold, SameZone
  <2> HIDE DEF u
  <2>3. DOMAIN u.peers = DOMAIN t.peers /\ u.peers[n] = p
        /\ \A m \in DOMAIN t.peers : u.peers[m] \in {p, t.peers[m]}
    BY <1>2, <2>2
  <2>4. GroupOK(u)
    BY <2>3 DEF Good, GroupOK
  <2>5. PlayerOK(u) /\ ShellOK(u) /\ ToldOK(u)
    BY <2>2 DEF Good, PlayerOK, ShellOK, ToldOK, SamePlayer, SameShell, SameTold, SameZone
  <2>6. Good(u) /\ SameShell(t, u) /\ SamePlayer(t, u) /\ SameTold(t, u) /\ SameRoster(t, u)
        /\ u.peers[n] = p
    BY <2>2, <2>3, <2>4, <2>5 DEF Good, SameRoster
  <2> QED
    BY <2>6 DEF u
<1> QED
  BY <1>1, <1>2

\* addItem of a spawn: a member so named points to it.
LEMMA JoinsIs ==
  ASSUME NEW t, Good(t), NEW id \in DOMAIN t.spawns
  PROVE  LET u == Joins(t, id) IN
         /\ Good(u) /\ SameShell(t, u) /\ SamePlayer(t, u) /\ SameTold(t, u) /\ SameRoster(t, u)
         /\ t.spawns[id].kind = "pc" /\ t.spawns[id].name \in DOMAIN t.peers
               => u.peers[t.spawns[id].name] = id
<1>1. id \in Pointers
  BY DEF Good, ShellOK, Pointers
<1>2. CASE t.spawns[id].kind = "pc"
  BY <1>1, <1>2, PointsIs DEF Joins
<1>3. CASE t.spawns[id].kind # "pc"
  BY <1>3 DEF Joins, SameShell, SamePlayer, SameTold, SameZone, SameRoster
<1> QED
  BY <1>2, <1>3

LEMMA LeavesIs ==
  ASSUME NEW t, Good(t), NEW n, NEW kind
  PROVE  LET u == Leaves(t, n, kind) IN
         Good(u) /\ SameShell(t, u) /\ SamePlayer(t, u) /\ SameTold(t, u) /\ SameRoster(t, u)
<1>1. Nil \in Pointers
  BY DEF Pointers
<1>2. CASE kind = "pc"
  BY <1>1, <1>2, PointsIs DEF Leaves
<1>3. CASE kind # "pc"
  BY <1>3 DEF Leaves, SameShell, SamePlayer, SameTold, SameZone, SameRoster
<1> QED
  BY <1>2, <1>3

-----------------------------------------------------------------------------
(* SpawnShell's operators.                                                 *)

\* A new spawn, with its name in the group.
LEMMA InsertIs ==
  ASSUME NEW t, Good(t), NEW id \in Ids, NEW sp \in [name : Names, kind : Kinds]
  PROVE  Grows(t, Insert(t, id, sp), id)
<1> DEFINE v == [t EXCEPT !.spawns = [i \in DOMAIN t.spawns \cup {id} |->
                                         IF i = id THEN sp ELSE t.spawns[i]]]
           w == Joins(v, id)
           u == Added(w, id)
<1>1. /\ Shape(v) /\ SamePlayer(t, v) /\ SameTold(t, v) /\ SameGroup(t, v)
      /\ v.me = t.me /\ v.drops = t.drops /\ v.doors = t.doors
      /\ v.spawns = [i \in DOMAIN t.spawns \cup {id} |-> IF i = id THEN sp ELSE t.spawns[i]]
  BY DEF Good, Shape, SamePlayer, SameTold, SameZone, SameGroup
<1>2. u = Insert(t, id, sp)
  BY DEF Insert, AddItem
<1> HIDE DEF v
<1>3. /\ DOMAIN v.spawns = DOMAIN t.spawns \cup {id} /\ v.spawns[id] = sp
      /\ \A i \in DOMAIN t.spawns : v.spawns[i] \in {sp, t.spawns[i]}
  BY <1>1
<1>4. ShellOK(v)
  BY <1>1, <1>3 DEF Good, ShellOK
<1>5. Good(v)
  BY <1>1, <1>4 DEF Good, PlayerOK, GroupOK, ToldOK, SamePlayer, SameGroup, SameTold, SameZone
<1>6. /\ Good(w) /\ SameShell(v, w) /\ SamePlayer(v, w) /\ SameTold(v, w) /\ SameRoster(v, w)
      /\ sp.kind = "pc" /\ sp.name \in DOMAIN v.peers => w.peers[sp.name] = id
  BY <1>3, <1>5, JoinsIs
<1> HIDE DEF w
<1>7. /\ Good(u) /\ SameShell(w, u) /\ SamePlayer(w, u) /\ SameGroup(w, u) /\ SameZone(w, u)
      /\ u.view = IF w.on THEN w.view \cup {id} ELSE w.view
  BY <1>6, AddedIs
<1> HIDE DEF u
<1>8. SameZone(t, u) /\ SameRoster(t, u)
  BY <1>1, <1>6, <1>7 DEF SameZone, SameTold, SameRoster, SameGroup
<1>9. /\ u.me = t.me /\ u.drops = t.drops /\ u.doors = t.doors
      /\ DOMAIN u.spawns = DOMAIN t.spawns \cup {id} /\ u.spawns[id] = sp
      /\ u.view = IF t.on THEN t.view \cup {id} ELSE t.view
      /\ sp.kind = "pc" /\ sp.name \in DOMAIN u.peers => u.peers[sp.name] = id
  BY <1>1, <1>3, <1>6, <1>7 DEF SameShell, SameTold, SameZone, SameRoster, SameGroup
<1>10. Joined(t, u)
  BY <1>9 DEF Joined
<1> QED
  BY <1>2, <1>7, <1>8, <1>9, <1>10 DEF Grows

\* A spawn is deleted; what pointed to it points to an object that is gone.
LEMMA DeleteSpawnIs ==
  ASSUME NEW t, Good(t), NEW id
  PROVE  LET u == DeleteSpawn(t, id) IN
         /\ Good(u) /\ SamePlayer(t, u) /\ SameZone(t, u) /\ SameRoster(t, u)
         /\ u.me = t.me /\ u.drops = t.drops /\ u.doors = t.doors
         /\ DOMAIN u.spawns = DOMAIN t.spawns \ {id}
         /\ u.view = IF t.on /\ id \in DOMAIN t.spawns THEN t.view \ {id} ELSE t.view
<1> DEFINE v == Leaves(t, t.spawns[id].name, t.spawns[id].kind)
           w == Removed(v, id)
           u == TakeOut(w, id, Left)
<1>1. CASE id \notin DOMAIN t.spawns
  BY <1>1 DEF DeleteSpawn, SamePlayer, SameZone, SameRoster
<1>2. CASE id \in DOMAIN t.spawns
  <2>1. Good(v) /\ SameShell(t, v) /\ SamePlayer(t, v) /\ SameTold(t, v) /\ SameRoster(t, v)
    BY LeavesIs
  <2>2. DeleteSpawn(t, id) = u
    BY <1>2 DEF DeleteSpawn
  <2> HIDE DEF v
  <2>3. /\ Good(w) /\ SameShell(v, w) /\ SamePlayer(v, w) /\ SameGroup(v, w) /\ SameZone(v, w)
        /\ w.view = IF v.on THEN v.view \ {id} ELSE v.view
    BY <2>1, RemovedIs
  <2> HIDE DEF w
  <2> DEFINE X == [i \in DOMAIN w.spawns \ {id} |-> w.spawns[i]]
             Y == [n \in DOMAIN w.peers |-> IF w.peers[n] = id THEN Left ELSE w.peers[n]]
  <2>4. u = [w EXCEPT !.spawns = X, !.peers = Y]
    BY DEF TakeOut, Restrict
  <2> HIDE DEF X, Y, u
  <2>5. /\ Shape(u) /\ SamePlayer(w, u) /\ SameTold(w, u)
        /\ u.me = w.me /\ u.drops = w.drops /\ u.doors = w.doors
        /\ u.spawns = X /\ u.peers = Y
    BY <2>3, <2>4 DEF Good, Shape, SamePlayer, SameTold, SameZone
  <2> USE DEF X, Y
  <2>6. DOMAIN u.spawns = DOMAIN w.spawns \ {id}
        /\ \A i \in DOMAIN u.spawns : i \in DOMAIN w.spawns /\ u.spawns[i] = w.spawns[i]
    BY <2>5
  <2>7. DOMAIN u.peers = DOMAIN w.peers
        /\ \A n \in DOMAIN u.peers : n \in DOMAIN w.peers /\ u.peers[n] \in {Left, w.peers[n]}
    BY <2>5
  <2>8. ShellOK(u)
    BY <2>3, <2>5, <2>6 DEF Good, ShellOK
  <2>9. GroupOK(u)
    BY <2>3, <2>7 DEF Good, GroupOK, Pointers
  <2>10. Good(u)
    BY <2>3, <2>5, <2>8, <2>9 DEF Good, PlayerOK, ToldOK, SamePlayer, SameTold, SameZone
  <2>11. SamePlayer(t, u) /\ SameZone(t, u) /\ SameRoster(t, u)
    BY <2>1, <2>3, <2>5, <2>7 DEF SamePlayer, SameZone, SameTold, SameRoster, SameGroup
  <2>12. /\ u.me = t.me /\ u.drops = t.drops /\ u.doors = t.doors
         /\ DOMAIN u.spawns = DOMAIN t.spawns \ {id}
         /\ u.view = IF t.on THEN t.view \ {id} ELSE t.view
    BY <2>1, <2>3, <2>5, <2>6 DEF SameShell, SameTold, SameZone
  <2> QED
    BY <1>2, <2>2, <2>10, <2>11, <2>12
<1> QED
  BY <1>1, <1>2

\* What deleteItem of the player comes to: the player stands under one key less.
LEMMA DeletePlayerIs ==
  ASSUME NEW t, Good(t), NEW key
  PROVE  LET u == DeletePlayer(t, key) IN
         Good(u) /\ SameShell(t, u) /\ u.zone = t.zone /\ SameZone(t, u) /\ SameRoster(t, u)
<1> DEFINE v == Leaves(t, PlayerName(t), t.kind)
           w == Removed(v, t.me)
           u == [w EXCEPT !.players = @ \ {key}]
<1>1. CASE key \notin t.players
  BY <1>1 DEF DeletePlayer, SameShell, SameZone, SameRoster
<1>2. CASE key \in t.players
  <2>1. Good(v) /\ SameShell(t, v) /\ SamePlayer(t, v) /\ SameTold(t, v) /\ SameRoster(t, v)
    BY LeavesIs
  <2>2. DeletePlayer(t, key) = u
    BY <1>2 DEF DeletePlayer
  <2> HIDE DEF v
  <2>3. /\ Good(w) /\ SameShell(v, w) /\ SamePlayer(v, w) /\ SameGroup(v, w) /\ SameZone(v, w)
    BY <2>1, RemovedIs
  <2> HIDE DEF w
  <2> DEFINE X == w.players \ {key}
  <2>4. u = [w EXCEPT !.players = X] /\ X \subseteq Ids \cup {0}
    BY <2>3 DEF Good, PlayerOK
  <2> HIDE DEF X, u
  <2>5. /\ Shape(u) /\ SameShell(w, u) /\ SameTold(w, u) /\ SameGroup(w, u)
        /\ u.zone = w.zone /\ u.zoning = w.zoning /\ u.name = w.name /\ u.real = w.real
        /\ u.kind = w.kind /\ u.defaults = w.defaults /\ u.players = X
        /\ u.dead = w.dead /\ u.pos = w.pos /\ u.cnt = w.cnt
    BY <2>3, <2>4 DEF Good, Shape, SameShell, SameTold, SameZone, SameGroup
  <2>6. PlayerOK(u)
    BY <2>3, <2>4, <2>5 DEF Good, PlayerOK
  <2>7. Good(u) /\ SameShell(w, u) /\ u.zone = w.zone /\ SameZone(w, u) /\ SameRoster(w, u)
    BY <2>3, <2>5, <2>6
    DEF Good, ShellOK, GroupOK, ToldOK, SameShell, SameTold, SameZone, SameGroup, SameRoster
  <2>8. SameShell(t, u) /\ u.zone = t.zone /\ SameZone(t, u) /\ SameRoster(t, u)
    BY <2>1, <2>3, <2>7 DEF SameShell, SamePlayer, SameZone, SameTold, SameRoster, SameGroup
  <2> QED
    BY <2>2, <2>7, <2>8
<1> QED
  BY <1>1, <1>2

\* clear: no spawn is left, and no member points to one.
LEMMA ClearIs ==
  ASSUME NEW t, Good(t)
  PROVE  LET u == Clear(t) IN
         /\ Good(u) /\ u.zone = t.zone /\ u.me = t.me /\ SameZone(t, u) /\ SameRoster(t, u)
         /\ DOMAIN u.spawns = {}
<1> DEFINE v == Detach(t)
           w == Free(v)
           a == Added(w, t.me)
           u == [a EXCEPT !.dead = [i \in Ring |-> 0], !.pos = 0, !.cnt = 0]
<1>1. /\ Shape(v) /\ SameShell(t, v) /\ SamePlayer(t, v) /\ SameTold(t, v)
      /\ v.peers = [n \in DOMAIN t.peers |-> Nil]
  BY DEF Detach, Good, Shape, SameShell, SamePlayer, SameTold, SameZone
<1>2. w.me = t.me
  BY <1>1 DEF Free, Shape, SameShell
<1>3. Clear(t) = u
  BY <1>1, <1>2 DEF Clear, SameShell
<1> HIDE DEF v
<1> DEFINE Y == [n \in DOMAIN v.peers |->
                   IF v.peers[n] \in DOMAIN v.spawns THEN Freed ELSE v.peers[n]]
<1>4. w = [v EXCEPT !.spawns = <<>>, !.drops = {}, !.doors = {}, !.players = {0}, !.peers = Y]
  BY DEF Free
<1> HIDE DEF w, Y
<1>5. /\ Shape(w) /\ w.zone = v.zone /\ w.zoning = v.zoning /\ w.name = v.name
      /\ w.real = v.real /\ w.kind = v.kind /\ w.defaults = v.defaults /\ w.dead = v.dead
      /\ w.pos = v.pos /\ w.cnt = v.cnt /\ SameTold(v, w)
      /\ w.spawns = <<>> /\ w.drops = {} /\ w.doors = {} /\ w.players = {0} /\ w.peers = Y
  BY <1>1, <1>4 DEF Shape, SameTold, SameZone
<1>6. DOMAIN w.peers = DOMAIN t.peers /\ \A n \in DOMAIN w.peers : w.peers[n] = Nil
  <2>1. Nil \notin DOMAIN v.spawns
    BY <1>1, Constants DEF Good, ShellOK, SameShell
  <2>2. w.peers = [n \in DOMAIN v.peers |->
                     IF v.peers[n] \in DOMAIN v.spawns THEN Freed ELSE v.peers[n]]
    BY <1>5 DEF Y
  <2> QED
    BY <1>1, <2>1, <2>2
<1>7. DOMAIN w.spawns = {}
  BY <1>5
<1>8. Good(w)
  <2>1. PlayerOK(w)
    BY <1>1, <1>5 DEF Good, PlayerOK, SamePlayer
  <2>2. ShellOK(w)
    BY <1>2, <1>5, <1>7 DEF Good, ShellOK
  <2>3. GroupOK(w)
    BY <1>6 DEF Good, GroupOK, Pointers
  <2>4. ToldOK(w)
    BY <1>1, <1>5 DEF Good, ToldOK, SameTold, SameZone
  <2> QED
    BY <1>5, <2>1, <2>2, <2>3, <2>4 DEF Good
<1>9. t.me \in Ids \cup {0}
  BY DEF Good, ShellOK
<1>10. Good(a) /\ SameShell(w, a) /\ SamePlayer(w, a) /\ SameGroup(w, a) /\ SameZone(w, a)
  BY <1>8, <1>9, AddedIs
<1> HIDE DEF a
<1> DEFINE Z == [i \in Ring |-> 0]
<1>11. u = [a EXCEPT !.dead = Z, !.pos = 0, !.cnt = 0]
  OBVIOUS
<1> HIDE DEF u, Z
<1>12. /\ Shape(u) /\ SameShell(a, u) /\ SameGroup(a, u) /\ SameTold(a, u) /\ u.zone = a.zone
       /\ u.zoning = a.zoning /\ u.name = a.name /\ u.real = a.real /\ u.kind = a.kind
       /\ u.defaults = a.defaults /\ u.players = a.players
       /\ u.dead = Z /\ u.pos = 0 /\ u.cnt = 0
  BY <1>10, <1>11 DEF Good, Shape, SameShell, SameGroup, SameTold, SameZone
<1>13. 0 \in Ring /\ 0 \in 0 .. MaxDead
  BY Constants DEF Ring
<1>14. u.dead \in [Ring -> Ids \cup {0}]
  BY <1>12 DEF Z
<1>15. PlayerOK(u)
  BY <1>10, <1>12, <1>13, <1>14 DEF Good, PlayerOK
<1>16. Good(u)
  BY <1>10, <1>12, <1>15
  DEF Good, ShellOK, GroupOK, ToldOK, SameShell, SameGroup, SameTold, SameZone
<1>17. /\ u.zone = t.zone /\ u.me = t.me /\ SameZone(t, u) /\ SameRoster(t, u)
       /\ DOMAIN u.spawns = {}
  BY <1>1, <1>2, <1>5, <1>6, <1>7, <1>10, <1>12
  DEF SamePlayer, SameShell, SameZone, SameTold, SameRoster, SameGroup
<1> QED
  BY <1>3, <1>16, <1>17

\* The player has its new id: what stood there is gone, and the player is
\* known by it.
LEMMA PlayerChangedIDIs ==
  ASSUME NEW t, Good(t), NEW old
  PROVE  LET u == PlayerChangedID(t, old) IN
         /\ Good(u) /\ u.zone = t.zone /\ u.me = t.me /\ SameZone(t, u) /\ SameRoster(t, u)
         /\ u.drops = t.drops /\ u.doors = t.doors
         /\ DOMAIN u.spawns = DOMAIN t.spawns \ {t.me}
<1> DEFINE id == t.me
           a == IF id \in DOMAIN t.spawns THEN [t EXCEPT !.name = t.spawns[id].name] ELSE t
           b == DeletePlayer(a, 0)
           c == DeletePlayer(b, old)
           d == DeleteSpawn(c, id)
           X == d.players \cup {id}
           e == [d EXCEPT !.players = X]
           u == Added(e, id)
<1>0. u = PlayerChangedID(t, old)
  BY DEF PlayerChangedID
<1>1. id \in Ids \cup {0}
  BY DEF Good, ShellOK
<1>2. Good(a) /\ SameShell(t, a) /\ a.zone = t.zone /\ SameTold(t, a) /\ SameGroup(t, a)
  <2>1. CASE id \in DOMAIN t.spawns
    <3> DEFINE N == t.spawns[id].name
    <3>1. a = [t EXCEPT !.name = N] /\ N \in Names
      BY <2>1 DEF Good, ShellOK
    <3> HIDE DEF a, N
    <3>2. /\ Shape(a) /\ SameShell(t, a) /\ SameTold(t, a) /\ SameGroup(t, a)
          /\ a.zone = t.zone /\ a.zoning = t.zoning /\ a.name = N /\ a.real = t.real
          /\ a.kind = t.kind /\ a.defaults = t.defaults /\ a.players = t.players
          /\ a.dead = t.dead /\ a.pos = t.pos /\ a.cnt = t.cnt
      BY <3>1 DEF Good, Shape, SameShell, SameTold, SameZone, SameGroup
    <3>3. PlayerOK(a)
      BY <3>1, <3>2 DEF Good, PlayerOK
    <3> QED
      BY <3>2, <3>3
      DEF Good, ShellOK, GroupOK, ToldOK, SameShell, SameGroup, SameTold, SameZone
  <2>2. CASE id \notin DOMAIN t.spawns
    BY <2>2 DEF SameShell, SameTold, SameZone, SameGroup
  <2> QED
    BY <2>1, <2>2
<1> HIDE DEF a
<1>3. Good(b) /\ SameShell(a, b) /\ b.zone = a.zone /\ SameZone(a, b) /\ SameRoster(a, b)
  BY <1>2, DeletePlayerIs
<1> HIDE DEF b
<1>4. Good(c) /\ SameShell(b, c) /\ c.zone = b.zone /\ SameZone(b, c) /\ SameRoster(b, c)
  BY <1>3, DeletePlayerIs
<1> HIDE DEF c
<1>5. /\ Good(d) /\ SamePlayer(c, d) /\ SameZone(c, d) /\ SameRoster(c, d)
      /\ d.me = c.me /\ d.drops = c.drops /\ d.doors = c.doors
      /\ DOMAIN d.spawns = DOMAIN c.spawns \ {id}
  BY <1>4, DeleteSpawnIs
<1> HIDE DEF d
<1>6. e = [d EXCEPT !.players = X] /\ X \subseteq Ids \cup {0}
  BY <1>1, <1>5 DEF Good, PlayerOK
<1> HIDE DEF X, e
<1>7. /\ Shape(e) /\ SameShell(d, e) /\ SameTold(d, e) /\ SameGroup(d, e)
      /\ e.zone = d.zone /\ e.zoning = d.zoning /\ e.name = d.name /\ e.real = d.real
      /\ e.kind = d.kind /\ e.defaults = d.defaults /\ e.players = X
      /\ e.dead = d.dead /\ e.pos = d.pos /\ e.cnt = d.cnt
  BY <1>5, <1>6 DEF Good, Shape, SameShell, SameTold, SameZone, SameGroup
<1>8. Good(e)
  BY <1>5, <1>6, <1>7
  DEF Good, PlayerOK, ShellOK, GroupOK, ToldOK, SameShell, SameGroup, SameTold, SameZone
<1>9. Good(u) /\ SameShell(e, u) /\ SamePlayer(e, u) /\ SameGroup(e, u) /\ SameZone(e, u)
  BY <1>1, <1>8, AddedIs
<1> HIDE DEF u
<1>10. /\ u.zone = t.zone /\ u.me = t.me /\ u.drops = t.drops /\ u.doors = t.doors
       /\ DOMAIN u.spawns = DOMAIN t.spawns \ {id}
  BY <1>2, <1>3, <1>4, <1>5, <1>7, <1>9 DEF SameShell, SamePlayer
<1>11. SameZone(t, u) /\ SameRoster(t, u)
  BY <1>2, <1>3, <1>4, <1>5, <1>7, <1>9 DEF SameZone, SameTold, SameRoster, SameGroup
<1> QED
  BY <1>0, <1>9, <1>10, <1>11

\* A new id of the player: its spawn is gone, and a client holds what the
\* managers do.
LEMMA SetPlayerIDIs ==
  ASSUME NEW t, Good(t), NEW id \in Ids
  PROVE  LET u == SetPlayerID(t, id) IN
         /\ Good(u) /\ u.zone = t.zone /\ u.on = t.on /\ SameRoster(t, u)
         /\ id = t.me => u = t
         /\ u.me = id /\ u.drops = t.drops /\ u.doors = t.doors
         /\ id # t.me => /\ DOMAIN u.spawns = DOMAIN t.spawns \ {id}
                         /\ t.on => Synced(u)
<1>1. CASE id = t.me
  BY <1>1 DEF SetPlayerID, SameRoster
<1>2. CASE id # t.me
  <2> DEFINE a == [t EXCEPT !.me = id]
             b == PlayerChangedID(a, t.me)
             c == Snapshot(b)
             u == Added(c, id)
  <2>0. SetPlayerID(t, id) = u
    BY <1>2 DEF SetPlayerID
  <2>1. /\ Shape(a) /\ SamePlayer(t, a) /\ SameTold(t, a) /\ SameGroup(t, a)
        /\ a.me = id /\ a.spawns = t.spawns /\ a.drops = t.drops /\ a.doors = t.doors
    BY DEF Good, Shape, SamePlayer, SameTold, SameZone, SameGroup
  <2> HIDE DEF a
  <2>2. Good(a)
    BY <2>1
    DEF Good, PlayerOK, ShellOK, GroupOK, ToldOK, SamePlayer, SameGroup, SameTold, SameZone
  <2>3. /\ Good(b) /\ b.zone = a.zone /\ b.me = a.me /\ SameZone(a, b) /\ SameRoster(a, b)
        /\ b.drops = a.drops /\ b.doors = a.doors
        /\ DOMAIN b.spawns = DOMAIN a.spawns \ {a.me}
    BY <2>2, PlayerChangedIDIs
  <2> HIDE DEF b
  <2>4. /\ Good(c) /\ SameShell(b, c) /\ SamePlayer(b, c) /\ SameGroup(b, c) /\ c.on = b.on
        /\ b.on => Synced(c)
    BY <2>3, SnapshotIs
  <2> HIDE DEF c
  <2>5. /\ Good(u) /\ SameShell(c, u) /\ SamePlayer(c, u) /\ SameGroup(c, u) /\ SameZone(c, u)
        /\ u.view = IF c.on THEN c.view \cup {id} ELSE c.view
    BY <2>4, AddedIs
  <2> HIDE DEF u
  <2>6. /\ u.zone = t.zone /\ u.on = t.on /\ u.me = id /\ u.drops = t.drops /\ u.doors = t.doors
        /\ DOMAIN u.spawns = DOMAIN t.spawns \ {id} /\ SameRoster(t, u)
    BY <2>1, <2>3, <2>4, <2>5
    DEF SamePlayer, SameShell, SameZone, SameTold, SameRoster, SameGroup
  <2>7. ASSUME t.on
        PROVE  Synced(u)
    <3>1. c.on /\ Synced(c) /\ c.me = id
      BY <2>1, <2>3, <2>4, <2>7 DEF SameZone, SameTold, SameShell
    <3>2. View(u) = View(c) /\ id \in View(c)
      BY <2>5, <3>1 DEF View, SameShell
    <3> QED
      BY <2>5, <3>1, <3>2 DEF Synced, SameShell, SamePlayer, SameZone
  <2> QED
    BY <1>2, <2>0, <2>5, <2>6, <2>7
<1> QED
  BY <1>1, <1>2

\* The ring notes a deletion.
LEMMA BuryIs ==
  ASSUME NEW t, Good(t), NEW id \in Ids
  PROVE  LET u == Bury(t, id) IN
         Good(u) /\ SameShell(t, u) /\ SameGroup(t, u) /\ SameTold(t, u)
<1> DEFINE P == IF t.pos < MaxDead - 1 THEN t.pos + 1 ELSE 0
           C == IF t.cnt < MaxDead THEN t.cnt + 1 ELSE t.cnt
           D == [t.dead EXCEPT ![P] = id]
           u == [t EXCEPT !.pos = P, !.cnt = C, !.dead = D]
<1>1. u = Bury(t, id) /\ u = [t EXCEPT !.pos = P, !.cnt = C, !.dead = D]
  BY DEF Bury
<1>2. P \in Ring /\ C \in 0 .. MaxDead
  BY Constants DEF Good, PlayerOK, Ring
<1>3. D \in [Ring -> Ids \cup {0}]
  BY DEF Good, PlayerOK
<1> HIDE DEF P, C, D, u
<1>4. /\ Shape(u) /\ SameShell(t, u) /\ SameGroup(t, u) /\ SameTold(t, u)
      /\ u.zone = t.zone /\ u.zoning = t.zoning /\ u.name = t.name /\ u.real = t.real
      /\ u.kind = t.kind /\ u.defaults = t.defaults /\ u.players = t.players
      /\ u.dead = D /\ u.pos = P /\ u.cnt = C
  <2>1. u = [t EXCEPT !.pos = P, !.cnt = C, !.dead = D]
    BY <1>1
  <2> QED
    BY <2>1 DEF Good, Shape, SameShell, SameGroup, SameTold, SameZone
<1>5. PlayerOK(u)
  BY <1>2, <1>3, <1>4 DEF Good, PlayerOK
<1>6. Good(u)
  BY <1>4, <1>5 DEF Good, ShellOK, GroupOK, ToldOK, SameShell, SameGroup, SameTold, SameZone
<1> QED
  BY <1>1, <1>4, <1>6

\* Another ring: all else is the same.
LEMMA DugIs ==
  ASSUME NEW t, Good(t), NEW D \in [Ring -> Ids \cup {0}]
  PROVE  LET u == [t EXCEPT !.dead = D] IN
         Good(u) /\ SameShell(t, u) /\ SameGroup(t, u) /\ SameTold(t, u)
<1> DEFINE u == [t EXCEPT !.dead = D]
<1>1. /\ Shape(u) /\ SameShell(t, u) /\ SameGroup(t, u) /\ SameTold(t, u)
      /\ u.zone = t.zone /\ u.zoning = t.zoning /\ u.name = t.name /\ u.real = t.real
      /\ u.kind = t.kind /\ u.defaults = t.defaults /\ u.players = t.players
      /\ u.dead = D /\ u.pos = t.pos /\ u.cnt = t.cnt
  BY DEF Good, Shape, SameShell, SameGroup, SameTold, SameZone
<1> HIDE DEF u
<1>2. PlayerOK(u)
  BY <1>1 DEF Good, PlayerOK
<1>3. Good(u)
  BY <1>1, <1>2 DEF Good, ShellOK, GroupOK, ToldOK, SameShell, SameGroup, SameTold, SameZone
<1> QED
  BY <1>1, <1>3 DEF u

\* Another map of spawns, with spawns of the same ids: all else is the same.
LEMMA RecastIs ==
  ASSUME NEW t, Good(t), NEW M, DOMAIN M = DOMAIN t.spawns,
         \A i \in DOMAIN M : M[i] \in [name : Names, kind : Kinds]
  PROVE  LET u == [t EXCEPT !.spawns = M] IN
         Good(u) /\ SameItems(t, u) /\ SamePlayer(t, u) /\ SameTold(t, u) /\ SameGroup(t, u)
<1> DEFINE u == [t EXCEPT !.spawns = M]
<1>1. /\ Shape(u) /\ SamePlayer(t, u) /\ SameTold(t, u) /\ SameGroup(t, u)
      /\ u.me = t.me /\ u.drops = t.drops /\ u.doors = t.doors /\ u.spawns = M
  BY DEF Good, Shape, SamePlayer, SameTold, SameZone, SameGroup
<1> HIDE DEF u
<1>2. ShellOK(u)
  BY <1>1 DEF Good, ShellOK
<1>3. Good(u)
  BY <1>1, <1>2 DEF Good, PlayerOK, GroupOK, ToldOK, SamePlayer, SameGroup, SameTold, SameZone
<1> QED
  BY <1>1, <1>3 DEF u, SameItems

\* A spawn that changes at its id, and is sent again.
LEMMA ResentGrows ==
  ASSUME NEW t, Good(t), NEW id \in DOMAIN t.spawns, NEW M, DOMAIN M = DOMAIN t.spawns,
         \A i \in DOMAIN M : M[i] \in [name : Names, kind : Kinds]
  PROVE  Grows(t, Added([t EXCEPT !.spawns = M], id), id)
<1> DEFINE a == [t EXCEPT !.spawns = M]
           u == Added(a, id)
<1>1. Good(a) /\ SameItems(t, a) /\ SamePlayer(t, a) /\ SameTold(t, a) /\ SameGroup(t, a)
  BY RecastIs
<1> HIDE DEF a
<1>2. id \in Ids \cup {0}
  BY DEF Good, ShellOK
<1>3. /\ Good(u) /\ SameShell(a, u) /\ SamePlayer(a, u) /\ SameGroup(a, u) /\ SameZone(a, u)
      /\ u.view = IF a.on THEN a.view \cup {id} ELSE a.view
  BY <1>1, <1>2, AddedIs
<1> HIDE DEF u
<1>4. /\ u.me = t.me /\ u.drops = t.drops /\ u.doors = t.doors
      /\ DOMAIN u.spawns = DOMAIN t.spawns /\ SameZone(t, u) /\ SameRoster(t, u)
      /\ u.view = IF t.on THEN t.view \cup {id} ELSE t.view
  BY <1>1, <1>3 DEF SameItems, SameShell, SameZone, SameTold, SameGroup, SameRoster
<1>5. Joined(t, u)
  BY <1>4 DEF Joined
<1> QED
  BY <1>3, <1>4, <1>5 DEF Grows, a, u

\* What grows after a step that leaves the items alone grows after both.
LEMMA GrowsAfter ==
  ASSUME NEW t, NEW v, NEW u, NEW id,
         SameShell(t, v), SameGroup(t, v), SameTold(t, v), Grows(v, u, id)
  PROVE  Grows(t, u, id)
<1>1. Joined(t, u) /\ SameRoster(t, u) /\ SameZone(t, u)
  BY DEF Grows, Joined, SameShell, SameGroup, SameTold, SameZone, SameRoster
<1> QED
  BY <1>1 DEF Grows, SameShell, SameGroup, SameTold, SameZone

\* A step that leaves the items alone, in the form of Stays.
LEMMA StaysSo ==
  ASSUME NEW t, NEW u, Good(u), SameShell(t, u), SameGroup(t, u), SameTold(t, u)
  PROVE  Stays(t, u)
BY DEF Stays, SameShell, SameItems, SameGroup, SameRoster

\* A position makes a spawn, but not of the player and not of what is known.
LEMMA UpdateSpawnIs ==
  ASSUME NEW t, Good(t), NEW id \in Ids
  PROVE  LET u == UpdateSpawn(t, id) IN Stays(t, u) \/ (id # t.me /\ Grows(t, u, id))
<1> DEFINE u == UpdateSpawn(t, id)
           D == [t.dead EXCEPT ![Min(Buried(t, id))] = 0]
<1>1. CASE id = t.me \/ id \in DOMAIN t.spawns
  <2>1. u = t
    BY <1>1 DEF UpdateSpawn
  <2> QED
    BY <2>1 DEF Stays, SameItems, SameTold, SameZone, SameRoster
<1>2. CASE id # t.me /\ id \notin DOMAIN t.spawns /\ Buried(t, id) # {}
  <2>1. u = [t EXCEPT !.dead = D]
    BY <1>2 DEF UpdateSpawn
  <2>2. D \in [Ring -> Ids \cup {0}]
    BY DEF Good, PlayerOK
  <2> HIDE DEF D, u
  <2>3. Good(u) /\ SameShell(t, u) /\ SameGroup(t, u) /\ SameTold(t, u)
    BY <2>1, <2>2, DugIs
  <2> QED
    BY <2>3, StaysSo DEF u
<1>3. CASE id # t.me /\ id \notin DOMAIN t.spawns /\ Buried(t, id) = {}
  <2>1. u = Insert(t, id, [name |-> "unknown", kind |-> "unknown"])
    BY <1>3 DEF UpdateSpawn
  <2>2. [name |-> "unknown", kind |-> "unknown"] \in [name : Names, kind : Kinds]
    BY DEF Names, Kinds
  <2> QED
    BY <1>3, <2>1, <2>2, InsertIs
<1> QED
  BY <1>1, <1>2, <1>3

\* A record of a spawn puts it there.
LEMMA NewSpawnIs ==
  ASSUME NEW t, Good(t), NEW id \in Ids, NEW sp \in [name : Names, kind : Kinds]
  PROVE  Grows(t, NewSpawn(t, id, sp), id)
<1> DEFINE D == [i \in Ring |-> IF i \in Buried(t, id) THEN 0 ELSE t.dead[i]]
           v == [t EXCEPT !.dead = D]
           M == [v.spawns EXCEPT ![id] = sp]
<1>1. D \in [Ring -> Ids \cup {0}]
  BY DEF Good, PlayerOK
<1>2. NewSpawn(t, id, sp) = IF id \in DOMAIN t.spawns
                            THEN Added([v EXCEPT !.spawns = M], id) ELSE Insert(v, id, sp)
  BY DEF NewSpawn
<1> HIDE DEF D
<1>3. Good(v) /\ SameShell(t, v) /\ SameGroup(t, v) /\ SameTold(t, v)
  BY <1>1, DugIs
<1> HIDE DEF v
<1>4. CASE id \in DOMAIN t.spawns
  <2>1. id \in DOMAIN v.spawns /\ DOMAIN M = DOMAIN v.spawns
        /\ \A i \in DOMAIN M : M[i] \in {sp, v.spawns[i]}
    BY <1>3, <1>4 DEF SameShell
  <2> HIDE DEF M
  <2>2. \A i \in DOMAIN M : M[i] \in [name : Names, kind : Kinds]
    BY <1>3, <2>1 DEF Good, ShellOK
  <2>3. Grows(v, Added([v EXCEPT !.spawns = M], id), id)
    BY <1>3, <2>1, <2>2, ResentGrows
  <2> QED
    BY <1>2, <1>3, <1>4, <2>3, GrowsAfter
<1>5. CASE id \notin DOMAIN t.spawns
  <2>1. Grows(v, Insert(v, id, sp), id)
    BY <1>3, InsertIs
  <2> QED
    BY <1>2, <1>3, <1>5, <2>1, GrowsAfter
<1> QED
  BY <1>4, <1>5

\* On eql a record of a spawn puts it there, but for the player's own id.
LEMMA UpsertSpawnIs ==
  ASSUME NEW t, Good(t), NEW id \in Ids, NEW sp \in [name : Names, kind : Kinds]
  PROVE  LET u == UpsertSpawn(t, id, sp) IN
         IF id = t.me THEN u = t ELSE Grows(t, u, id)
<1> DEFINE M == [t.spawns EXCEPT ![id].kind = sp.kind]
<1>1. CASE id = t.me
  BY <1>1 DEF UpsertSpawn
<1>2. CASE id # t.me /\ id \in DOMAIN t.spawns
  <2>1. UpsertSpawn(t, id, sp) = Added([t EXCEPT !.spawns = M], id)
    BY <1>2 DEF UpsertSpawn
  <2>2. DOMAIN M = DOMAIN t.spawns
        /\ \A i \in DOMAIN M : M[i] \in {[t.spawns[id] EXCEPT !.kind = sp.kind], t.spawns[i]}
    OBVIOUS
  <2> HIDE DEF M
  <2>3. [t.spawns[id] EXCEPT !.kind = sp.kind] \in [name : Names, kind : Kinds]
        /\ \A i \in DOMAIN t.spawns : t.spawns[i] \in [name : Names, kind : Kinds]
    BY <1>2 DEF Good, ShellOK
  <2>4. \A i \in DOMAIN M : M[i] \in [name : Names, kind : Kinds]
    BY <2>2, <2>3
  <2>5. Grows(t, Added([t EXCEPT !.spawns = M], id), id)
    BY <1>2, <2>2, <2>4, ResentGrows
  <2> QED
    BY <1>2, <2>1, <2>5
<1>3. CASE id # t.me /\ id \notin DOMAIN t.spawns
  <2>1. UpsertSpawn(t, id, sp) = Insert(t, id, sp)
    BY <1>3 DEF UpsertSpawn
  <2> QED
    BY <1>3, <2>1, InsertIs
<1> QED
  BY <1>1, <1>2, <1>3

\* A corpse is a spawn that stays, or the player.
LEMMA KillIs ==
  ASSUME NEW t, Good(t), NEW id \in Ids
  PROVE  Stays(t, Kill(t, id))
<1> DEFINE u == Kill(t, id)
           M == [t.spawns EXCEPT ![id] = [name |-> "corpse", kind |-> "corpse"]]
<1>1. CASE id = t.me
  <2>1. /\ Shape(u) /\ SameShell(t, u) /\ SameGroup(t, u) /\ SameTold(t, u)
        /\ u.zone = t.zone /\ u.zoning = t.zoning /\ u.name = "corpse" /\ u.real = t.real
        /\ u.kind = "corpse" /\ u.defaults = t.defaults /\ u.players = t.players
        /\ u.dead = t.dead /\ u.pos = t.pos /\ u.cnt = t.cnt
    BY <1>1 DEF Kill, Good, Shape, SameShell, SameGroup, SameTold, SameZone
  <2> HIDE DEF u
  <2>2. "corpse" \in Names /\ "corpse" \in Kinds
    BY DEF Names, Kinds
  <2>3. PlayerOK(u)
    BY <2>1, <2>2 DEF Good, PlayerOK
  <2>4. Good(u)
    BY <2>1, <2>3 DEF Good, ShellOK, GroupOK, ToldOK, SameShell, SameGroup, SameTold, SameZone
  <2> QED
    BY <2>1, <2>4, StaysSo DEF u
<1>2. CASE id # t.me /\ id \in DOMAIN t.spawns
  <2>1. u = [t EXCEPT !.spawns = M]
    BY <1>2 DEF Kill
  <2>2. DOMAIN M = DOMAIN t.spawns
        /\ \A i \in DOMAIN M : M[i] \in {[name |-> "corpse", kind |-> "corpse"], t.spawns[i]}
    OBVIOUS
  <2> HIDE DEF M, u
  <2>3. [name |-> "corpse", kind |-> "corpse"] \in [name : Names, kind : Kinds]
    BY DEF Names, Kinds
  <2>4. \A i \in DOMAIN M : M[i] \in [name : Names, kind : Kinds]
    BY <2>2, <2>3 DEF Good, ShellOK
  <2>5. Good(u) /\ SameItems(t, u) /\ SameTold(t, u) /\ SameGroup(t, u)
    BY <2>1, <2>2, <2>4, RecastIs
  <2> QED
    BY <2>5 DEF Stays, SameGroup, SameRoster, u
<1>3. CASE id # t.me /\ id \notin DOMAIN t.spawns
  <2>1. u = t
    BY <1>3 DEF Kill
  <2> QED
    BY <2>1 DEF Stays, SameItems, SameTold, SameZone, SameRoster
<1> QED
  BY <1>1, <1>2, <1>3

-----------------------------------------------------------------------------
(* What a packet may do, in the terms of the properties.                   *)

\* InSync and Distinct, of any state of the managers.
Holds(t) == t.on /\ t.view = View(t) /\ t.self = t.me

Apart(t) ==
  /\ DOMAIN t.spawns \cap (t.drops \cup t.doors) = {} /\ t.drops \cap t.doors = {}
  /\ t.me \notin DOMAIN t.spawns \cup t.drops \cup t.doors

\* A new spawn is joined to its member, a new id of the player has no spawn
\* and is followed by a Snapshot.
Orderly(t, u) ==
  /\ Good(u) /\ Joined(t, u)
  /\ u.me \notin {0, t.me} => u.me \notin DOMAIN u.spawns /\ (t.on => Holds(u))

\* The player is no spawn.
Clean(t) == t.me # 0 => t.me \notin DOMAIN t.spawns

\* The client knows one zone.
Level(t) == t.on => t.shown = t.snap

\* The client follows.
Follows(t, u) == Holds(t) /\ Apart(t) => Holds(u)

Keeps(t, u) ==
  Orderly(t, u) /\ (Clean(t) => Clean(u)) /\ (Level(t) => Level(u)) /\ SameRoster(t, u)

Mild(t, u) == Keeps(t, u) /\ Follows(t, u)

LEMMA ItselfStays ==
  ASSUME NEW t, Good(t)
  PROVE  Stays(t, t)
BY DEF Stays, SameItems, SameTold, SameZone, SameRoster

LEMMA StaysMild ==
  ASSUME NEW t, Good(t), NEW u, Stays(t, u)
  PROVE  Mild(t, u)
<1>1. /\ u.me = t.me /\ u.drops = t.drops /\ u.doors = t.doors
      /\ DOMAIN u.spawns = DOMAIN t.spawns /\ SameTold(t, u)
  BY DEF Stays, SameItems
<1>2. View(u) = View(t)
  BY <1>1 DEF View
<1>3. Orderly(t, u)
  BY <1>1 DEF Orderly, Stays, Joined
<1>4. (Clean(t) => Clean(u)) /\ (Level(t) => Level(u)) /\ Follows(t, u)
  BY <1>1, <1>2 DEF Clean, Level, Follows, Holds, SameTold, SameZone
<1> QED
  BY <1>3, <1>4 DEF Mild, Keeps, Stays

\* A spawn where the player is not.
LEMMA GrowsMild ==
  ASSUME NEW t, Good(t), NEW u, NEW id, Grows(t, u, id)
  PROVE  /\ Orderly(t, u) /\ SameRoster(t, u) /\ Follows(t, u)
         /\ id # t.me => Mild(t, u)
<1>1. /\ u.me = t.me /\ u.drops = t.drops /\ u.doors = t.doors
      /\ DOMAIN u.spawns = DOMAIN t.spawns \cup {id} /\ SameZone(t, u)
      /\ u.view = IF t.on THEN t.view \cup {id} ELSE t.view
  BY DEF Grows
<1>2. View(u) = View(t) \cup {id}
  BY <1>1 DEF View
<1>3. Orderly(t, u)
  BY <1>1 DEF Orderly, Grows
<1>4. Follows(t, u)
  BY <1>1, <1>2 DEF Follows, Holds, SameZone
<1>5. id # t.me => (Clean(t) => Clean(u))
  BY <1>1 DEF Clean
<1>6. Level(t) => Level(u)
  BY <1>1 DEF Level, SameZone
<1> QED
  BY <1>3, <1>4, <1>5, <1>6 DEF Mild, Keeps, Grows

\* An item sent again.
LEMMA SentAgain ==
  ASSUME NEW t, Good(t), NEW a, Stays(t, a), NEW id \in View(t)
  PROVE  LET u == Added(a, id) IN
         Mild(t, u) /\ SameItems(t, u) /\ SameZone(t, u) /\ (Holds(t) => Holds(u))
<1> DEFINE u == Added(a, id)
<1>1. id \in Ids \cup {0}
  BY DEF View, Good, ShellOK
<1>2. Good(a) /\ SameItems(t, a) /\ SameTold(t, a) /\ SameRoster(t, a)
  BY DEF Stays
<1>3. /\ Good(u) /\ SameShell(a, u) /\ SamePlayer(a, u) /\ SameGroup(a, u) /\ SameZone(a, u)
      /\ u.view = IF a.on THEN a.view \cup {id} ELSE a.view
  BY <1>1, <1>2, AddedIs
<1> HIDE DEF u
<1>4. /\ u.me = t.me /\ u.drops = t.drops /\ u.doors = t.doors
      /\ DOMAIN u.spawns = DOMAIN t.spawns /\ SameZone(t, u) /\ SameRoster(t, u)
      /\ u.view = IF t.on THEN t.view \cup {id} ELSE t.view
  BY <1>2, <1>3 DEF SameItems, SameShell, SameZone, SameTold, SameRoster, SameGroup
<1>5. View(u) = View(t)
  BY <1>4 DEF View
<1>6. Orderly(t, u)
  BY <1>3, <1>4 DEF Orderly, Joined
<1>7. (Clean(t) => Clean(u)) /\ (Level(t) => Level(u)) /\ Follows(t, u)
      /\ SameItems(t, u) /\ (Holds(t) => Holds(u))
  BY <1>4, <1>5 DEF Clean, Level, Follows, Holds, SameZone, SameItems
<1> QED
  BY <1>4, <1>6, <1>7 DEF Mild, Keeps, u

\* A spawn is deleted.
LEMMA DeletesMild ==
  ASSUME NEW t, Good(t), NEW id
  PROVE  Mild(t, DeleteSpawn(t, id))
<1> DEFINE u == DeleteSpawn(t, id)
<1>1. /\ Good(u) /\ SamePlayer(t, u) /\ SameZone(t, u) /\ SameRoster(t, u)
      /\ u.me = t.me /\ u.drops = t.drops /\ u.doors = t.doors
      /\ DOMAIN u.spawns = DOMAIN t.spawns \ {id}
      /\ u.view = IF t.on /\ id \in DOMAIN t.spawns THEN t.view \ {id} ELSE t.view
  BY DeleteSpawnIs
<1> HIDE DEF u
<1>2. Apart(t) => View(u) = IF id \in DOMAIN t.spawns THEN View(t) \ {id} ELSE View(t)
  BY <1>1 DEF Apart, View
<1>3. Follows(t, u)
  BY <1>1, <1>2 DEF Follows, Holds, SameZone
<1>4. Orderly(t, u)
  BY <1>1 DEF Orderly, Joined
<1>5. (Clean(t) => Clean(u)) /\ (Level(t) => Level(u))
  BY <1>1 DEF Clean, Level, SameZone
<1> QED
  BY <1>1, <1>3, <1>4, <1>5 DEF Mild, Keeps, u

\* The player or the zone changes, and no item does.
LEMMA OtherPlayer ==
  ASSUME NEW t, Good(t), NEW u, Shape(u), SameShell(t, u), SameGroup(t, u), SameTold(t, u),
         PlayerOK(u)
  PROVE  Stays(t, u)
<1>1. Good(u)
  BY DEF Good, ShellOK, GroupOK, ToldOK, SameShell, SameGroup, SameTold, SameZone
<1> QED
  BY <1>1, StaysSo

\* The shell is emptied, and the player has no id.
LEMMA VacatedIs ==
  ASSUME NEW t, Good(t)
  PROVE  LET u == [Clear(t) EXCEPT !.me = 0] IN
         Keeps(t, u) /\ u.zone = t.zone /\ u.me = 0 /\ DOMAIN u.spawns = {} /\ SameZone(t, u)
<1> DEFINE v == Clear(t)
           u == [v EXCEPT !.me = 0]
<1>1. /\ Good(v) /\ v.zone = t.zone /\ SameZone(t, v) /\ SameRoster(t, v)
      /\ DOMAIN v.spawns = {}
  BY ClearIs
<1> HIDE DEF v
<1>2. /\ Shape(u) /\ SamePlayer(v, u) /\ SameTold(v, u) /\ SameGroup(v, u)
      /\ u.me = 0 /\ u.spawns = v.spawns /\ u.drops = v.drops /\ u.doors = v.doors
  BY <1>1 DEF Good, Shape, SamePlayer, SameTold, SameZone, SameGroup
<1> HIDE DEF u
<1>3. ShellOK(u)
  BY <1>1, <1>2 DEF Good, ShellOK
<1>4. Good(u)
  BY <1>1, <1>2, <1>3 DEF Good, PlayerOK, GroupOK, ToldOK, SamePlayer, SameGroup, SameTold, SameZone
<1>5. /\ u.zone = t.zone /\ DOMAIN u.spawns = {} /\ SameZone(t, u) /\ SameRoster(t, u)
  BY <1>1, <1>2 DEF SamePlayer, SameZone, SameTold, SameRoster, SameGroup
<1>6. Orderly(t, u) /\ (Clean(t) => Clean(u)) /\ (Level(t) => Level(u))
  BY <1>2, <1>4, <1>5 DEF Orderly, Joined, Clean, Level, SameZone
<1> QED
  BY <1>2, <1>5, <1>6 DEF Keeps, u, v

-----------------------------------------------------------------------------
(* The packets of both back ends.                                          *)

LEMMA SubscribeMild ==
  ASSUME Good(s), Subscribe
  PROVE  Mild(s, s')
<1> DEFINE B == TRUE
           a == [s EXCEPT !.on = B]
<1>1. s' = Snapshot(a) /\ ~s.on
  BY DEF Subscribe
<1> HIDE DEF B
<1>2. /\ Shape(a) /\ SamePlayer(s, a) /\ SameShell(s, a) /\ SameGroup(s, a) /\ a.on = B
      /\ a.view = s.view /\ a.self = s.self /\ a.shown = s.shown /\ a.snap = s.snap
  BY DEF Good, Shape, SamePlayer, SameShell, SameGroup
<1> HIDE DEF a
<1>3. Good(a) /\ a.on
  BY <1>2 DEF Good, PlayerOK, ShellOK, GroupOK, ToldOK, SamePlayer, SameShell, SameGroup, B
<1>4. /\ Good(s') /\ SameShell(a, s') /\ SameGroup(a, s') /\ Synced(s')
  BY <1>1, <1>2, <1>3, SnapshotIs
<1>5. SameShell(s, s') /\ SameRoster(s, s')
  BY <1>2, <1>4 DEF SameShell, SameGroup, SameRoster
<1>6. Orderly(s, s')
  BY <1>4, <1>5 DEF Orderly, Joined, SameShell
<1>7. (Clean(s) => Clean(s')) /\ (Level(s) => Level(s')) /\ Follows(s, s')
  BY <1>1, <1>4, <1>5 DEF Clean, Level, Follows, Holds, SameShell, Synced
<1> QED
  BY <1>5, <1>6, <1>7 DEF Mild, Keeps

LEMMA DeletePacketMild ==
  ASSUME Good(s), NEW id \in Ids, DeleteSpawnPacket(id) \/ RemoveSpawnPacket(id)
  PROVE  Mild(s, s')
<1>1. CASE DeleteSpawnPacket(id)
  <2> DEFINE b == Bury(s, id)
  <2>1. Good(b) /\ SameShell(s, b) /\ SameGroup(s, b) /\ SameTold(s, b)
    BY BuryIs
  <2>2. s' = DeleteSpawn(b, id)
    BY <1>1 DEF DeleteSpawnPacket
  <2> HIDE DEF b
  <2>3. Mild(b, s')
    BY <2>1, <2>2, DeletesMild
  <2>4. Orderly(s, s')
    BY <2>1, <2>3 DEF Mild, Keeps, Orderly, Joined, SameShell, SameTold, SameZone
  <2>5. View(b) = View(s) /\ SameRoster(s, s')
    BY <2>1, <2>3 DEF View, SameShell, Mild, Keeps, SameRoster, SameGroup
  <2>6. (Clean(s) => Clean(s')) /\ (Level(s) => Level(s')) /\ Follows(s, s')
    BY <2>1, <2>3, <2>5
    DEF Mild, Keeps, Clean, Level, Follows, Holds, Apart, SameShell, SameTold, SameZone
  <2> QED
    BY <2>4, <2>5, <2>6 DEF Mild, Keeps
<1>2. CASE RemoveSpawnPacket(id)
  BY <1>2, DeletesMild DEF RemoveSpawnPacket
<1> QED
  BY <1>1, <1>2

LEMMA CorpseLocMild ==
  ASSUME Good(s), NEW id \in Ids, CorpseLoc(id)
  PROVE  Mild(s, s')
<1> DEFINE M == [s.spawns EXCEPT ![id].kind = "corpse"]
<1>1. s' = [s EXCEPT !.spawns = M] /\ id \in DOMAIN s.spawns
  BY DEF CorpseLoc
<1>2. DOMAIN M = DOMAIN s.spawns
      /\ \A i \in DOMAIN M : M[i] \in {[s.spawns[id] EXCEPT !.kind = "corpse"], s.spawns[i]}
  OBVIOUS
<1> HIDE DEF M
<1>3. "corpse" \in Kinds
  BY DEF Kinds
<1>4. [s.spawns[id] EXCEPT !.kind = "corpse"] \in [name : Names, kind : Kinds]
      /\ \A i \in DOMAIN s.spawns : s.spawns[i] \in [name : Names, kind : Kinds]
  BY <1>1, <1>3 DEF Good, ShellOK
<1>5. \A i \in DOMAIN M : M[i] \in [name : Names, kind : Kinds]
  BY <1>2, <1>4
<1>6. Stays(s, s')
  BY <1>1, <1>2, <1>5, RecastIs DEF Stays, SameGroup, SameRoster
<1> QED
  BY <1>6, StaysMild

LEMMA IllusionMild ==
  ASSUME Good(s), NEW id \in Ids, Illusion(id)
  PROVE  Mild(s, s')
<1>1. id \in View(s) /\ s' = Added(s, id)
  BY DEF Illusion, View
<1> QED
  BY <1>1, ItselfStays, SentAgain

LEMMA AppearsTyped == Appears \subseteq [name : Names, kind : Kinds]
BY DEF Appears, Names, Kinds

LEMMA ShroudMild ==
  ASSUME Good(s)
  PROVE  /\ \A id \in Ids, sp \in Appears : ShroudOther(id, sp) => Mild(s, s')
         /\ ShroudSelf => Mild(s, s')
<1>1. ASSUME NEW id \in Ids, NEW sp \in Appears, ShroudOther(id, sp)
      PROVE  Mild(s, s')
  <2>1. id # s.me /\ s' = NewSpawn(s, id, sp) /\ sp \in [name : Names, kind : Kinds]
    BY <1>1, AppearsTyped DEF ShroudOther
  <2>2. Grows(s, s', id)
    BY <2>1, NewSpawnIs
  <2> QED
    BY <2>1, <2>2, GrowsMild
<1>2. ASSUME ShroudSelf
      PROVE  Mild(s, s')
  <2> DEFINE F == FALSE
             a == [s EXCEPT !.defaults = F]
  <2>1. s' = Added(a, s.me) /\ s.me \in View(s)
    BY <1>2 DEF ShroudSelf, View
  <2> HIDE DEF F
  <2>2. /\ Shape(a) /\ SameShell(s, a) /\ SameGroup(s, a) /\ SameTold(s, a)
        /\ a.zone = s.zone /\ a.zoning = s.zoning /\ a.name = s.name /\ a.real = s.real
        /\ a.kind = s.kind /\ a.defaults = F /\ a.players = s.players
        /\ a.dead = s.dead /\ a.pos = s.pos /\ a.cnt = s.cnt
    BY DEF Good, Shape, SameShell, SameGroup, SameTold, SameZone
  <2> HIDE DEF a
  <2>3. PlayerOK(a)
    BY <2>2 DEF Good, PlayerOK, F
  <2>4. Stays(s, a)
    BY <2>2, <2>3, OtherPlayer
  <2> QED
    BY <2>1, <2>4, SentAgain
<1> QED
  BY <1>1, <1>2

LEMMA RenameMild ==
  ASSUME Good(s), NEW old \in Names, NEW new \in Pals \cup {"mob"}, RenameSpawn(old, new)
  PROVE  Mild(s, s')
<1>0. new \in Names
  BY DEF Names
<1>1. ASSUME NEW id \in DOMAIN s.spawns,
             s' \in {[s EXCEPT !.spawns = [s.spawns EXCEPT ![id].name = new]],
                     Added([s EXCEPT !.spawns = [s.spawns EXCEPT ![id].name = new]], id)}
      PROVE  Mild(s, s')
  <2> DEFINE M == [s.spawns EXCEPT ![id].name = new]
             a == [s EXCEPT !.spawns = M]
  <2>1. DOMAIN M = DOMAIN s.spawns
        /\ \A i \in DOMAIN M : M[i] \in {[s.spawns[id] EXCEPT !.name = new], s.spawns[i]}
    OBVIOUS
  <2>2. s' = a \/ s' = Added(a, id)
    BY <1>1
  <2> HIDE DEF M
  <2>3. [s.spawns[id] EXCEPT !.name = new] \in [name : Names, kind : Kinds]
        /\ \A i \in DOMAIN s.spawns : s.spawns[i] \in [name : Names, kind : Kinds]
    BY <1>0 DEF Good, ShellOK
  <2>4. \A i \in DOMAIN M : M[i] \in [name : Names, kind : Kinds]
    BY <2>1, <2>3
  <2>5. Stays(s, a)
    BY <2>1, <2>4, RecastIs DEF Stays, SameGroup, SameRoster
  <2>6. id \in View(s)
    BY DEF View
  <2> HIDE DEF a
  <2>7. Mild(s, a) /\ Mild(s, Added(a, id))
    BY <2>5, <2>6, StaysMild, SentAgain
  <2> QED
    BY <2>2, <2>7
<1>2. ASSUME s' \in {[s EXCEPT !.name = new], Added([s EXCEPT !.name = new], s.me)}
      PROVE  Mild(s, s')
  <2> DEFINE a == [s EXCEPT !.name = new]
  <2>1. s' = a \/ s' = Added(a, s.me)
    BY <1>2
  <2>2. /\ Shape(a) /\ SameShell(s, a) /\ SameGroup(s, a) /\ SameTold(s, a)
        /\ a.zone = s.zone /\ a.zoning = s.zoning /\ a.name = new /\ a.real = s.real
        /\ a.kind = s.kind /\ a.defaults = s.defaults /\ a.players = s.players
        /\ a.dead = s.dead /\ a.pos = s.pos /\ a.cnt = s.cnt
    BY DEF Good, Shape, SameShell, SameGroup, SameTold, SameZone
  <2> HIDE DEF a
  <2>3. PlayerOK(a)
    BY <1>0, <2>2 DEF Good, PlayerOK
  <2>4. Stays(s, a) /\ s.me \in View(s)
    BY <2>2, <2>3, OtherPlayer DEF View
  <2>5. Mild(s, a) /\ Mild(s, Added(a, s.me))
    BY <2>4, StaysMild, SentAgain
  <2> QED
    BY <2>1, <2>5
<1>3. \/ \E id \in DOMAIN s.spawns :
            s' \in {[s EXCEPT !.spawns = [s.spawns EXCEPT ![id].name = new]],
                    Added([s EXCEPT !.spawns = [s.spawns EXCEPT ![id].name = new]], id)}
      \/ s' \in {[s EXCEPT !.name = new], Added([s EXCEPT !.name = new], s.me)}
  BY DEF RenameSpawn
<1> QED
  BY <1>1, <1>2, <1>3

\* An item more, and the client is sent it.
LEMMA ItemMild ==
  ASSUME NEW t, Good(t), NEW a, Good(a), a.me = t.me, a.spawns = t.spawns,
         SameTold(t, a), SameGroup(t, a), NEW id \in Ids, View(a) = View(t) \cup {id}
  PROVE  Mild(t, Added(a, id))
<1> DEFINE u == Added(a, id)
<1>1. /\ Good(u) /\ SameShell(a, u) /\ SamePlayer(a, u) /\ SameGroup(a, u) /\ SameZone(a, u)
      /\ u.view = IF a.on THEN a.view \cup {id} ELSE a.view
  BY AddedIs
<1> HIDE DEF u
<1>2. /\ u.me = t.me /\ u.spawns = t.spawns /\ SameZone(t, u) /\ SameRoster(t, u)
      /\ u.view = IF t.on THEN t.view \cup {id} ELSE t.view
  BY <1>1 DEF SameShell, SameZone, SameTold, SameRoster, SameGroup
<1>3. View(u) = View(t) \cup {id}
  BY <1>1 DEF View, SameShell
<1>4. Orderly(t, u)
  BY <1>1, <1>2 DEF Orderly, Joined
<1>5. (Clean(t) => Clean(u)) /\ (Level(t) => Level(u)) /\ Follows(t, u)
  BY <1>2, <1>3 DEF Clean, Level, Follows, Holds, SameZone
<1> QED
  BY <1>2, <1>4, <1>5 DEF Mild, Keeps, u

LEMMA GroundItemMild ==
  ASSUME Good(s), NEW id \in Ids, NewGroundItem(id)
  PROVE  Mild(s, s')
<1> DEFINE D == s.drops \cup {id}
           a == [s EXCEPT !.drops = D]
<1>1. s' = Added(a, id)
  BY DEF NewGroundItem
<1>2. D \subseteq Ids
  BY DEF Good, ShellOK
<1> HIDE DEF D
<1>3. /\ Shape(a) /\ SamePlayer(s, a) /\ SameTold(s, a) /\ SameGroup(s, a)
      /\ a.me = s.me /\ a.spawns = s.spawns /\ a.drops = D /\ a.doors = s.doors
  BY DEF Good, Shape, SamePlayer, SameTold, SameZone, SameGroup
<1> HIDE DEF a
<1>4. Good(a)
  BY <1>2, <1>3
  DEF Good, PlayerOK, ShellOK, GroupOK, ToldOK, SamePlayer, SameGroup, SameTold, SameZone
<1>5. View(a) = View(s) \cup {id}
  BY <1>3 DEF View, D
<1> QED
  BY <1>1, <1>3, <1>4, <1>5, ItemMild

LEMMA DoorMild ==
  ASSUME Good(s), NEW id \in Ids, NewDoor(id)
  PROVE  Mild(s, s')
<1> DEFINE D == s.doors \cup {id}
           a == [s EXCEPT !.doors = D]
<1>1. s' = Added(a, id)
  BY DEF NewDoor
<1>2. D \subseteq Ids
  BY DEF Good, ShellOK
<1> HIDE DEF D
<1>3. /\ Shape(a) /\ SamePlayer(s, a) /\ SameTold(s, a) /\ SameGroup(s, a)
      /\ a.me = s.me /\ a.spawns = s.spawns /\ a.drops = s.drops /\ a.doors = D
  BY DEF Good, Shape, SamePlayer, SameTold, SameZone, SameGroup
<1> HIDE DEF a
<1>4. Good(a)
  BY <1>2, <1>3
  DEF Good, PlayerOK, ShellOK, GroupOK, ToldOK, SamePlayer, SameGroup, SameTold, SameZone
<1>5. View(a) = View(s) \cup {id}
  BY <1>3 DEF View, D
<1> QED
  BY <1>1, <1>3, <1>4, <1>5, ItemMild

LEMMA RemoveItemMild ==
  ASSUME Good(s), NEW id \in Ids, RemoveGroundItem(id)
  PROVE  Mild(s, s')
<1> DEFINE a == Removed(s, id)
           D == a.drops \ {id}
<1>1. s' = [a EXCEPT !.drops = D] /\ id \in s.drops
  BY DEF RemoveGroundItem, Removed
<1>2. /\ Good(a) /\ SameShell(s, a) /\ SamePlayer(s, a) /\ SameGroup(s, a) /\ SameZone(s, a)
      /\ a.view = IF s.on THEN s.view \ {id} ELSE s.view
  BY RemovedIs
<1> HIDE DEF a, D
<1>3. /\ Shape(s') /\ SamePlayer(a, s') /\ SameTold(a, s') /\ SameGroup(a, s')
      /\ s'.me = a.me /\ s'.spawns = a.spawns /\ s'.drops = D /\ s'.doors = a.doors
  BY <1>1, <1>2 DEF Good, Shape, SamePlayer, SameTold, SameZone, SameGroup
<1>4. D \subseteq Ids /\ D = s.drops \ {id}
  BY <1>2 DEF D, Good, ShellOK, SameShell
<1>5. Good(s')
  BY <1>2, <1>3, <1>4
  DEF Good, PlayerOK, ShellOK, GroupOK, ToldOK, SamePlayer, SameGroup, SameTold, SameZone
<1>6. /\ s'.me = s.me /\ s'.spawns = s.spawns /\ s'.doors = s.doors
      /\ SameZone(s, s') /\ SameRoster(s, s')
      /\ s'.view = IF s.on THEN s.view \ {id} ELSE s.view
  BY <1>2, <1>3 DEF SameShell, SameZone, SameTold, SameRoster, SameGroup
<1>7. Apart(s) => View(s') = View(s) \ {id}
  BY <1>1, <1>3, <1>4, <1>6 DEF Apart, View
<1>8. Orderly(s, s')
  BY <1>5, <1>6 DEF Orderly, Joined
<1>9. (Clean(s) => Clean(s')) /\ (Level(s) => Level(s')) /\ Follows(s, s')
  BY <1>6, <1>7 DEF Clean, Level, Follows, Holds, SameZone
<1> QED
  BY <1>6, <1>8, <1>9 DEF Mild, Keeps

LEMMA MoveMild ==
  ASSUME Good(s), NEW id \in Ids, MoveUpdate(id)
  PROVE  Mild(s, s')
<1>1. s' = UpdateSpawn(s, id)
  BY DEF MoveUpdate
<1>2. Stays(s, s') \/ (id # s.me /\ Grows(s, s', id))
  BY <1>1, UpdateSpawnIs
<1> QED
  BY <1>2, StaysMild, GrowsMild

-----------------------------------------------------------------------------
(* The packets about the group.                                            *)

\* Mild, but for the roster.
Regroups(t, u) ==
  Orderly(t, u) /\ (Clean(t) => Clean(u)) /\ (Level(t) => Level(u)) /\ Follows(t, u)

LEMMA RosterFinite ==
  ASSUME NEW S \in SUBSET (Pals \cup {"me"})
  PROVE  IsFiniteSet(S) /\ Cardinality(S) \in Nat
<1>1. IsFiniteSet(Pals \cup {"me"})
  <2>1. IsFiniteSet({"me"})
    BY FS_Singleton
  <2> QED
    BY <2>1, ZoneAssumption, FS_Union
<1> QED
  BY <1>1, FS_Subset, FS_CardinalityType

LEMMA RegroupIs ==
  ASSUME NEW t, Good(t), NEW P, DOMAIN P \subseteq Pals \cup {"me"},
         Cardinality(DOMAIN P) <= MaxPeers, \A n \in DOMAIN P : P[n] \in Pointers
  PROVE  Regroups(t, [t EXCEPT !.peers = P])
<1> DEFINE u == [t EXCEPT !.peers = P]
<1>1. /\ Shape(u) /\ SamePlayer(t, u) /\ SameTold(t, u) /\ SameShell(t, u) /\ u.peers = P
  BY DEF Good, Shape, SamePlayer, SameTold, SameZone, SameShell
<1> HIDE DEF u
<1>2. GroupOK(u)
  BY <1>1 DEF GroupOK
<1>3. Good(u)
  BY <1>1, <1>2 DEF Good, PlayerOK, ShellOK, ToldOK, SamePlayer, SameShell, SameTold, SameZone
<1>4. Orderly(t, u) /\ View(u) = View(t)
  BY <1>1, <1>3 DEF Orderly, Joined, View, SameShell
<1>5. (Clean(t) => Clean(u)) /\ (Level(t) => Level(u)) /\ Follows(t, u)
  BY <1>1, <1>4 DEF Clean, Level, Follows, Holds, SameShell, SameTold, SameZone
<1> QED
  BY <1>4, <1>5 DEF Regroups, u

LEMMA RemoveMemberIs ==
  ASSUME Good(s), NEW n, RemoveGroupMember(n)
  PROVE  Regroups(s, s')
<1> DEFINE P == IF n = PlayerName(s) THEN <<>> ELSE Restrict(s.peers, DOMAIN s.peers \ {n})
<1>1. s' = [s EXCEPT !.peers = P]
  BY DEF RemoveGroupMember
<1>2. /\ DOMAIN P \subseteq DOMAIN s.peers
      /\ \A m \in DOMAIN P : P[m] = s.peers[m]
  <2>1. CASE n = PlayerName(s)
    BY <2>1
  <2>2. CASE n # PlayerName(s)
    BY <2>2 DEF Restrict
  <2> QED
    BY <2>1, <2>2
<1> HIDE DEF P
<1>3. DOMAIN s.peers \subseteq Pals \cup {"me"} /\ Cardinality(DOMAIN s.peers) <= MaxPeers
      /\ \A m \in DOMAIN s.peers : s.peers[m] \in Pointers
  BY DEF Good, GroupOK
<1>4. IsFiniteSet(DOMAIN s.peers) /\ Cardinality(DOMAIN s.peers) \in Nat
      /\ Cardinality(DOMAIN P) \in Nat
  BY <1>2, <1>3, RosterFinite
<1>5. Cardinality(DOMAIN P) <= Cardinality(DOMAIN s.peers)
  BY <1>2, <1>4, FS_Subset
<1>6. Cardinality(DOMAIN P) <= MaxPeers
  BY <1>3, <1>4, <1>5, Constants
<1> QED
  BY <1>1, <1>2, <1>3, <1>6, RegroupIs

LEMMA AddMemberIs ==
  ASSUME Good(s), NEW n \in Pals \cup {"me"}, AddGroupMember(n)
  PROVE  Regroups(s, s')
<1>1. PICK p \in Found(s, n) :
        s' = [s EXCEPT !.peers = [m \in DOMAIN s.peers \cup {n} |->
                                    IF m = n THEN p ELSE s.peers[m]]]
  BY DEF AddGroupMember
<1> DEFINE P == [m \in DOMAIN s.peers \cup {n} |-> IF m = n THEN p ELSE s.peers[m]]
<1>2. n \notin DOMAIN s.peers /\ Cardinality(DOMAIN s.peers) < MaxPeers
  BY DEF AddGroupMember
<1>3. DOMAIN s.peers \subseteq Pals \cup {"me"}
      /\ \A m \in DOMAIN s.peers : s.peers[m] \in Pointers
  BY DEF Good, GroupOK
<1>4. p \in Pointers
  BY FoundIs
<1>5. Cardinality(DOMAIN P) = Cardinality(DOMAIN s.peers) + 1
  BY <1>2, <1>3, RosterFinite, FS_AddElement
<1>6. Cardinality(DOMAIN P) <= MaxPeers
  BY <1>2, <1>3, <1>5, RosterFinite, Constants
<1>7. DOMAIN P \subseteq Pals \cup {"me"} /\ \A m \in DOMAIN P : P[m] \in Pointers
  BY <1>3, <1>4
<1> QED
  BY <1>1, <1>6, <1>7, RegroupIs

\* Those who stay and those who fill the free slots are no more than there are
\* slots.
LEMMA MemberListIs ==
  ASSUME Good(s), NEW names \in SUBSET (Pals \cup {"me"}), GroupMemberList(names)
  PROVE  Regroups(s, s')
<1> DEFINE incoming == names \ {PlayerName(s)}
           kept     == DOMAIN s.peers \cap incoming
           fresh    == incoming \ kept
           free     == MaxPeers - Cardinality(kept)
<1>1. PICK new \in SUBSET fresh : \E p \in [new -> Ids \cup {Nil, Self}] :
        /\ Cardinality(new) = Min({free, Cardinality(fresh)})
        /\ \A n \in new : p[n] \in Found(s, n)
        /\ s' = [s EXCEPT !.peers = [n \in kept \cup new |->
                                       IF n \in kept THEN s.peers[n] ELSE p[n]]]
  BY DEF GroupMemberList
<1>2. PICK p \in [new -> Ids \cup {Nil, Self}] :
        /\ Cardinality(new) = Min({free, Cardinality(fresh)})
        /\ \A n \in new : p[n] \in Found(s, n)
        /\ s' = [s EXCEPT !.peers = [n \in kept \cup new |->
                                       IF n \in kept THEN s.peers[n] ELSE p[n]]]
  BY <1>1
<1> DEFINE P == [n \in kept \cup new |-> IF n \in kept THEN s.peers[n] ELSE p[n]]
<1>3. DOMAIN s.peers \subseteq Pals \cup {"me"} /\ Cardinality(DOMAIN s.peers) <= MaxPeers
      /\ \A m \in DOMAIN s.peers : s.peers[m] \in Pointers
  BY DEF Good, GroupOK
<1>4. /\ kept \in SUBSET (Pals \cup {"me"}) /\ fresh \in SUBSET (Pals \cup {"me"})
      /\ new \in SUBSET (Pals \cup {"me"}) /\ DOMAIN s.peers \in SUBSET (Pals \cup {"me"})
  BY <1>3
<1>5. /\ IsFiniteSet(kept) /\ IsFiniteSet(new) /\ IsFiniteSet(DOMAIN s.peers)
      /\ Cardinality(kept) \in Nat /\ Cardinality(new) \in Nat /\ Cardinality(fresh) \in Nat
      /\ Cardinality(DOMAIN s.peers) \in Nat
  BY <1>4, RosterFinite
<1>6. free \in Int
  BY <1>5, Constants
<1>7. Cardinality(new) <= free
  <2> DEFINE a == free
             b == Cardinality(fresh)
  <2>1. a \in Int /\ b \in Int /\ Cardinality(new) = Min({a, b})
    BY <1>2, <1>5, <1>6
  <2> HIDE DEF a, b
  <2>2. Min({a, b}) <= a
    <3>1. \E m \in {a, b} : \A n \in {a, b} : m <= n
      BY <2>1
    <3>2. Min({a, b}) = CHOOSE m \in {a, b} : \A n \in {a, b} : m <= n
      BY DEF Min
    <3>3. \A n \in {a, b} : Min({a, b}) <= n
      BY <3>1, <3>2
    <3> QED
      BY <3>3
  <2> QED
    BY <2>1, <2>2 DEF a
<1>8. Cardinality(kept \cup new) = Cardinality(kept) + Cardinality(new)
  <2>1. kept \cap new = {}
    OBVIOUS
  <2>2. Cardinality(kept \cup new)
          = Cardinality(kept) + Cardinality(new) - Cardinality(kept \cap new)
    BY <1>5, FS_Union
  <2>3. Cardinality(kept \cap new) = 0
    BY <2>1, FS_EmptySet
  <2> HIDE DEF kept
  <2> QED
    BY <1>5, <2>2, <2>3
<1>9. Cardinality(DOMAIN P) <= MaxPeers
  <2> HIDE DEF kept
  <2>1. DOMAIN P = kept \cup new
    OBVIOUS
  <2> HIDE DEF P
  <2> QED
    BY <1>5, <1>7, <1>8, <2>1, Constants
<1>10. \A n \in new : p[n] \in Pointers
  BY <1>2, FoundIs
<1>11. DOMAIN P \subseteq Pals \cup {"me"} /\ \A n \in DOMAIN P : P[n] \in Pointers
  BY <1>3, <1>4, <1>10
<1> QED
  BY <1>2, <1>9, <1>11, RegroupIs

\* What a packet of both back ends does.
LEMMA SharedStep ==
  ASSUME Good(s), Shared
  PROVE  /\ Regroups(s, s') \/ (NewWorld /\ Keeps(s, s'))
         /\ SameRoster(s, s') \/ \E n \in Pals \cup {"me"} : RemoveGroupMember(n)
<1>1. ASSUME Mild(s, s')
      PROVE  Regroups(s, s') /\ SameRoster(s, s')
  BY <1>1 DEF Mild, Keeps, Regroups
<1>2. CASE Subscribe
  BY <1>1, <1>2, SubscribeMild
<1>3. CASE NewWorld
  <2>1. s' = [Clear(s) EXCEPT !.me = 0]
    BY <1>3 DEF NewWorld
  <2>2. Keeps(s, s')
    BY <2>1, VacatedIs
  <2> QED
    BY <1>3, <2>2 DEF Keeps
<1>4. CASE ShroudSelf
  BY <1>1, <1>4, ShroudMild
<1>5. CASE \E id \in Ids :
             \/ DeleteSpawnPacket(id) \/ RemoveSpawnPacket(id) \/ CorpseLoc(id) \/ Illusion(id)
             \/ NewGroundItem(id) \/ NewDoor(id) \/ RemoveGroundItem(id) \/ MoveUpdate(id)
             \/ \E sp \in Appears : ShroudOther(id, sp)
  <2>1. PICK id \in Ids :
             \/ DeleteSpawnPacket(id) \/ RemoveSpawnPacket(id) \/ CorpseLoc(id) \/ Illusion(id)
             \/ NewGroundItem(id) \/ NewDoor(id) \/ RemoveGroundItem(id) \/ MoveUpdate(id)
             \/ \E sp \in Appears : ShroudOther(id, sp)
    BY <1>5
  <2>2. Mild(s, s')
    BY <2>1, DeletePacketMild, CorpseLocMild, IllusionMild, GroundItemMild, DoorMild,
       RemoveItemMild, MoveMild, ShroudMild
  <2> QED
    BY <1>1, <2>2
<1>6. CASE \E old \in Names, new \in Pals \cup {"mob"} : RenameSpawn(old, new)
  BY <1>1, <1>6, RenameMild
<1>7. CASE \E n \in Pals \cup {"me"} : RemoveGroupMember(n)
  BY <1>7, RemoveMemberIs
<1> QED
  BY <1>2, <1>3, <1>4, <1>5, <1>6, <1>7 DEF Shared

-----------------------------------------------------------------------------
(* Live's packets.                                                         *)

\* The player or the zone set to other values.
LEMMA ZoneSet ==
  ASSUME NEW t, Good(t), NEW z \in Zones \cup {"unknown"}, NEW b \in BOOLEAN
  PROVE  LET u == [t EXCEPT !.zone = z, !.zoning = b] IN
         Stays(t, u) /\ SameShell(t, u) /\ SameGroup(t, u) /\ u.zone = z
<1> DEFINE u == [t EXCEPT !.zone = z, !.zoning = b]
<1>0. u = [t EXCEPT !.zone = z, !.zoning = b]
  OBVIOUS
<1> HIDE DEF u
<1>1. /\ Shape(u) /\ SameShell(t, u) /\ SameGroup(t, u) /\ SameTold(t, u)
      /\ u.zone = z /\ u.zoning = b /\ u.name = t.name /\ u.real = t.real
      /\ u.kind = t.kind /\ u.defaults = t.defaults /\ u.players = t.players
      /\ u.dead = t.dead /\ u.pos = t.pos /\ u.cnt = t.cnt
  BY <1>0 DEF Good, Shape, SameShell, SameGroup, SameTold, SameZone
<1>2. PlayerOK(u)
  BY <1>1 DEF Good, PlayerOK
<1>3. Stays(t, u)
  BY <1>1, <1>2, OtherPlayer
<1> QED
  BY <1>1, <1>3 DEF u

LEMMA ZoningSet ==
  ASSUME NEW t, Good(t), NEW b \in BOOLEAN
  PROVE  LET u == [t EXCEPT !.zoning = b] IN
         Stays(t, u) /\ SameShell(t, u) /\ SameGroup(t, u)
<1>1. [t EXCEPT !.zoning = b] = [t EXCEPT !.zone = t.zone, !.zoning = b]
  BY DEF Good, Shape
<1> DEFINE z == t.zone
<1>2. z \in Zones \cup {"unknown"}
  BY DEF Good, PlayerOK
<1>3. LET u == [t EXCEPT !.zone = z, !.zoning = b] IN
      Stays(t, u) /\ SameShell(t, u) /\ SameGroup(t, u)
  <2> HIDE DEF z
  <2> QED
    BY <1>2, ZoneSet
<1> QED
  BY <1>1, <1>3

LEMMA PlayerSet ==
  ASSUME NEW t, Good(t), NEW n \in Names, NEW r \in BOOLEAN, NEW k \in Kinds,
         NEW d \in BOOLEAN
  PROVE  LET u == [t EXCEPT !.name = n, !.real = r, !.kind = k, !.defaults = d] IN
         Stays(t, u) /\ SameShell(t, u) /\ SameGroup(t, u)
<1> DEFINE u == [t EXCEPT !.name = n, !.real = r, !.kind = k, !.defaults = d]
<1>0. u = [t EXCEPT !.name = n, !.real = r, !.kind = k, !.defaults = d]
  OBVIOUS
<1> HIDE DEF u
<1>1. /\ Shape(u) /\ SameShell(t, u) /\ SameGroup(t, u) /\ SameTold(t, u)
      /\ u.zone = t.zone /\ u.zoning = t.zoning /\ u.name = n /\ u.real = r
      /\ u.kind = k /\ u.defaults = d /\ u.players = t.players
      /\ u.dead = t.dead /\ u.pos = t.pos /\ u.cnt = t.cnt
  BY <1>0 DEF Good, Shape, SameShell, SameGroup, SameTold, SameZone
<1>2. PlayerOK(u)
  BY <1>1 DEF Good, PlayerOK
<1>3. Stays(t, u)
  BY <1>1, <1>2, OtherPlayer
<1> QED
  BY <1>1, <1>3 DEF u

LEMMA PlayerNamed ==
  ASSUME NEW t, Good(t), NEW n \in Names, NEW k \in Kinds
  PROVE  LET u == [t EXCEPT !.name = n, !.kind = k] IN
         Stays(t, u) /\ SameShell(t, u) /\ SameGroup(t, u)
<1>1. [t EXCEPT !.name = n, !.kind = k]
        = [t EXCEPT !.name = n, !.real = t.real, !.kind = k, !.defaults = t.defaults]
  BY DEF Good, Shape
<1>2. t.real \in BOOLEAN /\ t.defaults \in BOOLEAN
  BY DEF Good, PlayerOK
<1> DEFINE r == t.real
           d == t.defaults
<1>3. LET u == [t EXCEPT !.name = n, !.real = r, !.kind = k, !.defaults = d] IN
      Stays(t, u) /\ SameShell(t, u) /\ SameGroup(t, u)
  <2> HIDE DEF r, d
  <2>1. r \in BOOLEAN /\ d \in BOOLEAN
    BY <1>2 DEF r, d
  <2> QED
    BY <2>1, PlayerSet
<1> QED
  BY <1>1, <1>3

\* A new id of the player, in the terms of the properties.
LEMMA SetPlayerIDMild ==
  ASSUME NEW t, Good(t), NEW id \in Ids
  PROVE  Mild(t, SetPlayerID(t, id)) /\ SetPlayerID(t, id).me = id
<1> DEFINE u == SetPlayerID(t, id)
<1>1. /\ Good(u) /\ u.zone = t.zone /\ u.on = t.on /\ SameRoster(t, u)
      /\ id = t.me => u = t
      /\ u.me = id /\ u.drops = t.drops /\ u.doors = t.doors
      /\ id # t.me => /\ DOMAIN u.spawns = DOMAIN t.spawns \ {id}
                      /\ t.on => Synced(u)
  BY SetPlayerIDIs
<1> HIDE DEF u
<1>2. CASE id = t.me
  BY <1>1, <1>2, ItselfStays, StaysMild DEF u
<1>3. CASE id # t.me
  <2>1. t.on => Holds(u) /\ Level(u)
    BY <1>1, <1>3 DEF Synced, Holds, Level
  <2>2. Orderly(t, u)
    BY <1>1, <1>3, <2>1 DEF Orderly, Joined
  <2>3. (Clean(t) => Clean(u)) /\ (Level(t) => Level(u)) /\ Follows(t, u)
    BY <1>1, <1>3, <2>1 DEF Clean, Level, Follows, Holds
  <2> QED
    BY <1>1, <2>2, <2>3 DEF Mild, Keeps, u
<1> QED
  BY <1>2, <1>3

\* The same, and the player sent again with other values.
LEMMA ThenSent ==
  ASSUME NEW t, Good(t), NEW v, Mild(t, v), NEW a, Stays(v, a), SameShell(v, a),
         SameGroup(v, a), NEW id \in View(v)
  PROVE  Mild(t, Added(a, id))
<1> DEFINE u == Added(a, id)
<1>1. Good(v) /\ Good(a)
  BY DEF Mild, Keeps, Orderly, Stays
<1>2. Mild(v, u) /\ SameItems(v, u) /\ SameZone(v, u) /\ (Holds(v) => Holds(u))
  BY <1>1, SentAgain
<1>3. id \in Ids \cup {0}
  BY <1>1 DEF View, Good, ShellOK
<1>4. SameShell(a, u) /\ SameGroup(a, u)
  BY <1>1, <1>3, AddedIs
<1> HIDE DEF u
<1>5. SameShell(v, u) /\ SameGroup(v, u)
  BY <1>4 DEF SameShell, SameGroup
<1>6. Joined(t, u) /\ SameRoster(t, u)
  BY <1>5 DEF Mild, Keeps, Orderly, Joined, SameRoster, SameShell, SameGroup
<1>7. Good(u)
  BY <1>2 DEF Mild, Keeps, Orderly
<1>8. u.me \notin {0, t.me} => u.me \notin DOMAIN u.spawns /\ (t.on => Holds(u))
  <2>1. v.me \notin {0, t.me} => v.me \notin DOMAIN v.spawns /\ (t.on => Holds(v))
    BY DEF Mild, Keeps, Orderly
  <2> QED
    BY <1>2, <1>5, <2>1 DEF SameShell
<1>9. Orderly(t, u)
  BY <1>6, <1>7, <1>8 DEF Orderly
<1>10. (Clean(t) => Clean(u)) /\ (Level(t) => Level(u)) /\ Follows(t, u)
  BY <1>2 DEF Mild, Keeps, Follows
<1> QED
  BY <1>6, <1>9, <1>10 DEF Mild, Keeps, u

LEMMA LivePlayerMild ==
  ASSUME Good(s)
  PROVE  /\ ZoneEntryClient => Mild(s, s')
         /\ \A z \in Zones : ZoneNew(z) => Mild(s, s')
         /\ \A z \in Zones \cup {"unknown"} : ZoneChange(z, FALSE) => Mild(s, s')
<1>0. s.zone \in Zones \cup {"unknown"}
  BY DEF Good, PlayerOK
<1>1. ASSUME NEW z \in Zones \cup {"unknown"}, NEW b \in BOOLEAN,
             s' = [s EXCEPT !.zone = z, !.zoning = b]
      PROVE  Mild(s, s')
  <2>1. Stays(s, s')
    BY <1>1, ZoneSet
  <2> QED
    BY <2>1, StaysMild
<1>2. ASSUME ZoneEntryClient
      PROVE  Mild(s, s')
  BY <1>1, <1>2 DEF ZoneEntryClient
<1>3. ASSUME NEW z \in Zones, ZoneNew(z)
      PROVE  Mild(s, s')
  <2> DEFINE y == IF s.zone = "unknown" THEN z ELSE s.zone
  <2>1. s' = [s EXCEPT !.zone = y, !.zoning = FALSE] /\ y \in Zones \cup {"unknown"}
    BY <1>0, <1>3 DEF ZoneNew
  <2> HIDE DEF y
  <2> QED
    BY <1>1, <2>1
<1>4. ASSUME NEW z \in Zones \cup {"unknown"}, ZoneChange(z, FALSE)
      PROVE  Mild(s, s')
  <2>1. s' = [s EXCEPT !.zone = z, !.zoning = TRUE]
    BY <1>4 DEF ZoneChange
  <2> QED
    BY <1>1, <2>1
<1> QED
  BY <1>2, <1>3, <1>4

\* The server's answer resets the player and the shell, and a client that was
\* shown another zone is sent a Snapshot.
LEMMA ZoneChangeIs ==
  ASSUME Good(s), NEW z \in Zones \cup {"unknown"}, ZoneChange(z, TRUE)
  PROVE  /\ Orderly(s, s') /\ SameRoster(s, s')
         /\ s.on /\ z # s.snap => Holds(s')
<1> DEFINE T == TRUE
           Z == 0
           a == [s EXCEPT !.zone = z, !.zoning = T]
           b == [a EXCEPT !.me = Z, !.defaults = T]
           c == Clear(b)
<1>1. s' = ZoneRetold(c)
  BY DEF ZoneChange
<1>2. T \in BOOLEAN /\ Z \in Ids \cup {0}
  OBVIOUS
<1> HIDE DEF T, Z
<1>3. b = [s EXCEPT !.zone = z, !.zoning = T, !.me = Z, !.defaults = T]
  BY DEF Good, Shape
<1> HIDE DEF a, b
<1>4. /\ Shape(b) /\ SameTold(s, b) /\ SameGroup(s, b)
      /\ b.me = Z /\ b.spawns = s.spawns /\ b.drops = s.drops /\ b.doors = s.doors
      /\ b.zone = z /\ b.zoning = T /\ b.name = s.name /\ b.real = s.real
      /\ b.kind = s.kind /\ b.defaults = T /\ b.players = s.players
      /\ b.dead = s.dead /\ b.pos = s.pos /\ b.cnt = s.cnt
  BY <1>3 DEF Good, Shape, SameGroup, SameTold, SameZone
<1>5. PlayerOK(b) /\ ShellOK(b)
  BY <1>2, <1>4 DEF Good, PlayerOK, ShellOK
<1>6. Good(b)
  BY <1>4, <1>5 DEF Good, GroupOK, ToldOK, SameGroup, SameTold, SameZone
<1>7. /\ Good(c) /\ c.zone = b.zone /\ c.me = b.me /\ SameZone(b, c) /\ SameRoster(b, c)
      /\ DOMAIN c.spawns = {}
  BY <1>6, ClearIs
<1> HIDE DEF c
<1>8. /\ Good(s') /\ SameShell(c, s') /\ SameGroup(c, s') /\ SamePlayer(c, s')
      /\ c.on /\ c.zone # c.snap => Synced(s')
      /\ s'.on = c.on
  BY <1>1, <1>7, ZoneRetoldIs
<1>9. s'.me = 0 /\ DOMAIN s'.spawns = {}
  BY <1>4, <1>7, <1>8 DEF SameShell, Z
<1>10. Orderly(s, s') /\ SameRoster(s, s')
  BY <1>4, <1>7, <1>8, <1>9 DEF Orderly, Joined, SameRoster, SameGroup
<1>11. c.on = s.on /\ c.snap = s.snap /\ c.zone = z
  BY <1>4, <1>7 DEF SameTold, SameZone
<1>12. s.on /\ z # s.snap => Holds(s')
  BY <1>8, <1>11 DEF Synced, Holds
<1> QED
  BY <1>10, <1>12

LEMMA ZonePlayerIs ==
  ASSUME Good(s), NEW z \in Zones \cup {"unknown"}, ZonePlayer(z)
  PROVE  Orderly(s, s') /\ SameRoster(s, s')
<1> DEFINE F == FALSE
           T == TRUE
           N == "me"
           K == "pc"
           a == [s EXCEPT !.zone = z, !.zoning = F]
           c == Clear(a)
           d == ZoneTold(c)
           e == [d EXCEPT !.name = N, !.real = T, !.kind = K, !.defaults = F]
<1>0. s.me \in Ids \cup {0}
  BY DEF Good, ShellOK
<1>1. s' = Added(e, s.me)
  BY DEF ZonePlayer
<1>2. T \in BOOLEAN /\ F \in BOOLEAN /\ N \in Names /\ K \in Kinds
  BY DEF Names, Kinds
<1> HIDE DEF T, F, N, K
<1>3. Stays(s, a) /\ SameShell(s, a) /\ SameGroup(s, a)
  BY <1>2, ZoneSet
<1> HIDE DEF a
<1>4. /\ Good(c) /\ c.zone = a.zone /\ c.me = a.me /\ SameRoster(a, c)
      /\ DOMAIN c.spawns = {}
  BY <1>3, ClearIs DEF Stays
<1> HIDE DEF c
<1>5. Good(d) /\ SameShell(c, d) /\ SamePlayer(c, d) /\ SameGroup(c, d)
  BY <1>4, ZoneToldIs
<1> HIDE DEF d
<1>6. Stays(d, e) /\ SameShell(d, e) /\ SameGroup(d, e)
  BY <1>2, <1>5, PlayerSet
<1> HIDE DEF e
<1>7. Good(s') /\ SameShell(e, s') /\ SameGroup(e, s')
  BY <1>0, <1>1, <1>6, AddedIs DEF Stays
<1>8. s'.me = s.me /\ DOMAIN s'.spawns = {} /\ SameRoster(s, s')
  BY <1>3, <1>4, <1>5, <1>6, <1>7 DEF SameShell, SameGroup, SameRoster
<1> QED
  BY <1>7, <1>8 DEF Orderly, Joined

\* The record with the player's name gives the player its id; any other is a
\* spawn.
LEMMA ZoneEntryIs ==
  ASSUME Good(s), NEW id \in Ids, NEW sp \in Appears, ZoneEntry(id, sp)
  PROVE  Orderly(s, s') /\ SameRoster(s, s') /\ Follows(s, s')
<1>1. sp \in [name : Names, kind : Kinds]
  BY AppearsTyped
<1>2. CASE s.real /\ sp.name = "me"
  <2> DEFINE v == SetPlayerID(s, id)
             a == [v EXCEPT !.name = sp.name, !.kind = sp.kind]
  <2>1. s' = Added(a, id)
    BY <1>2 DEF ZoneEntry
  <2>2. Mild(s, v) /\ v.me = id /\ Good(v)
    BY SetPlayerIDMild, SetPlayerIDIs
  <2> HIDE DEF v
  <2>3. sp.name \in Names /\ sp.kind \in Kinds
    BY <1>1
  <2>4. Stays(v, a) /\ SameShell(v, a) /\ SameGroup(v, a)
    BY <2>2, <2>3, PlayerNamed
  <2> HIDE DEF a
  <2>5. id \in View(v)
    BY <2>2 DEF View
  <2>6. Mild(s, s')
    BY <2>1, <2>2, <2>4, <2>5, ThenSent
  <2> QED
    BY <2>6 DEF Mild, Keeps
<1>3. CASE ~(s.real /\ sp.name = "me") /\ id \in DOMAIN s.spawns
  <2> DEFINE M == [s.spawns EXCEPT ![id] = sp]
  <2>1. s' = [s EXCEPT !.spawns = M]
    BY <1>3 DEF ZoneEntry
  <2>2. DOMAIN M = DOMAIN s.spawns /\ \A i \in DOMAIN M : M[i] \in {sp, s.spawns[i]}
    OBVIOUS
  <2> HIDE DEF M
  <2>3. \A i \in DOMAIN M : M[i] \in [name : Names, kind : Kinds]
    BY <1>1, <2>2 DEF Good, ShellOK
  <2>4. Stays(s, s')
    BY <2>1, <2>2, <2>3, RecastIs DEF Stays, SameGroup, SameRoster
  <2> QED
    BY <2>4, StaysMild DEF Mild, Keeps
<1>4. CASE ~(s.real /\ sp.name = "me") /\ id \notin DOMAIN s.spawns
  <2>1. s' = NewSpawn(s, id, sp)
    BY <1>4 DEF ZoneEntry
  <2> QED
    BY <1>1, <2>1, NewSpawnIs, GrowsMild
<1> QED
  BY <1>2, <1>3, <1>4

LEMMA SelfUpdateMild ==
  ASSUME Good(s), NEW id \in Ids, SelfUpdate(id)
  PROVE  Mild(s, s')
<1>1. CASE s.me = 0
  BY <1>1, SetPlayerIDMild DEF SelfUpdate
<1>2. CASE s.me # 0 /\ s.zoning
  BY <1>2, ItselfStays, StaysMild DEF SelfUpdate
<1>3. CASE s.me # 0 /\ ~s.zoning
  <2>1. s' = UpdateSpawn(s, id)
    BY <1>3 DEF SelfUpdate
  <2>2. Stays(s, s') \/ (id # s.me /\ Grows(s, s', id))
    BY <2>1, UpdateSpawnIs
  <2> QED
    BY <2>2, StaysMild, GrowsMild
<1> QED
  BY <1>1, <1>2, <1>3

\* What a packet of Live does.
LEMMA LiveStep ==
  ASSUME Good(s), Live
  PROVE  /\ Orderly(s, s')
         /\ \/ Follows(s, s')
            \/ \E z \in Zones \cup {"unknown"} : ZonePlayer(z) \/ ZoneChange(z, TRUE)
         /\ \/ SameRoster(s, s')
            \/ \E names \in SUBSET (Pals \cup {"me"}) : GroupMemberList(names)
<1> DEFINE Effect ==
      /\ Orderly(s, s')
      /\ \/ Follows(s, s')
         \/ \E z \in Zones \cup {"unknown"} : ZonePlayer(z) \/ ZoneChange(z, TRUE)
      /\ \/ SameRoster(s, s')
         \/ \E names \in SUBSET (Pals \cup {"me"}) : GroupMemberList(names)
<1>1. ASSUME Mild(s, s')
      PROVE  Effect
  BY <1>1 DEF Mild, Keeps
<1>2. ASSUME ZoneEntryClient
      PROVE  Effect
  BY <1>1, <1>2, LivePlayerMild
<1>3. ASSUME NEW z \in Zones \cup {"unknown"}, ZonePlayer(z)
      PROVE  Effect
  BY <1>3, ZonePlayerIs
<1>4. ASSUME NEW z \in Zones \cup {"unknown"}, NEW b \in BOOLEAN, ZoneChange(z, b)
      PROVE  Effect
  <2>1. CASE b = TRUE
    BY <1>4, <2>1, ZoneChangeIs
  <2>2. CASE b = FALSE
    BY <1>1, <1>4, <2>2, LivePlayerMild
  <2> QED
    BY <2>1, <2>2
<1>5. ASSUME NEW z \in Zones, ZoneNew(z)
      PROVE  Effect
  BY <1>1, <1>5, LivePlayerMild
<1>6. ASSUME NEW id \in Ids, SelfUpdate(id) \/ DeathLive(id)
      PROVE  Effect
  <2>1. CASE SelfUpdate(id)
    BY <1>1, <2>1, SelfUpdateMild
  <2>2. CASE DeathLive(id)
    BY <1>1, <2>2, KillIs, StaysMild DEF DeathLive
  <2> QED
    BY <1>6, <2>1, <2>2
<1>7. ASSUME NEW id \in Ids, NEW sp \in Appears, ZoneEntry(id, sp)
      PROVE  Effect
  BY <1>7, ZoneEntryIs
<1>8. ASSUME NEW names \in SUBSET (Pals \cup {"me"}), GroupMemberList(names)
      PROVE  Effect
  BY <1>8, MemberListIs DEF Regroups
<1> HIDE DEF Effect
<1>9. ASSUME \E z \in Zones \cup {"unknown"} : ZonePlayer(z) \/ \E b \in BOOLEAN : ZoneChange(z, b)
      PROVE  Effect
  BY <1>3, <1>4, <1>9
<1>10. ASSUME \E z \in Zones : ZoneNew(z)
       PROVE  Effect
  BY <1>5, <1>10
<1>11. ASSUME \E id \in Ids :
              SelfUpdate(id) \/ DeathLive(id) \/ \E sp \in Appears : ZoneEntry(id, sp)
       PROVE  Effect
  BY <1>6, <1>7, <1>11
<1>12. ASSUME \E names \in SUBSET (Pals \cup {"me"}) : GroupMemberList(names)
       PROVE  Effect
  BY <1>8, <1>12
<1>13. Effect
  BY <1>2, <1>9, <1>10, <1>11, <1>12 DEF Live
<1> QED
  BY <1>13 DEF Effect

-----------------------------------------------------------------------------
(* EQ Legends' packets.                                                    *)

\* The zone, and a Snapshot if the last one was of another.
LEMMA NewZoneIs ==
  ASSUME Good(s), Level(s), NEW z \in Zones, NewZone(z)
  PROVE  Mild(s, s') /\ (s.on /\ z # s.snap => Holds(s'))
<1> DEFINE F == FALSE
           a == [s EXCEPT !.zone = z, !.zoning = F]
<1>1. s' = ZoneRetold(a)
  BY DEF NewZone
<1>2. F \in BOOLEAN
  OBVIOUS
<1> HIDE DEF F
<1>3. Stays(s, a) /\ SameShell(s, a) /\ SameGroup(s, a) /\ a.zone = z
  BY <1>2, ZoneSet
<1> HIDE DEF a
<1>4. /\ Good(s') /\ SameShell(a, s') /\ SameGroup(a, s') /\ s'.on = a.on
      /\ ~a.on => SameTold(a, s')
      /\ a.on => s'.shown = a.zone /\ s'.snap = a.zone
      /\ a.on /\ a.zone # a.snap => Synced(s')
      /\ a.on /\ a.zone = a.snap /\ a.shown = a.snap => SameTold(a, s')
  BY <1>1, <1>3, ZoneRetoldIs DEF Stays
<1>5. SameShell(s, s') /\ SameRoster(s, s') /\ View(s') = View(s)
  BY <1>3, <1>4 DEF SameShell, SameGroup, SameRoster, View
<1>6. s.on /\ z # s.snap => Holds(s')
  BY <1>3, <1>4 DEF Stays, SameTold, SameZone, Synced, Holds
<1>7. s.on /\ z = s.snap => SameTold(s, s')
  BY <1>3, <1>4 DEF Stays, SameTold, SameZone, Level
<1>8. Follows(s, s')
  BY <1>5, <1>6, <1>7 DEF Follows, Holds, SameTold, SameZone, SameShell
<1>9. Level(s')
  BY <1>3, <1>4 DEF Level
<1>10. Orderly(s, s') /\ (Clean(s) => Clean(s'))
  BY <1>4, <1>5 DEF Orderly, Joined, Clean, SameShell
<1> QED
  BY <1>5, <1>6, <1>8, <1>9, <1>10 DEF Mild, Keeps

\* The shell and the player are reset, and the player has a name.
LEMMA ProfileIs ==
  ASSUME Good(s), Profile
  PROVE  Keeps(s, s')
<1> DEFINE Z == 0
           T == TRUE
           F == FALSE
           N == "me"
           K == "pc"
           c == Clear(s)
           v == [c EXCEPT !.me = Z]
           e == [v EXCEPT !.name = N, !.real = T, !.kind = K, !.defaults = F]
<1>1. Keeps(s, v) /\ v.me = 0 /\ DOMAIN v.spawns = {} /\ Good(c)
  BY VacatedIs, ClearIs
<1>2. s' = Added([c EXCEPT !.me = Z, !.name = N, !.real = T, !.kind = K, !.defaults = F], Z)
  BY DEF Profile
<1>3. N \in Names /\ T \in BOOLEAN /\ K \in Kinds /\ F \in BOOLEAN /\ Z \in Ids \cup {0}
  BY DEF Names, Kinds
<1> HIDE DEF c, Z, T, F, N, K
<1>4. e = [c EXCEPT !.me = Z, !.name = N, !.real = T, !.kind = K, !.defaults = F]
  BY <1>1 DEF Good, Shape
<1> HIDE DEF v
<1>5. Stays(v, e) /\ SameShell(v, e) /\ SameGroup(v, e)
  BY <1>1, <1>3, PlayerSet DEF Keeps, Orderly
<1> HIDE DEF e
<1>6. Good(s') /\ SameShell(e, s') /\ SameGroup(e, s') /\ SameZone(e, s')
  BY <1>2, <1>3, <1>4, <1>5, AddedIs DEF Stays
<1>7. /\ s'.me = 0 /\ DOMAIN s'.spawns = {} /\ SameRoster(s, s') /\ SameZone(v, s')
  BY <1>1, <1>5, <1>6 DEF Keeps, Stays, SameShell, SameGroup, SameRoster, SameTold, SameZone
<1>8. Level(s) => Level(s')
  BY <1>1, <1>7 DEF Keeps, Level, SameZone
<1> QED
  BY <1>6, <1>7, <1>8 DEF Keeps, Orderly, Joined, Clean

\* The player's death severs its id; another's is a corpse.
LEMMA DeathIs ==
  ASSUME Good(s), NEW id \in Ids, Death(id)
  PROVE  IF id = s.me THEN Keeps(s, s') /\ s'.me = 0 /\ s.me # 0 ELSE Mild(s, s')
<1>1. CASE id = s.me
  <2> DEFINE Z == 0
  <2>1. s' = [s EXCEPT !.me = Z]
    BY <1>1 DEF Death
  <2>2. Z \in Ids \cup {0} /\ id # 0
    BY Constants
  <2> HIDE DEF Z
  <2>3. /\ Shape(s') /\ SamePlayer(s, s') /\ SameTold(s, s') /\ SameGroup(s, s')
        /\ s'.me = Z /\ s'.spawns = s.spawns /\ s'.drops = s.drops /\ s'.doors = s.doors
    BY <2>1 DEF Good, Shape, SamePlayer, SameTold, SameZone, SameGroup
  <2>4. ShellOK(s')
    BY <2>2, <2>3 DEF Good, ShellOK
  <2>5. Good(s')
    BY <2>3, <2>4 DEF Good, PlayerOK, GroupOK, ToldOK, SamePlayer, SameGroup, SameTold, SameZone
  <2>6. s'.me = 0
    BY <2>3 DEF Z
  <2>7. Orderly(s, s') /\ (Clean(s) => Clean(s')) /\ (Level(s) => Level(s')) /\ SameRoster(s, s')
    BY <2>3, <2>5, <2>6
    DEF Orderly, Joined, Clean, Level, SameTold, SameZone, SameRoster, SameGroup
  <2> QED
    BY <1>1, <2>2, <2>6, <2>7 DEF Keeps
<1>2. CASE id # s.me
  <2>1. s' = Kill(s, id)
    BY <1>2 DEF Death
  <2> QED
    BY <1>2, <2>1, KillIs, StaysMild
<1> QED
  BY <1>1, <1>2

\* The player's record is its new id, or a phantom; any other is a spawn.
LEMMA SpawnMild ==
  ASSUME Good(s), NEW id \in Ids, NEW sp \in Appears, Spawn(id, sp)
  PROVE  Mild(s, s')
<1>1. CASE s' = SetPlayerID(s, id)
  BY <1>1, SetPlayerIDMild
<1>2. CASE s' = s
  BY <1>2, ItselfStays, StaysMild
<1>3. CASE s' = UpsertSpawn(s, id, sp)
  <2>1. sp \in [name : Names, kind : Kinds]
    BY AppearsTyped
  <2>2. IF id = s.me THEN s' = s ELSE Grows(s, s', id)
    BY <1>3, <2>1, UpsertSpawnIs
  <2> QED
    BY <1>2, <2>2, GrowsMild
<1> QED
  BY <1>1, <1>2, <1>3 DEF Spawn

LEMMA SelfReportMild ==
  ASSUME Good(s), NEW id \in Ids, SelfReport(id)
  PROVE  Mild(s, s')
<1>1. CASE s.me = 0
  BY <1>1, SetPlayerIDMild DEF SelfReport
<1>2. CASE s.me # 0
  BY <1>2, ItselfStays, StaysMild DEF SelfReport
<1> QED
  BY <1>1, <1>2

\* What a packet of EQ Legends does.
LEMMA EqlStep ==
  ASSUME Good(s), Level(s), Eql
  PROVE  /\ Orderly(s, s') /\ (Clean(s) => Clean(s')) /\ Level(s')
         /\ Follows(s, s') \/ Profile \/ EnterWorld \/ (s'.me = 0 /\ s.me # 0)
         /\ SameRoster(s, s') \/ \E n \in Pals \cup {"me"} : AddGroupMember(n)
<1> DEFINE Effect ==
      /\ Orderly(s, s') /\ (Clean(s) => Clean(s')) /\ Level(s')
      /\ Follows(s, s') \/ Profile \/ EnterWorld \/ (s'.me = 0 /\ s.me # 0)
      /\ SameRoster(s, s') \/ \E n \in Pals \cup {"me"} : AddGroupMember(n)
<1>1. ASSUME Mild(s, s')
      PROVE  Effect
  BY <1>1 DEF Mild, Keeps
<1>2. ASSUME Profile
      PROVE  Effect
  BY <1>2, ProfileIs DEF Keeps
<1>3. ASSUME BeginZoning
      PROVE  Effect
  <2> DEFINE T == TRUE
  <2>1. s' = [s EXCEPT !.zoning = T]
    BY <1>3 DEF BeginZoning
  <2>2. T \in BOOLEAN
    OBVIOUS
  <2> HIDE DEF T
  <2>3. Stays(s, s')
    BY <2>1, <2>2, ZoningSet
  <2> QED
    BY <1>1, <2>3, StaysMild
<1>4. ASSUME EnterWorld
      PROVE  Effect
  <2>1. s' = [Clear(s) EXCEPT !.me = 0]
    BY <1>4 DEF EnterWorld
  <2>2. Keeps(s, s')
    BY <2>1, VacatedIs
  <2> QED
    BY <1>4, <2>2 DEF Keeps
<1>5. ASSUME \E z \in Zones : NewZone(z)
      PROVE  Effect
  BY <1>1, <1>5, NewZoneIs
<1>6. ASSUME \E id \in Ids : SelfReport(id) \/ Death(id) \/ \E sp \in Appears : Spawn(id, sp)
      PROVE  Effect
  <2>1. PICK id \in Ids : SelfReport(id) \/ Death(id) \/ \E sp \in Appears : Spawn(id, sp)
    BY <1>6
  <2>2. CASE SelfReport(id)
    BY <1>1, <2>2, SelfReportMild
  <2>3. CASE Death(id)
    <3>1. CASE id = s.me
      <4>1. Keeps(s, s') /\ s'.me = 0 /\ s.me # 0
        BY <2>3, <3>1, DeathIs
      <4> QED
        BY <4>1 DEF Keeps
    <3>2. CASE id # s.me
      BY <1>1, <2>3, <3>2, DeathIs
    <3> QED
      BY <3>1, <3>2
  <2>4. CASE \E sp \in Appears : Spawn(id, sp)
    BY <1>1, <2>4, SpawnMild
  <2> QED
    BY <2>1, <2>2, <2>3, <2>4
<1>7. ASSUME \E n \in Pals \cup {"me"} : AddGroupMember(n)
      PROVE  Effect
  BY <1>7, AddMemberIs DEF Regroups
<1> HIDE DEF Effect
<1>8. Effect
  BY <1>2, <1>3, <1>4, <1>5, <1>6, <1>7 DEF Eql
<1> QED
  BY <1>8 DEF Effect

-----------------------------------------------------------------------------
(* The invariant.                                                          *)

ZoneInv ==
  /\ target \in {"live", "eql"} /\ entered \in BOOLEAN /\ left \in 0 .. MaxPackets
  /\ tracker \in {"none", "provisional", "named"}
  /\ Good(s)
  /\ target = "eql" => Clean(s) /\ Level(s)

LEMMA ZoneInit ==
  ASSUME Init
  PROVE  ZoneInv
<1>1. Shape(s)
  BY DEF Init, Shape
<1>2. PlayerOK(s)
  <2>1. s.zone = "unknown" /\ s.zoning = FALSE /\ s.name = "You" /\ s.real = FALSE
        /\ s.kind = "pc" /\ s.defaults = TRUE /\ s.players = {0}
        /\ s.dead = [i \in Ring |-> 0] /\ s.pos = 0 /\ s.cnt = 0
    BY DEF Init
  <2>2. 0 \in Ring /\ 0 \in 0 .. MaxDead
    BY Constants DEF Ring
  <2> QED
    BY <2>1, <2>2 DEF PlayerOK, Names, Kinds
<1>3. ShellOK(s) /\ s.me = 0
  <2>1. s.me = 0 /\ s.spawns = <<>> /\ s.drops = {} /\ s.doors = {}
    BY DEF Init
  <2>2. DOMAIN s.spawns = {}
    BY <2>1
  <2> QED
    BY <2>1, <2>2 DEF ShellOK
<1>4. GroupOK(s)
  <2>1. s.peers = <<>>
    BY DEF Init
  <2>2. DOMAIN s.peers = {}
    BY <2>1
  <2>3. Cardinality(DOMAIN s.peers) = 0
    BY <2>2, FS_EmptySet
  <2> QED
    BY <2>2, <2>3, Constants DEF GroupOK
<1>5. ToldOK(s) /\ Level(s)
  <2>1. s.on = FALSE /\ s.view = {} /\ s.self = 0 /\ s.shown = "none" /\ s.snap = "none"
    BY DEF Init
  <2> QED
    BY <2>1 DEF ToldOK, Level
<1>6. /\ target \in {"live", "eql"} /\ entered \in BOOLEAN /\ left \in 0 .. MaxPackets
      /\ tracker \in {"none", "provisional", "named"}
  <2>1. /\ target \in {"live", "eql"} /\ entered = FALSE /\ left = MaxPackets
        /\ tracker = "none"
    BY DEF Init
  <2>2. MaxPackets \in Nat
    BY ZoneAssumption
  <2>3. left \in 0 .. MaxPackets
    BY <2>1, <2>2
  <2>4. entered \in BOOLEAN
    BY <2>1
  <2> QED
    BY <2>1, <2>3, <2>4
<1> QED
  BY <1>1, <1>2, <1>3, <1>4, <1>5, <1>6 DEF ZoneInv, Good, Clean

\* The other variables of a packet.
LEMMA OthersTyped ==
  ASSUME tracker \in {"none", "provisional", "named"}, entered \in BOOLEAN,
         Live \/ Eql \/ Shared
  PROVE  /\ target' = target /\ entered' \in BOOLEAN
         /\ tracker' \in {"none", "provisional", "named"}
<1>1. CASE Live
  BY <1>1 DEF Live, ZoneEntryClient, ZonePlayer, ZoneChange, ZoneNew, SelfUpdate, DeathLive,
              ZoneEntry, GroupMemberList, Quiet
<1>2. CASE Eql
  BY <1>2 DEF Eql, Profile, BeginZoning, EnterWorld, NewZone, SelfReport, Death, Spawn,
              AddGroupMember, Quiet
<1>3. CASE Shared
  BY <1>3 DEF Shared, Subscribe, NewWorld, ShroudSelf, DeleteSpawnPacket, RemoveSpawnPacket,
              CorpseLoc, Illusion, NewGroundItem, NewDoor, RemoveGroundItem, MoveUpdate,
              ShroudOther, RenameSpawn, RemoveGroupMember, Quiet
<1> QED
  BY <1>1, <1>2, <1>3

\* What any packet does.
LEMMA PacketStep ==
  ASSUME ZoneInv, Next
  PROVE  /\ Orderly(s, s')
         /\ target = "eql" => Clean(s') /\ Level(s')
         /\ Follows(s, s') \/ Unannounced
         /\ \/ SameRoster(s, s')
            \/ \E names \in SUBSET (Pals \cup {"me"}) : GroupMemberList(names)
            \/ \E n \in Pals \cup {"me"} : AddGroupMember(n) \/ RemoveGroupMember(n)
<1>1. Good(s) /\ (target = "eql" => Clean(s) /\ Level(s))
  BY DEF ZoneInv
<1>2. CASE Live
  <2>1. target = "live"
    BY <1>2 DEF Live
  <2>2. /\ Orderly(s, s')
        /\ \/ Follows(s, s')
           \/ \E z \in Zones \cup {"unknown"} : ZonePlayer(z) \/ ZoneChange(z, TRUE)
        /\ \/ SameRoster(s, s')
           \/ \E names \in SUBSET (Pals \cup {"me"}) : GroupMemberList(names)
    BY <1>1, <1>2, LiveStep
  <2>3. Follows(s, s') \/ Unannounced
    BY <2>1, <2>2 DEF Unannounced
  <2> QED
    BY <2>1, <2>2, <2>3
<1>3. CASE Eql
  <2>1. target = "eql"
    BY <1>3 DEF Eql
  <2>2. /\ Orderly(s, s') /\ (Clean(s) => Clean(s')) /\ Level(s')
        /\ Follows(s, s') \/ Profile \/ EnterWorld \/ (s'.me = 0 /\ s.me # 0)
        /\ SameRoster(s, s') \/ \E n \in Pals \cup {"me"} : AddGroupMember(n)
    BY <1>1, <1>3, <2>1, EqlStep
  <2>3. Follows(s, s') \/ Unannounced
    BY <2>1, <2>2 DEF Unannounced
  <2> QED
    BY <1>1, <2>1, <2>2, <2>3
<1>4. CASE Shared
  <2>1. /\ Regroups(s, s') \/ (NewWorld /\ Keeps(s, s'))
        /\ SameRoster(s, s') \/ \E n \in Pals \cup {"me"} : RemoveGroupMember(n)
    BY <1>1, <1>4, SharedStep
  <2>2. /\ Orderly(s, s') /\ (Clean(s) => Clean(s')) /\ (Level(s) => Level(s'))
        /\ Follows(s, s') \/ NewWorld
    BY <2>1 DEF Regroups, Keeps
  <2>3. Follows(s, s') \/ Unannounced
    BY <2>2 DEF Unannounced
  <2> QED
    BY <1>1, <2>1, <2>2, <2>3
<1> QED
  BY <1>2, <1>3, <1>4 DEF Next

LEMMA ZoneStep ==
  ASSUME ZoneInv, [Next]_vars
  PROVE  ZoneInv'
<1>1. CASE Next
  <2>1. Good(s') /\ (target = "eql" => Clean(s') /\ Level(s'))
    BY <1>1, PacketStep DEF Orderly
  <2>2. /\ target' = target /\ entered' \in BOOLEAN
        /\ tracker' \in {"none", "provisional", "named"}
    BY <1>1, OthersTyped DEF ZoneInv, Next
  <2>3. left' \in 0 .. MaxPackets
    BY <1>1, ZoneAssumption DEF ZoneInv, Next
  <2> QED
    BY <2>1, <2>2, <2>3 DEF ZoneInv, Good, Clean, Level, Shape, PlayerOK, ShellOK, GroupOK, ToldOK
<1>2. CASE UNCHANGED vars
  BY <1>2 DEF ZoneInv, vars, Good, Clean, Level, Shape, PlayerOK, ShellOK, GroupOK, ToldOK
<1> QED
  BY <1>1, <1>2

THEOREM ZoneInvariant == Spec => []ZoneInv
<1>1. Init => ZoneInv
  BY ZoneInit
<1>2. ZoneInv /\ [Next]_vars => ZoneInv'
  BY ZoneStep
<1> QED
  BY <1>1, <1>2, PTL DEF Spec

-----------------------------------------------------------------------------
(* The theorems.                                                           *)

\* Every part of the managers' state has its type, and no member of the group
\* ever points to an object clear has freed (SpawnShell::clear, deleteItem,
\* GroupMgr::clear, delItem).
THEOREM NoMemberDangles == Spec => []PointersOK
<1>1. ASSUME ZoneInv
      PROVE  PointersOK
  <2>1. Good(s)
    BY <1>1 DEF ZoneInv
  <2>2. TypeOK
    BY <1>1, <2>1 DEF ZoneInv, TypeOK, Good, PlayerOK, ShellOK, GroupOK, ToldOK, Pointers
  <2>3. NoFreedSpawn
    BY <2>1, Constants DEF NoFreedSpawn, Good, GroupOK
  <2> QED
    BY <2>2, <2>3 DEF PointersOK
<1> QED
  BY <1>1, ZoneInvariant, PTL

\* On eql the player's record is never a spawn under its own id (upsertSpawn,
\* updateSpawn, playerChangedID).
THEOREM PlayerIsNoMob == Spec => []NeverAMob
<1>1. ZoneInv => NeverAMob
  BY DEF ZoneInv, NeverAMob, Clean
<1> QED
  BY <1>1, ZoneInvariant, PTL

\* Only the packets about the group change who is in it, and a member whose
\* player is seen again is attached to the spawn then made (GroupMgr::addItem).
THEOREM RosterOutlivesZones == Spec => RosterKept
<1> DEFINE Kept ==
      /\ DOMAIN s'.peers # DOMAIN s.peers =>
           \/ \E names \in SUBSET (Pals \cup {"me"}) : GroupMemberList(names)
           \/ \E n \in Pals \cup {"me"} : AddGroupMember(n) \/ RemoveGroupMember(n)
      /\ \A id \in DOMAIN s'.spawns \ DOMAIN s.spawns :
           LET sp == s'.spawns[id] IN
           sp.kind = "pc" /\ sp.name \in DOMAIN s'.peers => s'.peers[sp.name] = id
<1>1. ASSUME ZoneInv, Next
      PROVE  Kept
  BY <1>1, PacketStep DEF Orderly, Joined, SameRoster
<1>2. ZoneInv /\ [Next]_vars => [Kept]_vars
  BY <1>1
<1> QED
  BY <1>2, ZoneInvariant, PTL DEF Spec, RosterKept

\* A new id of the player, or another zone entered, leaves the client with what
\* the managers hold (SessionAdapter's slots of changedID, zoneChanged, and
\* sendSnapshot).
THEOREM ClientResyncs == Spec => Resyncs
<1> DEFINE Shown ==
      /\ s.on /\ (s'.me \notin {0, s.me} \/ Enters) => InSync'
      /\ s'.me \notin {0, s.me} => s'.me \notin DOMAIN s'.spawns
<1>1. ASSUME ZoneInv, Next
      PROVE  Shown
  <2>1. Orderly(s, s') /\ Good(s) /\ (target = "eql" => Level(s))
    BY <1>1, PacketStep DEF ZoneInv
  <2>2. ASSUME s.on, Enters
        PROVE  Holds(s')
    <3>1. PICK z \in Zones \ {s.snap} :
            (target = "live" /\ ZoneChange(z, TRUE)) \/ (target = "eql" /\ NewZone(z))
      BY <2>2 DEF Enters
    <3>2. CASE target = "live" /\ ZoneChange(z, TRUE)
      BY <2>1, <2>2, <3>2, ZoneChangeIs
    <3>3. CASE target = "eql" /\ NewZone(z)
      BY <2>1, <2>2, <3>3, NewZoneIs
    <3> QED
      BY <3>1, <3>2, <3>3
  <2>3. Holds(s') => InSync'
    BY DEF Holds, InSync, View
  <2> QED
    BY <2>1, <2>2, <2>3 DEF Orderly
<1>2. ZoneInv /\ [Next]_vars => [Shown]_vars
  BY <1>1
<1> QED
  BY <1>2, ZoneInvariant, PTL DEF Spec, Resyncs

\* A client that shows what the managers hold is told of every change of it,
\* but by the packets that empty the shell (SessionAdapter's slots of addItem,
\* delItem, changeItem and changedID).
THEOREM ClientFollows == Spec => StaysInSync
<1> DEFINE Told == InSync /\ Distinct /\ ~Unannounced => InSync'
<1>1. ASSUME ZoneInv, Next
      PROVE  Told
  <2>1. Follows(s, s') \/ Unannounced
    BY <1>1, PacketStep
  <2>2. (InSync => Holds(s)) /\ (Distinct => Apart(s)) /\ (Holds(s') => InSync')
    BY DEF InSync, Holds, Distinct, Apart, View
  <2> QED
    BY <2>1, <2>2 DEF Follows
<1>2. ZoneInv /\ [Next]_vars => [Told]_vars
  BY <1>1
<1> QED
  BY <1>2, ZoneInvariant, PTL DEF Spec, StaysInSync
=============================================================================
