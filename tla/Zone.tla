-------------------------------- MODULE Zone --------------------------------
(***************************************************************************)
(* The managers while the character moves through zones: ZoneMgr,          *)
(* Player, SpawnShell and GroupMgr, with one web client behind its         *)
(* SessionAdapter.  Packets are dispatched one at a time; the signals one  *)
(* of them raises run to the end, in connection order, before the next.    *)
(* So each action is a packet, and each operator on s below is a slot or a *)
(* method the signals reach.                                               *)
(*                                                                         *)
(* target is the back end the daemon was built for.  Live takes the        *)
(* player's id from its zone entry or from its own position reports; eql   *)
(* asks a tracker (external) which records are the player's.  The server   *)
(* sends two records of the player per zone on eql: one that moves and a   *)
(* phantom.                                                                *)
(*                                                                         *)
(* A spawn is a name and a kind, an object its key in m_spawns.  Every     *)
(* corpse's name stands for one value, which no one else has.              *)
(* m_memberCount and m_membersInZoneCount, which only dumpInfo shows, are  *)
(* left out, and so are the handlers that only change a spawn's position,  *)
(* level or health.  createUnknownSpawns keeps its default, true.          *)
(***************************************************************************)
EXTENDS Integers, FiniteSets, FiniteSetsExt, Functions

CONSTANTS
  Ids,        \* spawn ids, other than 0
  Pals,       \* names of other characters
  Zones,      \* zones the daemon knows by name
  MaxPeers,   \* MAX_GROUP_PEERS
  MaxDead,    \* MAX_DEAD_SPAWNIDS
  MaxPackets  \* bound: packets, and the client's subscribing

ASSUME ZoneAssumption ==
  /\ Ids \cap {0, -1, -2, -3} = {}
  /\ IsFiniteSet(Pals) /\ Pals \cap {"me", "mob", "unknown", "You", "corpse"} = {}
  /\ Zones \cap {"unknown", "none"} = {}
  /\ MaxPeers \in Nat /\ MaxDead \in Nat \ {0} /\ MaxPackets \in Nat

VARIABLES
  target,    \* "live" or "eql", fixed
  s,         \* the managers, and what the client was told
  tracker,   \* what the tracker knows of the player: nothing, an id it saw
             \* in a position report, or the record with the player's name
  entered,   \* m_sessionEstablished
  left       \* packets to come, for the bound

vars == <<target, s, tracker, entered, left>>

Names   == Pals \cup {"me", "mob", "unknown", "You", "corpse"}
Kinds   == {"pc", "npc", "unknown", "corpse"}
Appears == [name : Pals \cup {"me"}, kind : {"pc"}] \cup {[name |-> "mob", kind |-> "npc"]}
Ring    == 0 .. MaxDead - 1

\* What a group member's m_spawn points to, if not an object in m_spawns: no
\* object, the Player, an object deleteItem took from the map and left
\* allocated, or one that clear has freed.
Nil   == 0
Self  == -1
Left  == -2
Freed == -3

Init ==
  /\ target \in {"live", "eql"}
  /\ s = [zone |-> "unknown", zoning |-> FALSE,
          me |-> 0, name |-> "You", real |-> FALSE, kind |-> "pc", defaults |-> TRUE,
          spawns |-> <<>>, drops |-> {}, doors |-> {}, players |-> {0},
          dead |-> [i \in Ring |-> 0], pos |-> 0, cnt |-> 0,
          peers |-> <<>>,
          on |-> FALSE, view |-> {}, self |-> 0, shown |-> "none", snap |-> "none"]
  /\ tracker = "none" /\ entered = FALSE /\ left = MaxPackets

-----------------------------------------------------------------------------
(* SessionAdapter: what each signal tells the client.  The client keeps    *)
(* items by id and drops them when it is told of another zone.             *)

\* What a Snapshot holds: the items of every map, and the player.
View(t) == DOMAIN t.spawns \cup t.drops \cup t.doors \cup {t.me}

\* sendSnapshot.
Snapshot(t) ==
  IF t.on THEN [t EXCEPT !.view = View(t), !.self = t.me,
                         !.shown = t.zone, !.snap = t.zone]
          ELSE t

\* onAddItem, and onChangeItem of tSpawnChangedALL.
Added(t, id) == IF t.on THEN [t EXCEPT !.view = @ \cup {id}] ELSE t

\* onDelItem.
Removed(t, id) == IF t.on THEN [t EXCEPT !.view = @ \ {id}] ELSE t

\* onZoneBegin: a ZoneChanged.
ZoneTold(t) ==
  IF t.on /\ t.shown # t.zone THEN [t EXCEPT !.view = {}, !.shown = t.zone] ELSE t

\* Mutant: onZoneChanged sends the ZoneChanged alone.
ZoneToldOnly(t) == ZoneTold(t)

\* onZoneChanged: a Snapshot too, if the last one was of another zone.
ZoneRetold(t) ==
  LET told == ZoneTold(t) IN
  IF t.on /\ t.zone # t.snap THEN Snapshot(told) ELSE told

-----------------------------------------------------------------------------
(* GroupMgr.                                                               *)

\* Player::name.
PlayerName(t) == IF t.defaults THEN "You" ELSE t.name

\* findPlayerByDisplayName: one of the players so named, the Player, or none.
Found(t, n) ==
  LET ids == {id \in DOMAIN t.spawns : t.spawns[id] = [name |-> n, kind |-> "pc"]} IN
  IF ids # {} THEN ids ELSE IF PlayerName(t) = n THEN {Self} ELSE {Nil}

\* The member so named now points to p.
Points(t, n, p) ==
  IF n \in DOMAIN t.peers THEN [t EXCEPT !.peers = [@ EXCEPT ![n] = p]] ELSE t

\* Mutant: addItem looks for the members that have no spawn yet.
JoinsIfNil(t, id) ==
  LET sp == t.spawns[id] IN
  IF sp.kind = "pc" /\ sp.name \in DOMAIN t.peers /\ t.peers[sp.name] = Nil
  THEN Points(t, sp.name, id) ELSE t

\* GroupMgr::addItem.
Joins(t, id) ==
  IF t.spawns[id].kind = "pc" THEN Points(t, t.spawns[id].name, id) ELSE t

\* GroupMgr::delItem of an item with that name and kind.
Leaves(t, n, kind) == IF kind = "pc" THEN Points(t, n, Nil) ELSE t

\* Mutant: clear forgets the roster.
DisbandOnClear(t) == [t EXCEPT !.peers = <<>>]

\* GroupMgr::clear.
Detach(t) == [t EXCEPT !.peers = [n \in DOMAIN @ |-> Nil]]

-----------------------------------------------------------------------------
(* SpawnShell.                                                             *)

\* addItem: GroupMgr first, then the client.
AddItem(t, id) == Added(Joins(t, id), id)

\* m_spawns.insert, then addItem.
Insert(t, id, sp) ==
  AddItem([t EXCEPT !.spawns = [i \in DOMAIN @ \cup {id} |-> IF i = id THEN sp ELSE @[i]]], id)

\* The object at id is no longer in m_spawns; p is what pointers to it now mean.
TakeOut(t, id, p) ==
  [t EXCEPT !.spawns = Restrict(@, DOMAIN @ \ {id}),
            !.peers  = [n \in DOMAIN @ |-> IF @[n] = id THEN p ELSE @[n]]]

\* Mutant: deleteItem frees the item it takes from the map.
DeleteSpawnFreeing(t, id) ==
  IF id \in DOMAIN t.spawns
  THEN TakeOut(Removed(Leaves(t, t.spawns[id].name, t.spawns[id].kind), id), id, Freed)
  ELSE t

\* Mutant: deleteItem takes the item from the map before it looks for it.
DeleteSpawnUntold(t, id) ==
  IF id \in DOMAIN t.spawns
  THEN TakeOut(Leaves(t, t.spawns[id].name, t.spawns[id].kind), id, Left)
  ELSE t

\* deleteItem(tSpawn, id): delItem, then the map; the item stays allocated.
DeleteSpawn(t, id) ==
  IF id \in DOMAIN t.spawns
  THEN TakeOut(Removed(Leaves(t, t.spawns[id].name, t.spawns[id].kind), id), id, Left)
  ELSE t

\* deleteItem(tPlayer, key): delItem(m_player), whose id is already the new one.
DeletePlayer(t, key) ==
  IF key \in t.players
  THEN [Removed(Leaves(t, PlayerName(t), t.kind), t.me) EXCEPT !.players = @ \ {key}]
  ELSE t

\* qDeleteAll(m_spawns), and the other maps.
Free(t) ==
  [t EXCEPT !.spawns = <<>>, !.drops = {}, !.doors = {}, !.players = {0},
            !.peers = [n \in DOMAIN @ |-> IF @[n] \in DOMAIN t.spawns THEN Freed ELSE @[n]]]

\* Mutant: no one is connected to clearItems.
ClearUnheard(t) ==
  [Added(Free(t), t.me) EXCEPT !.dead = [i \in Ring |-> 0], !.pos = 0, !.cnt = 0]

\* clear: clearItems, the maps, changeItem(m_player), the ring.
Clear(t) ==
  [Added(Free(Detach(t)), t.me) EXCEPT !.dead = [i \in Ring |-> 0], !.pos = 0, !.cnt = 0]

\* Mutant: the spawn that stood for the player is not removed.
PlayerChangedIDKeeps(t, old) ==
  LET gone == DeletePlayer(DeletePlayer(t, 0), old) IN
  Added([gone EXCEPT !.players = @ \cup {t.me}], t.me)

\* playerChangedID, the player having taken its new id: the spawn that stood
\* for the player gives it its name and goes.
PlayerChangedID(t, old) ==
  LET id    == t.me
      named == IF id \in DOMAIN t.spawns THEN [t EXCEPT !.name = t.spawns[id].name] ELSE t
      alone == DeleteSpawn(DeletePlayer(DeletePlayer(named, 0), old), id)
  IN Added([alone EXCEPT !.players = @ \cup {id}], id)

\* Mutant: no one tells the client of changedID.
SetPlayerIDUntold(t, id) ==
  IF id = t.me THEN t
  ELSE Added(PlayerChangedID([t EXCEPT !.me = id], t.me), id)

\* Player::setPlayerID: changedID reaches SpawnShell, then the client as a
\* Snapshot; then changeItem.
SetPlayerID(t, id) ==
  IF id = t.me THEN t
  ELSE Added(Snapshot(PlayerChangedID([t EXCEPT !.me = id], t.me)), id)

\* The indices of the ring a search for id looks at and finds it.
Buried(t, id) == {i \in 0 .. t.cnt - 1 : t.dead[i] = id}

\* Mutant: the position in the ring does not wrap.
BuryUnwrapped(t, id) ==
  LET pos == t.pos + 1 IN
  [t EXCEPT !.pos = pos, !.cnt = IF @ < MaxDead THEN @ + 1 ELSE @, !.dead = [@ EXCEPT ![pos] = id]]

\* deleteSpawn's note of a deleted id.
Bury(t, id) ==
  LET pos == IF t.pos < MaxDead - 1 THEN t.pos + 1 ELSE 0 IN
  [t EXCEPT !.pos = pos, !.cnt = IF @ < MaxDead THEN @ + 1 ELSE @, !.dead = [@ EXCEPT ![pos] = id]]

\* updateSpawn, of a spawn id with a position.
UpdateSpawn(t, id) ==
  IF id = t.me \/ id \in DOMAIN t.spawns THEN t
  ELSE IF Buried(t, id) # {}
  THEN [t EXCEPT !.dead = [@ EXCEPT ![Min(Buried(t, id))] = 0]]
  ELSE Insert(t, id, [name |-> "unknown", kind |-> "unknown"])

\* newSpawn(const spawnStruct&).
NewSpawn(t, id, sp) ==
  LET dug == [t EXCEPT !.dead = [i \in Ring |-> IF i \in Buried(t, id) THEN 0 ELSE @[i]]] IN
  IF id \in DOMAIN t.spawns
  THEN Added([dug EXCEPT !.spawns = [@ EXCEPT ![id] = sp]], id)
  ELSE Insert(dug, id, sp)

\* Mutant: upsertSpawn takes the player's own record for one more spawn.
UpsertSpawnOwn(t, id, sp) ==
  IF id \in DOMAIN t.spawns THEN Added([t EXCEPT !.spawns = [@ EXCEPT ![id].kind = sp.kind]], id)
  ELSE Insert(t, id, sp)

\* upsertSpawn: a spawn already known keeps its name.
UpsertSpawn(t, id, sp) ==
  IF id = t.me THEN t
  ELSE IF id \in DOMAIN t.spawns
  THEN Added([t EXCEPT !.spawns = [@ EXCEPT ![id].kind = sp.kind]], id)
  ELSE Insert(t, id, sp)

\* killSpawn: the player or the spawn is a corpse, by kind and by name.
Kill(t, id) ==
  IF id = t.me THEN [t EXCEPT !.kind = "corpse", !.name = "corpse"]
  ELSE IF id \in DOMAIN t.spawns
  THEN [t EXCEPT !.spawns = [@ EXCEPT ![id] = [name |-> "corpse", kind |-> "corpse"]]]
  ELSE t

-----------------------------------------------------------------------------
(* Both back ends.                                                         *)

\* A packet whose handlers leave the tracker alone.
Quiet == UNCHANGED <<target, tracker, entered>>

\* A client subscribes.
Subscribe ==
  /\ ~s.on
  /\ s' = Snapshot([s EXCEPT !.on = TRUE])
  /\ Quiet

\* onBoxCreated: a new world connection, of this character as it zones or of
\* another client on the host, empties the one set of managers.  On eql its
\* packets go to a dispatcher and a tracker of its own; those to come are all
\* the new connection's, or all the old one's.
NewWorld ==
  /\ s' = [Clear(s) EXCEPT !.me = 0]
  /\ \/ UNCHANGED <<tracker, entered>>
     \/ target = "eql" /\ tracker' = "none" /\ entered' = FALSE
  /\ UNCHANGED target

DeleteSpawnPacket(id) == s' = DeleteSpawn(Bury(s, id), id) /\ Quiet

RemoveSpawnPacket(id) == s' = DeleteSpawn(s, id) /\ Quiet

\* corpseLoc leaves the name as it is.
CorpseLoc(id) ==
  /\ id \in DOMAIN s.spawns
  /\ s' = [s EXCEPT !.spawns = [@ EXCEPT ![id].kind = "corpse"]]
  /\ Quiet

\* illusionSpawn and updateSpawnLock: changeItem of a spawn that is known.
Illusion(id) == id \in DOMAIN s.spawns /\ s' = Added(s, id) /\ Quiet

\* shroudSpawn of another player.
ShroudOther(id, sp) == id # s.me /\ s' = NewSpawn(s, id, sp) /\ Quiet

\* shroudSpawn of the player, with a profile.
ShroudSelf == s.me # 0 /\ s' = Added([s EXCEPT !.defaults = FALSE], s.me) /\ Quiet

\* renameSpawn: one of the spawns so named, else the player.  The client is
\* sent the whole item if the new name changes its filters.
RenameSpawn(old, new) ==
  LET ids == {id \in DOMAIN s.spawns : s.spawns[id].name = old} IN
  /\ \/ \E id \in ids : LET t == [s EXCEPT !.spawns = [@ EXCEPT ![id].name = new]] IN
                         s' \in {t, Added(t, id)}
     \/ LET t == [s EXCEPT !.name = new] IN
        ids = {} /\ PlayerName(s) = old /\ s' \in {t, Added(t, s.me)}
  /\ Quiet

\* newGroundItem.
NewGroundItem(id) ==
  /\ ~s.zoning
  /\ s' = Added([s EXCEPT !.drops = @ \cup {id}], id)
  /\ Quiet

\* newDoorSpawns, zoning or not.
NewDoor(id) == s' = Added([s EXCEPT !.doors = @ \cup {id}], id) /\ Quiet

\* removeGroundItem.
RemoveGroundItem(id) ==
  /\ ~s.zoning /\ id \in s.drops
  /\ s' = [Removed(s, id) EXCEPT !.drops = @ \ {id}]
  /\ Quiet

\* npcMoveUpdate and, on Live, updateSpawns and playerUpdate.
MoveUpdate(id) == ~s.zoning /\ s' = UpdateSpawn(s, id) /\ Quiet

\* removeGroupMember.
RemoveGroupMember(n) ==
  /\ s' = [s EXCEPT !.peers = IF n = PlayerName(s) THEN <<>> ELSE Restrict(@, DOMAIN @ \ {n})]
  /\ Quiet

-----------------------------------------------------------------------------
(* Live.                                                                   *)

\* ZoneMgr::zoneEntryClient: zoneBegin() without a name has no listener.
ZoneEntryClient ==
  /\ s' = [s EXCEPT !.zone = "unknown", !.zoning = FALSE]
  /\ Quiet

\* zonePlayer: zoneBegin clears the shell and tells the client, then
\* playerProfile gives the player its name, but not a new id.
ZonePlayer(z) ==
  LET there == ZoneTold(Clear([s EXCEPT !.zone = z, !.zoning = FALSE])) IN
  /\ s' = Added([there EXCEPT !.name = "me", !.real = TRUE, !.kind = "pc", !.defaults = FALSE],
                s.me)
  /\ Quiet

\* ZoneMgr::zoneChange, on the client's request and on the server's answer,
\* which resets the player and the shell.
ZoneChange(z, fromServer) ==
  LET leaving == [s EXCEPT !.zone = z, !.zoning = TRUE] IN
  /\ s' = IF fromServer
          THEN ZoneRetold(Clear([leaving EXCEPT !.me = 0, !.defaults = TRUE]))
          ELSE leaving
  /\ Quiet

\* zoneNew: the client is not told of a name that only now resolves.
ZoneNew(z) ==
  /\ s' = [s EXCEPT !.zone = IF @ = "unknown" THEN z ELSE @, !.zoning = FALSE]
  /\ Quiet

\* SpawnShell::zoneEntry.
ZoneEntry(id, sp) ==
  /\ s' = IF s.real /\ sp.name = "me"
          THEN Added([SetPlayerID(s, id) EXCEPT !.name = sp.name, !.kind = sp.kind], id)
          ELSE IF id \in DOMAIN s.spawns THEN [s EXCEPT !.spawns = [@ EXCEPT ![id] = sp]]
          ELSE NewSpawn(s, id, sp)
  /\ Quiet

\* Player::playerUpdateSelf from the client; another's position is passed on.
SelfUpdate(id) ==
  /\ s' = IF s.me = 0 THEN SetPlayerID(s, id)
          ELSE IF s.zoning THEN s ELSE UpdateSpawn(s, id)
  /\ Quiet

\* SpawnShell::killSpawn.
DeathLive(id) == s' = Kill(s, id) /\ Quiet

\* groupMemberList: those gone are removed, those new take the free slots.
GroupMemberList(names) ==
  LET incoming == names \ {PlayerName(s)}
      kept     == DOMAIN s.peers \cap incoming
      fresh    == incoming \ kept
      free     == MaxPeers - Cardinality(kept)
  IN
  /\ Cardinality(names) \in 1 .. MaxPeers + 1
  /\ \E new \in SUBSET fresh : \E p \in [new -> Ids \cup {Nil, Self}] :
       /\ Cardinality(new) = Min({free, Cardinality(fresh)})
       /\ \A n \in new : p[n] \in Found(s, n)
       /\ s' = [s EXCEPT !.peers = [n \in kept \cup new |-> IF n \in kept THEN @[n] ELSE p[n]]]
  /\ Quiet

Live ==
  /\ target = "live"
  /\ \/ ZoneEntryClient
     \/ \E z \in Zones \cup {"unknown"} : ZonePlayer(z) \/ \E b \in BOOLEAN : ZoneChange(z, b)
     \/ \E z \in Zones : ZoneNew(z)
     \/ \E id \in Ids : SelfUpdate(id) \/ DeathLive(id) \/ \E sp \in Appears : ZoneEntry(id, sp)
     \/ \E names \in SUBSET (Pals \cup {"me"}) : GroupMemberList(names)

-----------------------------------------------------------------------------
(* EQ Legends: EqlDispatch.                                                *)

\* profile.
Profile ==
  /\ s' = Added([Clear(s) EXCEPT !.me = 0, !.name = "me", !.real = TRUE,
                                 !.kind = "pc", !.defaults = FALSE], 0)
  /\ tracker' = "none"
  /\ UNCHANGED <<target, entered>>

\* EqlDispatch::zoneChange.
BeginZoning == s' = [s EXCEPT !.zoning = TRUE] /\ Quiet

\* newZone, once the zone's spawns are in.
NewZone(z) ==
  /\ s' = ZoneRetold([s EXCEPT !.zone = z, !.zoning = FALSE])
  /\ entered' = TRUE
  /\ UNCHANGED <<target, tracker>>

\* enterWorld, on a re-entry.
EnterWorld ==
  /\ entered
  /\ s' = [Clear(s) EXCEPT !.me = 0]
  /\ tracker' = "none"
  /\ UNCHANGED <<target, entered>>

\* spawn and consumeSelfSpawn: a record with the player's name is adopted, or
\* swallowed as the phantom of one adopted before; any other is a spawn.
Spawn(id, sp) ==
  /\ IF s.real /\ sp.name = "me"
     THEN /\ tracker' = "named"
          /\ \/ s' = SetPlayerID(s, id)
             \/ tracker = "named" /\ s' = s
     ELSE s' = UpsertSpawn(s, id, sp) /\ UNCHANGED tracker
  /\ UNCHANGED <<target, entered>>

\* playerUpdateSelf: an id to go by until a record names the player.
SelfReport(id) ==
  /\ tracker = "none"
  /\ tracker' = "provisional"
  /\ s' = IF s.me = 0 THEN SetPlayerID(s, id) ELSE s
  /\ UNCHANGED <<target, entered>>

\* death: the player's own severs its id until the respawn's is seen.
Death(id) ==
  /\ s' = IF id = s.me THEN [s EXCEPT !.me = 0] ELSE Kill(s, id)
  /\ tracker' = IF id = s.me THEN "none" ELSE tracker
  /\ UNCHANGED <<target, entered>>

\* addGroupMember.
AddGroupMember(n) ==
  /\ n # PlayerName(s) /\ n \notin DOMAIN s.peers
  /\ Cardinality(DOMAIN s.peers) < MaxPeers
  /\ \E p \in Found(s, n) :
       s' = [s EXCEPT !.peers = [m \in DOMAIN @ \cup {n} |-> IF m = n THEN p ELSE @[m]]]
  /\ Quiet

Eql ==
  /\ target = "eql"
  /\ \/ Profile \/ BeginZoning \/ EnterWorld
     \/ \E z \in Zones : NewZone(z)
     \/ \E id \in Ids : SelfReport(id) \/ Death(id) \/ \E sp \in Appears : Spawn(id, sp)
     \/ \E n \in Pals \cup {"me"} : AddGroupMember(n)

Shared ==
  \/ Subscribe \/ NewWorld \/ ShroudSelf
  \/ \E id \in Ids :
       \/ DeleteSpawnPacket(id) \/ RemoveSpawnPacket(id) \/ CorpseLoc(id) \/ Illusion(id)
       \/ NewGroundItem(id) \/ NewDoor(id) \/ RemoveGroundItem(id) \/ MoveUpdate(id)
       \/ \E sp \in Appears : ShroudOther(id, sp)
  \/ \E old \in Names, new \in Pals \cup {"mob"} : RenameSpawn(old, new)
  \/ \E n \in Pals \cup {"me"} : RemoveGroupMember(n)

Next == left > 0 /\ left' = left - 1 /\ (Live \/ Eql \/ Shared)

Spec == Init /\ [][Next]_vars

-----------------------------------------------------------------------------
(* Properties.                                                             *)

\* Every part of the state has its type.
TypeOK ==
  /\ target \in {"live", "eql"} /\ entered \in BOOLEAN /\ left \in 0 .. MaxPackets
  /\ tracker \in {"none", "provisional", "named"}
  /\ s.zone \in Zones \cup {"unknown"} /\ s.zoning \in BOOLEAN
  /\ s.me \in Ids \cup {0} /\ s.name \in Names /\ s.real \in BOOLEAN
  /\ s.kind \in Kinds /\ s.defaults \in BOOLEAN
  /\ DOMAIN s.spawns \subseteq Ids
  /\ \A id \in DOMAIN s.spawns : s.spawns[id] \in [name : Names, kind : Kinds]
  /\ s.drops \subseteq Ids /\ s.doors \subseteq Ids /\ s.players \subseteq Ids \cup {0}
  /\ s.dead \in [Ring -> Ids \cup {0}] /\ s.pos \in Ring /\ s.cnt \in 0 .. MaxDead
  /\ DOMAIN s.peers \subseteq Pals \cup {"me"}
  /\ Cardinality(DOMAIN s.peers) <= MaxPeers
  /\ \A n \in DOMAIN s.peers : s.peers[n] \in Ids \cup {Nil, Self, Left, Freed}
  /\ s.on \in BOOLEAN /\ s.view \subseteq Ids \cup {0} /\ s.self \in Ids \cup {0}
  /\ s.shown \in Zones \cup {"unknown", "none"} /\ s.snap \in Zones \cup {"unknown", "none"}

\* No member of the group points to a freed object, although delItem does not
\* make GroupMgr let go of every object it holds (a corpse, a player renamed
\* since): clear frees only what clearItems has made it let go of, and
\* deleteItem frees nothing.
NoFreedSpawn == \A n \in DOMAIN s.peers : s.peers[n] # Freed

PointersOK == TypeOK /\ NoFreedSpawn

\* On eql the player's record is never in the spawn list under its own id,
\* whatever the order of its records, its reports, its deaths and re-entries:
\* upsertSpawn and updateSpawn pass its id over and adoption takes a spawn that
\* stands there out.
NeverAMob == target = "eql" /\ s.me # 0 => s.me \notin DOMAIN s.spawns

InSync == s.on /\ s.view = View(s) /\ s.self = s.me

\* The character enters a zone other than that of the last Snapshot.
Enters == \E z \in Zones \ {s.snap} :
            (target = "live" /\ ZoneChange(z, TRUE)) \/ (target = "eql" /\ NewZone(z))

\* When the player gets an id, or enters another zone, the client shows what
\* the managers then hold, however far it had drifted from them, and the spawn
\* that stood for the player is gone: the Snapshot comes after the changes of
\* the same cascade, and what follows it repeats it.
Resyncs ==
  [][/\ s.on /\ (s'.me \notin {0, s.me} \/ Enters) => InSync'
     /\ s'.me \notin {0, s.me} => s'.me \notin DOMAIN s'.spawns]_vars

\* Two items of one id are one item to the client.
Distinct ==
  /\ DOMAIN s.spawns \cap (s.drops \cup s.doors) = {} /\ s.drops \cap s.doors = {}
  /\ s.me \notin DOMAIN s.spawns \cup s.drops \cup s.doors

\* The steps that empty the shell, or take the player's id, with no word of it.
Unannounced ==
  \/ s'.me = 0 /\ s.me # 0
  \/ NewWorld
  \/ target = "live" /\ \E z \in Zones \cup {"unknown"} : ZonePlayer(z) \/ ZoneChange(z, TRUE)
  \/ target = "eql" /\ (Profile \/ EnterWorld)

\* A client in sync with the managers stays so: every packet that changes the
\* items or the player's id tells it, in an order that leaves it with what the
\* managers hold, as long as no two items share an id; only the packets that
\* empty the shell do not.
StaysInSync == [][InSync /\ Distinct /\ ~Unannounced => InSync']_vars

\* The roster outlives zoning, deaths and spawns that go: only the packets
\* about the group change who is in it (GroupMgr::player, GroupMgr::clear); and
\* a member whose player is seen again, in this zone or the next, is attached
\* to the spawn then made, whatever its pointer was left at.
RosterKept ==
  [][/\ DOMAIN s'.peers # DOMAIN s.peers =>
          \/ \E names \in SUBSET (Pals \cup {"me"}) : GroupMemberList(names)
          \/ \E n \in Pals \cup {"me"} : AddGroupMember(n) \/ RemoveGroupMember(n)
     /\ \A id \in DOMAIN s'.spawns \ DOMAIN s.spawns :
          LET sp == s'.spawns[id] IN
          sp.kind = "pc" /\ sp.name \in DOMAIN s'.peers => s'.peers[sp.name] = id]_vars

\* A position of a spawn deleted last of all does not bring it back: "check
\* dead spawn list for spawnID, if it was deleted, shouldn't see new position
\* updates" (updateSpawn).
DeadStaysGone ==
  [][\A id \in Ids : s.cnt > 0 /\ id = s.dead[s.pos] /\ MoveUpdate(id)
                     => id \in DOMAIN s.spawns \/ id \notin DOMAIN s'.spawns]_vars
=============================================================================
