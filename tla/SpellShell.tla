------------------------------ MODULE SpellShell ------------------------------
(***************************************************************************)
(* SpellShell (src/src/spellshell.cpp) keeps the player's buffs, the panel *)
(* m_spellList, and what is known to be on mobs, m_targetEffects.  Both    *)
(* are counted down by one timer, which runs while there is something to   *)
(* count.  The player's id, under which its buffs are filed, changes with  *)
(* every zone and, on EQ Legends, with every death; the id and the name    *)
(* live in Player, the mobs in SpawnShell, and SpellShell hears only some  *)
(* of what happens to them.                                                *)
(*                                                                         *)
(* The lists are sets here: two equal entries count once, and where the    *)
(* code takes the first entry that fits, any may be taken.  A duration is  *)
(* a number of ticks of the timer.  m_lastPlayerSpell, which nothing sets, *)
(* and the slot, icon and times shown to clients are left out.             *)
(***************************************************************************)
EXTENDS Integers, FiniteSets

CONSTANTS
  Spells,     \* spells of the database
  SelfOnly,   \* those of target type 6, self
  Lasts,      \* calcDuration: ticks, 0 of an instant spell
  Ids,        \* spawn ids
  Chars,      \* names of characters
  MaxTicks,   \* bound: the longest duration
  MaxPackets  \* bound: how many packets come

Perm == -1    \* m_permanent, whatever the duration

ASSUME SpellAssumption ==
  /\ SelfOnly \subseteq Spells
  /\ MaxTicks \in Nat \ {0} /\ MaxPackets \in Nat
  /\ Lasts \in [Spells -> 0 .. MaxTicks]
  /\ 0 \notin Ids
  /\ Chars \cap {"You", "mob", "corpse", "N/A", ""} = {}

VARIABLES
  target,   \* "live" or "eql", fixed
  pc,       \* Player: id, m_name, real name ("none" before a profile), m_useDefaults
  mobs,     \* SpawnShell: id -> name of the spawns it holds
  spells,   \* m_spellList
  effects,  \* m_targetEffects
  timer,    \* m_timer is active
  packets   \* packets to come, for the bound

vars == <<target, pc, mobs, spells, effects, timer, packets>>

Names   == Chars \cup {"You", "mob", "corpse", "N/A"}
Left    == {Perm} \cup 0 .. MaxTicks
PanelItem == [spell : Spells, target : Ids \cup {0}, name : Names, left : Left]
EffectItem == [spell : Spells, target : Ids \cup {0}, by : Ids \cup {0}, left : Left]
Nobody  == [i \in {} |-> "mob"]

\* Player::name.
PlayerName == IF pc.defaults THEN "You" ELSE pc.name

\* findID(tSpawn, id), then name(); the empty name if there is no such spawn.
NameOf(id) ==
  IF id = pc.id /\ id # 0 THEN PlayerName
  ELSE IF id \in DOMAIN mobs THEN mobs[id] ELSE ""

Init ==
  /\ target \in {"live", "eql"}
  /\ pc = [id |-> 0, name |-> "You", real |-> "none", defaults |-> TRUE]
  /\ mobs = Nobody /\ spells = {} /\ effects = {} /\ timer = FALSE
  /\ packets = MaxPackets

-----------------------------------------------------------------------------
(* Entries of the lists.                                                   *)

\* SpellItem::update leaves the target of a self-only spell as it was, 0 in a
\* new item; m_permanent is left too.
Filed(sp, id, old) == IF sp \in SelfOnly THEN old ELSE id
Lasting(old, left) == IF old = Perm THEN Perm ELSE left

NewBuff(sp, id, name, left) ==
  [spell |-> sp, target |-> Filed(sp, id, 0), name |-> name, left |-> left]
NewEffect(sp, id, by, left) ==
  [spell |-> sp, target |-> Filed(sp, id, 0), by |-> by, left |-> left]

\* The entries findSpell can return.
FindSpell(S, sp, id, name) ==
  {e \in S : e.spell = sp /\ (e.target = id \/ (e.target = 0 /\ e.name = name))}

\* Mutant: an effect is the player's own or someone else's.
FindEffectMine(sp, id) ==
  {e \in effects : e.spell = sp /\ e.target = id /\ e.by = pc.id}

\* The entry findEffect can return.
FindEffect(sp, id) == {e \in effects : e.spell = sp /\ e.target = id}

\* For each spell of D, the entry of S findSpell returns, as a set, empty if none.
Matches(S, D, id, name) ==
  LET Found(sp) == FindSpell(S, sp, id, name)
      first == [sp \in D |-> IF Found(sp) = {} THEN {{}} ELSE {{e} : e \in Found(sp)}]
  IN {h \in [D -> UNION {first[sp] : sp \in D}] : \A sp \in D : h[sp] \in first[sp]}

Added(D, h) == {sp \in D : h[sp] = {}}

\* S with the matched entries replaced by updated and the others added.
Merged(S, D, h, updated, new) == (S \ UNION {h[sp] : sp \in D}) \cup updated \cup new

\* The timer, at t, after deletions that stop it when they empty the list.
StopIfEmptied(t, before, after) == t /\ (after = before \/ after # {})

-----------------------------------------------------------------------------
(* What SpellShell does when it hears of a spawn.                          *)

\* The timer stops when both lists are empty.
StopIfIdle(S, T) == timer' = (timer /\ (S # {} \/ T # {}))

\* clear.
Clear == spells' = {} /\ effects' = {} /\ timer' = FALSE

\* delSpawn.
DelSpawn(id) ==
  /\ effects' = {e \in effects : e.target # id}
  /\ IF effects' = effects THEN UNCHANGED timer ELSE StopIfIdle(spells, effects')
  /\ UNCHANGED spells

\* killSpawn of another than the player.
KillSpawn(id) ==
  /\ spells' = {e \in spells : e.target # id}
  /\ effects' = {e \in effects : e.target # id}
  /\ StopIfIdle(spells', effects')

Quiet == UNCHANGED <<spells, effects, timer>>

-----------------------------------------------------------------------------
(* Packets about spawns and the player; the shell takes no part in some.   *)

\* A spawn is added.  Once the character's name is known its own record is not.
Appear(id, name) ==
  /\ id # pc.id /\ id \notin DOMAIN mobs /\ name # pc.name
  /\ mobs' = [i \in DOMAIN mobs \cup {id} |-> IF i = id THEN name ELSE mobs[i]]
  /\ Quiet /\ UNCHANGED pc

Without(id) == [i \in DOMAIN mobs \ {id} |-> mobs[i]]

\* deleteItem: delItem, then the map.
Despawn(id) ==
  /\ id \in DOMAIN mobs
  /\ mobs' = Without(id)
  /\ DelSpawn(id)
  /\ UNCHANGED pc

\* SpawnShell::killSpawn of a spawn, which becomes a corpse.
Die(id) ==
  /\ id \in DOMAIN mobs
  /\ KillSpawn(id)
  /\ UNCHANGED <<mobs, pc>>

\* The player's death: on Live it becomes a corpse, on eql only its id goes.
SelfDie ==
  /\ pc.id # 0
  /\ \/ target = "live" /\ Clear /\ pc' = [pc EXCEPT !.name = "corpse"]
     \/ target = "eql" /\ Quiet /\ pc' = [pc EXCEPT !.id = 0]
  /\ UNCHANGED mobs

\* setPlayerID and playerChangedID: a spawn that stood for the player gives it
\* its name and goes, and delItem is raised with the new id in any case.  The
\* id is taken from the player's own reports while there is none, and from
\* its record once it has a name; the record names it on Live.
SelfId(id) ==
  /\ id # pc.id
  /\ id \in DOMAIN mobs => mobs[id] \in Chars
  /\ LET name == IF id \in DOMAIN mobs THEN mobs[id] ELSE pc.name IN
     \/ pc.id = 0 /\ pc' = [pc EXCEPT !.id = id, !.name = name]
     \/ /\ pc.real # "none"
        /\ pc' = [pc EXCEPT !.id = id, !.name = IF target = "live" THEN pc.real ELSE name]
  /\ mobs' = Without(id)
  /\ DelSpawn(id)

\* onBoxCreated, and on eql enterWorld: the spawns go, and no one tells.
NewWorld ==
  /\ mobs' = Nobody
  /\ pc' = [pc EXCEPT !.id = 0]
  /\ Quiet

\* EqlDispatch::profile.
ProfileEql(c) ==
  /\ target = "eql"
  /\ mobs' = Nobody
  /\ pc' = [id |-> 0, name |-> c, real |-> c, defaults |-> FALSE]
  /\ Quiet

\* zoneChange from the server: Player::zoneChanged, then the shell's own.
ZoneChangeLive ==
  /\ target = "live"
  /\ mobs' = Nobody
  /\ pc' = [pc EXCEPT !.id = 0, !.defaults = TRUE]
  /\ spells' = {[e EXCEPT !.target = 0] : e \in spells}
  /\ effects' = {}
  /\ timer' = (timer /\ (effects = {} \/ spells # {}))

\* zonePlayer: Player::player clears the shell if the name is a new one, and
\* loadProfile passes on the buffs it lists, with their ticks.
ZonePlayerLive(c, listed) ==
  LET S == IF c = pc.name THEN spells ELSE {}
      update(sp, e) == [e EXCEPT !.target = Filed(sp, pc.id, @), !.name = c,
                                 !.left = Lasting(@, listed[sp])]
      new(sp) == NewBuff(sp, pc.id, c, listed[sp])
  IN
  /\ target = "live" /\ \A sp \in DOMAIN listed : listed[sp] # Perm
  /\ mobs' = Nobody
  /\ pc' = [pc EXCEPT !.name = c, !.real = c, !.defaults = FALSE]
  /\ effects' = IF c = pc.name THEN effects ELSE {}
  /\ \E h \in Matches(S, DOMAIN listed, pc.id, c) :
       /\ spells' = Merged(S, DOMAIN listed, h,
                      UNION {{update(sp, e) : e \in h[sp]} : sp \in DOMAIN listed},
                      {new(sp) : sp \in Added(DOMAIN listed, h)})
       /\ timer' = ((c = pc.name /\ timer) \/ Added(DOMAIN listed, h) # {})

-----------------------------------------------------------------------------
(* Packets about spells.                                                   *)

\* The player, or anyone while its id is not known.
Accepts(id) == pc.id \in {0, id}

\* OP_Buff, a fade.
BuffFade(id, sp) ==
  /\ Accepts(id)
  /\ LET found == FindSpell(spells, sp, id, "") IN
     \/ found = {} /\ UNCHANGED <<spells, timer>>
     \/ \E e \in found : /\ spells' = spells \ {e}
                         /\ timer' = StopIfEmptied(timer, spells, spells')
  /\ UNCHANGED <<pc, mobs, effects>>

\* Mutant: a new entry does not start the timer.
BuffStaysIdle(id, sp, left) ==
  /\ Accepts(id) /\ left > 0
  /\ LET found == FindSpell(spells, sp, id, "") IN
     \/ /\ found = {}
        /\ spells' = spells \cup {NewBuff(sp, id, "N/A", left)}
     \/ \E e \in found :
          spells' = (spells \ {e}) \cup {[e EXCEPT !.left = Lasting(@, left)]}
  /\ UNCHANGED <<pc, mobs, effects, timer>>

\* OP_Buff, from then on: the initial form has the duration of the database,
\* the update its own.
Buff(id, sp, left) ==
  /\ Accepts(id) /\ left > 0
  /\ LET found == FindSpell(spells, sp, id, "") IN
     \/ /\ found = {}
        /\ spells' = spells \cup {NewBuff(sp, id, "N/A", left)}
        /\ timer' = TRUE
     \/ \E e \in found :
          /\ spells' = (spells \ {e}) \cup {[e EXCEPT !.left = Lasting(@, left)]}
          /\ UNCHANGED timer
  /\ UNCHANGED <<pc, mobs, effects>>

\* Mutant: what is filed under an earlier id of the player stays.
OrphansNone == {}

\* The entries under the player's name and another id.
Orphans == {e \in spells : e.name = PlayerName /\ e.target # pc.id}

\* OP_BuffList without a record, the player's or a mob's, or one that cannot be
\* decoded: buffList returns before it looks whose it is, and nothing changes.
BuffListNone ==
  /\ target = "eql"
  /\ Quiet /\ UNCHANGED <<pc, mobs>>

\* OP_BuffList with a record at least, of the player or of an id no spawn has:
\* the panel becomes what is listed.  A record of an empty slot (spell id 0 or
\* -1) is skipped, so `listed` is empty when all the records are such.
BuffListPanel(id, listed) ==
  LET kept == spells \ Orphans
      update(sp, e) == [e EXCEPT !.left = listed[sp]]
      new(sp) == NewBuff(sp, pc.id, PlayerName, listed[sp])
      t == StopIfEmptied(timer, spells, kept)
  IN
  /\ target = "eql"
  /\ id = pc.id \/ id \notin DOMAIN mobs
  /\ UNCHANGED <<pc, mobs, effects>>
  /\ \E h \in Matches(kept, DOMAIN listed, pc.id, PlayerName) :
       LET merged == Merged(kept, DOMAIN listed, h,
                     UNION {{update(sp, e) : e \in h[sp]} : sp \in DOMAIN listed},
                     {new(sp) : sp \in Added(DOMAIN listed, h)})
       IN
       /\ spells' = {e \in merged : e.spell \in DOMAIN listed}
       /\ timer' = (StopIfEmptied(t, merged, spells') \/ Added(DOMAIN listed, h) # {})

\* Mutant: everything that is not listed goes, the player's own spells too.
ReapedAll(id, listed) == {e \in effects : e.target = id /\ e.spell \notin DOMAIN listed}

\* What the list of a mob shows to have gone: not what the player cast under
\* the id it has now.
Reaped(id, listed) ==
  {e \in effects : e.target = id /\ e.by # pc.id /\ e.spell \notin DOMAIN listed}

\* OP_BuffList with a record at least, of a mob; mine are the listed spells with
\* the player's name.
BuffListMob(id, listed, mine) ==
  LET known == {sp \in DOMAIN listed : FindEffect(sp, id) # {}}
      by(sp) == IF sp \in mine THEN pc.id ELSE 0
  IN
  /\ target = "eql"
  /\ id # pc.id /\ id \in DOMAIN mobs
  /\ effects' = {IF e \in FindEffect(e.spell, id) /\ e.spell \in known
                 THEN [e EXCEPT !.left = listed[e.spell]] ELSE e
                 : e \in effects \ Reaped(id, listed)}
                \cup {NewEffect(sp, id, by(sp), listed[sp]) : sp \in DOMAIN listed \ known}
  /\ timer' = (timer \/ DOMAIN listed # known)
  /\ UNCHANGED <<pc, mobs, spells>>

\* OP_Action of type 0xe7, a spell: on the panel if the spell is there or the
\* player is hit, an effect if the player casts it on another.
Action(id, sp, own) ==
  LET name  == NameOf(id)
      shown == IF name = "" THEN "N/A" ELSE name
      found == FindSpell(spells, sp, id, name)
      left  == Lasts[sp]
      hit   == FindEffect(sp, id)
  IN
  /\ \/ \E e \in found :
          /\ spells' = (spells \ {e})
               \cup {[e EXCEPT !.target = Filed(sp, id, @), !.name = shown,
                               !.left = Lasting(@, left)]}
          /\ UNCHANGED <<effects, timer>>
     \/ /\ found = {} /\ id = pc.id /\ left > 0
        /\ spells' = spells \cup {NewBuff(sp, id, shown, left)}
        /\ timer' = TRUE
        /\ UNCHANGED effects
     \/ /\ found = {} /\ id # pc.id /\ own /\ id # 0 /\ left > 0
        /\ effects' = IF hit = {} THEN effects \cup {NewEffect(sp, id, pc.id, left)}
                      ELSE {IF e \in hit THEN [e EXCEPT !.by = pc.id, !.left = Lasting(@, left)]
                            ELSE e : e \in effects}
        /\ timer' = (timer \/ hit = {})
        /\ UNCHANGED spells
  /\ UNCHANGED <<pc, mobs>>

-----------------------------------------------------------------------------
\* Mutant: an entry whose time is up is kept at zero.
TickedKept(S) ==
  {IF e.left = Perm \/ e.left = 0 THEN e ELSE [e EXCEPT !.left = @ - 1] : e \in S}

\* The sweep: an entry that has reached zero goes.
Ticked(S) ==
  {IF e.left = Perm THEN e ELSE [e EXCEPT !.left = @ - 1] : e \in {f \in S : f.left # 0}}

\* timeout.
Timeout ==
  /\ timer
  /\ spells' = Ticked(spells) /\ effects' = Ticked(effects)
  /\ StopIfIdle(spells', effects')
  /\ UNCHANGED <<target, pc, mobs, packets>>

Lists == UNION {[D -> {Perm} \cup 1 .. MaxTicks] : D \in SUBSET Spells}

Packet ==
  \/ SelfDie \/ NewWorld \/ ZoneChangeLive \/ BuffListNone
  \/ \E c \in Chars : ProfileEql(c) \/ \E listed \in Lists : ZonePlayerLive(c, listed)
  \/ \E id \in Ids :
       \/ Despawn(id) \/ Die(id) \/ SelfId(id)
       \/ \E name \in Chars \cup {"mob"} : Appear(id, name)
       \/ \E sp \in Spells :
            \/ BuffFade(id, sp)
            \/ \E left \in {Lasts[sp]} \cup 1 .. MaxTicks : Buff(id, sp, left)
       \/ \E listed \in Lists :
            \/ BuffListPanel(id, listed)
            \/ \E mine \in SUBSET DOMAIN listed : BuffListMob(id, listed, mine)
  \/ \E id \in Ids \cup {0}, sp \in Spells, own \in BOOLEAN : Action(id, sp, own)

Next ==
  \/ packets > 0 /\ packets' = packets - 1 /\ UNCHANGED target /\ Packet
  \/ Timeout

Spec == Init /\ [][Next]_vars /\ WF_vars(Timeout)

-----------------------------------------------------------------------------
(* Properties.                                                             *)

\* Every part of the state has its type.
TypeOK ==
  /\ target \in {"live", "eql"} /\ timer \in BOOLEAN /\ packets \in 0 .. MaxPackets
  /\ pc \in [id : Ids \cup {0}, name : Names, real : Chars \cup {"none"}, defaults : BOOLEAN]
  /\ DOMAIN mobs \subseteq Ids /\ \A i \in DOMAIN mobs : mobs[i] \in Names
  /\ spells \subseteq PanelItem /\ effects \subseteq EffectItem

\* The timer runs while the panel shows anything, whichever handlers put it
\* there and whatever else was on the two lists the timer serves when it was
\* stopped or started last.  Of the effects that cannot be said: deleteSpell
\* stops the timer for both lists when it empties the panel.
TimerRuns == spells # {} => timer

PanelOK == TypeOK /\ TimerRuns

\* One spell on one mob is one effect, whether the player's own cast was seen
\* first, or the mob's list, or the player's id changed in between.
OneEffect ==
  \A e, f \in effects : e.spell = f.spell /\ e.target = f.target /\ e.target # 0 => e = f

\* The steps that tell the shell, or may, that a mob or the whole zone is gone.
Leaves(id) ==
  \/ Despawn(id) \/ Die(id) \/ SelfId(id)
  \/ (target = "live" /\ (SelfDie \/ ZoneChangeLive))
  \/ \E c \in Chars \ {pc.name}, listed \in Lists : ZonePlayerLive(c, listed)

\* Effect e has no successor: its spell is not on its mob any more.
Gone(e) == \A f \in effects' : f.spell # e.spell \/ f.target # e.target

\* What the player has cast on a mob, under its present id or one it had before,
\* stays until its time is up, the mob is gone, or a list of that mob leaves it
\* out; and the list takes only what was cast under an earlier id.  The comment at
\* src/src/spellshell.cpp:388 promises more, that no list takes a cast of the
\* player: it says nothing of the id changing in between.
OwnCastsStay ==
  [][\A e \in effects :
       e.by # 0 /\ e.target # 0 /\ Gone(e)
       => \/ e.left = 0 /\ Timeout
          \/ Leaves(e.target)
          \/ /\ e.by # pc.id
             /\ \E listed \in Lists, mine \in SUBSET Spells :
                  e.spell \notin DOMAIN listed /\ BuffListMob(e.target, listed, mine)]_vars

\* "OP_BuffList is authoritative": after the player's list, if it holds a record,
\* be it of an empty slot, the panel shows the spells listed and no other, each
\* with the time the list gives it, and nothing under the player's name that is
\* filed under one of the ids it had before, one for every zone and every death
\* so far.  A list without a record leaves the panel as it is: BuffListNone.
ListIsPanel ==
  [][\A id \in Ids, listed \in Lists :
       BuffListPanel(id, listed) =>
         /\ {e.spell : e \in spells'} = DOMAIN listed
         /\ \A sp \in DOMAIN listed : \E e \in spells' : e.spell = sp /\ e.left = listed[sp]
         /\ \A e \in spells' : e.name = PlayerName => e.target \in {pc.id, 0}]_vars

\* When no more packets come, what is on the panel runs out, but for what is
\* permanent; and so do the effects, if the timer still runs.
BuffsRunOut ==
  <>[](/\ \A e \in spells : e.left = Perm
       /\ timer => \A e \in effects : e.left = Perm)
=============================================================================
