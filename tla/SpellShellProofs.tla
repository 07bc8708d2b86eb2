--------------------------- MODULE SpellShellProofs ---------------------------
(***************************************************************************)
(* Theorems about SpellShell, for every set of spells, ids and characters, *)
(* every duration and any number of packets.                               *)
(***************************************************************************)
EXTENDS SpellShell, TLAPS

-----------------------------------------------------------------------------
(* The operators on the lists.                                             *)

LEMMA BuffTyped ==
  ASSUME NEW sp \in Spells, NEW id \in Ids \cup {0}, NEW name \in Names, NEW left \in Left
  PROVE  NewBuff(sp, id, name, left) \in PanelItem
BY DEF NewBuff, PanelItem, Filed

LEMMA EffectTyped ==
  ASSUME NEW sp \in Spells, NEW id \in Ids \cup {0}, NEW by \in Ids \cup {0}, NEW left \in Left
  PROVE  /\ NewEffect(sp, id, by, left) \in EffectItem
         /\ NewEffect(sp, id, by, left).spell = sp
         /\ NewEffect(sp, id, by, left).target \in {id, 0}
BY DEF NewEffect, EffectItem, Filed

\* Replacing the time of an entry leaves an entry.
LEMMA LeftTyped ==
  ASSUME NEW left \in Left
  PROVE  /\ \A e \in PanelItem : [e EXCEPT !.left = left] \in PanelItem
         /\ \A e \in EffectItem :
              LET f == [e EXCEPT !.left = left] IN
              f \in EffectItem /\ f.spell = e.spell /\ f.target = e.target
         /\ \A old \in Left : Lasting(old, left) \in Left
BY DEF PanelItem, EffectItem, Lasting

LEMMA NameTyped == ASSUME TypeOK PROVE PlayerName \in Names /\ PlayerName # ""
BY SpellAssumption DEF TypeOK, PlayerName, Names

\* What an id is shown as.
LEMMA ShownTyped ==
  ASSUME TypeOK, NEW id \in Ids \cup {0}
  PROVE  (IF NameOf(id) = "" THEN "N/A" ELSE NameOf(id)) \in Names
<1>1. PlayerName \in Names BY NameTyped
<1>2. \A i \in DOMAIN mobs : mobs[i] \in Names BY DEF TypeOK
<1>3. "N/A" \in Names BY DEF Names
<1> QED BY <1>1, <1>2, <1>3 DEF NameOf

\* The bounds on their own.
LEMMA Bounds ==
  MaxTicks \in Nat /\ MaxPackets \in Nat /\ \A sp \in Spells : Lasts[sp] \in 0 .. MaxTicks
BY SpellAssumption

\* A tick keeps the type of both kinds of entry, and what they are about.
LEMMA TickTyped ==
  /\ \A S \in SUBSET PanelItem : Ticked(S) \subseteq PanelItem
  /\ \A S \in SUBSET EffectItem : Ticked(S) \subseteq EffectItem
  /\ \A S \in SUBSET EffectItem : \A g \in Ticked(S) : \E e \in S :
       /\ g.spell = e.spell /\ g.target = e.target
       /\ g = IF e.left = Perm THEN e ELSE [e EXCEPT !.left = @ - 1]
<1>1. \A n \in Left : n # Perm /\ n # 0 => n - 1 \in Left
  BY Bounds DEF Left, Perm
<1>2. \A e \in PanelItem : e.left # Perm /\ e.left # 0 => [e EXCEPT !.left = @ - 1] \in PanelItem
  BY <1>1 DEF PanelItem
<1>3. \A e \in EffectItem : e.left # Perm /\ e.left # 0 =>
        LET f == [e EXCEPT !.left = @ - 1] IN
        f \in EffectItem /\ f.spell = e.spell /\ f.target = e.target
  BY <1>1 DEF EffectItem
<1> QED BY <1>2, <1>3 DEF Ticked

\* The lists of a packet.
LEMMA ListTyped ==
  ASSUME NEW listed \in Lists
  PROVE  /\ DOMAIN listed \subseteq Spells
         /\ \A sp \in DOMAIN listed : listed[sp] \in Left
<1>1. PICK D \in SUBSET Spells : listed \in [D -> {Perm} \cup 1 .. MaxTicks] BY DEF Lists
<1>2. {Perm} \cup 1 .. MaxTicks \subseteq Left BY Bounds DEF Left
<1> QED BY <1>1, <1>2

\* What a search finds is in the list.
LEMMA MatchesIn ==
  ASSUME NEW S, NEW D, NEW id, NEW name, NEW h \in Matches(S, D, id, name)
  PROVE  \A sp \in D : h[sp] \subseteq S
BY DEF Matches, FindSpell

-----------------------------------------------------------------------------
(* The handlers that only take entries out, or only change the player.     *)

\* The player and the spawns keep their types.
PcOK ==
  /\ pc' \in [id : Ids \cup {0}, name : Names, real : Chars \cup {"none"}, defaults : BOOLEAN]
  /\ DOMAIN mobs' \subseteq Ids /\ \A i \in DOMAIN mobs' : mobs'[i] \in Names

ListsOK ==
  /\ spells' \subseteq PanelItem /\ effects' \subseteq EffectItem /\ timer' \in BOOLEAN
  /\ spells' # {} => timer'

LEMMA CharNames == Chars \subseteq Names /\ "You" \in Names /\ "corpse" \in Names /\ "mob" \in Names /\ "N/A" \in Names
BY DEF Names

LEMMA NobodyTyped == DOMAIN Nobody = {} BY DEF Nobody

LEMMA QuietKeeps == ASSUME PanelOK, Quiet PROVE ListsOK
BY DEF PanelOK, TypeOK, TimerRuns, Quiet, ListsOK

LEMMA DelSpawnKeeps == ASSUME PanelOK, NEW id, DelSpawn(id) PROVE ListsOK
BY DEF PanelOK, TypeOK, TimerRuns, DelSpawn, StopIfIdle, ListsOK

LEMMA KillSpawnKeeps == ASSUME PanelOK, NEW id, KillSpawn(id) PROVE ListsOK
BY DEF PanelOK, TypeOK, TimerRuns, KillSpawn, StopIfIdle, ListsOK

LEMMA WithoutTyped ==
  ASSUME TypeOK, NEW id, mobs' = Without(id)
  PROVE  DOMAIN mobs' \subseteq Ids /\ \A i \in DOMAIN mobs' : mobs'[i] \in Names
BY DEF TypeOK, Without

LEMMA AppearKeeps ==
  ASSUME PanelOK, NEW id \in Ids, NEW name \in Chars \cup {"mob"}, Appear(id, name)
  PROVE  PcOK /\ ListsOK
<1>1. ListsOK BY QuietKeeps DEF Appear
<1>2. name \in Names BY CharNames
<1>3. PcOK BY <1>2 DEF PanelOK, TypeOK, PcOK, Appear
<1> QED BY <1>1, <1>3

LEMMA DespawnKeeps == ASSUME PanelOK, NEW id \in Ids, Despawn(id) PROVE PcOK /\ ListsOK
<1>1. ListsOK BY DelSpawnKeeps DEF Despawn
<1>2. PcOK BY WithoutTyped DEF PanelOK, TypeOK, PcOK, Despawn
<1> QED BY <1>1, <1>2

LEMMA DieKeeps == ASSUME PanelOK, NEW id \in Ids, Die(id) PROVE PcOK /\ ListsOK
<1>1. ListsOK BY KillSpawnKeeps DEF Die
<1>2. PcOK BY DEF PanelOK, TypeOK, PcOK, Die
<1> QED BY <1>1, <1>2

LEMMA SelfDieKeeps == ASSUME PanelOK, SelfDie PROVE PcOK /\ ListsOK
<1>1. ListsOK BY QuietKeeps DEF SelfDie, Clear, ListsOK
<1>2. PcOK BY CharNames DEF PanelOK, TypeOK, PcOK, SelfDie
<1> QED BY <1>1, <1>2

LEMMA SelfIdKeeps == ASSUME PanelOK, NEW id \in Ids, SelfId(id) PROVE PcOK /\ ListsOK
<1>1. ListsOK BY DelSpawnKeeps DEF SelfId
<1>2. (IF id \in DOMAIN mobs THEN mobs[id] ELSE pc.name) \in Names
  BY DEF PanelOK, TypeOK
<1>3. pc.real # "none" => pc.real \in Names BY CharNames DEF PanelOK, TypeOK
<1>4. pc' \in [id : Ids \cup {0}, name : Names, real : Chars \cup {"none"}, defaults : BOOLEAN]
  BY <1>2, <1>3 DEF PanelOK, TypeOK, SelfId
<1>5. PcOK BY <1>4, WithoutTyped DEF PanelOK, PcOK, SelfId
<1> QED BY <1>1, <1>5

LEMMA NewWorldKeeps == ASSUME PanelOK, NewWorld PROVE PcOK /\ ListsOK
<1>1. ListsOK BY QuietKeeps DEF NewWorld
<1>2. PcOK BY NobodyTyped DEF PanelOK, TypeOK, PcOK, NewWorld
<1> QED BY <1>1, <1>2

LEMMA ProfileEqlKeeps == ASSUME PanelOK, NEW c \in Chars, ProfileEql(c) PROVE PcOK /\ ListsOK
<1>1. ListsOK BY QuietKeeps DEF ProfileEql
<1>2. PcOK BY CharNames, NobodyTyped DEF PanelOK, TypeOK, PcOK, ProfileEql
<1> QED BY <1>1, <1>2

LEMMA ZoneChangeLiveKeeps == ASSUME PanelOK, ZoneChangeLive PROVE PcOK /\ ListsOK
<1>1. \A e \in PanelItem : [e EXCEPT !.target = 0] \in PanelItem BY DEF PanelItem
<1>2. ListsOK BY <1>1 DEF PanelOK, TypeOK, TimerRuns, ZoneChangeLive, ListsOK
<1>3. PcOK BY NobodyTyped DEF PanelOK, TypeOK, PcOK, ZoneChangeLive
<1> QED BY <1>2, <1>3

-----------------------------------------------------------------------------
(* The handlers that put entries in.                                       *)

LEMMA ZonePlayerLiveKeeps ==
  ASSUME PanelOK, NEW c \in Chars, NEW listed \in Lists, ZonePlayerLive(c, listed)
  PROVE  PcOK /\ ListsOK
<1> DEFINE S == IF c = pc.name THEN spells ELSE {}
           D == DOMAIN listed
           update(sp, e) == [e EXCEPT !.target = Filed(sp, pc.id, @), !.name = c,
                                      !.left = Lasting(@, listed[sp])]
           new(sp) == NewBuff(sp, pc.id, c, listed[sp])
<1>1. PICK h \in Matches(S, D, pc.id, c) :
        /\ spells' = Merged(S, D, h, UNION {{update(sp, e) : e \in h[sp]} : sp \in D},
                          {new(sp) : sp \in Added(D, h)})
        /\ timer' = ((c = pc.name /\ timer) \/ Added(D, h) # {})
  BY DEF ZonePlayerLive
<1>2. c \in Names /\ pc.id \in Ids \cup {0} BY CharNames DEF PanelOK, TypeOK
<1>3. \A sp \in D : new(sp) \in PanelItem BY <1>2, ListTyped, BuffTyped
<1>4. \A sp \in D : \A e \in PanelItem : update(sp, e) \in PanelItem
  <2>1. \A sp \in D : listed[sp] \in Left BY ListTyped
  <2> QED BY <2>1, <1>2 DEF PanelItem, Filed, Lasting
<1>5. S \subseteq PanelItem BY DEF PanelOK, TypeOK
<1>6. \A sp \in D : h[sp] \subseteq S BY MatchesIn
<1> HIDE DEF S, D, update, new
<1>7. spells' \subseteq PanelItem
  <2> SUFFICES ASSUME NEW e \in spells' PROVE e \in PanelItem OBVIOUS
  <2>1. \/ e \in S
        \/ \E sp \in D : \E f \in h[sp] : e = update(sp, f)
        \/ \E sp \in D : e = new(sp)
    BY <1>1 DEF Merged, Added
  <2> QED BY <2>1, <1>3, <1>4, <1>5, <1>6
<1>8. spells' # {} => S # {} \/ Added(D, h) # {} BY <1>1, <1>6 DEF Merged, Added
<1>9. S # {} => c = pc.name /\ timer BY DEF S, PanelOK, TimerRuns
<1>10. effects' \subseteq EffectItem BY DEF ZonePlayerLive, PanelOK, TypeOK
<1>11. ListsOK BY <1>1, <1>7, <1>8, <1>9, <1>10 DEF ListsOK, PanelOK, TypeOK
<1>12. PcOK BY <1>2, NobodyTyped DEF PanelOK, TypeOK, PcOK, ZonePlayerLive
<1> QED BY <1>11, <1>12

LEMMA BuffFadeKeeps ==
  ASSUME PanelOK, NEW id \in Ids, NEW sp \in Spells, BuffFade(id, sp)
  PROVE  PcOK /\ ListsOK
<1>1. spells' \subseteq spells
  BY DEF BuffFade
<1>2. UNCHANGED timer \/ timer' = (timer /\ (spells' = spells \/ spells' # {}))
  BY DEF BuffFade, StopIfEmptied
<1>3. timer' \in BOOLEAN /\ (spells' # {} => timer')
  BY <1>1, <1>2 DEF PanelOK, TypeOK, TimerRuns
<1>4. ListsOK BY <1>1, <1>3 DEF PanelOK, TypeOK, BuffFade, ListsOK
<1>5. PcOK BY DEF PanelOK, TypeOK, PcOK, BuffFade
<1> QED BY <1>4, <1>5

LEMMA BuffKeeps ==
  ASSUME PanelOK, NEW id \in Ids, NEW sp \in Spells, NEW left \in Left, Buff(id, sp, left)
  PROVE  PcOK /\ ListsOK
<1>1. NewBuff(sp, id, "N/A", left) \in PanelItem BY BuffTyped, CharNames
<1>2. \A e \in spells : [e EXCEPT !.left = Lasting(@, left)] \in PanelItem
  BY LeftTyped DEF PanelOK, TypeOK, PanelItem
<1>3. FindSpell(spells, sp, id, "") \subseteq spells BY DEF FindSpell
<1>4. ASSUME spells' = spells \cup {NewBuff(sp, id, "N/A", left)}, timer' = TRUE
      PROVE  ListsOK
  BY <1>1, <1>4 DEF PanelOK, TypeOK, Buff, ListsOK
<1>5. ASSUME NEW e \in FindSpell(spells, sp, id, ""),
             spells' = (spells \ {e}) \cup {[e EXCEPT !.left = Lasting(@, left)]},
             timer' = timer
      PROVE  ListsOK
  <2>1. e \in spells BY <1>3
  <2>2. [e EXCEPT !.left = Lasting(@, left)] \in PanelItem BY <1>2, <2>1
  <2>3. spells' \subseteq PanelItem BY <1>5, <2>2 DEF PanelOK, TypeOK
  <2>4. timer BY <2>1 DEF PanelOK, TimerRuns
  <2> QED BY <1>5, <2>3, <2>4 DEF PanelOK, TypeOK, Buff, ListsOK
<1>6. ListsOK BY <1>4, <1>5 DEF Buff
<1>7. PcOK BY DEF PanelOK, TypeOK, PcOK, Buff
<1> QED BY <1>6, <1>7

LEMMA BuffListPanelKeeps ==
  ASSUME PanelOK, NEW id \in Ids, NEW listed \in Lists, BuffListPanel(id, listed)
  PROVE  PcOK /\ ListsOK
<1> DEFINE kept == spells \ Orphans
           D == DOMAIN listed
           update(sp, e) == [e EXCEPT !.left = listed[sp]]
           new(sp) == NewBuff(sp, pc.id, PlayerName, listed[sp])
           t == StopIfEmptied(timer, spells, kept)
<1>1. PICK h \in Matches(kept, D, pc.id, PlayerName) :
        LET merged == Merged(kept, D, h, UNION {{update(sp, e) : e \in h[sp]} : sp \in D},
                          {new(sp) : sp \in Added(D, h)}) IN
        /\ spells' = {e \in merged : e.spell \in D}
        /\ timer' = (StopIfEmptied(t, merged, spells') \/ Added(D, h) # {})
  BY DEF BuffListPanel
<1> DEFINE merged == Merged(kept, D, h, UNION {{update(sp, e) : e \in h[sp]} : sp \in D},
                          {new(sp) : sp \in Added(D, h)})
<1>2. PlayerName \in Names /\ pc.id \in Ids \cup {0} BY NameTyped DEF PanelOK, TypeOK
<1>3. \A sp \in D : new(sp) \in PanelItem BY <1>2, ListTyped, BuffTyped
<1>4. \A sp \in D : \A e \in PanelItem : update(sp, e) \in PanelItem BY ListTyped, LeftTyped
<1>5. kept \subseteq PanelItem BY DEF PanelOK, TypeOK
<1>6. \A sp \in D : h[sp] \subseteq kept BY MatchesIn
<1>7. kept # {} => t BY DEF PanelOK, TypeOK, TimerRuns, StopIfEmptied
<1>8. t \in BOOLEAN BY DEF StopIfEmptied, PanelOK, TypeOK
<1> HIDE DEF kept, D, update, new, t
<1>9. merged \subseteq PanelItem
  <2> SUFFICES ASSUME NEW e \in merged PROVE e \in PanelItem OBVIOUS
  <2>1. \/ e \in kept
        \/ \E sp \in D : \E f \in h[sp] : e = update(sp, f)
        \/ \E sp \in D : e = new(sp)
    BY DEF merged, Merged, Added
  <2> QED BY <2>1, <1>3, <1>4, <1>5, <1>6
<1>10. merged # {} => kept # {} \/ Added(D, h) # {} BY <1>6 DEF merged, Merged, Added
<1>11. /\ spells' = {e \in merged : e.spell \in D}
       /\ timer' = (StopIfEmptied(t, merged, spells') \/ Added(D, h) # {})
  BY <1>1 DEF merged
<1> HIDE DEF merged
<1>12. spells' \subseteq PanelItem BY <1>11, <1>9
<1>13. spells' # {} => timer' BY <1>11, <1>7, <1>10 DEF StopIfEmptied
<1>14. timer' \in BOOLEAN BY <1>11, <1>8 DEF StopIfEmptied
<1>15. ListsOK BY <1>12, <1>13, <1>14 DEF ListsOK, BuffListPanel, PanelOK, TypeOK
<1>16. PcOK BY DEF PanelOK, TypeOK, PcOK, BuffListPanel
<1> QED BY <1>15, <1>16

\* The list of a mob, and what it leaves each effect to be about.
LEMMA BuffListMobKeeps ==
  ASSUME PanelOK, NEW id \in Ids, NEW listed \in Lists, NEW mine \in SUBSET DOMAIN listed,
         BuffListMob(id, listed, mine)
  PROVE  /\ PcOK /\ ListsOK
         /\ OneEffect => OneEffect'
<1> DEFINE known == {sp \in DOMAIN listed : FindEffect(sp, id) # {}}
           by(sp) == IF sp \in mine THEN pc.id ELSE 0
           rest == effects \ Reaped(id, listed)
           seen(e) == IF e \in FindEffect(e.spell, id) /\ e.spell \in known
                      THEN [e EXCEPT !.left = listed[e.spell]] ELSE e
           new(sp) == NewEffect(sp, id, by(sp), listed[sp])
           old  == {seen(e) : e \in rest}
           more == {new(sp) : sp \in DOMAIN listed \ known}
<1>1. effects' = old \cup more /\ UNCHANGED spells
      /\ timer' = (timer \/ DOMAIN listed # known)
  BY DEF BuffListMob
<1>2. \A sp \in DOMAIN listed : sp \in Spells /\ listed[sp] \in Left BY ListTyped
<1>3. effects \subseteq EffectItem BY DEF PanelOK, TypeOK
<1>4. pc.id \in Ids \cup {0} /\ id # 0 BY SpellAssumption DEF PanelOK, TypeOK
<1>5. \A e \in rest : seen(e) \in EffectItem /\ seen(e).spell = e.spell /\ seen(e).target = e.target
  <2> SUFFICES ASSUME NEW e \in rest
               PROVE  seen(e) \in EffectItem /\ seen(e).spell = e.spell /\ seen(e).target = e.target
    OBVIOUS
  <2>1. e \in EffectItem BY <1>3
  <2>2. CASE e.spell \in DOMAIN listed
    <3>1. listed[e.spell] \in Left BY <1>2, <2>2
    <3> QED BY <2>1, <3>1, LeftTyped
  <2>3. CASE e.spell \notin DOMAIN listed BY <2>1, <2>3
  <2> QED BY <2>2, <2>3
<1>6. \A sp \in DOMAIN listed :
        new(sp) \in EffectItem /\ new(sp).spell = sp /\ new(sp).target \in {id, 0}
  <2>1. \A sp \in DOMAIN listed : by(sp) \in Ids \cup {0} BY <1>4
  <2> QED BY <1>2, <2>1, EffectTyped
<1>7. \A e \in rest : e \in effects OBVIOUS
<1>8. \A e \in rest : e.target = id => e.spell \notin DOMAIN listed \ known
  BY DEF FindEffect
<1> HIDE DEF rest, seen, new, by, known
<1>9. ListsOK BY <1>1, <1>5, <1>6 DEF ListsOK, PanelOK, TypeOK, TimerRuns
<1>10. PcOK BY DEF PanelOK, TypeOK, PcOK, BuffListMob
<1>11. ASSUME OneEffect,
              NEW e \in effects', NEW f \in effects',
              e.spell = f.spell, e.target = f.target, e.target # 0
       PROVE  e = f
  <2>1. CASE e \in old /\ f \in old
    <3>1. PICK a \in rest, b \in rest : e = seen(a) /\ f = seen(b) BY <2>1
    <3>2. a = b BY <3>1, <1>5, <1>7, <1>11 DEF OneEffect
    <3> QED BY <3>1, <3>2
  <2>2. CASE e \in more /\ f \in more BY <2>2, <1>6, <1>11
  <2>3. ASSUME NEW a \in rest, NEW sp \in DOMAIN listed \ known,
               seen(a).spell = new(sp).spell, seen(a).target = new(sp).target,
               new(sp).target # 0
        PROVE  FALSE
    BY <2>3, <1>5, <1>6, <1>8
  <2> QED BY <1>1, <1>11, <2>1, <2>2, <2>3
<1>12. OneEffect => OneEffect' BY <1>11 DEF OneEffect
<1> QED BY <1>9, <1>10, <1>12

LEMMA ActionKeeps ==
  ASSUME PanelOK, NEW id \in Ids \cup {0}, NEW sp \in Spells, NEW own \in BOOLEAN,
         Action(id, sp, own)
  PROVE  /\ PcOK /\ ListsOK
         /\ OneEffect => OneEffect'
<1> DEFINE name  == NameOf(id)
           shown == IF name = "" THEN "N/A" ELSE name
           found == FindSpell(spells, sp, id, name)
           left  == Lasts[sp]
           hit   == FindEffect(sp, id)
           landed(e) == [e EXCEPT !.target = Filed(sp, id, @), !.name = shown,
                                  !.left = Lasting(@, left)]
           again(e) == [e EXCEPT !.by = pc.id, !.left = Lasting(@, left)]
           fresh == NewEffect(sp, id, pc.id, left)
<1>1. shown \in Names BY ShownTyped DEF PanelOK
<1>2. left \in Left BY SpellAssumption DEF Left
<1>3. pc.id \in Ids \cup {0} /\ spells \subseteq PanelItem /\ effects \subseteq EffectItem
      /\ timer \in BOOLEAN /\ (spells # {} => timer)
  BY DEF PanelOK, TypeOK, TimerRuns
<1>4. \A e \in PanelItem : landed(e) \in PanelItem
  BY <1>1, <1>2 DEF PanelItem, Filed, Lasting
<1>5. NewBuff(sp, id, shown, left) \in PanelItem BY <1>1, <1>2, BuffTyped
<1>6. \A e \in EffectItem : again(e) \in EffectItem /\ again(e).spell = e.spell
                            /\ again(e).target = e.target
  BY <1>2, <1>3 DEF EffectItem, Lasting
<1>7. fresh \in EffectItem /\ fresh.spell = sp /\ fresh.target \in {id, 0}
  BY <1>2, <1>3, EffectTyped
<1>8. found \subseteq spells BY DEF FindSpell
<1>9. \A e \in effects : e \in hit <=> e.spell = sp /\ e.target = id BY DEF FindEffect
<1>10. PcOK BY DEF PanelOK, TypeOK, PcOK, Action
<1>11. \/ \E e \in found : spells' = (spells \ {e}) \cup {landed(e)} /\ UNCHANGED <<effects, timer>>
       \/ spells' = spells \cup {NewBuff(sp, id, shown, left)} /\ timer' = TRUE /\ UNCHANGED effects
       \/ /\ effects' = IF hit = {} THEN effects \cup {fresh}
                        ELSE {IF e \in hit THEN again(e) ELSE e : e \in effects}
          /\ timer' = (timer \/ hit = {}) /\ UNCHANGED spells
  BY DEF Action
<1> HIDE DEF shown, found, left, hit, landed, again, fresh
<1>12. ASSUME NEW e \in found, spells' = (spells \ {e}) \cup {landed(e)}, UNCHANGED <<effects, timer>>
       PROVE  ListsOK /\ (OneEffect => OneEffect')
  <2>1. e \in spells BY <1>8
  <2>2. spells' \subseteq PanelItem BY <1>3, <1>4, <1>12, <2>1
  <2> QED BY <1>3, <1>12, <2>1, <2>2 DEF ListsOK, OneEffect
<1>13. ASSUME spells' = spells \cup {NewBuff(sp, id, shown, left)}, timer' = TRUE, UNCHANGED effects
       PROVE  ListsOK /\ (OneEffect => OneEffect')
  BY <1>3, <1>5, <1>13 DEF ListsOK, OneEffect
<1>14. ASSUME hit = {}, effects' = effects \cup {fresh}, timer' = TRUE, UNCHANGED spells
       PROVE  ListsOK /\ (OneEffect => OneEffect')
  BY <1>3, <1>7, <1>9, <1>14 DEF ListsOK, OneEffect
<1>15. ASSUME effects' = {IF e \in hit THEN again(e) ELSE e : e \in effects},
              timer' = timer, UNCHANGED spells
       PROVE  ListsOK /\ (OneEffect => OneEffect')
  <2>1. \A g \in effects' : \E e \in effects :
           /\ g \in EffectItem /\ g.spell = e.spell /\ g.target = e.target
           /\ g = IF e \in hit THEN again(e) ELSE e
    BY <1>3, <1>6, <1>15
  <2>2. ListsOK BY <1>3, <1>15, <2>1 DEF ListsOK
  <2>3. OneEffect => OneEffect' BY <2>1 DEF OneEffect
  <2> QED BY <2>2, <2>3
<1>16. hit # {} => (timer \/ hit = {}) = timer BY <1>3
<1> QED BY <1>10, <1>11, <1>12, <1>13, <1>14, <1>15, <1>16

-----------------------------------------------------------------------------
(* The two invariants.                                                     *)

LEMMA TimeoutKeeps ==
  ASSUME PanelOK, Timeout
  PROVE  ListsOK /\ (OneEffect => OneEffect')
<1>1. ListsOK BY TickTyped DEF PanelOK, TypeOK, Timeout, StopIfIdle, ListsOK
<1>2. effects \in SUBSET EffectItem /\ effects' = Ticked(effects)
  BY DEF PanelOK, TypeOK, Timeout
<1>3. \A g \in effects' : \E e \in effects :
        /\ g.spell = e.spell /\ g.target = e.target
        /\ g = IF e.left = Perm THEN e ELSE [e EXCEPT !.left = @ - 1]
  BY <1>2, TickTyped
<1>4. OneEffect => OneEffect' BY <1>3 DEF OneEffect
<1> QED BY <1>1, <1>4

LEMMA PacketKeeps ==
  ASSUME PanelOK, Packet
  PROVE  PcOK /\ ListsOK /\ (OneEffect => OneEffect')
<1>1. ASSUME effects' \subseteq effects PROVE OneEffect => OneEffect'
  BY <1>1 DEF OneEffect
<1>2. CASE SelfDie BY <1>1, <1>2, SelfDieKeeps DEF SelfDie, Clear, Quiet
<1>3. CASE NewWorld BY <1>1, <1>3, NewWorldKeeps DEF NewWorld, Quiet
<1>4. CASE ZoneChangeLive BY <1>1, <1>4, ZoneChangeLiveKeeps DEF ZoneChangeLive
<1>5. CASE \E c \in Chars : ProfileEql(c)
  BY <1>1, <1>5, ProfileEqlKeeps DEF ProfileEql, Quiet
<1>6. CASE \E c \in Chars : \E listed \in Lists : ZonePlayerLive(c, listed)
  BY <1>1, <1>6, ZonePlayerLiveKeeps DEF ZonePlayerLive
<1>7. CASE \E id \in Ids : Despawn(id) \/ Die(id) \/ SelfId(id)
  BY <1>1, <1>7, DespawnKeeps, DieKeeps, SelfIdKeeps DEF Despawn, Die, SelfId, DelSpawn, KillSpawn
<1>8. CASE \E id \in Ids : \E name \in Chars \cup {"mob"} : Appear(id, name)
  BY <1>1, <1>8, AppearKeeps DEF Appear, Quiet
<1>9. CASE \E id \in Ids : \E sp \in Spells : BuffFade(id, sp)
  BY <1>1, <1>9, BuffFadeKeeps DEF BuffFade
<1>10. CASE \E id \in Ids : \E sp \in Spells : \E left \in {Lasts[sp]} \cup 1 .. MaxTicks :
              Buff(id, sp, left)
  <2>1. \A sp \in Spells : {Lasts[sp]} \cup 1 .. MaxTicks \subseteq Left
    BY Bounds DEF Left
  <2>2. PICK id \in Ids, sp \in Spells, left \in Left : Buff(id, sp, left) BY <1>10, <2>1
  <2> QED BY <1>1, <2>2, BuffKeeps DEF Buff
<1>11. CASE \E id \in Ids : \E listed \in Lists : BuffListPanel(id, listed)
  BY <1>1, <1>11, BuffListPanelKeeps DEF BuffListPanel
<1>12. CASE \E id \in Ids : \E listed \in Lists : \E mine \in SUBSET DOMAIN listed :
              BuffListMob(id, listed, mine)
  BY <1>12, BuffListMobKeeps
<1>13. CASE \E id \in Ids \cup {0} : \E sp \in Spells : \E own \in BOOLEAN : Action(id, sp, own)
  BY <1>13, ActionKeeps
<1>14. CASE BuffListNone
  <2>1. effects' = effects /\ pc' = pc /\ mobs' = mobs /\ Quiet
    BY <1>14 DEF BuffListNone, Quiet
  <2>2. PcOK
    BY <2>1 DEF PcOK, PanelOK, TypeOK
  <2> QED BY <1>1, <2>1, <2>2, QuietKeeps
<1> QED BY <1>2, <1>3, <1>4, <1>5, <1>6, <1>7, <1>8, <1>9, <1>10, <1>11, <1>12, <1>13, <1>14
     DEF Packet

\* The timer runs while the panel shows anything (spellshell.cpp's m_timer, and
\* the sweep that is the only thing to take a buff away), and every part of the
\* state has its type.
THEOREM PanelCountsDown == Spec => []PanelOK
<1>1. Init => PanelOK
  <2> SUFFICES ASSUME Init PROVE PanelOK OBVIOUS
  <2>1. pc \in [id : Ids \cup {0}, name : Names, real : Chars \cup {"none"}, defaults : BOOLEAN]
    BY CharNames DEF Init
  <2>2. packets \in 0 .. MaxPackets BY Bounds DEF Init
  <2> QED BY <2>1, <2>2, NobodyTyped DEF Init, PanelOK, TypeOK, TimerRuns
<1>2. PanelOK /\ [Next]_vars => PanelOK'
  <2> SUFFICES ASSUME PanelOK, [Next]_vars PROVE PanelOK' OBVIOUS
  <2>1. CASE packets > 0 /\ packets' = packets - 1 /\ UNCHANGED target /\ Packet
    <3>1. packets' \in 0 .. MaxPackets BY <2>1, Bounds DEF PanelOK, TypeOK
    <3>2. PcOK /\ ListsOK BY <2>1, PacketKeeps
    <3> QED BY <2>1, <3>1, <3>2 DEF PanelOK, TypeOK, TimerRuns, PcOK, ListsOK
  <2>2. CASE Timeout
    BY <2>2, TimeoutKeeps DEF PanelOK, TypeOK, TimerRuns, ListsOK, Timeout
  <2>3. CASE UNCHANGED vars BY <2>3 DEF PanelOK, TypeOK, TimerRuns, vars
  <2> QED BY <2>1, <2>2, <2>3 DEF Next
<1> QED BY <1>1, <1>2, PTL DEF Spec

\* One spell on one mob is one effect (findEffect before every append).
THEOREM EffectsAreOne == Spec => []OneEffect
<1>1. Init => OneEffect BY DEF Init, OneEffect
<1>2. PanelOK /\ OneEffect /\ [Next]_vars => OneEffect'
  <2>1. ASSUME PanelOK, OneEffect, Packet PROVE OneEffect' BY <2>1, PacketKeeps
  <2>2. ASSUME PanelOK, OneEffect, Timeout PROVE OneEffect' BY <2>2, TimeoutKeeps
  <2>3. ASSUME OneEffect, UNCHANGED vars PROVE OneEffect' BY <2>3 DEF OneEffect, vars
  <2> QED BY <2>1, <2>2, <2>3 DEF Next
<1> QED BY <1>1, <1>2, PanelCountsDown, PTL DEF Spec

-----------------------------------------------------------------------------
(* What a step does to the effects the player cast, and to the panel.      *)

\* An entry for the same spell on the same mob is still there.
Still(e) == \E f \in effects' : f.spell = e.spell /\ f.target = e.target

\* The list of a mob leaves what it does not reap.
LEMMA BuffListMobLeaves ==
  ASSUME PanelOK, NEW id \in Ids, NEW listed \in Lists, NEW mine \in SUBSET DOMAIN listed,
         BuffListMob(id, listed, mine), NEW e \in effects, e \notin Reaped(id, listed)
  PROVE  Still(e)
<1> DEFINE known == {sp \in DOMAIN listed : FindEffect(sp, id) # {}}
           rest == effects \ Reaped(id, listed)
           seen(f) == IF f \in FindEffect(f.spell, id) /\ f.spell \in known
                      THEN [f EXCEPT !.left = listed[f.spell]] ELSE f
<1>1. \A f \in rest : seen(f) \in effects'
  BY DEF BuffListMob
<1>2. e \in rest
  OBVIOUS
<1>3. e \in EffectItem
  BY DEF PanelOK, TypeOK
<1>4. seen(e).spell = e.spell /\ seen(e).target = e.target
  BY <1>3 DEF EffectItem
<1> HIDE DEF seen, rest
<1> QED
  BY <1>1, <1>2, <1>4 DEF Still

\* A spell that lands leaves every effect.
LEMMA ActionLeaves ==
  ASSUME PanelOK, NEW id \in Ids \cup {0}, NEW sp \in Spells, NEW own \in BOOLEAN,
         Action(id, sp, own), NEW e \in effects
  PROVE  Still(e)
<1> DEFINE hit == FindEffect(sp, id)
           left == Lasts[sp]
           again(f) == [f EXCEPT !.by = pc.id, !.left = Lasting(@, left)]
           kept(f) == IF f \in hit THEN again(f) ELSE f
<1>1. e \in EffectItem
  BY DEF PanelOK, TypeOK
<1>2. kept(e).spell = e.spell /\ kept(e).target = e.target
  BY <1>1 DEF EffectItem
<1>3. effects \subseteq effects' \/ effects' = {kept(f) : f \in effects}
  BY DEF Action
<1> HIDE DEF kept
<1>4. kept(e) \in effects' \/ e \in effects'
  BY <1>3
<1> QED
  BY <1>2, <1>4 DEF Still

\* The sweep takes an effect away only when its time is up.
LEMMA TimeoutLeaves ==
  ASSUME PanelOK, Timeout, NEW e \in effects, e.left # 0
  PROVE  Still(e)
<1> DEFINE aged(f) == IF f.left = Perm THEN f ELSE [f EXCEPT !.left = @ - 1]
<1>1. e \in EffectItem
  BY DEF PanelOK, TypeOK
<1>2. aged(e).spell = e.spell /\ aged(e).target = e.target
  BY <1>1 DEF EffectItem
<1>3. aged(e) \in effects'
  BY DEF Timeout, Ticked
<1> HIDE DEF aged
<1> QED
  BY <1>2, <1>3 DEF Still

\* What the player has cast on a mob stays until its time is up or the mob is
\* gone, but for casts under an earlier id, which a list of the mob that leaves
\* them out takes (buffList's reap, action(), the sweep, delSpawn, killSpawn).
THEOREM CastsStay == Spec => OwnCastsStay
<1> DEFINE Reaping(e) == /\ e.by # pc.id
                         /\ \E listed \in Lists, mine \in SUBSET Spells :
                              e.spell \notin DOMAIN listed /\ BuffListMob(e.target, listed, mine)
           Stays == \A e \in effects :
                      e.by # 0 /\ e.target # 0 /\ Gone(e)
                      => \/ e.left = 0 /\ Timeout
                         \/ Leaves(e.target)
                         \/ Reaping(e)
<1>1. ASSUME PanelOK, Next
      PROVE  Stays
  <2> SUFFICES ASSUME NEW e \in effects, ~Still(e)
               PROVE  (e.left = 0 /\ Timeout) \/ Leaves(e.target) \/ Reaping(e)
    BY DEF Still, Gone
  <2> HIDE DEF Reaping
  <2>1. CASE Timeout
    BY <1>1, <2>1, TimeoutLeaves
  <2>2. CASE Packet
    <3>1. effects' # effects
      BY DEF Still
    <3>2. CASE SelfDie
      BY <3>1, <3>2 DEF SelfDie, Quiet, Leaves
    <3>3. CASE NewWorld \/ \E c \in Chars : ProfileEql(c)
      BY <3>1, <3>3 DEF NewWorld, ProfileEql, Quiet
    <3>4. CASE ZoneChangeLive
      BY <3>4 DEF ZoneChangeLive, Leaves
    <3>5. ASSUME NEW c \in Chars, NEW listed \in Lists, ZonePlayerLive(c, listed)
          PROVE  Leaves(e.target)
      <4>1. c # pc.name
        BY <3>1, <3>5 DEF ZonePlayerLive
      <4> QED
        BY <3>5, <4>1 DEF Leaves
    <3>6. ASSUME NEW id \in Ids, Despawn(id) \/ Die(id) \/ SelfId(id)
          PROVE  Leaves(e.target)
      <4>1. effects' = {f \in effects : f.target # id}
        BY <3>6 DEF Despawn, Die, SelfId, DelSpawn, KillSpawn
      <4>2. id = e.target
        BY <4>1 DEF Still
      <4> QED
        BY <3>6, <4>2 DEF Leaves
    <3>7. CASE \E id \in Ids : \E name \in Chars \cup {"mob"} : Appear(id, name)
      BY <3>1, <3>7 DEF Appear, Quiet
    <3>8. CASE \E id \in Ids : \E sp \in Spells : BuffFade(id, sp)
      BY <3>1, <3>8 DEF BuffFade
    <3>9. CASE \E id \in Ids : \E sp \in Spells : \E left \in {Lasts[sp]} \cup 1 .. MaxTicks :
                 Buff(id, sp, left)
      BY <3>1, <3>9 DEF Buff
    <3>10. CASE \E id \in Ids : \E listed \in Lists : BuffListPanel(id, listed)
      BY <3>1, <3>10 DEF BuffListPanel
    <3>11. ASSUME NEW id \in Ids, NEW listed \in Lists, NEW mine \in SUBSET DOMAIN listed,
                  BuffListMob(id, listed, mine)
           PROVE  Reaping(e)
      <4>1. e \in Reaped(id, listed)
        BY <1>1, <3>11, BuffListMobLeaves
      <4>2. e.target = id /\ e.by # pc.id /\ e.spell \notin DOMAIN listed
        BY <4>1 DEF Reaped
      <4>3. mine \in SUBSET Spells
        BY DEF Lists
      <4> QED
        BY <3>11, <4>2, <4>3 DEF Reaping
    <3>12. CASE \E id \in Ids \cup {0} : \E sp \in Spells : \E own \in BOOLEAN : Action(id, sp, own)
      BY <1>1, <3>12, ActionLeaves
    <3>13. CASE BuffListNone
      BY <3>1, <3>13 DEF BuffListNone, Quiet
    <3> QED
      BY <2>2, <3>2, <3>3, <3>4, <3>5, <3>6, <3>7, <3>8, <3>9, <3>10, <3>11, <3>12, <3>13 DEF Packet
  <2> QED
    BY <1>1, <2>1, <2>2 DEF Next
<1>2. ASSUME PanelOK, [Next]_vars
      PROVE  [Stays]_vars
  BY <1>1, <1>2
<1> QED
  BY <1>2, PanelCountsDown, PTL DEF Spec, OwnCastsStay

-----------------------------------------------------------------------------
\* What a search returns for each spell asked for: nothing, or one entry of it.
LEMMA MatchesOne ==
  ASSUME NEW S, NEW D, NEW id, NEW name, NEW h \in Matches(S, D, id, name), NEW sp \in D
  PROVE  h[sp] = {} \/ \E e \in S : h[sp] = {e} /\ e.spell = sp
<1>1. h[sp] \in IF FindSpell(S, sp, id, name) = {} THEN {{}}
                ELSE {{e} : e \in FindSpell(S, sp, id, name)}
  BY DEF Matches
<1> QED
  BY <1>1 DEF FindSpell

\* A list of the player that holds a record is what the panel shows, with its
\* times, whatever was on the panel before, and nothing of it under an id the
\* player had (buffList).
THEOREM PanelIsTheList == Spec => ListIsPanel
<1> DEFINE Shows == \A id \in Ids, listed \in Lists :
                      BuffListPanel(id, listed) =>
                        /\ {e.spell : e \in spells'} = DOMAIN listed
                        /\ \A sp \in DOMAIN listed :
                             \E e \in spells' : e.spell = sp /\ e.left = listed[sp]
                        /\ \A e \in spells' : e.name = PlayerName => e.target \in {pc.id, 0}
<1>1. ASSUME PanelOK
      PROVE  Shows
  <2> SUFFICES ASSUME NEW id \in Ids, NEW listed \in Lists, BuffListPanel(id, listed)
               PROVE  /\ {e.spell : e \in spells'} = DOMAIN listed
                      /\ \A sp \in DOMAIN listed :
                           \E e \in spells' : e.spell = sp /\ e.left = listed[sp]
                      /\ \A e \in spells' : e.name = PlayerName => e.target \in {pc.id, 0}
    OBVIOUS
  <2> DEFINE kept == spells \ Orphans
             D == DOMAIN listed
             update(sp, e) == [e EXCEPT !.left = listed[sp]]
             new(sp) == NewBuff(sp, pc.id, PlayerName, listed[sp])
  <2>1. PICK h \in Matches(kept, D, pc.id, PlayerName) :
          spells' = {e \in Merged(kept, D, h, UNION {{update(sp, e) : e \in h[sp]} : sp \in D},
                                  {new(sp) : sp \in Added(D, h)}) : e.spell \in D}
    BY DEF BuffListPanel
  <2>2. \A e \in kept : e \in PanelItem /\ (e.name = PlayerName => e.target = pc.id)
    BY <1>1 DEF PanelOK, TypeOK, Orphans
  <2>3. \A sp \in D : \A e \in kept :
          /\ update(sp, e).spell = e.spell /\ update(sp, e).left = listed[sp]
          /\ update(sp, e).name = e.name /\ update(sp, e).target = e.target
    BY <2>2 DEF PanelItem
  <2>4. \A sp \in D : /\ new(sp).spell = sp /\ new(sp).left = listed[sp]
                      /\ new(sp).target \in {pc.id, 0}
    BY DEF NewBuff, Filed
  <2>5. \A sp \in D : h[sp] = {} \/ \E e \in kept : h[sp] = {e} /\ e.spell = sp
    BY MatchesOne
  <2> HIDE DEF kept, D, update, new
  <2>6. ASSUME NEW sp \in D
        PROVE  \E e \in spells' : e.spell = sp /\ e.left = listed[sp]
    <3>1. CASE h[sp] = {}
      <4>1. new(sp) \in spells'
        BY <2>1, <2>4, <3>1 DEF Merged, Added
      <4> QED
        BY <2>4, <4>1
    <3>2. ASSUME NEW e \in kept, h[sp] = {e}, e.spell = sp
          PROVE  \E f \in spells' : f.spell = sp /\ f.left = listed[sp]
      <4>1. update(sp, e) \in spells'
        BY <2>1, <2>3, <3>2 DEF Merged
      <4> QED
        BY <2>3, <3>2, <4>1
    <3> QED
      BY <2>5, <3>1, <3>2
  <2>7. ASSUME NEW e \in spells', e.name = PlayerName
        PROVE  e.target \in {pc.id, 0}
    <3>1. \/ e \in kept
          \/ \E sp \in D : \E f \in h[sp] : e = update(sp, f)
          \/ \E sp \in D : e = new(sp)
      BY <2>1 DEF Merged, Added
    <3>2. \A sp \in D : h[sp] \subseteq kept
      BY <2>5
    <3> QED
      BY <2>2, <2>3, <2>4, <2>7, <3>1, <3>2
  <2>8. {e.spell : e \in spells'} = D
    BY <2>1, <2>6
  <2> QED
    BY <2>6, <2>7, <2>8 DEF D
<1> HIDE DEF Shows
<1>2. ASSUME PanelOK, [Next]_vars
      PROVE  [Shows]_vars
  BY <1>1, <1>2
<1> QED
  BY <1>2, PanelCountsDown, PTL DEF Spec, ListIsPanel, Shows
=============================================================================
