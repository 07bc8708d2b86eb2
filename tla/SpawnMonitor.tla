----------------------------- MODULE SpawnMonitor -----------------------------
(***************************************************************************)
(* SpawnMonitor (src/src/spawnmonitor.cpp) learns where NPCs pop and how   *)
(* long they take to come back.  A first pop at a place makes a candidate, *)
(* the second promotes it to a spawn point; the points of a zone are kept  *)
(* in <zone>.sp, which is written when the zone is left, when the daemon   *)
(* quits or hands over to a new binary, and when a client renames a point. *)
(*                                                                         *)
(* The monitor hears SpawnShell's addItem and killSpawn, not its delItem,  *)
(* and two of ZoneMgr's signals, zoneChanged and zoneEnd: a zone entered   *)
(* by any other signal (EQL's zoneResolved, Live's profile) goes unheard.  *)
(* The daemon may crash at any moment, also between two steps of a save,   *)
(* and every call of a save or of a load may fail.                         *)
(*                                                                         *)
(* Times are abstracted to what they were measured from: a death time is   *)
(* that of a kill or the moment of loading, and so is the cycle (the       *)
(* respawn time) computed from it.  Pop counts and names are left out.     *)
(***************************************************************************)
EXTENDS Naturals, FiniteSets

CONSTANTS
  Zones,    \* short zone names
  NoZone,   \* the empty name a monitor starts with
  Keys,     \* places, SpawnPoint::key
  Ids,      \* spawn ids, which the server gives out again
  Labels,   \* the names a client gives a point
  Unnamed,  \* the empty name
  NoFile,   \* there is no <zone>.sp
  MaxPops   \* bound: how many NPCs pop

NoMob == 0   \* m_lastID of a point whose mob has died or was never seen

ASSUME MonitorAssumption ==
  /\ NoZone \notin Zones
  /\ Ids \subseteq Nat \ {NoMob}
  /\ Unnamed \in Labels
  /\ MaxPops \in Nat

VARIABLES
  zone,      \* m_zoneName
  cands,     \* m_spawns: place -> candidate
  points,    \* m_points: place -> spawn point
  modified,  \* m_modified
  files,     \* zone -> its files in the spawnpoints directory
  mobs,      \* environment: ids of the spawns and corpses SpawnShell holds
  newest,    \* environment: the mob that popped last at a place, while alive
  pops,      \* environment: how many NPCs have popped
  learnt,    \* history: the points promoted in each zone, less what a crash
             \* or a call that failed has cost
  saved,     \* history: zones whose points have been saved once
  slipped    \* history: m_modified is clear after a save whose chain of renames
             \* broke, or after a load that could not open its file

vars == <<zone, cands, points, modified, files, mobs, newest, pops,
          learnt, saved, slipped>>

Nothing == [k \in {} |-> k]   \* an empty map

\* dead is m_deathTime: unset, the time of a kill, or the time of loading;
\* cycle is m_diffTime: zero, or measured from such a time.
Death == {"none", "kill", "load"}
Candidate == [last : Ids \cup {NoMob}, dead : Death]
Point == [label : Labels, cycle : Death, last : Ids \cup {NoMob}, dead : Death]
Line  == [label : Labels, cycle : Death]
Map(V) == UNION {[S -> V] : S \in SUBSET Keys}
File  == [sp : Map(Line) \cup {NoFile}, bak : BOOLEAN]

ASSUME NoFileAssumption == NoFile \notin Map(Line)

\* What saveSpawnPoints writes of the points.
Stored(pts) ==
  [k \in DOMAIN pts |-> [label |-> pts[k].label, cycle |-> pts[k].cycle]]

Content(sp) == IF sp = NoFile THEN Nothing ELSE sp

\* What loadSpawnPoints makes of a file: a countdown runs at once.
Loaded(sp) ==
  [k \in DOMAIN Content(sp) |->
     [label |-> sp[k].label, cycle |-> sp[k].cycle, last |-> NoMob,
      dead |-> IF sp[k].cycle = "none" THEN "none" ELSE "load"]]
-----------------------------------------------------------------------------
(* The save, file by file.  Of <zone>.sp.bak only the presence is kept,    *)
(* and <zone>.sp.new is left out: no code reads them.  QDir::rename        *)
(* refuses a target that exists.  `fault` is the call of the save that     *)
(* fails: the opening of the new file ("open"), the removal of a leftover  *)
(* backup, or a rename.                                                    *)

\* Mutant: a leftover backup is not cleared.
ClearBackupNot(f, fault) == f

ClearBackup(f, fault) == IF fault = "remove" THEN f ELSE [f EXCEPT !.bak = FALSE]

\* Mutant: the old file is removed, not moved.
ToBackupRemoved(f, fault) ==
  IF f.bak \/ fault = "backup" THEN f ELSE [f EXCEPT !.sp = NoFile]

ToBackup(f, fault) ==
  IF f.bak \/ fault = "backup" THEN f ELSE [f EXCEPT !.sp = NoFile, !.bak = TRUE]

\* The new file is left where it is unless the old one was moved away.
Promote(f, c, fault) ==
  IF f.sp # NoFile \/ fault = "promote" THEN f ELSE [f EXCEPT !.sp = c]

\* The steps of saveSpawnPoints up to the last rename, and the whole of it.
OutOfTheWay(f, fault) ==
  IF f.sp = NoFile THEN f ELSE ToBackup(ClearBackup(f, fault), fault)

Replaced(f, c, fault) == Promote(OutOfTheWay(f, fault), c, fault)

\* Where a crash can leave the files of a zone.
Interrupted(f, c) ==
  {f, OutOfTheWay(f, "none"), Replaced(f, c, "none")}
    \cup (IF f.sp = NoFile THEN {} ELSE {ClearBackup(f, "none")})

\* saveSpawnPoints of pts with the flag at m.  When the new file cannot be
\* opened everything stays as it was, the flag included; when a later call
\* fails the save only warns, and goes on to clear the flag.
Due(m)           == m /\ zone # NoZone
Saving(m, fault) == Due(m) /\ fault # "open"
Save(pts, m, fault) ==
  /\ files' = IF Saving(m, fault)
              THEN [files EXCEPT ![zone] = Replaced(@, Stored(pts), fault)] ELSE files
  /\ saved' = IF Saving(m, fault) /\ fault = "none" THEN saved \cup {zone} ELSE saved

\* The flag after the save.
StillModified(m, fault) == m /\ ~Saving(m, fault)

\* What may fail of a save with the flag at m: only a call that is made.
Faults(m) ==
  {"none"} \cup
  (IF ~Due(m) THEN {}
   ELSE {"open", "promote"}
          \cup (IF files[zone].sp # NoFile THEN {"backup"} ELSE {})
          \cup (IF files[zone].sp # NoFile /\ files[zone].bak THEN {"remove"} ELSE {}))

\* History: when memory is dropped after a fault, what was not on disk is lost,
\* and so is what a file held that could not be read (that of zone `unread`).
Forget(fault, unread) ==
  learnt' = [z \in Zones |->
               IF z = unread THEN {}
               ELSE IF fault THEN learnt[z] \cap DOMAIN Content(files'[z].sp)
               ELSE learnt[z]]

\* A save that fails, or that is skipped because the last one cleared the flag.
Failing(fault) == IF Due(modified) THEN fault # "none" ELSE slipped
-----------------------------------------------------------------------------
Init ==
  /\ zone = NoZone /\ cands = Nothing /\ points = Nothing /\ modified = FALSE
  /\ files = [z \in Zones |-> [sp |-> NoFile, bak |-> FALSE]]
  /\ mobs = {} /\ newest = [k \in Keys |-> NoMob] /\ pops = 0
  /\ learnt = [z \in Zones |-> {}] /\ saved = {} /\ slipped = FALSE

\* Mutant: the death time outlives the mob's return.
UpdatedStaysDead(label, cycle, dead, i, quick) ==
  [label |-> label, last |-> i, dead |-> dead,
   cycle |-> IF dead = "none" THEN cycle ELSE IF quick THEN "none" ELSE dead]

\* SpawnPoint::update: the cycle is the time since the death time, which is
\* zero when both fall into one second (quick).
Updated(label, cycle, dead, i, quick) ==
  [label |-> label, last |-> i, dead |-> "none",
   cycle |-> IF dead = "none" THEN cycle ELSE IF quick THEN "none" ELSE dead]

Put(map, k, v) == [j \in DOMAIN map \cup {k} |-> IF j = k THEN v ELSE map[j]]

\* Mutant: a promoted candidate stays in the pool of candidates.
WithoutKept(map, k) == map

Without(map, k) == [j \in DOMAIN map \ {k} |-> map[j]]

\* SpawnShell adds an NPC: newSpawn, checkSpawnPoint.
Pop(i, k, quick) ==
  /\ i \notin mobs /\ pops < MaxPops
  /\ pops' = pops + 1
  /\ mobs' = mobs \cup {i}
  /\ newest' = [newest EXCEPT ![k] = i]
  /\ \/ /\ k \in DOMAIN points
        /\ points' = LET p == points[k]
                     IN  Put(points, k, Updated(p.label, p.cycle, p.dead, i, quick))
        /\ modified' = TRUE /\ slipped' = FALSE
        /\ UNCHANGED <<cands, learnt>>
     \/ /\ k \notin DOMAIN points /\ k \in DOMAIN cands
        /\ points' = Put(points, k, Updated(Unnamed, "none", cands[k].dead, i, quick))
        /\ cands' = Without(cands, k)
        /\ modified' = TRUE /\ slipped' = FALSE
        /\ learnt' = [z \in Zones |-> learnt[z] \cup (IF z = zone THEN {k} ELSE {})]
     \/ /\ k \notin DOMAIN points /\ k \notin DOMAIN cands
        /\ cands' = Put(cands, k, [last |-> i, dead |-> "none"])
        /\ UNCHANGED <<points, modified, learnt, slipped>>
  /\ UNCHANGED <<zone, files, saved>>

Gone(i) == [k \in Keys |-> IF newest[k] = i THEN NoMob ELSE newest[k]]

\* SpawnShell reports a death, or the same death again for its corpse:
\* killSpawn restarts the first point, failing that the first candidate, that
\* saw this id last.
Die(i) ==
  /\ i \in mobs
  /\ newest' = Gone(i)
  /\ LET mine   == {k \in DOMAIN points : points[k].last = i}
         others == {k \in DOMAIN cands : cands[k].last = i}
     IN  \/ \E k \in mine :
              /\ points' = [points EXCEPT ![k].last = NoMob, ![k].dead = "kill"]
              /\ UNCHANGED cands
         \/ /\ mine = {}
            /\ \E k \in others :
                 cands' = Put(cands, k, [last |-> NoMob, dead |-> "kill"])
            /\ UNCHANGED points
         \/ mine = {} /\ others = {} /\ UNCHANGED <<cands, points>>
  /\ UNCHANGED <<zone, modified, files, mobs, pops, learnt, saved, slipped>>

\* SpawnShell removes a mob or a corpse: the monitor does not hear of it.
Depart(i) ==
  /\ i \in mobs
  /\ mobs' = mobs \ {i}
  /\ newest' = Gone(i)
  /\ UNCHANGED <<zone, cands, points, modified, files, pops, learnt, saved, slipped>>

\* SpawnShell is emptied by a signal the monitor does not hear.
ZoneBegin ==
  /\ mobs # {}
  /\ mobs' = {} /\ newest' = [k \in Keys |-> NoMob]
  /\ UNCHANGED <<zone, cands, points, modified, files, pops, learnt, saved, slipped>>

\* clear and loadSpawnPoints of zone z, with the flag at m: without a file, or
\* when it cannot be opened, there are no points and the flag stays as it was.
Load(z, m, opens) ==
  LET sp == IF opens THEN files'[z].sp ELSE NoFile
  IN  /\ opens \/ files'[z].sp # NoFile
      /\ zone' = z
      /\ cands' = Nothing
      /\ points' = Loaded(sp)
      /\ modified' = (m /\ sp = NoFile)
      /\ slipped' = ~(opens \/ m)

\* The zone whose file is there and cannot be read.
Unread(z, opens) == IF opens THEN NoZone ELSE z

\* Mutant: the points of the zone left are cleared, then saved.
EnterCleared(z, fault, opens) ==
  /\ z # zone
  /\ Save(Nothing, modified, fault)
  /\ Load(z, StillModified(modified, fault), opens)
  /\ Forget(Failing(fault), Unread(z, opens))

Enter(z, fault, opens) ==
  /\ z # zone
  /\ Save(points, modified, fault)
  /\ Load(z, StillModified(modified, fault), opens)
  /\ Forget(Failing(fault), Unread(z, opens))

\* zoneChanged, which also empties SpawnShell.
ZoneChanged(z, fault, opens) ==
  /\ Enter(z, fault, opens)
  /\ mobs' = {} /\ newest' = [k \in Keys |-> NoMob]
  /\ UNCHANGED pops

\* zoneEnd: spawns that came before the zone's name are kept.
ZoneEnd(z, fault, opens) ==
  Enter(z, fault, opens) /\ UNCHANGED <<mobs, newest, pops>>

\* A client renames a point: SessionAdapter writes it through at once.
Rename(k, label, fault) ==
  /\ k \in DOMAIN points
  /\ LET pts == [points EXCEPT ![k].label = label]
     IN  points' = pts /\ Save(pts, TRUE, fault)
  /\ modified' = StillModified(TRUE, fault) /\ slipped' = (Saving(TRUE, fault) /\ fault # "none")
  /\ UNCHANGED <<zone, cands, mobs, newest, pops, learnt>>

\* A new process.
Restart ==
  /\ zone' = NoZone /\ cands' = Nothing /\ points' = Nothing
  /\ modified' = FALSE /\ slipped' = FALSE
  /\ mobs' = {} /\ newest' = [k \in Keys |-> NoMob]
  /\ UNCHANGED pops

\* The daemon quits (aboutToQuit saves) and is started again.
Quit(fault) ==
  /\ Save(points, modified, fault)
  /\ Restart
  /\ Forget(Failing(fault), NoZone)

\* The daemon crashes, perhaps in a save, and is started again.
Crash ==
  /\ files' \in IF Due(modified)
                THEN {[files EXCEPT ![zone] = f] :
                        f \in Interrupted(files[zone], Stored(points))}
                ELSE {files}
  /\ Restart
  /\ Forget(TRUE, NoZone)
  /\ UNCHANGED saved

\* The daemon hands over to a new binary that knows the zone by name: the
\* restored spawns are heard first (two of them at one place make a point and
\* set the flag), and then zoneChanged(z) clears what they left and loads.
HandOff(z, fault, opens) ==
  /\ Save(points, modified, fault)
  /\ \E m \in BOOLEAN : (m => Cardinality(mobs) > 1) /\ Load(z, m, opens)
  /\ newest' = [k \in Keys |-> NoMob]
  /\ Forget(Failing(fault), Unread(z, opens))
  /\ UNCHANGED <<mobs, pops>>

Next ==
  \/ \E i \in Ids, k \in Keys, quick \in BOOLEAN : Pop(i, k, quick)
  \/ \E i \in Ids : Die(i) \/ Depart(i)
  \/ ZoneBegin
  \/ \E z \in Zones, fault \in Faults(modified), opens \in BOOLEAN :
       \/ ZoneChanged(z, fault, opens)
       \/ ZoneEnd(z, fault, opens)
       \/ HandOff(z, fault, opens)
  \/ \E k \in Keys, label \in Labels, fault \in Faults(TRUE) : Rename(k, label, fault)
  \/ \E fault \in Faults(modified) : Quit(fault)
  \/ Crash

Spec == Init /\ [][Next]_vars
-----------------------------------------------------------------------------
(* Properties.                                                             *)

TypeOK ==
  /\ zone \in Zones \cup {NoZone} /\ modified \in BOOLEAN
  /\ cands \in Map(Candidate) /\ points \in Map(Point)
  /\ files \in [Zones -> File]
  /\ mobs \subseteq Ids /\ newest \in [Keys -> Ids \cup {NoMob}]
  /\ pops \in 0 .. MaxPops
  /\ learnt \in [Zones -> SUBSET Keys] /\ saved \subseteq Zones
  /\ slipped \in BOOLEAN

\* Types, and a place is a candidate or a point, never both: checkSpawnPoint
\* looks only into m_points once it is there, and deletes it only from there.
RecordsOK == TypeOK /\ DOMAIN cands \cap DOMAIN points = {}

\* m_modified may be FALSE only when <zone>.sp holds exactly the points in
\* memory: every pop, rename, file that could not be opened for writing, missing
\* file, leftover backup and restart before it included ("saveSpawnPoints()
\* short-circuits when m_modified is false").  The exceptions are `slipped`:
\* saveSpawnPoints clears the flag though one of its renames failed, and
\* loadSpawnPoints leaves it clear when it cannot open the file that is there.
\* They end when a point changes, which sets the flag, or with the next load.
FlagHonest ==
  zone # NoZone /\ ~modified /\ ~slipped => Stored(points) = Content(files[zone].sp)

\* A point learnt in a zone is never lost by zoning, quitting, handing over
\* or coming back: it is in memory while its zone is the monitor's, and on
\* disk otherwise; unless the daemon crashed, or a call of the save or the load
\* failed (Forget).
NothingLost ==
  \A z \in Zones :
    learnt[z] \subseteq IF z = zone THEN DOMAIN points
                        ELSE DOMAIN Content(files[z].sp)

\* Once the points of a zone have been saved, a whole copy of some save of
\* them is on disk at every step of every later save, as <zone>.sp or as its
\* backup, whichever calls of those saves fail and wherever a crash cuts them.
Recoverable == \A z \in saved : files[z].sp # NoFile \/ files[z].bak

\* No point counts down from a kill while the mob that popped there last is
\* alive ("clients see a non-zero death_time_s that never advances"), spawn
\* ids that are given out again included.
NoFalseCountdown ==
  \A k \in DOMAIN points : points[k].dead = "kill" => newest[k] = NoMob
==============================================================================
