-------------------------- MODULE SpawnMonitorProofs --------------------------
(***************************************************************************)
(* Proofs about SpawnMonitor for every set of zones, places, ids and       *)
(* labels, whichever calls of the saves and loads fail.  The invariant has *)
(* six parts that hold each other up: the flag is honest because a whole   *)
(* save writes exactly the points in memory, nothing is lost because what  *)
(* is not saved is already on disk (the flag), a failed save leaves what a *)
(* crash in it would leave, and a countdown never runs over a live mob     *)
(* because a point's last id is that of the mob that popped there last, or *)
(* nobody's (LastSeen).                                                    *)
(***************************************************************************)
EXTENDS SpawnMonitor, TLAPS

\* A point remembers the mob that popped there last, or none.
LastSeen ==
  \A k \in DOMAIN points :
    newest[k] # NoMob => points[k].last \in {NoMob, newest[k]}

Inv ==
  /\ RecordsOK /\ FlagHonest /\ NothingLost
  /\ Recoverable /\ NoFalseCountdown /\ LastSeen

-----------------------------------------------------------------------------
(* Maps.                                                                   *)

\* A map is a function on some of the places.
LEMMA MapIs ==
  ASSUME NEW V, NEW m \in Map(V)
  PROVE  /\ DOMAIN m \subseteq Keys /\ m = [k \in DOMAIN m |-> m[k]]
         /\ \A k \in DOMAIN m : m[k] \in V
BY DEF Map

\* A function on some of the places is a map.
LEMMA IsMap ==
  ASSUME NEW V, NEW S \in SUBSET Keys, NEW m \in [S -> V]
  PROVE  m \in Map(V)
BY DEF Map

\* Put and Without leave maps, and Without loses one place only.
LEMMA PutMap ==
  ASSUME NEW V, NEW m \in Map(V), NEW k \in Keys, NEW v \in V
  PROVE  /\ Put(m, k, v) \in Map(V) /\ DOMAIN Put(m, k, v) = DOMAIN m \cup {k}
         /\ Put(m, k, v)[k] = v
         /\ \A j \in DOMAIN m : j # k => Put(m, k, v)[j] = m[j]
<1>1. DOMAIN m \cup {k} \in SUBSET Keys /\ \A j \in DOMAIN m : m[j] \in V
  BY MapIs
<1>2. Put(m, k, v) \in [DOMAIN m \cup {k} -> V]
  BY <1>1 DEF Put
<1> QED BY <1>1, <1>2, IsMap DEF Put

LEMMA WithoutMap ==
  ASSUME NEW V, NEW m \in Map(V), NEW k
  PROVE  Without(m, k) \in Map(V) /\ DOMAIN Without(m, k) = DOMAIN m \ {k}
<1>1. DOMAIN m \ {k} \in SUBSET Keys /\ \A j \in DOMAIN m : m[j] \in V
  BY MapIs
<1>2. Without(m, k) \in [DOMAIN m \ {k} -> V]
  BY <1>1 DEF Without
<1> QED BY <1>1, <1>2, IsMap DEF Without

\* The empty map.
LEMMA NothingMap == ASSUME NEW V PROVE Nothing \in Map(V) /\ DOMAIN Nothing = {}
<1>1. Nothing \in [{} -> V]
  BY DEF Nothing
<1> QED BY <1>1, IsMap DEF Nothing
-----------------------------------------------------------------------------
(* What is written, and what is read back.                                 *)

\* What is stored of the points is a file's content, for the same places.
LEMMA StoredMap ==
  ASSUME NEW pts \in Map(Point)
  PROVE  /\ Stored(pts) \in Map(Line) /\ DOMAIN Stored(pts) = DOMAIN pts
         /\ Stored(pts) # NoFile
<1>1. DOMAIN pts \in SUBSET Keys /\ \A k \in DOMAIN pts : pts[k] \in Point
  BY MapIs
<1>2. Stored(pts) \in [DOMAIN pts -> Line]
  BY <1>1 DEF Stored, Point, Line
<1>3. Stored(pts) \in Map(Line)
  BY <1>1, <1>2, IsMap
<1> QED BY <1>3, NoFileAssumption DEF Stored

LEMMA ContentMap ==
  ASSUME NEW sp \in Map(Line) \cup {NoFile}
  PROVE  Content(sp) \in Map(Line) /\ (sp # NoFile => Content(sp) = sp)
BY NothingMap DEF Content

\* Loading gives back what was written: the same places, and storing the
\* loaded points again would write the same file.  No mob is known, and no
\* countdown is one from a kill.
LEMMA LoadedBack ==
  ASSUME NEW sp \in Map(Line) \cup {NoFile}
  PROVE  /\ Loaded(sp) \in Map(Point) /\ DOMAIN Loaded(sp) = DOMAIN Content(sp)
         /\ Stored(Loaded(sp)) = Content(sp)
         /\ \A k \in DOMAIN Loaded(sp) :
              Loaded(sp)[k].last = NoMob /\ Loaded(sp)[k].dead # "kill"
<1> DEFINE D == DOMAIN Content(sp)
           L == Loaded(sp)
<1>1. /\ D \in SUBSET Keys /\ Content(sp) = [k \in D |-> Content(sp)[k]]
      /\ \A k \in D : Content(sp)[k] \in Line /\ sp[k] = Content(sp)[k]
  <2>1. Content(sp) \in Map(Line) /\ (sp # NoFile => Content(sp) = sp)
    BY ContentMap
  <2>2. sp = NoFile => D = {}
    BY NothingMap DEF Content
  <2> QED BY <2>1, <2>2, MapIs
<1>2. L = [k \in D |-> [label |-> sp[k].label, cycle |-> sp[k].cycle, last |-> NoMob,
                        dead |-> IF sp[k].cycle = "none" THEN "none" ELSE "load"]]
  BY DEF Loaded
<1>3. DOMAIN L = D /\ \A k \in D :
         /\ L[k] \in Point /\ L[k].last = NoMob /\ L[k].dead # "kill"
         /\ L[k].label = sp[k].label /\ L[k].cycle = sp[k].cycle
  <2>1. \A k \in D : sp[k].label \in Labels /\ sp[k].cycle \in Death
    BY <1>1 DEF Line
  <2> HIDE DEF D, L
  <2> QED BY <2>1, <1>2 DEF Point, Death
<1>4. L \in Map(Point)
  <2>1. L \in [D -> Point]
    BY <1>2, <1>3
  <2> HIDE DEF D, L
  <2> QED BY <2>1, <1>1, IsMap
<1>5. Stored(L) = Content(sp)
  <2>1. Stored(L) = [k \in D |-> [label |-> sp[k].label, cycle |-> sp[k].cycle]]
    BY <1>3 DEF Stored
  <2>2. \A k \in D : [label |-> sp[k].label, cycle |-> sp[k].cycle] = Content(sp)[k]
    BY <1>1 DEF Line
  <2> HIDE DEF D, L
  <2> QED BY <2>1, <2>2, <1>1
<1> QED BY <1>3, <1>4, <1>5
-----------------------------------------------------------------------------
(* The save.                                                               *)

\* A whole save leaves exactly the points it was given in <zone>.sp.
LEMMA SaveReplaces ==
  ASSUME NEW f \in File, NEW c \in Map(Line)
  PROVE  Replaced(f, c, "none") \in File /\ Replaced(f, c, "none").sp = c
BY DEF Replaced, Promote, OutOfTheWay, ToBackup, ClearBackup, File

\* A save one of whose calls fails leaves what a crash before it would leave.
LEMMA FailedIsInterrupted ==
  ASSUME NEW f \in File, NEW c, NEW fault
  PROVE  Replaced(f, c, fault) \in Interrupted(f, c)
<1>1. CASE f.sp = NoFile
  BY <1>1 DEF Replaced, Promote, Interrupted, OutOfTheWay
<1>2. CASE f.sp # NoFile /\ fault = "remove"
  <2>1. ClearBackup(f, fault) = f
    BY <1>2 DEF ClearBackup
  <2>2. CASE f.bak
    BY <1>2, <2>1, <2>2 DEF Replaced, Promote, Interrupted, OutOfTheWay, ToBackup
  <2>3. CASE ~f.bak
    <3>1. ClearBackup(f, "none") = f
      BY <2>3 DEF ClearBackup, File
    <3> QED BY <1>2, <2>1, <3>1 DEF Replaced, Promote, Interrupted, OutOfTheWay, ToBackup
  <2> QED BY <2>2, <2>3
<1>3. CASE f.sp # NoFile /\ fault = "backup"
  <2>1. /\ ClearBackup(f, fault) = ClearBackup(f, "none")
        /\ ClearBackup(f, "none").sp = f.sp
    BY <1>3 DEF ClearBackup, File
  <2>2. Replaced(f, c, fault) = ClearBackup(f, "none")
    BY <1>3, <2>1 DEF Replaced, Promote, OutOfTheWay, ToBackup
  <2> QED BY <1>3, <2>2 DEF Interrupted
<1>4. CASE f.sp # NoFile /\ fault \notin {"remove", "backup"}
  <2>1. OutOfTheWay(f, fault) = OutOfTheWay(f, "none")
    BY <1>4 DEF OutOfTheWay, ToBackup, ClearBackup
  <2>2. Replaced(f, c, fault) \in {OutOfTheWay(f, "none"), Replaced(f, c, "none")}
    BY <2>1 DEF Replaced, Promote
  <2> QED BY <2>2 DEF Interrupted
<1> QED BY <1>1, <1>2, <1>3, <1>4

\* A crash in a save leaves well-formed files, and never takes away the last
\* whole copy.
LEMMA CrashKeepsCopy ==
  ASSUME NEW f \in File, NEW c \in Map(Line), NEW g \in Interrupted(f, c)
  PROVE  /\ g \in File
         /\ (f.sp # NoFile \/ f.bak) => (g.sp # NoFile \/ g.bak)
<1>1. c # NoFile
  BY NoFileAssumption
<1>2. Replaced(f, c, "none") \in File /\ Replaced(f, c, "none").sp = c
  BY SaveReplaces
<1>3. CASE g = Replaced(f, c, "none")
  BY <1>1, <1>2, <1>3
<1>4. CASE g # Replaced(f, c, "none")
  BY <1>4 DEF Interrupted, OutOfTheWay, ToBackup, ClearBackup, File
<1> QED BY <1>3, <1>4

\* What Save leaves of the files and of the set of saved zones.
LEMMA SaveStep ==
  ASSUME TypeOK, Recoverable, NEW pts \in Map(Point), NEW m \in BOOLEAN,
         NEW fault, Save(pts, m, fault)
  PROVE  /\ files' \in [Zones -> File] /\ saved' \subseteq Zones
         /\ \A z \in Zones : z # zone => files'[z] = files[z]
         /\ Saving(m, fault) /\ fault = "none"
              => zone \in Zones /\ files'[zone].sp = Stored(pts)
         /\ ~Saving(m, fault) => files' = files
         /\ \A z \in saved' : files'[z].sp # NoFile \/ files'[z].bak
<1> DEFINE g == Replaced(files[zone], Stored(pts), fault)
<1>1. Stored(pts) \in Map(Line) /\ Stored(pts) # NoFile
  BY StoredMap
<1>2. CASE Saving(m, fault)
  <2>1. zone \in Zones /\ files[zone] \in File
    BY <1>2 DEF Saving, Due, TypeOK
  <2>2. files' = [files EXCEPT ![zone] = g]
    BY <1>2 DEF Save
  <2>3. /\ g \in File
        /\ (files[zone].sp # NoFile \/ files[zone].bak) => (g.sp # NoFile \/ g.bak)
    BY <1>1, <2>1, FailedIsInterrupted, CrashKeepsCopy
  <2>4. fault = "none" => g.sp = Stored(pts)
    BY <1>1, <2>1, SaveReplaces
  <2>5. saved' = IF fault = "none" THEN saved \cup {zone} ELSE saved
    BY <1>2 DEF Save
  <2> HIDE DEF g
  <2>6. /\ files' \in [Zones -> File] /\ files'[zone] = g
        /\ \A z \in Zones : z # zone => files'[z] = files[z]
    BY <2>1, <2>2, <2>3 DEF TypeOK
  <2>7. saved \subseteq Zones
    BY DEF TypeOK
  <2>8. ASSUME NEW z \in saved' PROVE files'[z].sp # NoFile \/ files'[z].bak
    <3>1. CASE z \in saved
      BY <2>3, <2>6, <2>7, <3>1 DEF Recoverable
    <3>2. CASE z \notin saved
      BY <1>1, <2>4, <2>5, <2>6, <3>2
    <3> QED BY <3>1, <3>2
  <2> QED BY <1>2, <2>1, <2>4, <2>5, <2>6, <2>7, <2>8
<1>3. CASE ~Saving(m, fault)
  BY <1>3 DEF Save, TypeOK, Recoverable
<1> QED BY <1>2, <1>3

\* When memory is dropped after a save of the points, the places learnt in a
\* zone, less what a fault cost, are all on disk.
LEMMA DroppedSafely ==
  ASSUME Inv, NEW fault, NEW unread, Save(points, modified, fault),
         Forget(Failing(fault), unread)
  PROVE  /\ learnt' \in [Zones -> SUBSET Keys]
         /\ \A z \in Zones : learnt'[z] \subseteq DOMAIN Content(files'[z].sp)
         /\ \A z \in Zones : z = unread => learnt'[z] = {}
<1> USE DEF Inv, RecordsOK
<1>1. /\ points \in Map(Point) /\ modified \in BOOLEAN /\ slipped \in BOOLEAN
      /\ learnt \in [Zones -> SUBSET Keys]
  BY DEF TypeOK
<1>2. /\ \A z \in Zones : z # zone => files'[z] = files[z]
      /\ Saving(modified, fault) /\ fault = "none" => files'[zone].sp = Stored(points)
      /\ ~Saving(modified, fault) => files' = files
  BY <1>1, SaveStep
<1>3. CASE Failing(fault)
  BY <1>1, <1>3 DEF Forget
<1>4. CASE ~Failing(fault)
  <2>1. \A z \in Zones : learnt'[z] = IF z = unread THEN {} ELSE learnt[z]
    BY <1>4 DEF Forget
  <2>2. learnt' \in [Zones -> SUBSET Keys]
    BY <1>1, <1>4 DEF Forget
  <2>3. ASSUME NEW z \in Zones, z # zone
        PROVE  learnt[z] \subseteq DOMAIN Content(files'[z].sp)
    BY <2>3, <1>2 DEF NothingLost
  <2>4. ASSUME zone \in Zones
        PROVE  learnt[zone] \subseteq DOMAIN Content(files'[zone].sp)
    <3>1. learnt[zone] \subseteq DOMAIN points
      BY <2>4 DEF NothingLost
    <3>2. DOMAIN Stored(points) = DOMAIN points /\ Stored(points) # NoFile
      BY <1>1, StoredMap
    <3>3. CASE Due(modified)
      <4>1. fault = "none" /\ Saving(modified, fault)
        BY <1>4, <3>3 DEF Failing, Saving
      <4> QED BY <1>2, <3>1, <3>2, <4>1 DEF Content
    <3>4. CASE ~Due(modified)
      <4>1. ~modified /\ ~slipped /\ zone # NoZone
        BY <1>4, <3>4, <2>4, MonitorAssumption DEF Failing, Due
      <4>2. Stored(points) = Content(files[zone].sp)
        BY <4>1 DEF FlagHonest
      <4>3. files' = files
        BY <1>2, <3>4 DEF Saving
      <4> QED BY <3>1, <3>2, <4>2, <4>3
    <3> QED BY <3>3, <3>4
  <2> QED BY <2>1, <2>2, <2>3, <2>4
<1> QED BY <1>3, <1>4

\* Loading a zone's file establishes the parts of the invariant about memory;
\* a file that cannot be opened leaves none, and has `slipped` say so.
LEMMA LoadStep ==
  ASSUME NEW z \in Zones, NEW m \in BOOLEAN, NEW opens \in BOOLEAN,
         Load(z, m, opens), files' \in [Zones -> File],
         \A y \in Zones : learnt'[y] \subseteq DOMAIN Content(files'[y].sp),
         ~opens => learnt'[z] = {}
  PROVE  /\ zone' = z /\ modified' \in BOOLEAN /\ slipped' \in BOOLEAN
         /\ cands' \in Map(Candidate) /\ points' \in Map(Point)
         /\ DOMAIN cands' \cap DOMAIN points' = {}
         /\ FlagHonest' /\ NothingLost' /\ NoFalseCountdown' /\ LastSeen'
<1> DEFINE sp == IF opens THEN files'[z].sp ELSE NoFile
<1>1. sp \in Map(Line) \cup {NoFile}
  BY DEF File
<1>2. points' = Loaded(sp) /\ zone' = z /\ cands' = Nothing
  BY DEF Load
<1>3. modified' = (m /\ sp = NoFile) /\ slipped' = ~(opens \/ m)
  BY DEF Load
<1>4. (opens => sp = files'[z].sp) /\ (~opens => sp = NoFile)
  OBVIOUS
<1> HIDE DEF sp
<1>5. /\ Loaded(sp) \in Map(Point) /\ DOMAIN Loaded(sp) = DOMAIN Content(sp)
      /\ Stored(Loaded(sp)) = Content(sp)
      /\ \A k \in DOMAIN Loaded(sp) :
           Loaded(sp)[k].last = NoMob /\ Loaded(sp)[k].dead # "kill"
  BY <1>1, LoadedBack
<1>6. Nothing \in Map(Candidate) /\ DOMAIN Nothing = {}
  BY NothingMap
<1>7. FlagHonest'
  <2>1. ~modified' /\ ~slipped' => opens
    BY <1>3, <1>4
  <2> QED BY <1>2, <1>4, <1>5, <2>1 DEF FlagHonest
<1>8. NothingLost'
  <2>1. learnt'[z] \subseteq DOMAIN Loaded(sp)
    BY <1>4, <1>5
  <2> QED BY <1>2, <2>1 DEF NothingLost
<1>9. NoFalseCountdown' /\ LastSeen'
  BY <1>2, <1>5 DEF NoFalseCountdown, LastSeen
<1>10. modified' \in BOOLEAN /\ slipped' \in BOOLEAN
  BY <1>3
<1> QED BY <1>2, <1>5, <1>6, <1>7, <1>8, <1>9, <1>10
-----------------------------------------------------------------------------
(* The steps.                                                              *)

LEMMA InitInv == Init => Inv
<1> SUFFICES ASSUME Init PROVE Inv
  OBVIOUS
<1>1. /\ Nothing \in Map(Candidate) /\ Nothing \in Map(Point) /\ DOMAIN Nothing = {}
  BY NothingMap
<1>2. files \in [Zones -> File]
  BY DEF Init, File
<1>3. TypeOK
  <2>1. learnt \in [Zones -> SUBSET Keys] /\ newest \in [Keys -> Ids \cup {NoMob}]
    BY DEF Init
  <2>2. pops \in 0 .. MaxPops
    BY MonitorAssumption DEF Init
  <2> QED BY <1>1, <1>2, <2>1, <2>2 DEF Init, TypeOK
<1>4. Recoverable /\ NoFalseCountdown /\ LastSeen
  BY <1>1 DEF Init, Recoverable, NoFalseCountdown, LastSeen
<1>5. NothingLost /\ FlagHonest
  BY DEF Init, NothingLost, FlagHonest
<1> QED BY <1>1, <1>3, <1>4, <1>5 DEF Inv, RecordsOK, Init

\* A pop puts the point it updates or promotes under the living mob.
LEMMA PopStep ==
  ASSUME Inv, NEW i \in Ids, NEW k \in Keys, NEW quick \in BOOLEAN, Pop(i, k, quick)
  PROVE  Inv'
<1> USE DEF Inv, RecordsOK
<1>1. /\ cands \in Map(Candidate) /\ points \in Map(Point)
      /\ newest \in [Keys -> Ids \cup {NoMob}] /\ learnt \in [Zones -> SUBSET Keys]
      /\ i # NoMob
  BY MonitorAssumption DEF TypeOK
<1>2. /\ DOMAIN cands \subseteq Keys /\ DOMAIN points \subseteq Keys
      /\ \A j \in DOMAIN cands : cands[j] \in Candidate
      /\ \A j \in DOMAIN points : points[j] \in Point
  BY <1>1, MapIs
<1>3. /\ newest' \in [Keys -> Ids \cup {NoMob}] /\ newest'[k] = i
      /\ \A j \in Keys : j # k => newest'[j] = newest[j]
  BY <1>1 DEF Pop
<1>4. /\ mobs' \subseteq Ids /\ pops' \in 0 .. MaxPops
      /\ zone' = zone /\ files' = files /\ saved' = saved
  BY MonitorAssumption DEF Pop, TypeOK
<1>5. ASSUME NEW p, NEW label \in Labels, NEW cycle \in Death, NEW dead \in Death,
             p = Updated(label, cycle, dead, i, quick),
             points' = Put(points, k, p), modified' = TRUE, slipped' = FALSE,
             cands' \in Map(Candidate), DOMAIN cands' \cap (DOMAIN points \cup {k}) = {},
             learnt' \in [Zones -> SUBSET Keys],
             \A z \in Zones : learnt'[z] \subseteq
                               learnt[z] \cup (IF z = zone THEN {k} ELSE {})
      PROVE  Inv'
  <2>1. p \in Point /\ p.last = i /\ p.dead = "none"
    BY <1>5 DEF Updated, Point, Death
  <2>2. /\ points' \in Map(Point) /\ DOMAIN points' = DOMAIN points \cup {k}
        /\ points'[k] = p /\ \A j \in DOMAIN points : j # k => points'[j] = points[j]
    BY <1>1, <1>5, <2>1, PutMap
  <2>3. TypeOK'
    BY <1>3, <1>4, <1>5, <2>2 DEF TypeOK
  <2>4. NoFalseCountdown' /\ LastSeen'
    BY <1>2, <1>3, <2>1, <2>2 DEF NoFalseCountdown, LastSeen
  <2>5. NothingLost'
    BY <1>4, <1>5, <2>2 DEF NothingLost
  <2>6. FlagHonest' /\ Recoverable'
    BY <1>4, <1>5 DEF FlagHonest, Recoverable
  <2> QED BY <1>5, <2>2, <2>3, <2>4, <2>5, <2>6
<1>6. CASE k \in DOMAIN points
  <2>1. /\ points' = Put(points, k, Updated(points[k].label, points[k].cycle,
                                           points[k].dead, i, quick))
        /\ modified' = TRUE /\ slipped' = FALSE
        /\ cands' = cands /\ learnt' = learnt
    BY <1>6 DEF Pop
  <2>2. /\ points[k].label \in Labels /\ points[k].cycle \in Death
        /\ points[k].dead \in Death
    BY <1>2, <1>6 DEF Point
  <2> QED BY <1>1, <1>5, <1>6, <2>1, <2>2
<1>7. CASE k \notin DOMAIN points /\ k \in DOMAIN cands
  <2>1. /\ points' = Put(points, k, Updated(Unnamed, "none", cands[k].dead, i, quick))
        /\ modified' = TRUE /\ slipped' = FALSE /\ cands' = Without(cands, k)
        /\ learnt' = [z \in Zones |-> learnt[z] \cup (IF z = zone THEN {k} ELSE {})]
    BY <1>7 DEF Pop
  <2>2. Unnamed \in Labels /\ "none" \in Death /\ cands[k].dead \in Death
    BY <1>2, <1>7, MonitorAssumption DEF Candidate, Death
  <2>3. Without(cands, k) \in Map(Candidate) /\ DOMAIN Without(cands, k) = DOMAIN cands \ {k}
    BY <1>1, WithoutMap
  <2>4. learnt' \in [Zones -> SUBSET Keys]
    BY <1>1, <2>1
  <2> QED BY <1>5, <2>1, <2>2, <2>3, <2>4
<1>8. CASE k \notin DOMAIN points /\ k \notin DOMAIN cands
  <2>1. /\ cands' = Put(cands, k, [last |-> i, dead |-> "none"])
        /\ points' = points /\ modified' = modified /\ slipped' = slipped
        /\ learnt' = learnt
    BY <1>8 DEF Pop
  <2>2. [last |-> i, dead |-> "none"] \in Candidate
    BY DEF Candidate, Death
  <2>3. cands' \in Map(Candidate) /\ DOMAIN cands' = DOMAIN cands \cup {k}
    <3>1. cands' = Put(cands, k, [last |-> i, dead |-> "none"])
      BY <2>1
    <3> QED BY <1>1, <2>2, <3>1, PutMap
  <2>4. TypeOK'
    BY <1>3, <1>4, <2>1, <2>3 DEF TypeOK
  <2>5. NoFalseCountdown' /\ LastSeen'
    BY <1>2, <1>3, <1>8, <2>1 DEF NoFalseCountdown, LastSeen
  <2>6. FlagHonest' /\ Recoverable' /\ NothingLost'
    BY <1>4, <2>1 DEF FlagHonest, Recoverable, NothingLost
  <2> QED BY <1>8, <2>1, <2>3, <2>4, <2>5, <2>6
<1> QED BY <1>6, <1>7, <1>8

\* When mob i is gone, no place has it as its living mob any more.
LEMMA GoneFacts ==
  ASSUME newest \in [Keys -> Ids \cup {NoMob}], NEW i
  PROVE  /\ Gone(i) \in [Keys -> Ids \cup {NoMob}]
         /\ \A k \in Keys :
              Gone(i)[k] = NoMob \/ (Gone(i)[k] = newest[k] /\ Gone(i)[k] # i)
BY DEF Gone

\* A death starts the countdown of a point whose last mob is gone by then.
LEMMA DieStep ==
  ASSUME Inv, NEW i \in Ids, Die(i)
  PROVE  Inv'
<1> USE DEF Inv, RecordsOK
<1>1. /\ cands \in Map(Candidate) /\ points \in Map(Point)
      /\ newest \in [Keys -> Ids \cup {NoMob}] /\ i # NoMob
  BY MonitorAssumption DEF TypeOK
<1>2. /\ DOMAIN points \subseteq Keys /\ DOMAIN cands \subseteq Keys
      /\ \A j \in DOMAIN points : points[j] \in Point
  BY <1>1, MapIs
<1>3. /\ newest' \in [Keys -> Ids \cup {NoMob}]
      /\ \A k \in Keys : newest'[k] = IF newest[k] = i THEN NoMob ELSE newest[k]
  BY <1>1, GoneFacts DEF Die, Gone
<1>4. /\ zone' = zone /\ modified' = modified /\ files' = files /\ mobs' = mobs
      /\ pops' = pops /\ learnt' = learnt /\ saved' = saved
      /\ slipped' = slipped
  BY DEF Die
<1>5. ASSUME NEW k \in DOMAIN points, points[k].last = i, cands' = cands,
             points' = [points EXCEPT ![k].last = NoMob, ![k].dead = "kill"]
      PROVE  Inv'
  <2> DEFINE p == [points[k] EXCEPT !.last = NoMob, !.dead = "kill"]
  <2>1. p \in Point /\ p.last = NoMob /\ p.label = points[k].label
                   /\ p.cycle = points[k].cycle
    BY <1>2 DEF Point, Death
  <2>2. points' = Put(points, k, p)
    <3>1. points = [j \in DOMAIN points |-> points[j]]
      BY <1>1, MapIs
    <3> QED BY <1>5, <3>1 DEF Put
  <2> HIDE DEF p
  <2>3. /\ points' \in Map(Point) /\ DOMAIN points' = DOMAIN points \cup {k}
        /\ points'[k] = p /\ \A j \in DOMAIN points : j # k => points'[j] = points[j]
    <3>1. k \in Keys
      BY <1>2
    <3>2. /\ Put(points, k, p) \in Map(Point)
          /\ DOMAIN Put(points, k, p) = DOMAIN points \cup {k}
          /\ Put(points, k, p)[k] = p
          /\ \A j \in DOMAIN points : j # k => Put(points, k, p)[j] = points[j]
      BY <1>1, <2>1, <3>1, PutMap
    <3> QED BY <2>2, <3>2
  <2>4. TypeOK'
    BY <1>3, <1>4, <1>5, <2>3 DEF TypeOK
  <2>5. newest'[k] = NoMob
    BY <1>1, <1>2, <1>3, <1>5 DEF LastSeen
  <2>6. NoFalseCountdown' /\ LastSeen'
    BY <1>1, <1>2, <1>3, <2>1, <2>3, <2>5 DEF NoFalseCountdown, LastSeen
  <2>7. Stored(points') = Stored(points)
    BY <2>1, <2>3 DEF Stored
  <2>8. FlagHonest' /\ Recoverable' /\ NothingLost'
    BY <1>4, <2>3, <2>7 DEF FlagHonest, Recoverable, NothingLost
  <2> QED BY <1>5, <2>3, <2>4, <2>6, <2>8
<1>6. ASSUME points' = points, cands' \in Map(Candidate), DOMAIN cands' = DOMAIN cands
      PROVE  Inv'
  <2>1. TypeOK'
    BY <1>3, <1>4, <1>6 DEF TypeOK
  <2>2. NoFalseCountdown' /\ LastSeen'
    BY <1>1, <1>2, <1>3, <1>6 DEF NoFalseCountdown, LastSeen
  <2>3. FlagHonest' /\ Recoverable' /\ NothingLost'
    BY <1>4, <1>6 DEF FlagHonest, Recoverable, NothingLost
  <2> QED BY <1>6, <2>1, <2>2, <2>3
<1>7. CASE \E k \in DOMAIN points : points[k].last = i
           /\ points' = [points EXCEPT ![k].last = NoMob, ![k].dead = "kill"]
           /\ cands' = cands
  BY <1>5, <1>7
<1>8. CASE /\ \E k \in DOMAIN cands :
                cands' = Put(cands, k, [last |-> NoMob, dead |-> "kill"])
           /\ points' = points
  <2>1. [last |-> NoMob, dead |-> "kill"] \in Candidate
    BY DEF Candidate, Death
  <2>2. PICK k \in DOMAIN cands : cands' = Put(cands, k, [last |-> NoMob, dead |-> "kill"])
    BY <1>8
  <2>3. k \in Keys
    BY <1>2
  <2>4. cands' \in Map(Candidate) /\ DOMAIN cands' = DOMAIN cands \cup {k}
    BY <1>1, <2>1, <2>2, <2>3, PutMap
  <2> QED BY <1>6, <1>8, <2>4
<1>9. CASE points' = points /\ cands' = cands
  BY <1>1, <1>6, <1>9
<1> QED BY <1>7, <1>8, <1>9 DEF Die

\* A save of renamed points writes them; one that cannot open its file leaves
\* the flag up, and one that fails later has `slipped` say so.
LEMMA RenameStep ==
  ASSUME Inv, NEW k \in Keys, NEW label \in Labels, NEW fault,
         Rename(k, label, fault)
  PROVE  Inv'
<1> USE DEF Inv, RecordsOK
<1> DEFINE p   == [points[k] EXCEPT !.label = label]
           pts == [points EXCEPT ![k].label = label]
<1>1. /\ points \in Map(Point) /\ k \in DOMAIN points
      /\ points' = pts /\ Save(pts, TRUE, fault)
      /\ modified' = StillModified(TRUE, fault)
      /\ slipped' = (Saving(TRUE, fault) /\ fault # "none")
      /\ zone' = zone /\ cands' = cands /\ mobs' = mobs /\ newest' = newest
      /\ pops' = pops /\ learnt' = learnt
  BY DEF Rename, TypeOK
<1>2. DOMAIN points \subseteq Keys /\ \A j \in DOMAIN points : points[j] \in Point
  BY <1>1, MapIs
<1>3. p \in Point /\ p.last = points[k].last /\ p.dead = points[k].dead
  BY <1>1, <1>2 DEF Point
<1>4. pts = Put(points, k, p)
  <2>1. points = [j \in DOMAIN points |-> points[j]]
    BY <1>1, MapIs
  <2> QED BY <1>1, <2>1 DEF Put
<1> HIDE DEF p, pts
<1>5. /\ pts \in Map(Point) /\ DOMAIN pts = DOMAIN points
      /\ pts[k] = p /\ \A j \in DOMAIN points : j # k => pts[j] = points[j]
  <2>1. pts \in Map(Point) /\ DOMAIN pts = DOMAIN points \cup {k}
        /\ pts[k] = p /\ \A j \in DOMAIN points : j # k => pts[j] = points[j]
    <3>1. /\ Put(points, k, p) \in Map(Point)
          /\ DOMAIN Put(points, k, p) = DOMAIN points \cup {k}
          /\ Put(points, k, p)[k] = p
          /\ \A j \in DOMAIN points : j # k => Put(points, k, p)[j] = points[j]
      BY <1>1, <1>3, PutMap
    <3> QED BY <1>4, <3>1
  <2> QED BY <1>1, <2>1
<1>6. /\ files' \in [Zones -> File] /\ saved' \subseteq Zones
      /\ \A z \in Zones : z # zone => files'[z] = files[z]
      /\ Saving(TRUE, fault) /\ fault = "none"
           => zone \in Zones /\ files'[zone].sp = Stored(pts)
      /\ \A z \in saved' : files'[z].sp # NoFile \/ files'[z].bak
  BY <1>1, <1>5, SaveStep
<1>7. TypeOK'
  BY <1>1, <1>5, <1>6 DEF TypeOK, StillModified, Saving, Due
<1>8. NoFalseCountdown' /\ LastSeen'
  BY <1>1, <1>3, <1>5 DEF NoFalseCountdown, LastSeen
<1>9. FlagHonest'
  <2>1. zone # NoZone /\ ~modified' /\ ~slipped' => Saving(TRUE, fault) /\ fault = "none"
    BY <1>1 DEF StillModified
  <2>2. Stored(pts) # NoFile
    BY <1>5, StoredMap
  <2> QED BY <1>1, <1>6, <2>1, <2>2 DEF FlagHonest, Content
<1>10. NothingLost'
  BY <1>1, <1>5, <1>6 DEF NothingLost
<1> QED BY <1>1, <1>5, <1>6, <1>7, <1>8, <1>9, <1>10 DEF Recoverable

\* Entering a zone, or the hand-off to a process that starts in one: what was
\* learnt is on disk, and the memory is the zone's file.
LEMMA EnterStep ==
  ASSUME Inv, NEW z \in Zones, NEW m \in BOOLEAN, NEW fault,
         NEW opens \in BOOLEAN,
         Save(points, modified, fault), Load(z, m, opens),
         Forget(Failing(fault), Unread(z, opens)),
         mobs' \subseteq Ids, newest' \in [Keys -> Ids \cup {NoMob}],
         pops' = pops
  PROVE  Inv'
<1> USE DEF Inv, RecordsOK
<1>1. points \in Map(Point) /\ modified \in BOOLEAN
  BY DEF TypeOK
<1>2. /\ files' \in [Zones -> File] /\ saved' \subseteq Zones
      /\ \A y \in saved' : files'[y].sp # NoFile \/ files'[y].bak
  BY <1>1, SaveStep
<1>3. /\ learnt' \in [Zones -> SUBSET Keys]
      /\ \A y \in Zones : learnt'[y] \subseteq DOMAIN Content(files'[y].sp)
      /\ ~opens => learnt'[z] = {}
  BY DroppedSafely DEF Unread
<1>4. /\ zone' = z /\ modified' \in BOOLEAN /\ slipped' \in BOOLEAN
      /\ cands' \in Map(Candidate) /\ points' \in Map(Point)
      /\ DOMAIN cands' \cap DOMAIN points' = {}
      /\ FlagHonest' /\ NothingLost' /\ NoFalseCountdown' /\ LastSeen'
  BY <1>2, <1>3, LoadStep
<1>5. TypeOK'
  BY <1>2, <1>3, <1>4 DEF TypeOK
<1> QED BY <1>2, <1>4, <1>5 DEF Recoverable

\* A new process starts with an empty memory, everything learnt being on disk.
LEMMA RestartStep ==
  ASSUME Inv, Restart, files' \in [Zones -> File], saved' \subseteq Zones,
         pops' = pops,
         learnt' \in [Zones -> SUBSET Keys],
         \A z \in Zones : learnt'[z] \subseteq DOMAIN Content(files'[z].sp),
         \A z \in saved' : files'[z].sp # NoFile \/ files'[z].bak
  PROVE  Inv'
<1> USE DEF Inv, RecordsOK
<1>1. /\ Nothing \in Map(Candidate) /\ Nothing \in Map(Point) /\ DOMAIN Nothing = {}
  BY NothingMap
<1>2. /\ zone' = NoZone /\ cands' = Nothing /\ points' = Nothing
      /\ modified' = FALSE /\ slipped' = FALSE /\ mobs' = {}
      /\ newest' = [k \in Keys |-> NoMob]
  BY DEF Restart
<1>3. TypeOK'
  BY <1>1, <1>2 DEF TypeOK, NoMob
<1>4. NoFalseCountdown' /\ LastSeen' /\ FlagHonest' /\ Recoverable'
  BY <1>1, <1>2 DEF NoFalseCountdown, LastSeen, FlagHonest, Recoverable
<1>5. NothingLost'
  BY <1>2, MonitorAssumption DEF NothingLost
<1> QED BY <1>1, <1>2, <1>3, <1>4, <1>5

LEMMA CrashStep == ASSUME Inv, Crash PROVE Inv'
<1> USE DEF Inv, RecordsOK
<1>1. /\ points \in Map(Point) /\ files \in [Zones -> File]
      /\ learnt \in [Zones -> SUBSET Keys]
  BY DEF TypeOK
<1>2. /\ files' \in [Zones -> File]
      /\ \A z \in Zones : (files[z].sp # NoFile \/ files[z].bak)
                            => (files'[z].sp # NoFile \/ files'[z].bak)
  <2>1. CASE Due(modified)
    <3>1. zone \in Zones /\ Stored(points) \in Map(Line)
      BY <1>1, <2>1, StoredMap DEF Due, TypeOK
    <3>2. PICK g \in Interrupted(files[zone], Stored(points)) :
            files' = [files EXCEPT ![zone] = g]
      BY <2>1 DEF Crash
    <3>3. /\ g \in File
          /\ (files[zone].sp # NoFile \/ files[zone].bak) => (g.sp # NoFile \/ g.bak)
      BY <1>1, <3>1, <3>2, CrashKeepsCopy
    <3> QED BY <1>1, <3>1, <3>2, <3>3
  <2>2. CASE ~Due(modified)
    BY <1>1, <2>2 DEF Crash
  <2> QED BY <2>1, <2>2
<1>3. learnt' = [z \in Zones |-> learnt[z] \cap DOMAIN Content(files'[z].sp)]
  BY MonitorAssumption DEF Crash, Forget
<1>4. saved' = saved /\ Restart /\ pops' = pops
  BY DEF Crash, Restart
<1>5. saved' \subseteq Zones /\ \A z \in saved' : files'[z].sp # NoFile \/ files'[z].bak
  BY <1>2, <1>4 DEF TypeOK, Recoverable
<1> QED BY <1>1, <1>2, <1>3, <1>4, <1>5, RestartStep

LEMMA StepInv == Inv /\ [Next]_vars => Inv'
<1> SUFFICES ASSUME Inv, [Next]_vars PROVE Inv'
  OBVIOUS
<1> USE DEF Inv, RecordsOK
<1>0. /\ newest \in [Keys -> Ids \cup {NoMob}] /\ mobs \subseteq Ids
      /\ modified \in BOOLEAN /\ points \in Map(Point)
      /\ NoMob \in Ids \cup {NoMob}
  BY DEF TypeOK
<1>1. ASSUME NEW i \in Ids, NEW k \in Keys, NEW quick \in BOOLEAN, Pop(i, k, quick)
      PROVE  Inv'
  BY <1>1, PopStep
<1>2. ASSUME NEW i \in Ids, Die(i) PROVE Inv'
  BY <1>2, DieStep
<1>3. ASSUME NEW i \in Ids, Depart(i) PROVE Inv'
  <2>1. /\ newest' \in [Keys -> Ids \cup {NoMob}] /\ mobs' \subseteq Ids
        /\ \A k \in Keys : newest'[k] \in {NoMob, newest[k]}
    BY <1>0, <1>3, GoneFacts DEF Depart, Gone
  <2>2. TypeOK'
    BY <1>3, <2>1 DEF Depart, TypeOK
  <2>3. DOMAIN points \subseteq Keys
    BY <1>0, MapIs
  <2>4. NoFalseCountdown' /\ LastSeen'
    BY <1>3, <2>1, <2>3 DEF Depart, NoFalseCountdown, LastSeen
  <2>5. FlagHonest' /\ NothingLost' /\ Recoverable'
    BY <1>3 DEF Depart, FlagHonest, NothingLost, Recoverable
  <2> QED BY <1>3, <2>2, <2>4, <2>5 DEF Depart
<1>4. CASE ZoneBegin
  <2>1. TypeOK'
    BY <1>0, <1>4 DEF ZoneBegin, TypeOK
  <2>2. NoFalseCountdown' /\ LastSeen'
    <3>1. DOMAIN points \subseteq Keys
      BY <1>0, MapIs
    <3> QED BY <1>4, <3>1 DEF ZoneBegin, NoFalseCountdown, LastSeen
  <2>3. FlagHonest' /\ NothingLost' /\ Recoverable'
    BY <1>4 DEF ZoneBegin, FlagHonest, NothingLost, Recoverable
  <2> QED BY <1>4, <2>1, <2>2, <2>3 DEF ZoneBegin
<1>5. ASSUME NEW z \in Zones, NEW fault, NEW opens \in BOOLEAN,
             ZoneChanged(z, fault, opens) \/ ZoneEnd(z, fault, opens)
      PROVE  Inv'
  <2>1. /\ Save(points, modified, fault)
        /\ Load(z, StillModified(modified, fault), opens)
        /\ Forget(Failing(fault), Unread(z, opens)) /\ pops' = pops
    BY <1>5 DEF ZoneChanged, ZoneEnd, Enter
  <2>2. newest' \in [Keys -> Ids \cup {NoMob}] /\ mobs' \subseteq Ids
    BY <1>0, <1>5 DEF ZoneChanged, ZoneEnd
  <2>3. StillModified(modified, fault) \in BOOLEAN
    BY DEF StillModified, Saving, Due
  <2> QED BY <2>1, <2>2, <2>3, EnterStep
<1>6. ASSUME NEW z \in Zones, NEW fault, NEW opens \in BOOLEAN, HandOff(z, fault, opens)
      PROVE  Inv'
  <2>1. PICK m \in BOOLEAN : Load(z, m, opens)
    BY <1>6 DEF HandOff
  <2>2. /\ Save(points, modified, fault) /\ Forget(Failing(fault), Unread(z, opens))
        /\ newest' \in [Keys -> Ids \cup {NoMob}] /\ mobs' \subseteq Ids
        /\ pops' = pops
    BY <1>0, <1>6 DEF HandOff
  <2> QED BY <2>1, <2>2, EnterStep
<1>7. ASSUME NEW k \in Keys, NEW label \in Labels, NEW fault, Rename(k, label, fault)
      PROVE  Inv'
  BY <1>7, RenameStep
<1>8. ASSUME NEW fault, Quit(fault) PROVE Inv'
  <2>1. /\ Save(points, modified, fault) /\ Restart /\ Forget(Failing(fault), NoZone)
        /\ pops' = pops
    BY <1>8 DEF Quit, Restart
  <2>2. /\ files' \in [Zones -> File] /\ saved' \subseteq Zones
        /\ \A y \in saved' : files'[y].sp # NoFile \/ files'[y].bak
    BY <1>0, <2>1, SaveStep
  <2>3. /\ learnt' \in [Zones -> SUBSET Keys]
        /\ \A y \in Zones : learnt'[y] \subseteq DOMAIN Content(files'[y].sp)
    BY <2>1, DroppedSafely
  <2> QED BY <2>1, <2>2, <2>3, RestartStep
<1>9. CASE Crash
  BY <1>9, CrashStep
<1>10. CASE UNCHANGED vars
  BY <1>10 DEF vars, TypeOK, FlagHonest, NothingLost, Recoverable, NoFalseCountdown,
     LastSeen
<1> QED BY <1>1, <1>2, <1>3, <1>4, <1>5, <1>6, <1>7, <1>8, <1>9, <1>10 DEF Next

THEOREM Invariant == Spec => []Inv
BY InitInv, StepInv, PTL DEF Spec

\* Every reachable state is well typed, and no place is both a candidate and a
\* spawn point (checkSpawnPoint).
THEOREM OneRecordPerPlace == Spec => []RecordsOK
<1>1. Inv => RecordsOK
  BY DEF Inv
<1> QED BY <1>1, Invariant, PTL

\* m_modified is FALSE only when <zone>.sp holds exactly the points in memory,
\* but between a save whose renames broke, or a load that could not open its
\* file, and the next change (saveSpawnPoints, loadSpawnPoints).
THEOREM FlagIsHonest == Spec => []FlagHonest
<1>1. Inv => FlagHonest
  BY DEF Inv
<1> QED BY <1>1, Invariant, PTL

\* What is learnt in a zone survives zoning, quitting, handing over and coming
\* back, unless a call of a save or a load fails or the daemon crashes
\* (zoneChanged, zoneEnd, exportHandoffState).
THEOREM LearntIsKept == Spec => []NothingLost
<1>1. Inv => NothingLost
  BY DEF Inv
<1> QED BY <1>1, Invariant, PTL

\* A whole copy of a saved zone's points is on disk at every moment of every
\* later save, whichever of its calls fail (saveSpawnPoints' chain of renames).
THEOREM CopySurvives == Spec => []Recoverable
<1>1. Inv => Recoverable
  BY DEF Inv
<1> QED BY <1>1, Invariant, PTL

\* No countdown of a kill runs over a living mob (killSpawn, update).
THEOREM CountdownsAreTrue == Spec => []NoFalseCountdown
<1>1. Inv => NoFalseCountdown
  BY DEF Inv
<1> QED BY <1>1, Invariant, PTL
==============================================================================
