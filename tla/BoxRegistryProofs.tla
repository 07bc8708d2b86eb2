-------------------------- MODULE BoxRegistryProofs --------------------------
(* Theorems about BoxRegistry, for every set of tuples and names and every *)
(* bound on the boxes.                                                     *)
EXTENDS BoxRegistry, WellFoundedInduction, TLAPS

-----------------------------------------------------------------------------
\* A non-empty set of box numbers has an earliest.
LEMMA EarliestIn ==
  ASSUME NEW s \in SUBSET Nat, s # {}
  PROVE  Earliest(s) \in s
<1> DEFINE less == {e \in Nat \X Nat : e[1] < e[2]}
<1>1. IsWellFoundedOn(less, Nat)
  BY NatLessThanWellFounded DEF OpToRel
<1>2. PICK p \in s : \A q \in s : ~(<<q, p>> \in less)
  <2> HIDE DEF less
  <2> QED
    BY <1>1, WFMin
<1>3. \A q \in s : p <= q
  <2> SUFFICES ASSUME NEW q \in s, q < p
               PROVE  FALSE
    OBVIOUS
  <2>1. <<q, p>> \in less
    OBVIOUS
  <2> QED
    BY <1>2, <2>1
<1> QED
  BY <1>3 DEF Earliest

\* What the properties rest on.  A row keeps the character viewed resolvable
\* though no box carries its id, and the other way round; so either will do.
BoxesInv ==
  /\ seen \in Nat
  /\ boxes = [p \in DOMAIN boxes |-> boxes[p]]
  /\ DOMAIN boxes \subseteq 1 .. seen
  /\ \A p \in DOMAIN boxes : boxes[p] \in Box
  /\ seen > 0 => Primary \in DOMAIN boxes

RowsInv == \A n \in DOMAIN rows : rows[n] \in DOMAIN boxes

Resolvable(bs, rs, i) == i \in DOMAIN rs \/ Holders(bs, i) # {}

RegInv ==
  /\ BoxesInv
  /\ RowsInv
  /\ active # NoId => Resolvable(boxes, rows, active)
  /\ seen > 0 => active # NoId

\* A resolvable id resolves to a live box.
LEMMA Resolves ==
  ASSUME RegInv, NEW i, Resolvable(boxes, rows, i)
  PROVE  /\ CurrentBoxFor(boxes, rows, i) \in DOMAIN boxes
         /\ i \notin DOMAIN rows =>
              CurrentBoxFor(boxes, rows, i) \in Holders(boxes, i)
<1>1. CASE i \in DOMAIN rows
  BY <1>1 DEF RegInv, RowsInv, CurrentBoxFor
<1>2. CASE i \notin DOMAIN rows
  <2>1. Holders(boxes, i) \in SUBSET Nat /\ Holders(boxes, i) # {}
    BY <1>2 DEF RegInv, BoxesInv, Resolvable, Holders
  <2>2. Earliest(Holders(boxes, i)) \in Holders(boxes, i)
    BY <2>1, EarliestIn
  <2> QED
    BY <1>2, <2>1, <2>2 DEF CurrentBoxFor, FindById, Holders
<1> QED
  BY <1>1, <1>2

\* Naming box p and its row keeps every other id, and gives n a row.
LEMMA NamedKeeps ==
  ASSUME BoxesInv, RowsInv, NEW p \in DOMAIN boxes, NEW n \in Names,
         NEW bs, bs = Named(boxes, p, n)
  PROVE  /\ DOMAIN bs = DOMAIN boxes
         /\ bs = [q \in DOMAIN bs |-> bs[q]]
         /\ \A q \in DOMAIN bs : bs[q] \in Box
         /\ \A q \in DOMAIN bs : q # p => bs[q] = boxes[q]
         /\ DOMAIN Upsert(bs, rows, p, n) = DOMAIN rows \cup {n}
         /\ \A c \in DOMAIN rows \cup {n} :
              Upsert(bs, rows, p, n)[c] \in DOMAIN boxes
<1>1. /\ DOMAIN bs = DOMAIN boxes
      /\ bs = [q \in DOMAIN bs |-> bs[q]]
      /\ \A q \in DOMAIN bs : bs[q] \in Box
      /\ \A q \in DOMAIN bs : q # p => bs[q] = boxes[q]
  <2>1. bs = [boxes EXCEPT ![p].name = n]
    BY DEF Named
  <2>2. [boxes[p] EXCEPT !.name = n] \in Box
    BY DEF BoxesInv, Box
  <2> QED
    BY <2>1, <2>2 DEF BoxesInv
<1>2. /\ DOMAIN Upsert(bs, rows, p, n) = DOMAIN rows \cup {n}
      /\ \A c \in DOMAIN rows \cup {n} :
           Upsert(bs, rows, p, n)[c] \in DOMAIN boxes
  BY DEF RowsInv, Upsert
<1> QED
  BY <1>1, <1>2

\* Whatever id was active, following the named box leaves it resolvable.
LEMMA FollowKeeps ==
  ASSUME BoxesInv, RowsInv, NEW p \in DOMAIN boxes, NEW n \in Names,
         Resolvable(boxes, rows, active),
         NEW bs, NEW rs, DOMAIN bs = DOMAIN boxes,
         \A q \in DOMAIN bs : q # p => Id(bs[q]) = Id(boxes[q]),
         DOMAIN rs = DOMAIN rows \cup {n}
  PROVE  Resolvable(bs, rs, Follow(active, Id(boxes[p]), n))
<1>1. CASE active = Id(boxes[p])
  BY <1>1 DEF Follow, Resolvable
<1>2. CASE active # Id(boxes[p]) /\ active \in DOMAIN rows
  BY <1>2 DEF Follow, Resolvable
<1>3. CASE active # Id(boxes[p]) /\ active \notin DOMAIN rows
  <2>1. PICK q \in DOMAIN boxes : Id(boxes[q]) = active
    BY <1>3 DEF Resolvable, Holders
  <2>2. q # p /\ Id(bs[q]) = active
    BY <1>3, <2>1
  <2> QED
    BY <1>3, <2>1, <2>2 DEF Follow, Resolvable, Holders
<1> QED
  BY <1>1, <1>2, <1>3

-----------------------------------------------------------------------------
(* Steps.                                                                  *)

LEMMA RegInit == Init => RegInv
BY DEF Init, RegInv, BoxesInv, RowsInv

LEMMA HearStep ==
  ASSUME RegInv, NEW p \in DOMAIN boxes, NEW v \in BOOLEAN,
         boxes' = [boxes EXCEPT ![p].silent = v],
         UNCHANGED <<rows, active, seen>>
  PROVE  RegInv'
<1>1. BoxesInv'
  <2>1. [boxes[p] EXCEPT !.silent = v] \in Box
    BY DEF RegInv, BoxesInv, Box
  <2> QED
    BY <2>1 DEF RegInv, BoxesInv
<1>2. RowsInv'
  BY DEF RegInv, RowsInv
<1>3. \A q \in DOMAIN boxes : Id(boxes'[q]) = Id(boxes[q])
  BY DEF RegInv, BoxesInv, Box, Id
<1>4. \A i : Holders(boxes', i) = Holders(boxes, i)
  BY <1>3 DEF Holders
<1> QED
  BY <1>1, <1>2, <1>4 DEF RegInv, Resolvable

LEMMA ObserveStep ==
  ASSUME RegInv, NEW t \in Tuples, NEW later \in BOOLEAN, now \in Nat,
         Observe(t, later)
  PROVE  RegInv'
<1> DEFINE b == [tuple |-> t, name |-> NoName, first |-> now',
                 silent |-> FALSE, state |-> "Pending"]
<1>1. /\ seen' = seen + 1 /\ seen \in Nat
      /\ rows' = rows
      /\ boxes' = [p \in DOMAIN boxes \cup {seen + 1} |->
                     IF p = seen + 1 THEN b ELSE boxes[p]]
      /\ active' = IF active = NoId THEN Id(b) ELSE active
  BY DEF RegInv, BoxesInv, Observe
<1>2. now' \in Nat
  BY DEF Observe
<1>3. b \in Box
  BY <1>2 DEF Box, States
<1>4. /\ DOMAIN boxes' = DOMAIN boxes \cup {seen + 1}
      /\ boxes'[seen + 1] = b
      /\ seen + 1 \notin DOMAIN boxes
      /\ \A q \in DOMAIN boxes : boxes'[q] = boxes[q]
  <2> HIDE DEF b
  <2> QED
    BY <1>1 DEF RegInv, BoxesInv
<1>5. BoxesInv'
  <2>1. \A q \in DOMAIN boxes' : boxes'[q] \in Box
    <3> HIDE DEF b
    <3> QED
      BY <1>3, <1>4 DEF RegInv, BoxesInv
  <2>2. boxes' = [q \in DOMAIN boxes' |-> boxes'[q]]
    <3> HIDE DEF b
    <3> QED
      BY <1>1
  <2>3. Primary \in DOMAIN boxes'
    <3> HIDE DEF b
    <3> QED
      BY <1>1, <1>4 DEF RegInv, BoxesInv, Primary
  <2>4. DOMAIN boxes' \subseteq 1 .. seen'
    <3> HIDE DEF b
    <3> QED
      BY <1>1, <1>4 DEF RegInv, BoxesInv
  <2>5. seen' \in Nat
    <3> HIDE DEF b
    <3> QED
      BY <1>1
  <2> HIDE DEF b
  <2> QED
    BY <2>1, <2>2, <2>3, <2>4, <2>5 DEF BoxesInv
<1>6. RowsInv'
  BY <1>1, <1>4 DEF RegInv, RowsInv
<1>7. Resolvable(boxes, rows, active)'
  <2>1. CASE active = NoId
    <3> HIDE DEF b
    <3>1. seen + 1 \in Holders(boxes', active')
      <4>1. active' = Id(boxes'[seen + 1]) /\ seen + 1 \in DOMAIN boxes'
        BY <1>1, <1>4, <2>1
      <4> QED
        BY <4>1 DEF Holders
    <3> QED
      BY <3>1 DEF Resolvable
  <2>2. CASE active # NoId
    <3> HIDE DEF b
    <3>1. Resolvable(boxes, rows, active)
      BY <2>2 DEF RegInv
    <3>2. active' = active /\ Holders(boxes, active) \subseteq Holders(boxes', active)
      BY <1>1, <1>4, <2>2 DEF Holders
    <3> QED
      BY <1>1, <3>1, <3>2 DEF Resolvable
  <2> QED
    BY <2>1, <2>2
<1>8. active' # NoId
  <2>1. Id(b) = t
    BY DEF Id
  <2> HIDE DEF b
  <2> QED
    BY <1>1, <2>1, RegistryAssumption
<1> QED
  BY <1>5, <1>6, <1>7, <1>8 DEF RegInv

LEMMA EnterWorldStep ==
  ASSUME RegInv, NEW p \in DOMAIN boxes, NEW n \in Names, EnterWorld(p, n)
  PROVE  RegInv'
<1>1. /\ boxes' = Named(boxes, p, n)
      /\ rows' = Upsert(boxes', rows, p, n)
      /\ active' = Follow(active, Id(boxes[p]), n)
      /\ seen' = seen
  BY DEF EnterWorld
<1>2. /\ DOMAIN boxes' = DOMAIN boxes
      /\ boxes' = [q \in DOMAIN boxes' |-> boxes'[q]]
      /\ \A q \in DOMAIN boxes' : boxes'[q] \in Box
      /\ \A q \in DOMAIN boxes' : q # p => boxes'[q] = boxes[q]
      /\ DOMAIN rows' = DOMAIN rows \cup {n}
      /\ \A c \in DOMAIN rows \cup {n} : rows'[c] \in DOMAIN boxes
  BY <1>1, NamedKeeps DEF RegInv
<1>3. BoxesInv' /\ RowsInv'
  BY <1>1, <1>2 DEF RegInv, BoxesInv, RowsInv
<1>4. active # NoId
  BY DEF RegInv, BoxesInv
<1>5. Resolvable(boxes, rows, active)'
  BY <1>1, <1>2, <1>4, FollowKeeps DEF RegInv
<1>6. active' # NoId
  BY <1>1, <1>4, RegistryAssumption DEF Follow
<1> QED
  BY <1>3, <1>5, <1>6 DEF RegInv

LEMMA ProfileStep ==
  ASSUME RegInv, NEW n \in Names, Profile(n)
  PROVE  RegInv'
<1> DEFINE p     == Primary
           named == Named(boxes, p, n)
           prior == \E q \in DOMAIN boxes : q # p /\ boxes[q].name = n
           act   == Follow(active, Id(boxes[p]), n)
           shown == FindById(named, act)
<1>1. /\ rows' = Upsert(named, rows, p, n)
      /\ active' \in {n, act}
      /\ boxes' = [q \in DOMAIN boxes |->
                     IF named[q].name # n THEN named[q]
                     ELSE [named[q] EXCEPT !.state =
                             IF q = rows'[n] THEN "Attached" ELSE "Superseded"]]
      /\ seen' = seen /\ seen > 0
  BY DEF Profile
<1>2. p \in DOMAIN boxes
  BY <1>1 DEF RegInv, BoxesInv
<1>a. named = Named(boxes, p, n)
  OBVIOUS
<1> HIDE DEF p, named
<1>3. /\ DOMAIN named = DOMAIN boxes
      /\ \A q \in DOMAIN named : named[q] \in Box
      /\ \A q \in DOMAIN named : q # p => named[q] = boxes[q]
      /\ DOMAIN rows' = DOMAIN rows \cup {n}
      /\ \A c \in DOMAIN rows \cup {n} : rows'[c] \in DOMAIN boxes
  <2>1. rows' = Upsert(named, rows, p, n)
    BY <1>1
  <2> QED
    BY <1>2, <1>a, <2>1, NamedKeeps DEF RegInv
<1>4. /\ DOMAIN boxes' = DOMAIN boxes
      /\ \A q \in DOMAIN boxes : /\ boxes'[q] \in Box
                                /\ Id(boxes'[q]) = Id(named[q])
  <2>1. DOMAIN boxes' = DOMAIN boxes
    BY <1>1
  <2> SUFFICES ASSUME NEW q \in DOMAIN boxes
               PROVE  boxes'[q] \in Box /\ Id(boxes'[q]) = Id(named[q])
    BY <2>1
  <2>2. named[q] \in Box
    BY <1>3
  <2>3. \/ boxes'[q] = named[q]
        \/ \E s \in States : boxes'[q] = [named[q] EXCEPT !.state = s]
    BY <1>1 DEF States
  <2> QED
    BY <2>2, <2>3 DEF Box, Id
<1>5. BoxesInv' /\ RowsInv'
  <2>1. boxes' = [q \in DOMAIN boxes' |-> boxes'[q]]
    BY <1>1
  <2> QED
    BY <1>1, <1>3, <1>4, <2>1 DEF RegInv, BoxesInv, RowsInv
<1>6. active # NoId
  BY <1>1 DEF RegInv
<1>7. Resolvable(boxes', rows', act)
  <2>1. \A q \in DOMAIN boxes' : q # p => Id(boxes'[q]) = Id(boxes[q])
    BY <1>3, <1>4
  <2> QED
    BY <1>2, <1>3, <1>4, <1>6, <2>1, FollowKeeps DEF RegInv
<1>8. Resolvable(boxes, rows, active)'
  BY <1>1, <1>3, <1>7 DEF Resolvable
<1>9. active' # NoId
  BY <1>1, <1>6, RegistryAssumption DEF Follow
<1> QED
  BY <1>5, <1>8, <1>9 DEF RegInv

LEMMA SetActiveStep ==
  ASSUME RegInv, NEW i \in Tuples \cup Names, SetActive(i)
  PROVE  RegInv'
<1>1. /\ active' = i /\ i # NoId
      /\ UNCHANGED <<boxes, rows, seen>>
      /\ Holders(boxes, i) # {}
  BY RegistryAssumption DEF SetActive, FindById
<1>2. BoxesInv' /\ RowsInv'
  BY <1>1 DEF RegInv, BoxesInv, RowsInv
<1> QED
  BY <1>1, <1>2 DEF RegInv, Resolvable, Holders

LEMMA EvictStep ==
  ASSUME RegInv, Evict
  PROVE  RegInv'
<1> DEFINE kept == DOMAIN boxes \ Stale
<1>1. /\ boxes' = [p \in kept |-> boxes[p]]
      /\ rows' = [n \in {m \in DOMAIN rows : rows[m] \notin Stale} |-> rows[n]]
      /\ UNCHANGED <<active, seen>>
  BY DEF Evict, Survivors, Restrict
<1>2. Primary \notin Stale
  BY DEF Stale
<1>3. BoxesInv'
  <2> HIDE DEF Primary
  <2> QED
    BY <1>1, <1>2 DEF RegInv, BoxesInv
<1>4. RowsInv'
  BY <1>1 DEF RegInv, RowsInv
<1>5. ASSUME active # NoId
      PROVE  Resolvable(boxes, rows, active)'
  <2> DEFINE live == CurrentBoxFor(boxes, rows, active)
  <2>1. /\ live \in DOMAIN boxes
        /\ active \notin DOMAIN rows => live \in Holders(boxes, active)
    BY <1>5, Resolves DEF RegInv
  <2>2. live \notin Stale
    BY DEF Stale
  <2>3. CASE active \in DOMAIN rows
    <3>1. rows[active] = live
      BY <2>3 DEF CurrentBoxFor
    <3> QED
      BY <1>1, <2>2, <2>3, <3>1 DEF Resolvable
  <2>4. CASE active \notin DOMAIN rows
    <3> HIDE DEF live
    <3> QED
      BY <1>1, <2>1, <2>2, <2>4 DEF Resolvable, Holders
  <2> QED
    BY <2>3, <2>4
<1> QED
  BY <1>1, <1>3, <1>4, <1>5 DEF RegInv

-----------------------------------------------------------------------------
(* The ranges of the clock, the rows and the id viewed.                    *)

RangesInv ==
  /\ seen \in 0 .. MaxBoxes /\ now \in 0 .. seen
  /\ DOMAIN rows \subseteq Names
  /\ active \in Tuples \cup Names \cup {NoId}

LEMMA RangesInit == Init => RangesInv
BY RegistryAssumption DEF Init, RangesInv

LEMMA RangesStep == RegInv /\ RangesInv /\ [Next]_vars => RangesInv'
<1> SUFFICES ASSUME RegInv, RangesInv, [Next]_vars
             PROVE  RangesInv'
  OBVIOUS
<1>1. ASSUME NEW p \in DOMAIN boxes, Hear(p) \/ FallSilent(p)
      PROVE  RangesInv'
  BY <1>1 DEF Hear, FallSilent, RangesInv
<1>2. ASSUME NEW t \in Tuples, NEW later \in BOOLEAN, Observe(t, later)
      PROVE  RangesInv'
  <2>1. seen' \in 0 .. MaxBoxes /\ now' \in 0 .. seen'
    BY <1>2, RegistryAssumption DEF Observe, RangesInv
  <2>2. active' \in {active, t} /\ rows' = rows
    BY <1>2 DEF Observe, Id
  <2> QED
    BY <2>1, <2>2 DEF RangesInv
<1>3. ASSUME NEW i \in Tuples \cup Names, SetActive(i)
      PROVE  RangesInv'
  BY <1>3 DEF SetActive, RangesInv
<1>4. ASSUME NEW p \in DOMAIN boxes, NEW n \in Names, EnterWorld(p, n)
      PROVE  RangesInv'
  <2>1. DOMAIN rows' = DOMAIN rows \cup {n} /\ active' \in {active, n}
    BY <1>4 DEF EnterWorld, Upsert, Follow
  <2>2. seen' = seen /\ now' = now
    BY <1>4 DEF EnterWorld
  <2> QED
    BY <2>1, <2>2 DEF RangesInv
<1>5. ASSUME NEW n \in Names, Profile(n)
      PROVE  RangesInv'
  <2>1. DOMAIN rows' = DOMAIN rows \cup {n} /\ active' \in {active, n}
    BY <1>5 DEF Profile, Upsert, Follow
  <2>2. seen' = seen /\ now' = now
    BY <1>5 DEF Profile
  <2> QED
    BY <2>1, <2>2 DEF RangesInv
<1>6. CASE Evict
  BY <1>6 DEF Evict, Survivors, Restrict, RangesInv
<1>7. CASE UNCHANGED vars
  BY <1>7 DEF vars, RangesInv
<1> QED
  BY <1>1, <1>2, <1>3, <1>4, <1>5, <1>6, <1>7 DEF Next

LEMMA RegStep == RegInv /\ RangesInv /\ [Next]_vars => RegInv'
<1> SUFFICES ASSUME RegInv, now \in Nat, [Next]_vars
             PROVE  RegInv'
  BY DEF RangesInv
<1>1. ASSUME NEW p \in DOMAIN boxes, Hear(p) \/ FallSilent(p)
      PROVE  RegInv'
  <2>1. PICK v \in BOOLEAN : boxes' = [boxes EXCEPT ![p].silent = v]
    BY <1>1 DEF Hear, FallSilent
  <2>2. UNCHANGED <<rows, active, seen, now>>
    BY <1>1 DEF Hear, FallSilent
  <2> QED
    BY <2>1, <2>2, HearStep
<1>2. ASSUME NEW t \in Tuples, NEW later \in BOOLEAN, Observe(t, later)
      PROVE  RegInv'
  BY <1>2, ObserveStep
<1>3. ASSUME NEW i \in Tuples \cup Names, SetActive(i)
      PROVE  RegInv'
  BY <1>3, SetActiveStep
<1>4. ASSUME NEW p \in DOMAIN boxes, NEW n \in Names, EnterWorld(p, n)
      PROVE  RegInv'
  BY <1>4, EnterWorldStep
<1>5. ASSUME NEW n \in Names, Profile(n)
      PROVE  RegInv'
  BY <1>5, ProfileStep
<1>6. CASE Evict
  BY <1>6, EvictStep
<1>7. CASE UNCHANGED vars
  <2>1. UNCHANGED <<boxes, rows, active, seen, now>>
    BY <1>7 DEF vars
  <2> QED
    BY <2>1 DEF RegInv, BoxesInv, RowsInv, Resolvable, Holders
<1> QED
  BY <1>1, <1>2, <1>3, <1>4, <1>5, <1>6, <1>7 DEF Next

\* The registry is well typed, and neither the characters nor the name sources
\* keep a pointer to a freed box.
THEOREM PointersLive == Spec => []RegistryOK
<1>1. Init => RegInv /\ RangesInv
  BY RegInit, RangesInit
<1>2. RegInv /\ RangesInv => RegistryOK
  BY DEF RegInv, BoxesInv, RowsInv, RangesInv, TypeOK, NoDangling, RegistryOK
<1> QED
  BY <1>1, <1>2, RegStep, RangesStep, PTL DEF Spec

\* The active id resolves to a live box from the first one on.
THEOREM ViewedResolves == Spec => []ActiveResolves
<1>1. Init => RegInv /\ RangesInv
  BY RegInit, RangesInit
<1>2. RegInv => ActiveResolves
  BY Resolves DEF RegInv, ActiveResolves
<1> QED
  BY <1>1, <1>2, RegStep, RangesStep, PTL DEF Spec

\* Taking box p for n's session leaves every row with a session first seen no
\* earlier than the one it had.
LEMMA UpsertForward ==
  ASSUME BoxesInv, RowsInv, NEW p \in DOMAIN boxes, NEW n \in Names,
         NEW bs, DOMAIN bs = DOMAIN boxes,
         \A q \in DOMAIN boxes : bs[q].first = boxes[q].first,
         NEW rs, rs = Upsert(bs, rows, p, n), NEW c \in DOMAIN rows
  PROVE  rs[c] \in DOMAIN boxes /\ boxes[rows[c]].first <= boxes[rs[c]].first
<1>1. /\ rs[c] = IF c # n THEN rows[c]
                 ELSE IF bs[p].first >= bs[rows[n]].first THEN p ELSE rows[n]
      /\ rows[c] \in DOMAIN boxes
  BY DEF Upsert, RowsInv
<1>2. \A q \in DOMAIN boxes : boxes[q].first \in Nat /\ bs[q].first = boxes[q].first
  BY DEF BoxesInv, Box
<1> QED
  BY <1>1, <1>2

\* A character's live session is never replaced by one first seen earlier, in
\* whatever order the sessions are named (upsertCharacter).
THEOREM SessionsGoForward == Spec => NeverGoesBack
<1> DEFINE Forward == \A n \in DOMAIN rows \cap DOMAIN rows' :
                        boxes[rows[n]].first <= boxes'[rows'[n]].first
<1>1. ASSUME RegInv, Next
      PROVE  Forward
  <2>1. /\ \A q \in DOMAIN boxes : boxes[q] \in Box /\ boxes[q].first \in Nat
        /\ \A n \in DOMAIN rows : rows[n] \in DOMAIN boxes
        /\ BoxesInv /\ RowsInv
    BY <1>1 DEF RegInv, BoxesInv, RowsInv, Box
  <2>2. ASSUME DOMAIN boxes \subseteq DOMAIN boxes', rows' = rows,
               \A q \in DOMAIN boxes : boxes'[q].first = boxes[q].first
        PROVE  Forward
    BY <2>1, <2>2
  <2>3. ASSUME NEW p \in DOMAIN boxes, Hear(p) \/ FallSilent(p)
        PROVE  Forward
    <3>1. PICK v \in BOOLEAN : boxes' = [boxes EXCEPT ![p].silent = v]
      BY <2>3 DEF Hear, FallSilent
    <3>2. rows' = rows
      BY <2>3 DEF Hear, FallSilent
    <3>3. /\ DOMAIN boxes' = DOMAIN boxes
          /\ \A q \in DOMAIN boxes : boxes'[q].first = boxes[q].first
      BY <2>1, <3>1 DEF Box
    <3> QED
      BY <2>2, <3>2, <3>3
  <2>4. ASSUME NEW t \in Tuples, NEW later \in BOOLEAN, Observe(t, later)
        PROVE  Forward
    <3>1. /\ rows' = rows /\ DOMAIN boxes' = DOMAIN boxes \cup {seen + 1}
          /\ \A q \in DOMAIN boxes : q # seen + 1 => boxes'[q] = boxes[q]
      BY <2>4 DEF Observe
    <3>2. seen + 1 \notin DOMAIN boxes
      BY <2>1 DEF BoxesInv
    <3> QED
      BY <2>2, <3>1, <3>2
  <2>5. ASSUME NEW p \in DOMAIN boxes, NEW n \in Names, EnterWorld(p, n)
        PROVE  Forward
    <3>1. boxes' = Named(boxes, p, n) /\ rows' = Upsert(boxes', rows, p, n)
      BY <2>5 DEF EnterWorld
    <3>2. /\ DOMAIN boxes' = DOMAIN boxes
          /\ \A q \in DOMAIN boxes : boxes'[q].first = boxes[q].first
      BY <2>1, <3>1 DEF Named, Box
    <3>3. \A c \in DOMAIN rows :
            rows'[c] \in DOMAIN boxes /\ boxes[rows[c]].first <= boxes[rows'[c]].first
      BY <2>1, <3>1, <3>2, UpsertForward
    <3> QED
      BY <3>2, <3>3
  <2>6. ASSUME NEW n \in Names, Profile(n)
        PROVE  Forward
    <3> DEFINE p     == Primary
               named == Named(boxes, p, n)
    <3>1. /\ rows' = Upsert(named, rows, p, n)
          /\ boxes' = [q \in DOMAIN boxes |->
                         IF named[q].name # n THEN named[q]
                         ELSE [named[q] EXCEPT !.state =
                                 IF q = rows'[n] THEN "Attached" ELSE "Superseded"]]
          /\ seen > 0
      BY <2>6 DEF Profile
    <3>2. p \in DOMAIN boxes
      BY <2>1, <3>1 DEF BoxesInv
    <3> HIDE DEF p
    <3>3. /\ DOMAIN named = DOMAIN boxes
          /\ \A q \in DOMAIN boxes : named[q] \in Box /\ named[q].first = boxes[q].first
      BY <2>1, <3>2 DEF Named, Box
    <3> HIDE DEF named
    <3>4. /\ DOMAIN boxes' = DOMAIN boxes
          /\ \A q \in DOMAIN boxes : boxes'[q].first = boxes[q].first
      BY <3>1, <3>3 DEF Box
    <3>5. \A c \in DOMAIN rows :
            rows'[c] \in DOMAIN boxes /\ boxes[rows[c]].first <= boxes[rows'[c]].first
      BY <2>1, <3>1, <3>2, <3>3, UpsertForward
    <3> QED
      BY <3>4, <3>5
  <2>7. ASSUME NEW i \in Tuples \cup Names, SetActive(i)
        PROVE  Forward
    BY <2>2, <2>7 DEF SetActive
  <2>8. CASE Evict
    <3>1. /\ boxes' = [q \in DOMAIN boxes \ Stale |-> boxes[q]]
          /\ rows' = [n \in {m \in DOMAIN rows : rows[m] \notin Stale} |-> rows[n]]
      BY <2>8 DEF Evict, Survivors, Restrict
    <3>2. \A n \in DOMAIN rows' : rows'[n] = rows[n] /\ rows[n] \in DOMAIN boxes
                                  /\ boxes'[rows'[n]] = boxes[rows[n]]
      BY <2>1, <3>1
    <3> QED
      BY <2>1, <3>2
  <2> QED
    BY <1>1, <2>3, <2>4, <2>5, <2>6, <2>7, <2>8 DEF Next
<1>2. ASSUME RegInv, [Next]_vars
      PROVE  [Forward]_vars
  BY <1>1, <1>2
<1>3. Init => RegInv /\ RangesInv
  BY RegInit, RangesInit
<1> QED
  BY <1>2, <1>3, RegStep, RangesStep, PTL DEF Spec, NeverGoesBack
=============================================================================
