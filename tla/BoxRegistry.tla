----------------------------- MODULE BoxRegistry -----------------------------
(***************************************************************************)
(* The box registry (src/src/boxregistry.cpp): one Box per world session   *)
(* seen on the wire, the character each belongs to, the store that maps a  *)
(* character to its live session, and the sweep that frees idle boxes.     *)
(*                                                                         *)
(* A Box* is the number of its observation: numbers are not reused, so a   *)
(* pointer kept to a freed box shows.  The box id (the placeholder made of *)
(* the 5-tuple, later the hash of the name) is the tuple or the name.      *)
(* Wall-clock time is abstracted: whether a box was last seen before the   *)
(* sweep's cutoff, and the order of the observation times.                 *)
(*                                                                         *)
(* DaemonApp feeds every box into one ManagerSet and connects its name     *)
(* sources once, for the primary box: every profile decoded, of whichever  *)
(* session, promotes the primary.  OP_EnterWorld promotes the box whose    *)
(* world stream carried it.                                                *)
(***************************************************************************)
EXTENDS Integers, FiniteSets, Functions

CONSTANTS
  Tuples,    \* world 5-tuples: client ip and port, server port
  Names,     \* character names
  NoName,    \* an empty display_name
  NoId,      \* an empty m_activeCharacterId
  MaxBoxes,  \* bound: boxes ever observed
  Ties       \* TRUE: two boxes may be first seen in the same millisecond

ASSUME RegistryAssumption ==
  /\ Tuples \cap Names = {}
  /\ NoName \notin Names /\ NoId \notin Tuples \cup Names
  /\ MaxBoxes \in Nat /\ Ties \in BOOLEAN

VARIABLES
  boxes,   \* m_boxes: the live boxes, in order of observation
  rows,    \* m_characters: name -> the character's live session
  active,  \* m_activeCharacterId
  seen,    \* boxes observed so far
  now      \* the time of the last observation of a new box

vars == <<boxes, rows, active, seen, now>>

States == {"Pending", "Attached", "Superseded"}
Box    == [tuple : Tuples, name : Names \cup {NoName}, first : Nat,
           silent : BOOLEAN, state : States]
Null   == 0

Id(b)       == IF b.name = NoName THEN b.tuple ELSE b.name
Holders(bs, i) == {p \in DOMAIN bs : Id(bs[p]) = i}
Earliest(s) == CHOOSE p \in s : \A q \in s : p <= q

FindById(bs, i) ==
  IF Holders(bs, i) = {} THEN Null ELSE Earliest(Holders(bs, i))

\* The store's session, else the box with that id.
CurrentBoxFor(bs, rs, i) == IF i \in DOMAIN rs THEN rs[i] ELSE FindById(bs, i)

\* is_primary: the box observed first; the name sources keep its Box*.
Primary == 1
-----------------------------------------------------------------------------
Init == boxes = <<>> /\ rows = <<>> /\ active = NoId /\ seen = 0 /\ now = 0

\* observe() of a known tuple, or zone traffic routed to box p.
Hear(p) ==
  /\ boxes' = [boxes EXCEPT ![p].silent = FALSE]
  /\ UNCHANGED <<rows, active, seen, now>>

\* Nothing heard of box p for the time-to-live.
FallSilent(p) ==
  /\ ~boxes[p].silent
  /\ boxes' = [boxes EXCEPT ![p].silent = TRUE]
  /\ UNCHANGED <<rows, active, seen, now>>

\* observe() of a new tuple, at or after the time of the previous one.
Observe(t, later) ==
  /\ \A p \in DOMAIN boxes : boxes[p].tuple # t
  /\ seen < MaxBoxes
  /\ later \/ (Ties /\ seen > 0)
  /\ now' = IF later THEN now + 1 ELSE now
  /\ LET b == [tuple |-> t, name |-> NoName, first |-> now',
               silent |-> FALSE, state |-> "Pending"]
     IN  /\ boxes' = [p \in DOMAIN boxes \cup {seen + 1} |->
                        IF p = seen + 1 THEN b ELSE boxes[p]]
         /\ active' = IF active = NoId THEN Id(b) ELSE active
  /\ seen' = seen + 1
  /\ UNCHANGED rows

\* setActiveCharacterId: only an id some box has.
SetActive(i) ==
  /\ FindById(boxes, i) # Null
  /\ active' = i
  /\ UNCHANGED <<boxes, rows, seen, now>>

Named(bs, p, n) == [bs EXCEPT ![p].name = n]

\* Mutant: a late-promoting older box takes the session over.
UpsertLast(bs, rs, p, n) ==
  [c \in DOMAIN rs \cup {n} |-> IF c = n THEN p ELSE rs[c]]

\* upsertCharacter: the row of n takes box p as its session unless it has one
\* that was first seen later.
Upsert(bs, rs, p, n) ==
  [c \in DOMAIN rs \cup {n} |->
     IF c # n THEN rs[c]
     ELSE IF n \notin DOMAIN rs \/ bs[p].first >= bs[rs[n]].first
          THEN p ELSE rs[n]]

\* Mutant: the active id stays on the placeholder.
FollowNot(act, old, new) == act

\* onPromoted: the active id follows the box's id.
Follow(act, old, new) == IF act = old THEN new ELSE act

\* NamePromoter: the first OP_EnterWorld on a box's world stream names it.
EnterWorld(p, n) ==
  /\ boxes[p].name = NoName
  /\ boxes' = Named(boxes, p, n)
  /\ rows' = Upsert(boxes', rows, p, n)
  /\ active' = Follow(active, Id(boxes[p]), n)
  /\ UNCHANGED <<seen, now>>

\* promoteByName(primary, n), on the profile of any session.  The sessions of
\* n are reclassified; a first character replaces an active box without name.
Profile(n) ==
  /\ seen > 0
  /\ boxes[Primary].name # n
  /\ LET p     == Primary
         named == Named(boxes, p, n)
         prior == \E q \in DOMAIN boxes : q # p /\ boxes[q].name = n
         act   == Follow(active, Id(boxes[p]), n)
         shown == FindById(named, act)
     IN  /\ rows' = Upsert(named, rows, p, n)
         /\ active' = IF ~prior /\ (shown = Null \/ named[shown].name = NoName)
                      THEN n ELSE act
         /\ boxes' = [q \in DOMAIN boxes |->
                        IF named[q].name # n THEN named[q]
                        ELSE [named[q] EXCEPT !.state =
                                IF q = rows'[n] THEN "Attached" ELSE "Superseded"]]
  /\ UNCHANGED <<seen, now>>

\* What evictStale frees: every silent box but the primary and the viewed one.
Stale ==
  {p \in DOMAIN boxes : /\ p # Primary
                        /\ p # CurrentBoxFor(boxes, rows, active)
                        /\ boxes[p].silent}

\* Mutant: the characters of freed sessions keep their rows.
SurvivorsAll(rs, gone) == rs

Survivors(rs, gone) == Restrict(rs, {n \in DOMAIN rs : rs[n] \notin gone})

\* evictStale.
Evict ==
  /\ Stale # {}
  /\ boxes' = Restrict(boxes, DOMAIN boxes \ Stale)
  /\ rows' = Survivors(rows, Stale)
  /\ UNCHANGED <<active, seen, now>>

Next ==
  \/ \E p \in DOMAIN boxes : Hear(p) \/ FallSilent(p)
  \/ \E t \in Tuples, later \in BOOLEAN : Observe(t, later)
  \/ \E i \in Tuples \cup Names : SetActive(i)
  \/ \E p \in DOMAIN boxes, n \in Names : EnterWorld(p, n)
  \/ \E n \in Names : Profile(n)
  \/ Evict

Spec == Init /\ [][Next]_vars
-----------------------------------------------------------------------------
(* Properties.                                                             *)

\* Types: boxes are numbered in the order they are observed, ids are tuples or
\* names.
TypeOK ==
  /\ seen \in 0 .. MaxBoxes /\ now \in 0 .. seen
  /\ DOMAIN boxes \subseteq 1 .. seen
  /\ \A p \in DOMAIN boxes : boxes[p] \in Box
  /\ DOMAIN rows \subseteq Names
  /\ active \in Tuples \cup Names \cup {NoId}

\* Nobody keeps a Box* to a freed box, whatever was promoted and freed: neither
\* the characters (m_characters) nor the name sources (DaemonApp).
NoDangling ==
  /\ \A n \in DOMAIN rows : rows[n] \in DOMAIN boxes
  /\ seen > 0 => Primary \in DOMAIN boxes

RegistryOK == TypeOK /\ NoDangling

\* There is always a session to stream: the active id resolves to a live box
\* as soon as one was seen, across promotions, renames and sweeps
\* (currentBoxFor, managersForBox).
ActiveResolves ==
  seen > 0 => CurrentBoxFor(boxes, rows, active) \in DOMAIN boxes

\* A character's live session is never replaced by one first seen earlier, in
\* whatever order the sessions are named (upsertCharacter).
NeverGoesBack ==
  [][\A n \in DOMAIN rows \cap DOMAIN rows' :
       boxes[rows[n]].first <= boxes'[rows'[n]].first]_vars
==============================================================================
