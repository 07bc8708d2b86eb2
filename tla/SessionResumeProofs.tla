-------------------------- MODULE SessionResumeProofs --------------------------
(***************************************************************************)
(* Theorems about SessionResume, for every set of spawns, ring size and    *)
(* number of connections and events.                                       *)
(*                                                                         *)
(* The inductive invariant is the conjunction SessionInv.  SocketInv says  *)
(* who may be attached to whom, StreamInv what a connection carries, and   *)
(* HistoryInv is what lets a client trust a number that follows its last:  *)
(* of two envelopes of one adapter with consecutive numbers, the later one *)
(* says how the managers' state became the one it was made from.  Every    *)
(* ring, every envelope on its way and the client's last one are part of   *)
(* that history, so a replay, a swap of the sink or a second socket cannot *)
(* bring an envelope that does not fit.                                    *)
(***************************************************************************)
EXTENDS SessionResume, FiniteSetTheorems, TLAPS

-----------------------------------------------------------------------------
(* The data, and the rings.                                                 *)

\* The data.
Adapters ==
  [sid : Ids, inc : Ids, seq : Nat, ring : Seq(Envelopes), sock : 0 .. MaxConns]

DataInv ==
  /\ spawns \in SUBSET Spawns /\ clock \in 0 .. MaxEvents
  /\ sessions \in [DOMAIN sessions -> Adapters] /\ DOMAIN sessions \subseteq Ids
  /\ down \in Seq(Envelopes)
  /\ client \in [sid : Nat, last : 0 .. MaxEvents + 1, view : SUBSET Spawns,
                 gap : BOOLEAN, base : Nat, inc : Nat, truth : SUBSET Spawns]

\* Rings.
RingInv ==
  \A id \in DOMAIN sessions :
    /\ RingOk(sessions[id]) /\ sessions[id].seq \in 1 .. clock + 1
    /\ \A i \in DOMAIN sessions[id].ring : sessions[id].ring[i].sid = id

\* The tail of a ring is a ring.
LEMMA FromRing ==
  ASSUME NEW S, NEW r \in Seq(S), NEW i \in 1 .. Len(r) + 1
  PROVE  /\ From(r, i) \in Seq(S) /\ Len(From(r, i)) = Len(r) - i + 1
         /\ \A j \in 1 .. Len(r) - i + 1 : From(r, i)[j] = r[i + j - 1]
BY DEF From

\* emitEnvelope numbers an envelope and keeps it in the ring.
LEMMA EmitFields ==
  ASSUME NEW a \in Adapters, NEW env \in Envelopes, NEW n \in Nat \ {0},
         NEW b, b = Emit(a, env, n)
  PROVE  /\ b \in Adapters
         /\ b.sid = a.sid /\ b.inc = a.inc /\ b.sock = a.sock
         /\ b.seq = a.seq + 1
         /\ b.ring = Latest(Append(a.ring, env), n)
<1> DEFINE r == Append(a.ring, env)
           q == Latest(r, n)
<1>1. a.ring \in Seq(Envelopes) /\ a.seq + 1 \in Nat
  BY DEF Adapters
<1>2. r \in Seq(Envelopes)
  BY <1>1
<1>3. b = [a EXCEPT !.seq = a.seq + 1, !.ring = q]
  BY DEF Emit, Adapters
<1> HIDE DEF r
<1>4. q \in Seq(Envelopes)
  BY <1>2 DEF Latest
<1>5. q = Latest(Append(a.ring, env), n)
  BY DEF r
<1> HIDE DEF q
<1>6. b \in Adapters /\ b.ring = q
  BY <1>1, <1>3, <1>4 DEF Adapters
<1>7. b.sid = a.sid /\ b.inc = a.inc /\ b.sock = a.sock /\ b.seq = a.seq + 1
  BY <1>1, <1>3, <1>4 DEF Adapters
<1> QED
  BY <1>5, <1>6, <1>7

\* q is the end of r with env appended, of n entries at most.
EndOf(q, r, env, n) ==
  /\ q \in Seq(Envelopes) /\ Len(q) \in 1 .. n /\ q[Len(q)] = env
  /\ \A i \in 1 .. Len(q) - 1 : \E j \in 1 .. Len(r) :
       j - Len(r) = i - Len(q) + 1 /\ q[i] = r[j]

\* emitEnvelope appends, and drops from the front.
LEMMA LatestRing ==
  ASSUME NEW r \in Seq(Envelopes), NEW env \in Envelopes, NEW n \in Nat \ {0},
         NEW q, q = Latest(Append(r, env), n)
  PROVE  EndOf(q, r, env, n)
<1> DEFINE t == Append(r, env)
           m == IF Len(t) > n THEN Len(t) - n + 1 ELSE 1
<1>1. /\ t \in Seq(Envelopes) /\ Len(t) = Len(r) + 1 /\ Len(r) \in Nat
      /\ t[Len(t)] = env /\ \A i \in 1 .. Len(r) : t[i] = r[i]
  OBVIOUS
<1>2. q = SubSeq(t, m, Len(t))
  BY DEF Latest
<1> HIDE DEF t
<1>3. m \in 1 .. Len(t) /\ m >= Len(t) - n + 1
  BY <1>1
<1> HIDE DEF m
<1>4. /\ q \in Seq(Envelopes) /\ Len(q) = Len(t) - m + 1
      /\ \A i \in 1 .. Len(q) : q[i] = t[m + i - 1]
  BY <1>1, <1>2, <1>3
<1>5. Len(q) \in 1 .. n /\ m + Len(q) - 1 = Len(t)
  BY <1>1, <1>3, <1>4
<1>6. q[Len(q)] = env
  <2>1. Len(q) \in 1 .. Len(q)
    BY <1>5
  <2> QED
    BY <1>1, <1>4, <1>5, <2>1
<1>7. ASSUME NEW i \in 1 .. Len(q) - 1
      PROVE  \E j \in 1 .. Len(r) : j - Len(r) = i - Len(q) + 1 /\ q[i] = r[j]
  <2> DEFINE j == m + i - 1
  <2>1. i \in 1 .. Len(q) /\ j \in 1 .. Len(r) /\ j - Len(r) = i - Len(q) + 1
    BY <1>1, <1>3, <1>4, <1>5
  <2>2. q[i] = r[j]
    BY <1>1, <1>4, <2>1
  <2> HIDE DEF j
  <2> QED
    BY <2>1, <2>2
<1> QED
  BY <1>4, <1>5, <1>6, <1>7 DEF EndOf

\* replaySince hands on the entries after the number the client has.
LEMMA ReplayTail ==
  ASSUME NEW a \in Adapters, RingOk(a), NEW last \in Nat
  PROVE  /\ Replay(a, last) \in Seq(Envelopes)
         /\ \A i \in DOMAIN Replay(a, last) :
              /\ \E j \in DOMAIN a.ring : Replay(a, last)[i] = a.ring[j]
              /\ Replay(a, last)[i].seq > last
         /\ \A i, j \in DOMAIN Replay(a, last) :
              i < j => Replay(a, last)[i].seq < Replay(a, last)[j].seq
<1> DEFINE has == {i \in DOMAIN a.ring : a.ring[i].seq <= last}
           k == Cardinality(has)
           n == Len(a.ring)
           t == Replay(a, last)
<1>1. /\ a.ring \in Seq(Envelopes) /\ a.seq \in Nat /\ n \in Nat /\ DOMAIN a.ring = 1 .. n
      /\ \A i \in 1 .. n : a.ring[i].seq = a.seq - n + i
  BY DEF Adapters, RingOk
<1>2. PICK m \in 0 .. n : has = 1 .. m
  <2> DEFINE x == last - a.seq + n
             m == IF x < 0 THEN 0 ELSE IF x > n THEN n ELSE x
  <2>1. x \in Int
    BY <1>1
  <2> HIDE DEF n
  <2>2. has = {i \in 1 .. n : i <= x}
    BY <1>1, <2>1
  <2> HIDE DEF x, has
  <2>3. m \in 0 .. n /\ has = 1 .. m
    BY <1>1, <2>1, <2>2
  <2> QED
    BY <2>3
<1>3. k = m
  <2> HIDE DEF has, n
  <2>1. m \in Nat
    BY <1>1
  <2>2. Cardinality(1 .. m) = IF 1 > m THEN 0 ELSE m - 1 + 1
    BY FS_Interval
  <2>3. k = Cardinality(1 .. m)
    BY <1>2
  <2> HIDE DEF k
  <2> QED
    BY <2>1, <2>2, <2>3
<1>4. t = From(a.ring, m + 1)
  BY <1>3 DEF Replay
<1>5. \A i \in (m + 1) .. n : a.ring[i].seq > last
  <2> TAKE i \in (m + 1) .. n
  <2>1. i \in DOMAIN a.ring /\ i \notin 1 .. m
    BY <1>1
  <2>2. ~(a.ring[i].seq <= last)
    BY <1>2, <2>1
  <2>3. a.ring[i] \in Envelopes
    BY <1>1, <2>1
  <2>4. a.ring[i].seq \in Nat
    BY <2>3, ResumeAssumption DEF Envelopes
  <2> QED
    BY <2>2, <2>4
<1> HIDE DEF has, k, n, t
<1>6. /\ t \in Seq(Envelopes) /\ Len(t) = n - m
      /\ \A j \in 1 .. n - m : t[j] = a.ring[m + j]
  <2>1. m + 1 \in 1 .. Len(a.ring) + 1
    BY <1>1 DEF n
  <2>2. /\ t \in Seq(Envelopes) /\ Len(t) = n - (m + 1) + 1
        /\ \A j \in 1 .. n - (m + 1) + 1 : t[j] = a.ring[m + 1 + j - 1]
    BY <1>1, <1>4, <2>1, FromRing DEF n
  <2>3. n - (m + 1) + 1 = n - m
    BY <1>1
  <2>4. ASSUME NEW j \in 1 .. n - m
        PROVE  t[j] = a.ring[m + j]
    <3>1. t[j] = a.ring[m + 1 + j - 1]
      BY <2>2, <2>3
    <3>2. m + 1 + j - 1 = m + j
      OBVIOUS
    <3> QED
      BY <3>1, <3>2
  <2>5. t \in Seq(Envelopes) /\ Len(t) = n - m
    BY <2>2, <2>3
  <2> QED
    BY <2>4, <2>5
<1>7. DOMAIN t = 1 .. n - m
  BY <1>6
<1>8. \A j \in 1 .. n - m : m + j \in (m + 1) .. n /\ m + j \in 1 .. n
  BY <1>1
<1>9. \A i \in DOMAIN t : t[i] = a.ring[m + i] /\ m + i \in DOMAIN a.ring /\ t[i].seq > last
  BY <1>1, <1>5, <1>6, <1>7, <1>8
<1>10. \A i, j \in DOMAIN t : i < j => t[i].seq < t[j].seq
  <2> SUFFICES ASSUME NEW i \in DOMAIN t, NEW j \in DOMAIN t, i < j
               PROVE  t[i].seq < t[j].seq
    OBVIOUS
  <2>1. /\ t[i] = a.ring[m + i] /\ t[j] = a.ring[m + j]
        /\ m + i \in 1 .. n /\ m + j \in 1 .. n
    BY <1>6, <1>7, <1>8
  <2>2. t[i].seq = a.seq - n + (m + i) /\ t[j].seq = a.seq - n + (m + j)
    BY <1>1, <2>1
  <2> QED
    BY <1>1, <1>7, <2>2
<1> QED
  BY <1>6, <1>9, <1>10 DEF t

-----------------------------------------------------------------------------
(* Sockets, streams, and what an emission does.                              *)

\* The connections that sessions, Subscribes and the client speak of.
Used ==
  DOMAIN sessions \cup {sessions[id].inc : id \in DOMAIN sessions}
    \cup {sessions[id].sock : id \in DOMAIN sessions}
    \cup {h.sid : h \in hellos} \cup {client.sid, client.inc, client.base}

Hellos == [conn : Nat, sid : Nat, last : Nat]

\* Sockets: one session each, and a Subscribe not read yet has none of its own;
\* a connection that is opened next is one nobody has spoken of.
SocketInv ==
  /\ made \in 0 .. MaxConns /\ conn \in {0, made} /\ dead \subseteq (1 .. made) \ {conn}
  /\ \A h \in hellos : /\ h \in Hellos
                       /\ h.conn \in (dead \cup {conn}) \ {0}
                       /\ h.last <= MaxEvents + 1
                       /\ h.conn \notin Used
                       /\ h.conn = conn => h.sid = client.sid /\ h.last = client.last
  /\ \A g, h \in hellos : g.conn = h.conn => g = h
  /\ Used \subseteq 0 .. made
  /\ \A id \in DOMAIN sessions :
       sessions[id].sid = id /\ sessions[id].sock \in dead \cup {0, conn}
  /\ \A i, j \in DOMAIN sessions :
       /\ sessions[i].inc = sessions[j].inc => i = j
       /\ sessions[i].sock = sessions[j].sock /\ sessions[i].sock # 0 => i = j
  /\ (conn # 0 /\ \A h \in hellos : h.conn # conn) => Attached # {}

\* Streams: what is on its way is of the session the client is attached to,
\* which is the one its id names unless a Snapshot comes first; the adapter of
\* a view that another one has continued is gone.
StreamInv ==
  /\ \A i \in DOMAIN down : \E id \in Attached :
       down[i].sid = id /\ down[i].inc = sessions[id].inc
  /\ \A id \in Attached :
       id = client.sid \/ (down # <<>> /\ Head(down).kind = "snapshot")
  /\ \A id \in DOMAIN sessions :
       /\ sessions[id].inc = client.base => id = client.sid
       /\ client.inc # client.base => sessions[id].inc # client.base

-----------------------------------------------------------------------------
\* The sequence of no element, and of one.
LEMMA OneSeq ==
  /\ SetToSeq({}) = <<>>
  /\ \A e : SetToSeq({e}) = <<e>>
<1>1. SetToSeq({}) = <<>>
  <2>1. Cardinality({}) = 0
    BY FS_EmptySet
  <2>2. <<>> \in [1 .. 0 -> {}] /\ IsInjective(<<>>)
    BY DEF IsInjective
  <2>3. \A f \in [1 .. 0 -> {}] : f = <<>>
    OBVIOUS
  <2>4. SetToSeq({}) = CHOOSE f \in [1 .. 0 -> {}] : IsInjective(f)
    BY <2>1 DEF SetToSeq
  <2>5. SetToSeq({}) \in [1 .. 0 -> {}]
    BY <2>2, <2>4
  <2> QED
    BY <2>3, <2>5
<1>2. ASSUME NEW e
      PROVE  SetToSeq({e}) = <<e>>
  <2>1. Cardinality({e}) = 1
    BY FS_Singleton
  <2>2. <<e>> \in [1 .. 1 -> {e}] /\ IsInjective(<<e>>)
    BY DEF IsInjective
  <2>3. \A f \in [1 .. 1 -> {e}] : f = <<e>>
    <3>1. ASSUME NEW f \in [1 .. 1 -> {e}]
          PROVE  f = <<e>>
      <4>1. DOMAIN f = 1 .. 1 /\ f[1] = e /\ DOMAIN <<e>> = 1 .. 1 /\ <<e>>[1] = e
        OBVIOUS
      <4>2. f = [i \in 1 .. 1 |-> f[i]] /\ <<e>> = [i \in 1 .. 1 |-> <<e>>[i]]
        OBVIOUS
      <4>3. \A i \in 1 .. 1 : f[i] = <<e>>[i]
        BY <4>1
      <4> QED
        BY <4>1, <4>2, <4>3
    <3> QED
      BY <3>1
  <2>4. SetToSeq({e}) = CHOOSE f \in [1 .. 1 -> {e}] : IsInjective(f)
    BY <2>1 DEF SetToSeq
  <2>5. SetToSeq({e}) \in [1 .. 1 -> {e}]
    BY <2>2, <2>4
  <2> QED
    BY <2>3, <2>5
<1> QED
  BY <1>1, <1>2

\* A client is attached to one session at most.
LEMMA OneAttached ==
  ASSUME SocketInv, NEW i \in Attached, NEW j \in Attached
  PROVE  i = j
BY DEF SocketInv, Attached

\* emitEnvelope leaves a ring without a hole, of what it held and the new entry.
LEMMA EmitKeeps ==
  ASSUME NEW a \in Adapters, RingOk(a), NEW e \in Envelopes,
         e.seq = a.seq + 1, e.inc = a.inc, NEW m \in 1 .. RingCap,
         NEW b, b = Emit(a, e, m)
  PROVE  /\ RingOk(b)
         /\ \A i \in DOMAIN b.ring :
              b.ring[i] = e \/ \E j \in DOMAIN a.ring : b.ring[i] = a.ring[j]
<1>1. m \in Nat \ {0} /\ m <= RingCap /\ RingCap \in Nat
  BY ResumeAssumption
<1>2. b \in Adapters /\ b.inc = a.inc /\ b.seq = a.seq + 1 /\ a.seq \in Nat
  BY <1>1, EmitFields DEF Adapters
<1> DEFINE r == a.ring
           q == b.ring
<1>3. r \in Seq(Envelopes) /\ q = Latest(Append(r, e), m)
  BY <1>1, EmitFields DEF Adapters
<1>4. /\ Len(r) \in 1 .. RingCap
      /\ \A i \in DOMAIN r :
           r[i] \in Envelopes /\ r[i].seq = a.seq - Len(r) + i /\ r[i].inc = a.inc
  BY DEF RingOk
<1> HIDE DEF r, q
<1>6. /\ q \in Seq(Envelopes) /\ Len(q) \in 1 .. m /\ q[Len(q)] = e
      /\ \A i \in 1 .. Len(q) - 1 : \E j \in 1 .. Len(r) :
           j - Len(r) = i - Len(q) + 1 /\ q[i] = r[j]
  <2>1. EndOf(q, r, e, m)
    BY <1>1, <1>3, LatestRing
  <2> QED
    BY <2>1 DEF EndOf
<1>7. ASSUME NEW i \in DOMAIN q
      PROVE  /\ q[i] \in Envelopes /\ q[i].seq = b.seq - Len(q) + i
             /\ q[i].inc = b.inc
             /\ q[i] = e \/ \E j \in DOMAIN r : q[i] = r[j]
  <2>1. i \in 1 .. Len(q) /\ Len(q) \in Nat /\ DOMAIN r = 1 .. Len(r) /\ Len(r) \in Nat
    BY <1>3, <1>6
  <2>2. CASE i = Len(q)
    <3>1. q[i] = e /\ b.seq - Len(q) + i = b.seq
      BY <1>2, <1>6, <2>1, <2>2
    <3> QED
      BY <1>2, <3>1
  <2>3. CASE i # Len(q)
    <3>1. i \in 1 .. Len(q) - 1
      BY <2>1, <2>3
    <3>2. PICK j \in 1 .. Len(r) : j - Len(r) = i - Len(q) + 1 /\ q[i] = r[j]
      BY <1>6, <3>1
    <3>3. j \in DOMAIN r /\ a.seq - Len(r) + j = b.seq - Len(q) + i
      <4>1. i \in Int /\ j \in Int /\ j \in DOMAIN r
        BY <2>1, <3>1
      <4> DEFINE x == a.seq
                 k == Len(q)
                 l == Len(r)
      <4>2. x \in Int /\ k \in Int /\ l \in Int /\ b.seq = x + 1 /\ j - l = i - k + 1
        BY <1>2, <2>1, <3>2
      <4> HIDE DEF x, k, l
      <4>3. x - l + j = (x + 1) - k + i
        BY <4>1, <4>2
      <4>4. x - l + j = b.seq - k + i
        BY <4>2, <4>3
      <4> QED
        BY <4>1, <4>4 DEF x, k, l
    <3>4. r[j].seq = b.seq - Len(q) + i
      BY <1>4, <3>3
    <3> QED
      BY <1>2, <1>4, <3>2, <3>3, <3>4
  <2> QED
    BY <2>2, <2>3
<1>8. Len(q) \in 1 .. RingCap
  BY <1>1, <1>6
<1> QED
  BY <1>7, <1>8 DEF RingOk, q, r

\* The adapters of D have emitted an envelope about state s.
Emits(D, kind, x, s) ==
  LET env(id) == Envelope(sessions[id], kind, x, s) IN
  /\ DOMAIN sessions' = DOMAIN sessions
  /\ \A id \in DOMAIN sessions :
       /\ env(id) \in Envelopes
       /\ sessions'[id] \in Adapters
       /\ sessions'[id].sid = sessions[id].sid
       /\ sessions'[id].inc = sessions[id].inc
       /\ sessions'[id].sock = sessions[id].sock
  /\ \A id \in DOMAIN sessions \ D : sessions'[id] = sessions[id]
  /\ \A id \in D :
       /\ sessions'[id].seq = sessions[id].seq + 1
       /\ RingOk(sessions'[id])
       /\ \A i \in DOMAIN sessions'[id].ring :
            \/ sessions'[id].ring[i] = env(id)
            \/ \E j \in DOMAIN sessions[id].ring :
                 sessions'[id].ring[i] = sessions[id].ring[j]
  /\ \/ D \cap Attached = {} /\ down' = down
     \/ \E id \in D \cap Attached : down' = Append(down, env(id))

\* EmitAll does what Emits says: emitEnvelope on each adapter of D.
LEMMA Emitted ==
  ASSUME DataInv, RingInv, SocketInv, clock < MaxEvents,
         NEW D \in SUBSET DOMAIN sessions, NEW kind \in Kinds,
         NEW x \in Spawns \cup {0}, kind \in {"added", "removed"} => x \in Spawns,
         NEW s \in SUBSET Spawns, EmitAll(D, kind, x, s)
  PROVE  Emits(D, kind, x, s)
<1> DEFINE env(id) == Envelope(sessions[id], kind, x, s)
<1>1. PICK n \in [D -> 1 .. RingCap] :
        sessions' = [id \in DOMAIN sessions |->
                       IF id \in D THEN Emit(sessions[id], env(id), n[id]) ELSE sessions[id]]
  BY DEF EmitAll
<1>2. /\ DOMAIN sessions' = DOMAIN sessions
      /\ \A id \in DOMAIN sessions \ D : sessions'[id] = sessions[id]
      /\ \A id \in D : sessions'[id] = Emit(sessions[id], env(id), n[id])
  BY <1>1
<1>3. \A id \in DOMAIN sessions : sessions[id] \in Adapters
  BY DEF DataInv
<1>4. \A id \in DOMAIN sessions :
        /\ env(id) \in Envelopes
        /\ env(id).seq = sessions[id].seq + 1 /\ env(id).inc = sessions[id].inc
  <2> TAKE id \in DOMAIN sessions
  <2>1. sessions[id].seq + 1 \in 1 .. MaxEvents + 1
    BY ResumeAssumption DEF RingInv, DataInv
  <2>2. sessions[id].sid \in Ids /\ sessions[id].inc \in Ids
    BY <1>3 DEF Adapters
  <2> QED
    BY <2>1, <2>2 DEF Envelope, Envelopes
<1>5. ASSUME NEW id \in D
      PROVE  /\ sessions'[id] \in Adapters
             /\ sessions'[id].sid = sessions[id].sid
             /\ sessions'[id].inc = sessions[id].inc
             /\ sessions'[id].sock = sessions[id].sock
             /\ sessions'[id].seq = sessions[id].seq + 1
             /\ RingOk(sessions'[id])
             /\ \A i \in DOMAIN sessions'[id].ring :
                  \/ sessions'[id].ring[i] = env(id)
                  \/ \E j \in DOMAIN sessions[id].ring :
                       sessions'[id].ring[i] = sessions[id].ring[j]
  <2> DEFINE a == sessions[id]
             b == sessions'[id]
             e == env(id)
             m == n[id]
  <2>1. a \in Adapters /\ e \in Envelopes /\ b = Emit(a, e, m)
    BY <1>2, <1>3, <1>4
  <2>2. m \in 1 .. RingCap /\ m \in Nat \ {0}
    BY ResumeAssumption
  <2>3. RingOk(a)
    BY DEF RingInv
  <2>4. e.seq = a.seq + 1 /\ e.inc = a.inc
    BY <1>4
  <2> HIDE DEF a, b, e, m
  <2>5. /\ b \in Adapters /\ b.sid = a.sid /\ b.inc = a.inc /\ b.sock = a.sock
        /\ b.seq = a.seq + 1
    BY <2>1, <2>2, EmitFields
  <2>6. /\ RingOk(b)
        /\ \A i \in DOMAIN b.ring :
             b.ring[i] = e \/ \E j \in DOMAIN a.ring : b.ring[i] = a.ring[j]
    BY <2>1, <2>2, <2>3, <2>4, EmitKeeps
  <2> QED
    BY <2>5, <2>6 DEF a, b, e
<1>6. \/ D \cap Attached = {} /\ down' = down
      \/ \E id \in D \cap Attached : down' = Append(down, env(id))
  <2> DEFINE A == D \cap Attached
  <2>1. down' = down \o SetToSeq({env(id) : id \in A})
    BY DEF EmitAll
  <2>2. down \in Seq(Envelopes)
    BY DEF DataInv
  <2>3. CASE A = {}
    <3>1. {env(id) : id \in A} = {}
      BY <2>3
    <3>2. down' = down \o <<>>
      BY <2>1, <3>1, OneSeq
    <3> QED
      BY <2>2, <2>3, <3>2
  <2>4. CASE A # {}
    <3>1. PICK id \in A : TRUE
      BY <2>4
    <3>2. A = {id}
      BY <3>1, OneAttached
    <3> HIDE DEF env, A
    <3>3. {env(i) : i \in A} = {env(id)}
      BY <3>2
    <3>4. down' = down \o <<env(id)>>
      BY <2>1, <3>3, OneSeq
    <3>5. env(id) \in Envelopes
      BY <1>4, <3>1 DEF A
    <3>6. down' = Append(down, env(id))
      BY <2>2, <3>4, <3>5
    <3> QED
      BY <3>1, <3>6 DEF A
  <2> QED
    BY <2>3, <2>4
<1>7. \A id \in DOMAIN sessions :
        /\ sessions'[id] \in Adapters
        /\ sessions'[id].sid = sessions[id].sid
        /\ sessions'[id].inc = sessions[id].inc
        /\ sessions'[id].sock = sessions[id].sock
  BY <1>2, <1>3, <1>5
<1> QED
  BY <1>2, <1>4, <1>5, <1>6, <1>7 DEF Emits

-----------------------------------------------------------------------------
(* What the managers and the server do, as the invariants see it.           *)

\* What the managers publish says how their state has changed.
Emission(D, kind, x, s) ==
  /\ clock < MaxEvents /\ clock' = clock + 1 /\ spawns' = s
  /\ D = DOMAIN sessions \/ s = spawns
  /\ EmitAll(D, kind, x, s)
  /\ kind \in {"added", "removed"} => x \in Spawns
  /\ \A id \in DOMAIN sessions :
       Applied(spawns, Envelope(sessions[id], kind, x, s)) = s
  /\ UNCHANGED <<hellos, made, conn, dead, client>>

\* onAddItem, onDelItem and the other signals of the managers are emissions.
LEMMA Emissions ==
  ASSUME DataInv, (\E x \in Spawns : Publish(x)) \/ Tell \/ Resnapshot \/ Refresh
  PROVE  \E D \in SUBSET DOMAIN sessions, kind \in Kinds, x \in Spawns \cup {0},
            s \in SUBSET Spawns : Emission(D, kind, x, s)
<1>1. ASSUME NEW x \in Spawns, Publish(x)
      PROVE  \E s \in SUBSET Spawns, kind \in Kinds :
               Emission(DOMAIN sessions, kind, x, s)
  <2> DEFINE s == IF x \in spawns THEN spawns \ {x} ELSE spawns \cup {x}
             kind == IF x \in spawns THEN "removed" ELSE "added"
  <2>1. /\ clock < MaxEvents /\ clock' = clock + 1 /\ spawns' = s
        /\ UNCHANGED <<hellos, made, conn, dead, client>>
        /\ EmitAll(DOMAIN sessions, kind, x, spawns')
    BY <1>1 DEF Publish
  <2>2. s \in SUBSET Spawns /\ kind \in Kinds
    BY DEF DataInv, Kinds
  <2>3. \A id \in DOMAIN sessions :
          Applied(spawns, Envelope(sessions[id], kind, x, s)) = s
    BY DEF Applied, Envelope
  <2>4. EmitAll(DOMAIN sessions, kind, x, s)
    BY <2>1
  <2> QED
    BY <2>1, <2>2, <2>3, <2>4 DEF Emission
<1>2. ASSUME Tell \/ Resnapshot \/ Refresh
      PROVE  \E D \in SUBSET DOMAIN sessions, kind \in Kinds :
               Emission(D, kind, 0, spawns)
  <2>1. /\ clock < MaxEvents /\ clock' = clock + 1 /\ spawns' = spawns
        /\ UNCHANGED <<hellos, made, conn, dead, client>>
    BY <1>2 DEF Tell, Resnapshot, Refresh
  <2>2. PICK D \in SUBSET DOMAIN sessions, kind \in {"snapshot", "other"} :
          EmitAll(D, kind, 0, spawns)
    <3>1. Attached \in SUBSET DOMAIN sessions
      BY DEF Attached
    <3> QED
      BY <1>2, <3>1 DEF Tell, Resnapshot, Refresh
  <2>3. \A id \in DOMAIN sessions :
          Applied(spawns, Envelope(sessions[id], kind, 0, spawns)) = spawns
    BY DEF Applied, Envelope
  <2> QED
    BY <2>1, <2>2, <2>3 DEF Emission, Kinds
<1>3. spawns \in SUBSET Spawns
  BY DEF DataInv
<1> QED
  BY <1>1, <1>2, <1>3

\* A Subscribe has been answered by the session it names, or by a fresh one.
Resumed(hello) ==
  LET id == hello.sid IN
  /\ id \in DOMAIN sessions /\ sessions[id].sock = 0
  /\ sessions' = [sessions EXCEPT ![id].sock = hello.conn]
  /\ down' = IF hello.conn = conn THEN down \o Replay(sessions[id], hello.last) ELSE down

Opened(hello, id, a, env) ==
  /\ id \notin DOMAIN sessions
  /\ id = hello.conn \/ id = hello.sid
  /\ sessions' = [i \in DOMAIN sessions \cup {id} |-> IF i = id THEN a ELSE sessions[i]]
  /\ a.sid = id /\ a.inc = hello.conn /\ a.sock = hello.conn
  /\ a.seq = 1 /\ DOMAIN a.ring = {1} /\ a.ring[1] = env /\ RingOk(a)
  /\ env.seq = 1 /\ env.sid = id /\ env.inc = hello.conn
  /\ env.kind = "snapshot" /\ env.truth = spawns
  /\ down' = IF hello.conn = conn THEN Append(down, env) ELSE down

\* onPendingFirstBinary either resumes the session named or opens a fresh one.
LEMMA Hello ==
  ASSUME DataInv, RingInv, SocketInv, NEW hello \in hellos, OnHello(hello)
  PROVE  /\ hellos' = hellos \ {hello}
         /\ UNCHANGED <<spawns, clock, made, conn, dead, client>>
         /\ \/ Resumed(hello)
            \/ \E id \in Ids, a \in Adapters, env \in Envelopes : Opened(hello, id, a, env)
<1>1. /\ hellos' = hellos \ {hello}
      /\ UNCHANGED <<spawns, clock, made, conn, dead, client>>
      /\ Resume(hello) \/ Attach(hello)
  BY DEF OnHello
<1>2. CASE Resume(hello)
  BY <1>1, <1>2 DEF Resume, Resumed
<1>3. CASE Attach(hello)
  <2> DEFINE id == FreshId(hello)
             new == [sid |-> id, inc |-> hello.conn, seq |-> 0, ring |-> <<>>,
                     sock |-> hello.conn]
             env == Envelope(new, "snapshot", 0, spawns)
             a == Emit(new, env, RingCap)
  <2>1. /\ sessions' = [i \in DOMAIN sessions \cup {id} |->
                          IF i = id THEN a ELSE sessions[i]]
        /\ down' = Send(new, <<env>>)
    BY <1>3 DEF Attach
  <2>2. /\ hello.conn \in Ids /\ hello.conn # 0 /\ hello.sid \in Nat
        /\ hello.conn \notin DOMAIN sessions /\ hello.sid <= made
        /\ made \in 0 .. MaxConns
    <3>1. /\ hello.conn \in (dead \cup {conn}) \ {0} /\ made \in 0 .. MaxConns
          /\ conn \in {0, made} /\ dead \subseteq 1 .. made
          /\ hello \in Hellos /\ hello.conn \notin Used /\ Used \subseteq 0 .. made
      BY DEF SocketInv
    <3>2. hello.sid \in Used /\ DOMAIN sessions \subseteq Used
      BY DEF Used
    <3> QED
      BY <3>1, <3>2, ResumeAssumption DEF Ids, Hellos
  <2>3. /\ id \in Ids /\ id \notin DOMAIN sessions
        /\ id = hello.conn \/ id = hello.sid
    BY <2>2, ResumeAssumption DEF FreshId, Ids
  <2> HIDE DEF id
  <2>4. /\ new.sid = id /\ new.inc = hello.conn /\ new.seq = 0 /\ new.ring = <<>>
        /\ new.sock = hello.conn /\ new \in Adapters
    BY <2>2, <2>3, ResumeAssumption DEF Adapters, Ids
  <2>5. /\ env.seq = 1 /\ env.sid = id /\ env.inc = hello.conn
        /\ env.kind = "snapshot" /\ env.truth = spawns /\ env \in Envelopes
    <3>1. 1 \in 1 .. MaxEvents + 1 /\ spawns \in SUBSET Spawns
      BY ResumeAssumption DEF DataInv
    <3> QED
      BY <2>2, <2>3, <3>1 DEF Envelope, Envelopes, Kinds
  <2>6. down' = IF hello.conn = conn THEN Append(down, env) ELSE down
    <3>1. down' = IF hello.conn = conn THEN down \o <<env>> ELSE down
      BY <2>1, <2>2 DEF Send
    <3>2. down \in Seq(Envelopes)
      BY DEF DataInv
    <3> HIDE DEF env
    <3>3. Append(down, env) = down \o <<env>>
      BY <2>5, <3>2
    <3> QED
      BY <3>1, <3>3
  <2> HIDE DEF new, env
  <2>7. RingCap \in Nat \ {0} /\ a = Emit(new, env, RingCap)
    BY ResumeAssumption
  <2> HIDE DEF a
  <2>8. /\ a \in Adapters /\ a.sid = id /\ a.inc = hello.conn /\ a.sock = hello.conn
        /\ a.seq = 1 /\ a.ring = Latest(Append(<<>>, env), RingCap)
    <3>a. new \in Adapters /\ env \in Envelopes
      BY <2>4, <2>5
    <3>1. /\ a \in Adapters /\ a.sid = new.sid /\ a.inc = new.inc
          /\ a.sock = new.sock /\ a.seq = new.seq + 1
          /\ a.ring = Latest(Append(new.ring, env), RingCap)
      BY <2>7, <3>a, EmitFields
    <3> QED
      BY <2>4, <3>1
  <2>9. DOMAIN a.ring = {1} /\ Len(a.ring) = 1 /\ a.ring[1] = env
    <3> DEFINE q == a.ring
               r == <<>>
    <3>1. r \in Seq(Envelopes) /\ Len(r) = 0 /\ q = Latest(Append(r, env), RingCap)
      BY <2>8
    <3> HIDE DEF q, r
    <3>2. EndOf(q, r, env, RingCap)
      BY <2>5, <2>7, <3>1, LatestRing
    <3>3. /\ q \in Seq(Envelopes) /\ Len(q) \in 1 .. RingCap /\ q[Len(q)] = env
          /\ ~(1 \in 1 .. Len(q) - 1)
      BY <3>1, <3>2 DEF EndOf
    <3>4. Len(q) = 1
      <4> DEFINE k == Len(q)
      <4>1. k \in Nat /\ k >= 1 /\ ~(1 <= k - 1)
        BY <3>3
      <4> HIDE DEF k
      <4>2. k = 1
        BY <4>1
      <4> QED
        BY <4>2 DEF k
    <3>5. DOMAIN q = 1 .. 1 /\ q[1] = env
      BY <3>3, <3>4
    <3> QED
      BY <3>4, <3>5 DEF q
  <2>10. RingOk(a)
    <3>1. 1 \in 1 .. RingCap
      BY ResumeAssumption
    <3>2. a.seq - Len(a.ring) + 1 = 1
      <4>1. a.seq = 1
        BY <2>8
      <4>2. Len(a.ring) = 1
        BY <2>9
      <4> QED
        BY <4>1, <4>2
    <3>3. \A i \in DOMAIN a.ring : i = 1 /\ a.ring[i] = env
      BY <2>9
    <3>4. \A i \in DOMAIN a.ring : /\ a.ring[i] \in Envelopes
                                   /\ a.ring[i].seq = a.seq - Len(a.ring) + i
                                   /\ a.ring[i].inc = a.inc
      BY <2>5, <2>8, <3>2, <3>3
    <3> QED
      BY <2>9, <3>1, <3>4 DEF RingOk
  <2> QED
    BY <1>1, <2>1, <2>3, <2>5, <2>6, <2>8, <2>9, <2>10 DEF Opened
<1> QED
  BY <1>1, <1>2, <1>3

-----------------------------------------------------------------------------
(* The data and the rings are kept.                                         *)

\* Every step keeps the types and leaves every ring without a hole.
LEMMA DataRingStep ==
  ASSUME DataInv, RingInv, SocketInv, [Next]_vars
  PROVE  DataInv' /\ RingInv'
<1>1. /\ spawns \in SUBSET Spawns /\ clock \in 0 .. MaxEvents
      /\ \A id \in DOMAIN sessions : sessions[id] \in Adapters
      /\ sessions \in [DOMAIN sessions -> Adapters] /\ DOMAIN sessions \subseteq Ids
      /\ down \in Seq(Envelopes) /\ MaxEvents \in Nat
  BY ResumeAssumption DEF DataInv
<1>2. ASSUME NEW D \in SUBSET DOMAIN sessions, NEW kind \in Kinds,
             NEW x \in Spawns \cup {0}, NEW s \in SUBSET Spawns, Emission(D, kind, x, s)
      PROVE  DataInv' /\ RingInv'
  <2> DEFINE env(id) == Envelope(sessions[id], kind, x, s)
  <2>1. /\ clock < MaxEvents /\ clock' = clock + 1 /\ spawns' = s /\ client' = client
        /\ EmitAll(D, kind, x, s)
    BY <1>2 DEF Emission
  <2>a. Emits(D, kind, x, s)
    BY <1>2, Emitted DEF Emission
  <2>2. /\ DOMAIN sessions' = DOMAIN sessions
        /\ \A id \in DOMAIN sessions :
             env(id) \in Envelopes /\ sessions'[id] \in Adapters
        /\ \A id \in DOMAIN sessions \ D : sessions'[id] = sessions[id]
        /\ \A id \in D :
             /\ sessions'[id].seq = sessions[id].seq + 1
             /\ RingOk(sessions'[id])
             /\ \A i \in DOMAIN sessions'[id].ring :
                  \/ sessions'[id].ring[i] = env(id)
                  \/ \E j \in DOMAIN sessions[id].ring :
                       sessions'[id].ring[i] = sessions[id].ring[j]
        /\ \/ D \cap Attached = {} /\ down' = down
           \/ \E id \in D \cap Attached : down' = Append(down, env(id))
    BY <2>a DEF Emits
  <2>3. \A id \in DOMAIN sessions : env(id).sid = id
    BY DEF Envelope, SocketInv
  <2> HIDE DEF env
  <2>4. down' \in Seq(Envelopes)
    BY <1>1, <2>2 DEF Attached
  <2>5. sessions' \in [DOMAIN sessions' -> Adapters]
    <3>1. sessions' = [id \in DOMAIN sessions' |-> sessions'[id]]
      BY <2>1 DEF EmitAll
    <3> QED
      BY <2>2, <3>1
  <2>6. DataInv'
    BY <1>1, <2>1, <2>2, <2>4, <2>5 DEF DataInv
  <2>7. ASSUME NEW id \in DOMAIN sessions'
        PROVE  /\ RingOk(sessions'[id]) /\ sessions'[id].seq \in 1 .. clock' + 1
               /\ \A i \in DOMAIN sessions'[id].ring : sessions'[id].ring[i].sid = id
    <3>1. /\ RingOk(sessions[id]) /\ sessions[id].seq \in 1 .. clock + 1
          /\ \A i \in DOMAIN sessions[id].ring : sessions[id].ring[i].sid = id
      BY <2>2 DEF RingInv
    <3>2. CASE id \in D
      <4>1. sessions[id].seq + 1 \in 1 .. clock' + 1
        BY <1>1, <2>1, <3>1
      <4> QED
        BY <2>2, <2>3, <3>1, <3>2, <4>1
    <3>3. CASE id \notin D
      <4>1. sessions'[id] = sessions[id]
        BY <2>2, <3>3
      <4>2. sessions[id].seq \in 1 .. clock' + 1
        BY <1>1, <2>1, <3>1
      <4> QED
        BY <3>1, <4>1, <4>2
    <3> QED
      BY <3>2, <3>3
  <2> QED
    BY <2>6, <2>7 DEF RingInv, RingOk
<1>3. ASSUME NEW hello \in hellos, OnHello(hello)
      PROVE  DataInv' /\ RingInv'
  <2>a. UNCHANGED <<spawns, clock, client>>
    BY <1>3, Hello
  <2>1. /\ UNCHANGED <<spawns, clock, client>> /\ hello \in Hellos
        /\ hello.conn \in 0 .. MaxConns
    <3>1. /\ hello \in Hellos /\ hello.conn \in dead \cup {conn}
          /\ dead \subseteq 1 .. made /\ conn \in {0, made} /\ made \in 0 .. MaxConns
      BY DEF SocketInv
    <3>2. \A k \in dead \cup {conn} : k \in 0 .. MaxConns
      BY <3>1, ResumeAssumption
    <3> QED
      BY <2>a, <3>1, <3>2
  <2>2. ASSUME NEW id, id = hello.sid, id \in DOMAIN sessions,
               sessions' = [sessions EXCEPT ![id].sock = hello.conn],
               down' = IF hello.conn = conn
                       THEN down \o Replay(sessions[id], hello.last) ELSE down
        PROVE  DataInv' /\ RingInv'
    <3>1. Replay(sessions[id], hello.last) \in Seq(Envelopes)
      BY <1>1, <2>1, <2>2, ReplayTail DEF RingInv, Hellos
    <3>2. down' \in Seq(Envelopes)
      <4> DEFINE t == Replay(sessions[id], hello.last)
      <4>1. t \in Seq(Envelopes) /\ down' = IF hello.conn = conn THEN down \o t ELSE down
        BY <2>2, <3>1
      <4> HIDE DEF t
      <4> QED
        BY <1>1, <4>1
    <3>3. sessions' \in [DOMAIN sessions -> Adapters]
      <4>1. [sessions[id] EXCEPT !.sock = hello.conn] \in Adapters
        BY <1>1, <2>1, <2>2 DEF Adapters
      <4>2. sessions' = [sessions EXCEPT ![id] = [sessions[id] EXCEPT !.sock = hello.conn]]
        BY <2>2
      <4> QED
        BY <1>1, <4>1, <4>2
    <3>4. DOMAIN sessions' = DOMAIN sessions
      BY <3>3
    <3>5. \A i \in DOMAIN sessions : /\ sessions'[i].ring = sessions[i].ring
                                    /\ sessions'[i].seq = sessions[i].seq
                                    /\ sessions'[i].inc = sessions[i].inc
      BY <1>1, <2>2 DEF Adapters
    <3>6. RingInv'
      BY <2>1, <3>4, <3>5 DEF RingInv, RingOk
    <3> QED
      BY <1>1, <2>1, <3>2, <3>3, <3>4, <3>6 DEF DataInv
  <2>3. ASSUME NEW id \in Ids, NEW a \in Adapters, NEW env \in Envelopes,
               id \notin DOMAIN sessions,
               sessions' = [i \in DOMAIN sessions \cup {id} |->
                              IF i = id THEN a ELSE sessions[i]],
               a.seq = 1, DOMAIN a.ring = {1}, a.ring[1] = env, RingOk(a), env.sid = id,
               down' = IF hello.conn = conn THEN Append(down, env) ELSE down
        PROVE  DataInv' /\ RingInv'
    <3>1. down' \in Seq(Envelopes)
      BY <1>1, <2>3
    <3>2. /\ DOMAIN sessions' = DOMAIN sessions \cup {id}
          /\ sessions' \in [DOMAIN sessions' -> Adapters]
          /\ DOMAIN sessions' \subseteq Ids
          /\ \A i \in DOMAIN sessions : sessions'[i] = sessions[i]
          /\ sessions'[id] = a
      BY <1>1, <2>3
    <3>3. DataInv'
      BY <1>1, <2>1, <3>1, <3>2 DEF DataInv
    <3>4. ASSUME NEW i \in DOMAIN sessions'
          PROVE  /\ RingOk(sessions'[i]) /\ sessions'[i].seq \in 1 .. clock' + 1
                 /\ \A j \in DOMAIN sessions'[i].ring : sessions'[i].ring[j].sid = i
      <4>1. CASE i = id
        <5>1. 1 \in 1 .. clock' + 1
          BY <1>1, <2>1
        <5> QED
          BY <2>3, <3>2, <4>1, <5>1
      <4>2. CASE i \in DOMAIN sessions
        BY <2>1, <3>2, <4>2 DEF RingInv
      <4> QED
        BY <3>2, <4>1, <4>2
    <3> QED
      BY <3>3, <3>4 DEF RingInv, RingOk
  <2>4. \/ Resumed(hello)
        \/ \E id \in Ids, a \in Adapters, env \in Envelopes : Opened(hello, id, a, env)
    BY <1>3, Hello
  <2>5. CASE Resumed(hello)
    BY <2>2, <2>5 DEF Resumed
  <2>6. ASSUME NEW id \in Ids, NEW a \in Adapters, NEW env \in Envelopes,
               Opened(hello, id, a, env)
        PROVE  DataInv' /\ RingInv'
    BY <2>3, <2>6 DEF Opened
  <2> QED
    BY <2>4, <2>5, <2>6
<1>4. ASSUME NEW k \in dead, SocketGone(k)
      PROVE  DataInv' /\ RingInv'
  <2>1. /\ UNCHANGED <<spawns, clock, down, client>>
        /\ sessions' = [id \in DOMAIN sessions |->
                          [sessions[id] EXCEPT !.sock = IF @ = k THEN 0 ELSE @]]
    BY <1>4 DEF SocketGone
  <2>2. ASSUME NEW id \in DOMAIN sessions
        PROVE  /\ sessions'[id] \in Adapters
               /\ sessions'[id].ring = sessions[id].ring
               /\ sessions'[id].seq = sessions[id].seq
               /\ sessions'[id].inc = sessions[id].inc
    <3>1. 0 \in 0 .. MaxConns
      BY ResumeAssumption
    <3>2. PICK z \in 0 .. MaxConns : sessions'[id] = [sessions[id] EXCEPT !.sock = z]
      BY <1>1, <2>1, <3>1 DEF Adapters
    <3> QED
      BY <1>1, <3>2 DEF Adapters
  <2>3. sessions' \in [DOMAIN sessions -> Adapters] /\ DOMAIN sessions' = DOMAIN sessions
    <3>1. sessions' = [id \in DOMAIN sessions |-> sessions'[id]]
      BY <2>1
    <3> QED
      BY <2>2, <3>1
  <2>4. RingInv'
    BY <2>1, <2>2, <2>3 DEF RingInv, RingOk
  <2> QED
    BY <1>1, <2>1, <2>3, <2>4 DEF DataInv
<1>5. ASSUME NEW id \in DOMAIN sessions, Prune(id)
      PROVE  DataInv' /\ RingInv'
  <2>1. /\ UNCHANGED <<spawns, clock, down, client>>
        /\ sessions' = [i \in DOMAIN sessions \ {id} |-> sessions[i]]
    BY <1>5 DEF Prune
  <2>2. RingInv'
    BY <2>1 DEF RingInv, RingOk
  <2> QED
    BY <1>1, <2>1, <2>2 DEF DataInv
<1>6. ASSUME Restart
      PROVE  DataInv' /\ RingInv'
  BY <1>1, <1>6 DEF Restart, DataInv, RingInv
<1>7. ASSUME Connect \/ UNCHANGED vars
      PROVE  DataInv' /\ RingInv'
  <2>1. UNCHANGED <<spawns, clock, sessions, down, client>>
    BY <1>7 DEF Connect, vars
  <2> QED
    BY <2>1 DEF DataInv, RingInv, RingOk
<1>8. ASSUME Drop
      PROVE  DataInv' /\ RingInv'
  <2>1. UNCHANGED <<spawns, clock, sessions, client>> /\ down' = <<>>
    BY <1>8 DEF Drop
  <2> QED
    BY <2>1 DEF DataInv, RingInv, RingOk
<1>9. ASSUME Deliver
      PROVE  DataInv' /\ RingInv'
  <2> DEFINE env == Head(down)
             snap == env.kind = "snapshot"
  <2>1. /\ UNCHANGED <<spawns, clock, sessions>> /\ down # <<>> /\ down' = Tail(down)
        /\ client' = [sid   |-> IF snap THEN env.sid ELSE client.sid,
                      last  |-> env.seq,
                      view  |-> Applied(client.view, env),
                      gap   |-> ~snap /\ (client.gap \/ env.seq # client.last + 1),
                      base  |-> IF snap THEN env.inc ELSE client.base,
                      inc   |-> env.inc,
                      truth |-> env.truth]
    BY <1>9 DEF Deliver
  <2>2. env \in Envelopes /\ down' \in Seq(Envelopes)
    BY <1>1, <2>1
  <2> HIDE DEF env
  <2>3. Applied(client.view, env) \in SUBSET Spawns
    <3>1. /\ env.kind \in Kinds /\ env.truth \in SUBSET Spawns
          /\ client.view \in SUBSET Spawns
      BY <2>2 DEF Envelopes, DataInv
    <3>2. env.kind = "added" => env.item \in Spawns
      BY <2>2 DEF Envelopes
    <3> QED
      BY <3>1, <3>2 DEF Applied, Kinds
  <2>4. /\ env.seq \in 0 .. MaxEvents + 1 /\ env.sid \in Nat /\ env.inc \in Nat
        /\ env.truth \in SUBSET Spawns
    BY <1>1, <2>2, ResumeAssumption DEF Envelopes, Ids
  <2>5. client' \in [sid : Nat, last : 0 .. MaxEvents + 1, view : SUBSET Spawns,
                     gap : BOOLEAN, base : Nat, inc : Nat, truth : SUBSET Spawns]
    BY <2>1, <2>3, <2>4 DEF DataInv
  <2>6. RingInv'
    BY <2>1 DEF RingInv, RingOk
  <2> QED
    BY <1>1, <2>1, <2>2, <2>5, <2>6 DEF DataInv
<1> QED
  BY <1>2, <1>3, <1>4, <1>5, <1>6, <1>7, <1>8, <1>9, Emissions DEF Next

-----------------------------------------------------------------------------
(* The sockets are kept.                                                    *)

\* What is spoken of afterwards is among W.
LEMMA SpokenOf ==
  ASSUME NEW W,
         \A id \in DOMAIN sessions' :
           id \in W /\ sessions'[id].inc \in W /\ sessions'[id].sock \in W,
         \A h \in hellos' : h.sid \in W,
         client'.sid \in W /\ client'.inc \in W /\ client'.base \in W
  PROVE  Used' \subseteq W
BY DEF Used

\* Used holds them all.
LEMMA Speaking ==
  /\ \A id \in DOMAIN sessions :
       id \in Used /\ sessions[id].inc \in Used /\ sessions[id].sock \in Used
  /\ \A h \in hellos : h.sid \in Used
  /\ client.sid \in Used /\ client.inc \in Used /\ client.base \in Used
BY DEF Used

\* Every step keeps one session per socket, and none for a Subscribe not yet read.
LEMMA SocketStep ==
  ASSUME DataInv, RingInv, SocketInv, StreamInv, [Next]_vars
  PROVE  SocketInv'
<1>1. /\ made \in 0 .. MaxConns /\ conn \in {0, made} /\ dead \subseteq (1 .. made) \ {conn}
      /\ MaxConns \in Nat
      /\ \A h \in hellos : /\ h \in Hellos
                           /\ h.conn \in (dead \cup {conn}) \ {0}
                           /\ h.last <= MaxEvents + 1
                           /\ h.conn \notin Used
                           /\ h.conn = conn => h.sid = client.sid /\ h.last = client.last
      /\ \A g, h \in hellos : g.conn = h.conn => g = h
      /\ Used \subseteq 0 .. made
      /\ \A id \in DOMAIN sessions :
           sessions[id].sid = id /\ sessions[id].sock \in dead \cup {0, conn}
      /\ \A i, j \in DOMAIN sessions :
           /\ sessions[i].inc = sessions[j].inc => i = j
           /\ sessions[i].sock = sessions[j].sock /\ sessions[i].sock # 0 => i = j
      /\ (conn # 0 /\ \A h \in hellos : h.conn # conn) => Attached # {}
  BY ResumeAssumption DEF SocketInv
<1>2. \A id \in DOMAIN sessions : sessions[id] \in Adapters
  BY DEF DataInv
<1>3. ASSUME NEW D \in SUBSET DOMAIN sessions, NEW kind \in Kinds,
             NEW x \in Spawns \cup {0}, NEW s \in SUBSET Spawns, Emission(D, kind, x, s)
      PROVE  SocketInv'
  <2>1. UNCHANGED <<hellos, made, conn, dead, client>>
    BY <1>3 DEF Emission
  <2>2. Emits(D, kind, x, s)
    BY <1>3, Emitted DEF Emission
  <2>3. /\ DOMAIN sessions' = DOMAIN sessions
        /\ \A id \in DOMAIN sessions :
             /\ sessions'[id].sid = sessions[id].sid
             /\ sessions'[id].inc = sessions[id].inc
             /\ sessions'[id].sock = sessions[id].sock
    BY <2>2 DEF Emits
  <2>4. Used' \subseteq Used
    BY <2>1, <2>3, Speaking, SpokenOf
  <2>5. Attached' = Attached
    BY <2>1, <2>3 DEF Attached
  <2>h. \A h \in hellos' : /\ h \in Hellos
                           /\ h.conn \in (dead' \cup {conn'}) \ {0}
                           /\ h.last <= MaxEvents + 1
                           /\ h.conn \notin Used'
                           /\ h.conn = conn' => h.sid = client'.sid /\ h.last = client'.last
    BY <1>1, <2>1, <2>4
  <2>u. \A g, h \in hellos' : g.conn = h.conn => g = h
    BY <1>1, <2>1
  <2>o. \A id \in DOMAIN sessions' :
          sessions'[id].sid = id /\ sessions'[id].sock \in dead' \cup {0, conn'}
    BY <1>1, <2>1, <2>3
  <2>a. \A i, j \in DOMAIN sessions' :
          /\ sessions'[i].inc = sessions'[j].inc => i = j
          /\ sessions'[i].sock = sessions'[j].sock /\ sessions'[i].sock # 0 => i = j
    BY <1>1, <2>3
  <2>s. (conn' # 0 /\ \A h \in hellos' : h.conn # conn') => Attached' # {}
    BY <1>1, <2>1, <2>5
  <2>m. /\ made' \in 0 .. MaxConns /\ conn' \in {0, made'}
        /\ dead' \subseteq (1 .. made') \ {conn'} /\ Used' \subseteq 0 .. made'
    BY <1>1, <2>1, <2>4
  <2> QED
    BY <2>h, <2>u, <2>o, <2>a, <2>s, <2>m DEF SocketInv
<1>4. ASSUME NEW hello \in hellos, OnHello(hello)
      PROVE  SocketInv'
  <2>1. /\ hellos' = hellos \ {hello}
        /\ UNCHANGED <<spawns, clock, made, conn, dead, client>>
    BY <1>4, Hello
  <2>2. /\ hello.conn \in dead \cup {conn} /\ hello.conn # 0 /\ hello.conn \notin Used
        /\ \A h \in hellos' : h \in hellos /\ h.conn # hello.conn
        /\ hello.conn \in 0 .. made
    <3>1. \A k \in dead \cup {conn} : k \in 0 .. made
      <4>1. made \in Nat /\ dead \subseteq 1 .. made /\ conn \in {0, made}
        BY <1>1
      <4> QED
        BY <4>1
    <3> QED
      BY <1>1, <2>1, <3>1
  <2>3. CASE Resumed(hello)
    <3> DEFINE r == hello.sid
    <3>1. /\ r \in DOMAIN sessions /\ sessions[r].sock = 0
          /\ sessions' = [sessions EXCEPT ![r].sock = hello.conn]
      BY <2>3 DEF Resumed
    <3> HIDE DEF r
    <3>2. /\ DOMAIN sessions' = DOMAIN sessions
          /\ \A id \in DOMAIN sessions :
               /\ sessions'[id].sid = sessions[id].sid
               /\ sessions'[id].inc = sessions[id].inc
               /\ sessions'[id].sock = IF id = r THEN hello.conn ELSE sessions[id].sock
      BY <1>2, <3>1 DEF Adapters
    <3>3. Used' \subseteq Used \cup {hello.conn}
      <4> DEFINE W == Used \cup {hello.conn}
      <4>1. \A id \in DOMAIN sessions' :
              id \in W /\ sessions'[id].inc \in W /\ sessions'[id].sock \in W
        BY <3>2, Speaking
      <4>2. /\ \A h \in hellos' : h.sid \in W
            /\ client'.sid \in W /\ client'.inc \in W /\ client'.base \in W
        BY <2>1, <2>2, Speaking
      <4> HIDE DEF W
      <4>3. Used' \subseteq W
        BY <4>1, <4>2, SpokenOf
      <4> QED
        BY <4>3 DEF W
    <3>4. \A id \in DOMAIN sessions : sessions[id].sock # hello.conn
      BY <2>2, Speaking
    <3>5. \A i, j \in DOMAIN sessions' :
            /\ sessions'[i].inc = sessions'[j].inc => i = j
            /\ sessions'[i].sock = sessions'[j].sock /\ sessions'[i].sock # 0 => i = j
      BY <1>1, <3>2, <3>4
    <3>6. (conn # 0 /\ \A h \in hellos' : h.conn # conn) => Attached' # {}
      <4>1. CASE hello.conn = conn
        <5>1. conn # 0 /\ r \in DOMAIN sessions' /\ sessions'[r].sock = conn'
          BY <2>1, <2>2, <3>1, <3>2, <4>1
        <5> QED
          BY <2>1, <5>1 DEF Attached
      <4>2. CASE hello.conn # conn
        <5>1. Attached \subseteq Attached'
          BY <2>1, <3>1, <3>2 DEF Attached
        <5> QED
          BY <1>1, <2>1, <4>2, <5>1
      <4> QED
        BY <4>1, <4>2
    <3>h. \A h \in hellos' : /\ h \in Hellos
                             /\ h.conn \in (dead' \cup {conn'}) \ {0}
                             /\ h.last <= MaxEvents + 1
                             /\ h.conn \notin Used'
                             /\ h.conn = conn' => h.sid = client'.sid /\ h.last = client'.last
      BY <1>1, <2>1, <2>2, <3>3
    <3>u. \A g, h \in hellos' : g.conn = h.conn => g = h
      BY <1>1, <2>1
    <3>o. \A id \in DOMAIN sessions' :
            sessions'[id].sid = id /\ sessions'[id].sock \in dead' \cup {0, conn'}
      BY <1>1, <2>1, <2>2, <3>2
    <3>a. \A i, j \in DOMAIN sessions' :
            /\ sessions'[i].inc = sessions'[j].inc => i = j
            /\ sessions'[i].sock = sessions'[j].sock /\ sessions'[i].sock # 0 => i = j
      BY <3>5
    <3>s. (conn' # 0 /\ \A h \in hellos' : h.conn # conn') => Attached' # {}
      BY <2>1, <3>6
    <3>m. /\ made' \in 0 .. MaxConns /\ conn' \in {0, made'}
          /\ dead' \subseteq (1 .. made') \ {conn'} /\ Used' \subseteq 0 .. made'
      BY <1>1, <2>1, <2>2, <3>3
    <3> QED
      BY <3>h, <3>u, <3>o, <3>a, <3>s, <3>m DEF SocketInv
  <2>4. ASSUME NEW r \in Ids, NEW a \in Adapters, NEW env \in Envelopes,
               Opened(hello, r, a, env)
        PROVE  SocketInv'
    <3>1. /\ r \notin DOMAIN sessions /\ (r = hello.conn \/ r = hello.sid)
          /\ DOMAIN sessions' = DOMAIN sessions \cup {r}
          /\ sessions'[r] = a /\ \A id \in DOMAIN sessions : sessions'[id] = sessions[id]
          /\ a.sid = r /\ a.inc = hello.conn /\ a.sock = hello.conn
      BY <2>4 DEF Opened
    <3>2. Used' \subseteq Used \cup {hello.conn}
      <4> DEFINE W == Used \cup {hello.conn}
      <4>1. \A id \in DOMAIN sessions' :
              id \in W /\ sessions'[id].inc \in W /\ sessions'[id].sock \in W
        BY <3>1, <2>2, Speaking
      <4>2. /\ \A h \in hellos' : h.sid \in W
            /\ client'.sid \in W /\ client'.inc \in W /\ client'.base \in W
        BY <2>1, <2>2, Speaking
      <4> HIDE DEF W
      <4>3. Used' \subseteq W
        BY <4>1, <4>2, SpokenOf
      <4> QED
        BY <4>3 DEF W
    <3>3. \A id \in DOMAIN sessions :
            sessions[id].sock # hello.conn /\ sessions[id].inc # hello.conn
      BY <2>2, Speaking
    <3>4. \A i, j \in DOMAIN sessions' :
            /\ sessions'[i].inc = sessions'[j].inc => i = j
            /\ sessions'[i].sock = sessions'[j].sock /\ sessions'[i].sock # 0 => i = j
      BY <1>1, <3>1, <3>3
    <3>5. (conn # 0 /\ \A h \in hellos' : h.conn # conn) => Attached' # {}
      <4>1. CASE hello.conn = conn
        BY <2>1, <2>2, <3>1, <4>1 DEF Attached
      <4>2. CASE hello.conn # conn
        <5>1. Attached \subseteq Attached'
          BY <2>1, <3>1 DEF Attached
        <5> QED
          BY <1>1, <2>1, <4>2, <5>1
      <4> QED
        BY <4>1, <4>2
    <3>6. \A id \in DOMAIN sessions' :
            sessions'[id].sid = id /\ sessions'[id].sock \in dead \cup {0, conn}
      BY <1>1, <2>2, <3>1
    <3>h. \A h \in hellos' : /\ h \in Hellos
                             /\ h.conn \in (dead' \cup {conn'}) \ {0}
                             /\ h.last <= MaxEvents + 1
                             /\ h.conn \notin Used'
                             /\ h.conn = conn' => h.sid = client'.sid /\ h.last = client'.last
      BY <1>1, <2>1, <2>2, <3>2
    <3>u. \A g, h \in hellos' : g.conn = h.conn => g = h
      BY <1>1, <2>1
    <3>o. \A id \in DOMAIN sessions' :
            sessions'[id].sid = id /\ sessions'[id].sock \in dead' \cup {0, conn'}
      BY <2>1, <3>6
    <3>a. \A i, j \in DOMAIN sessions' :
            /\ sessions'[i].inc = sessions'[j].inc => i = j
            /\ sessions'[i].sock = sessions'[j].sock /\ sessions'[i].sock # 0 => i = j
      BY <3>4
    <3>s. (conn' # 0 /\ \A h \in hellos' : h.conn # conn') => Attached' # {}
      BY <2>1, <3>5
    <3>m. /\ made' \in 0 .. MaxConns /\ conn' \in {0, made'}
          /\ dead' \subseteq (1 .. made') \ {conn'} /\ Used' \subseteq 0 .. made'
      BY <1>1, <2>1, <2>2, <3>2
    <3> QED
      BY <3>h, <3>u, <3>o, <3>a, <3>s, <3>m DEF SocketInv
  <2>5. \/ Resumed(hello)
        \/ \E id \in Ids, a \in Adapters, env \in Envelopes : Opened(hello, id, a, env)
    BY <1>4, Hello
  <2> QED
    BY <2>3, <2>4, <2>5
<1>5. ASSUME NEW k \in dead, SocketGone(k)
      PROVE  SocketInv'
  <2>1. /\ dead' = dead \ {k} /\ hellos' = {h \in hellos : h.conn # k}
        /\ UNCHANGED <<made, conn, down, client>>
        /\ sessions' = [id \in DOMAIN sessions |->
                          [sessions[id] EXCEPT !.sock = IF @ = k THEN 0 ELSE @]]
    BY <1>5 DEF SocketGone
  <2>2. /\ DOMAIN sessions' = DOMAIN sessions
        /\ \A id \in DOMAIN sessions :
             /\ sessions'[id].sid = sessions[id].sid
             /\ sessions'[id].inc = sessions[id].inc
             /\ sessions'[id].sock = IF sessions[id].sock = k THEN 0 ELSE sessions[id].sock
    BY <1>2, <2>1 DEF Adapters
  <2>3. Used' \subseteq Used \cup {0}
    <3> DEFINE W == Used \cup {0}
    <3>1. \A id \in DOMAIN sessions' :
            id \in W /\ sessions'[id].inc \in W /\ sessions'[id].sock \in W
      BY <2>2, Speaking
    <3>2. /\ \A h \in hellos' : h.sid \in W
          /\ client'.sid \in W /\ client'.inc \in W /\ client'.base \in W
      BY <2>1, Speaking
    <3> HIDE DEF W
    <3>3. Used' \subseteq W
      BY <3>1, <3>2, SpokenOf
    <3> QED
      BY <3>3 DEF W
  <2>4. k # conn /\ k # 0
    BY <1>1
  <2>5. Attached' = Attached
    BY <2>1, <2>2, <2>4 DEF Attached
  <2>h. \A h \in hellos' : /\ h \in Hellos
                           /\ h.conn \in (dead' \cup {conn'}) \ {0}
                           /\ h.last <= MaxEvents + 1
                           /\ h.conn \notin Used'
                           /\ h.conn = conn' => h.sid = client'.sid /\ h.last = client'.last
    BY <1>1, <2>1, <2>3
  <2>u. \A g, h \in hellos' : g.conn = h.conn => g = h
    BY <1>1, <2>1
  <2>o. \A id \in DOMAIN sessions' :
          sessions'[id].sid = id /\ sessions'[id].sock \in dead' \cup {0, conn'}
    BY <1>1, <2>1, <2>2, <2>4
  <2>a. \A i, j \in DOMAIN sessions' :
          /\ sessions'[i].inc = sessions'[j].inc => i = j
          /\ sessions'[i].sock = sessions'[j].sock /\ sessions'[i].sock # 0 => i = j
    BY <1>1, <2>2
  <2>s. (conn' # 0 /\ \A h \in hellos' : h.conn # conn') => Attached' # {}
    BY <1>1, <2>1, <2>4, <2>5
  <2>m. /\ made' \in 0 .. MaxConns /\ conn' \in {0, made'}
        /\ dead' \subseteq (1 .. made') \ {conn'} /\ Used' \subseteq 0 .. made'
    BY <1>1, <2>1, <2>3, <2>4
  <2> QED
    BY <2>h, <2>u, <2>o, <2>a, <2>s, <2>m DEF SocketInv
<1>6. ASSUME NEW r \in DOMAIN sessions, Prune(r)
      PROVE  SocketInv'
  <2>1. /\ sessions' = [i \in DOMAIN sessions \ {r} |-> sessions[i]]
        /\ sessions[r].sock = 0 /\ UNCHANGED <<hellos, made, conn, dead, client>>
    BY <1>6 DEF Prune
  <2>2. /\ DOMAIN sessions' = DOMAIN sessions \ {r}
        /\ \A id \in DOMAIN sessions' : sessions'[id] = sessions[id]
    BY <2>1
  <2>3. Used' \subseteq Used
    BY <2>1, <2>2, Speaking, SpokenOf
  <2>4. Attached' = Attached
    BY <2>1, <2>2 DEF Attached
  <2>h. \A h \in hellos' : /\ h \in Hellos
                           /\ h.conn \in (dead' \cup {conn'}) \ {0}
                           /\ h.last <= MaxEvents + 1
                           /\ h.conn \notin Used'
                           /\ h.conn = conn' => h.sid = client'.sid /\ h.last = client'.last
    BY <1>1, <2>1, <2>3
  <2>u. \A g, h \in hellos' : g.conn = h.conn => g = h
    BY <1>1, <2>1
  <2>o. \A id \in DOMAIN sessions' :
          sessions'[id].sid = id /\ sessions'[id].sock \in dead' \cup {0, conn'}
    BY <1>1, <2>1, <2>2
  <2>a. \A i, j \in DOMAIN sessions' :
          /\ sessions'[i].inc = sessions'[j].inc => i = j
          /\ sessions'[i].sock = sessions'[j].sock /\ sessions'[i].sock # 0 => i = j
    BY <1>1, <2>2
  <2>s. (conn' # 0 /\ \A h \in hellos' : h.conn # conn') => Attached' # {}
    BY <1>1, <2>1, <2>4
  <2>m. /\ made' \in 0 .. MaxConns /\ conn' \in {0, made'}
        /\ dead' \subseteq (1 .. made') \ {conn'} /\ Used' \subseteq 0 .. made'
    BY <1>1, <2>1, <2>3
  <2> QED
    BY <2>h, <2>u, <2>o, <2>a, <2>s, <2>m DEF SocketInv
<1>7. ASSUME Restart
      PROVE  SocketInv'
  <2>1. /\ conn = 0 /\ sessions' = <<>> /\ hellos' = {} /\ dead' = {}
        /\ UNCHANGED <<made, conn, client>> /\ DOMAIN sessions' = {}
    BY <1>7 DEF Restart
  <2>2. Used' \subseteq Used
    BY <2>1, Speaking, SpokenOf
  <2>3. /\ made' \in 0 .. MaxConns /\ conn' \in {0, made'}
        /\ dead' \subseteq (1 .. made') \ {conn'} /\ Used' \subseteq 0 .. made'
    BY <1>1, <2>1, <2>2
  <2> QED
    BY <2>1, <2>3 DEF SocketInv
<1>8. ASSUME Connect
      PROVE  SocketInv'
  <2> DEFINE new == [conn |-> made + 1, sid |-> client.sid, last |-> client.last]
  <2>1. /\ conn = 0 /\ made' = made + 1 /\ conn' = made + 1 /\ made < MaxConns
        /\ hellos' = hellos \cup {new}
        /\ UNCHANGED <<sessions, dead, client>>
    BY <1>8 DEF Connect
  <2>2. /\ new \in Hellos /\ new.conn = made + 1 /\ new.sid = client.sid
        /\ new.last = client.last /\ client.last <= MaxEvents + 1
    BY <1>1 DEF DataInv, Hellos
  <2> HIDE DEF new
  <2>3. Used' \subseteq Used
    BY <2>1, <2>2, Speaking, SpokenOf
  <2>4. \A k \in 0 .. made : k # made + 1 /\ k \in 0 .. made'
    BY <1>1, <2>1
  <2>5. \A h \in hellos : h.conn \in dead /\ h.conn # made + 1
    BY <1>1, <2>1, <2>4
  <2>6. \A h \in hellos' : /\ h \in Hellos
                           /\ h.conn \in (dead' \cup {conn'}) \ {0}
                           /\ h.last <= MaxEvents + 1
                           /\ h.conn \notin Used'
                           /\ h.conn = conn' => h.sid = client'.sid /\ h.last = client'.last
    <3> TAKE h \in hellos'
    <3>1. CASE h = new
      BY <1>1, <2>1, <2>2, <2>3, <2>4, <3>1
    <3>2. CASE h \in hellos
      BY <1>1, <2>1, <2>3, <2>5, <3>2
    <3> QED
      BY <2>1, <3>1, <3>2
  <2>7. \A g, h \in hellos' : g.conn = h.conn => g = h
    BY <1>1, <2>1, <2>2, <2>5
  <2>8. /\ made' \in 0 .. MaxConns /\ conn' \in {0, made'}
        /\ dead' \subseteq (1 .. made') \ {conn'} /\ Used' \subseteq 0 .. made'
    BY <1>1, <2>1, <2>3, <2>4
  <2>9. \A id \in DOMAIN sessions' :
          sessions'[id].sid = id /\ sessions'[id].sock \in dead' \cup {0, conn'}
    BY <1>1, <2>1
  <2>10. ~(\A h \in hellos' : h.conn # conn')
    BY <2>1, <2>2
  <2>11. \A i, j \in DOMAIN sessions' :
            /\ sessions'[i].inc = sessions'[j].inc => i = j
            /\ sessions'[i].sock = sessions'[j].sock /\ sessions'[i].sock # 0 => i = j
    BY <1>1, <2>1
  <2> QED
    BY <2>6, <2>7, <2>8, <2>9, <2>10, <2>11 DEF SocketInv
<1>9. ASSUME Drop
      PROVE  SocketInv'
  <2>1. /\ conn # 0 /\ conn' = 0 /\ dead' = dead \cup {conn}
        /\ UNCHANGED <<sessions, hellos, made, client>>
    BY <1>9 DEF Drop
  <2>2. Used' \subseteq Used
    BY <2>1, Speaking, SpokenOf
  <2>3. dead' \subseteq (1 .. made') \ {conn'}
    <3>1. conn \in 1 .. made
      BY <1>1, <2>1
    <3> QED
      BY <1>1, <2>1, <3>1
  <2>h. \A h \in hellos' : /\ h \in Hellos
                           /\ h.conn \in (dead' \cup {conn'}) \ {0}
                           /\ h.last <= MaxEvents + 1
                           /\ h.conn \notin Used'
                           /\ h.conn = conn' => h.sid = client'.sid /\ h.last = client'.last
    BY <1>1, <2>1, <2>2
  <2>u. \A g, h \in hellos' : g.conn = h.conn => g = h
    BY <1>1, <2>1
  <2>o. \A id \in DOMAIN sessions' :
          sessions'[id].sid = id /\ sessions'[id].sock \in dead' \cup {0, conn'}
    BY <1>1, <2>1
  <2>a. \A i, j \in DOMAIN sessions' :
          /\ sessions'[i].inc = sessions'[j].inc => i = j
          /\ sessions'[i].sock = sessions'[j].sock /\ sessions'[i].sock # 0 => i = j
    BY <1>1, <2>1
  <2>s. (conn' # 0 /\ \A h \in hellos' : h.conn # conn') => Attached' # {}
    BY <2>1
  <2>m. /\ made' \in 0 .. MaxConns /\ conn' \in {0, made'}
        /\ dead' \subseteq (1 .. made') \ {conn'} /\ Used' \subseteq 0 .. made'
    BY <1>1, <2>1, <2>2, <2>3
  <2> QED
    BY <2>h, <2>u, <2>o, <2>a, <2>s, <2>m DEF SocketInv
<1>10. ASSUME Deliver
       PROVE  SocketInv'
  <2> DEFINE env == Head(down)
  <2>1. /\ down # <<>> /\ UNCHANGED <<sessions, hellos, made, conn, dead>>
        /\ client'.sid \in {env.sid, client.sid} /\ client'.base \in {env.inc, client.base}
        /\ client'.inc = env.inc
    BY <1>10 DEF Deliver
  <2>2. PICK id \in Attached : env.sid = id /\ env.inc = sessions[id].inc
    <3>1. 1 \in DOMAIN down /\ env = down[1]
      BY <2>1 DEF DataInv
    <3> QED
      BY <3>1 DEF StreamInv
  <2>3. id \in DOMAIN sessions /\ sessions[id].sock = conn
    BY DEF Attached
  <2>4. Used' \subseteq Used
    BY <2>1, <2>2, <2>3, Speaking, SpokenOf
  <2>5. \A h \in hellos : h.conn # conn
    BY <1>1, <2>3, Speaking
  <2>6. Attached' = Attached
    BY <2>1 DEF Attached
  <2>h. \A h \in hellos' : /\ h \in Hellos
                           /\ h.conn \in (dead' \cup {conn'}) \ {0}
                           /\ h.last <= MaxEvents + 1
                           /\ h.conn \notin Used'
                           /\ h.conn = conn' => h.sid = client'.sid /\ h.last = client'.last
    BY <1>1, <2>1, <2>4, <2>5
  <2>u. \A g, h \in hellos' : g.conn = h.conn => g = h
    BY <1>1, <2>1
  <2>o. \A i \in DOMAIN sessions' :
          sessions'[i].sid = i /\ sessions'[i].sock \in dead' \cup {0, conn'}
    BY <1>1, <2>1
  <2>a. \A i, j \in DOMAIN sessions' :
          /\ sessions'[i].inc = sessions'[j].inc => i = j
          /\ sessions'[i].sock = sessions'[j].sock /\ sessions'[i].sock # 0 => i = j
    BY <1>1, <2>1
  <2>s. (conn' # 0 /\ \A h \in hellos' : h.conn # conn') => Attached' # {}
    BY <2>1, <2>2, <2>6
  <2>m. /\ made' \in 0 .. MaxConns /\ conn' \in {0, made'}
        /\ dead' \subseteq (1 .. made') \ {conn'} /\ Used' \subseteq 0 .. made'
    BY <1>1, <2>1, <2>4
  <2> QED
    BY <2>h, <2>u, <2>o, <2>a, <2>s, <2>m DEF SocketInv
<1>11. CASE UNCHANGED vars
  <2>1. UNCHANGED <<sessions, hellos, made, conn, dead, client>>
    BY <1>11 DEF vars
  <2> QED
    BY <2>1 DEF SocketInv, Used, Attached
<1> QED
  BY <1>3, <1>4, <1>5, <1>6, <1>7, <1>8, <1>9, <1>10, <1>11, Emissions DEF Next

-----------------------------------------------------------------------------
(* The streams are kept.                                                    *)

\* While nobody is attached, nothing is on its way.
LEMMA Silence ==
  ASSUME DataInv, StreamInv, Attached = {}
  PROVE  down = <<>>
<1>1. down \in Seq(Envelopes) /\ \A i \in DOMAIN down : FALSE
  BY DEF StreamInv, DataInv
<1> QED
  BY <1>1

\* The Subscribe of the client's own connection is read before anything is sent on it.
LEMMA OwnHello ==
  ASSUME DataInv, SocketInv, StreamInv, NEW h \in hellos, h.conn = conn
  PROVE  Attached = {} /\ down = <<>> /\ h.sid = client.sid /\ h.last = client.last
<1>1. /\ conn \notin Used /\ h.sid = client.sid /\ h.last = client.last
  BY DEF SocketInv
<1>2. Attached = {}
  BY <1>1, Speaking DEF Attached
<1> QED
  BY <1>1, <1>2, Silence

\* Whoever is attached by the answer to another connection's Subscribe was so before.
LEMMA OtherHello ==
  ASSUME DataInv, SocketInv, NEW h \in hellos, h.conn # conn,
         UNCHANGED conn,
         \/ Resumed(h)
         \/ \E id \in Ids, a \in Adapters, env \in Envelopes : Opened(h, id, a, env)
  PROVE  /\ Attached' = Attached /\ down' = down
         /\ \A id \in Attached : sessions'[id].inc = sessions[id].inc
<1>1. CASE Resumed(h)
  <2> DEFINE r == h.sid
  <2>1. /\ r \in DOMAIN sessions /\ sessions[r].sock = 0 /\ down' = down
        /\ sessions' = [sessions EXCEPT ![r].sock = h.conn]
    BY <1>1 DEF Resumed
  <2> HIDE DEF r
  <2>2. /\ DOMAIN sessions' = DOMAIN sessions
        /\ \A id \in DOMAIN sessions :
             /\ sessions'[id].inc = sessions[id].inc
             /\ sessions'[id].sock = IF id = r THEN h.conn ELSE sessions[id].sock
    BY <2>1 DEF DataInv, Adapters
  <2> QED
    BY <2>1, <2>2 DEF Attached
<1>2. ASSUME NEW id \in Ids, NEW a \in Adapters, NEW env \in Envelopes, Opened(h, id, a, env)
      PROVE  /\ Attached' = Attached /\ down' = down
             /\ \A i \in Attached : sessions'[i].inc = sessions[i].inc
  <2>1. /\ id \notin DOMAIN sessions /\ down' = down
        /\ DOMAIN sessions' = DOMAIN sessions \cup {id}
        /\ sessions'[id].sock = h.conn /\ \A i \in DOMAIN sessions : sessions'[i] = sessions[i]
    BY <1>2 DEF Opened
  <2> QED
    BY <2>1 DEF Attached
<1> QED
  BY <1>1, <1>2

\* Every step leaves a connection with envelopes of its own session only.
LEMMA StreamStep ==
  ASSUME DataInv, RingInv, SocketInv, StreamInv, [Next]_vars
  PROVE  StreamInv'
<1>1. /\ down \in Seq(Envelopes)
      /\ \A id \in DOMAIN sessions : sessions[id] \in Adapters
  BY DEF DataInv
<1>2. /\ \A i \in DOMAIN down : \E id \in Attached :
           down[i].sid = id /\ down[i].inc = sessions[id].inc
      /\ \A id \in Attached :
           id = client.sid \/ (down # <<>> /\ Head(down).kind = "snapshot")
      /\ \A id \in DOMAIN sessions :
           /\ sessions[id].inc = client.base => id = client.sid
           /\ client.inc # client.base => sessions[id].inc # client.base
  BY DEF StreamInv
<1>3. ASSUME NEW D \in SUBSET DOMAIN sessions, NEW kind \in Kinds,
             NEW x \in Spawns \cup {0}, NEW s \in SUBSET Spawns, Emission(D, kind, x, s)
      PROVE  StreamInv'
  <2> DEFINE env(id) == Envelope(sessions[id], kind, x, s)
  <2>1. UNCHANGED <<hellos, made, conn, dead, client>>
    BY <1>3 DEF Emission
  <2>2. Emits(D, kind, x, s)
    BY <1>3, Emitted DEF Emission
  <2>3. /\ DOMAIN sessions' = DOMAIN sessions
        /\ \A id \in DOMAIN sessions :
             /\ env(id) \in Envelopes
             /\ sessions'[id].inc = sessions[id].inc
             /\ sessions'[id].sock = sessions[id].sock
        /\ \/ D \cap Attached = {} /\ down' = down
           \/ \E id \in D \cap Attached : down' = Append(down, env(id))
    BY <2>2 DEF Emits
  <2>4. \A id \in DOMAIN sessions : env(id).sid = id /\ env(id).inc = sessions[id].inc
    BY DEF Envelope, SocketInv
  <2> HIDE DEF env
  <2>5. Attached' = Attached /\ Attached \subseteq DOMAIN sessions
    BY <2>1, <2>3 DEF Attached
  <2>6. CASE down' = down
    BY <1>2, <2>1, <2>3, <2>5, <2>6 DEF StreamInv
  <2>7. ASSUME NEW id \in Attached, down' = Append(down, env(id))
        PROVE  StreamInv'
    <3>1. env(id) \in Envelopes /\ env(id).sid = id /\ env(id).inc = sessions[id].inc
      BY <2>3, <2>4, <2>5
    <3>2. \A i \in DOMAIN down' : (i \in DOMAIN down /\ down'[i] = down[i]) \/ down'[i] = env(id)
      <4> DEFINE e == env(id)
      <4>1. e \in Envelopes /\ down' = Append(down, e)
        BY <2>7, <3>1
      <4> HIDE DEF e
      <4>2. \A i \in DOMAIN down' : (i \in DOMAIN down /\ down'[i] = down[i]) \/ down'[i] = e
        BY <1>1, <4>1
      <4> QED
        BY <4>2 DEF e
    <3>3. down # <<>> => down' # <<>> /\ Head(down') = Head(down)
      BY <1>1, <2>7, <3>1
    <3>4. \A i \in DOMAIN down' : \E j \in Attached' :
            down'[i].sid = j /\ down'[i].inc = sessions'[j].inc
      BY <1>2, <2>3, <2>5, <3>1, <3>2
    <3>5. \A j \in Attached' :
            j = client'.sid \/ (down' # <<>> /\ Head(down').kind = "snapshot")
      BY <1>2, <2>1, <2>5, <3>3
    <3>6. \A j \in DOMAIN sessions' :
            /\ sessions'[j].inc = client'.base => j = client'.sid
            /\ client'.inc # client'.base => sessions'[j].inc # client'.base
      BY <1>2, <2>1, <2>3
    <3> QED
      BY <3>4, <3>5, <3>6 DEF StreamInv
  <2> QED
    BY <2>3, <2>6, <2>7
<1>4. ASSUME NEW hello \in hellos, OnHello(hello)
      PROVE  StreamInv'
  <2>1. /\ hellos' = hellos \ {hello}
        /\ UNCHANGED <<spawns, clock, made, conn, dead, client>>
        /\ \/ Resumed(hello)
           \/ \E id \in Ids, a \in Adapters, env \in Envelopes : Opened(hello, id, a, env)
    BY <1>4, Hello
  <2>2. hello \in Hellos /\ hello.conn # 0 /\ hello.conn \notin Used
    BY DEF SocketInv
  <2>3. \A j \in DOMAIN sessions' :
          /\ sessions'[j].inc = client'.base => j = client'.sid
          /\ client'.inc # client'.base => sessions'[j].inc # client'.base
    <3>1. CASE Resumed(hello)
      <4>1. /\ DOMAIN sessions' = DOMAIN sessions
            /\ \A id \in DOMAIN sessions : sessions'[id].inc = sessions[id].inc
        BY <1>1, <3>1 DEF Resumed, Adapters
      <4> QED
        BY <1>2, <2>1, <4>1
    <3>2. ASSUME NEW id \in Ids, NEW a \in Adapters, NEW env \in Envelopes,
                 Opened(hello, id, a, env)
          PROVE  \A j \in DOMAIN sessions' :
                   /\ sessions'[j].inc = client'.base => j = client'.sid
                   /\ client'.inc # client'.base => sessions'[j].inc # client'.base
      <4>1. /\ DOMAIN sessions' = DOMAIN sessions \cup {id}
            /\ \A i \in DOMAIN sessions \ {id} : sessions'[i].inc = sessions[i].inc
            /\ sessions'[id].inc = hello.conn
        BY <3>2 DEF Opened
      <4> QED
        BY <1>2, <2>1, <2>2, <4>1, Speaking
    <3> QED
      BY <2>1, <3>1, <3>2
  <2>4. CASE hello.conn # conn
    <3>1. /\ Attached' = Attached /\ down' = down
          /\ \A id \in Attached : sessions'[id].inc = sessions[id].inc
      BY <2>1, <2>4, OtherHello
    <3> QED
      BY <1>2, <2>1, <2>3, <3>1 DEF StreamInv
  <2>5. CASE hello.conn = conn
    <3>1. Attached = {} /\ down = <<>> /\ hello.sid = client.sid
      BY <2>5, OwnHello
    <3>2. CASE Resumed(hello)
      <4> DEFINE r == hello.sid
                 t == Replay(sessions[r], hello.last)
      <4>1. /\ r \in DOMAIN sessions
            /\ sessions' = [sessions EXCEPT ![r].sock = hello.conn]
            /\ down' = down \o t
        BY <2>5, <3>2 DEF Resumed
      <4>2. /\ t \in Seq(Envelopes)
            /\ \A i \in DOMAIN t : \E j \in DOMAIN sessions[r].ring : t[i] = sessions[r].ring[j]
        <5>1. sessions[r] \in Adapters /\ RingOk(sessions[r]) /\ hello.last \in Nat
          BY <1>1, <2>2, <4>1 DEF RingInv, Hellos
        <5> QED
          BY <5>1, ReplayTail
      <4>3. /\ RingOk(sessions[r])
            /\ \A i \in DOMAIN sessions[r].ring :
                 sessions[r].ring[i].sid = r /\ sessions[r].ring[i].inc = sessions[r].inc
        BY <4>1 DEF RingInv, RingOk
      <4> HIDE DEF r, t
      <4>4. down' = t
        BY <3>1, <4>1, <4>2
      <4>5. /\ DOMAIN sessions' = DOMAIN sessions
            /\ \A id \in DOMAIN sessions :
                 /\ sessions'[id].inc = sessions[id].inc
                 /\ sessions'[id].sock = IF id = r THEN hello.conn ELSE sessions[id].sock
        BY <1>1, <4>1 DEF Adapters
      <4>6. Attached' = {r}
        BY <2>1, <2>2, <2>5, <3>1, <4>1, <4>5 DEF Attached
      <4>7. r = client'.sid
        BY <2>1, <3>1 DEF r
      <4>8. \A i \in DOMAIN down' : \E id \in Attached' :
              down'[i].sid = id /\ down'[i].inc = sessions'[id].inc
        BY <4>1, <4>2, <4>3, <4>4, <4>5, <4>6
      <4> QED
        BY <2>3, <4>6, <4>7, <4>8 DEF StreamInv
    <3>3. ASSUME NEW id \in Ids, NEW a \in Adapters, NEW env \in Envelopes,
                 Opened(hello, id, a, env)
          PROVE  StreamInv'
      <4>1. /\ id \notin DOMAIN sessions
            /\ DOMAIN sessions' = DOMAIN sessions \cup {id}
            /\ \A i \in DOMAIN sessions : sessions'[i] = sessions[i]
            /\ sessions'[id].inc = hello.conn /\ sessions'[id].sock = hello.conn
            /\ env.sid = id /\ env.inc = hello.conn /\ env.kind = "snapshot"
            /\ down' = Append(down, env)
        BY <2>5, <3>3 DEF Opened
      <4>2. Attached' = {id}
        BY <2>1, <2>2, <2>5, <3>1, <4>1 DEF Attached
      <4>3. down' = <<env>>
        BY <3>1, <4>1
      <4>4. DOMAIN down' = {1} /\ down'[1] = env /\ down' # <<>> /\ Head(down') = env
        BY <4>3
      <4> QED
        BY <2>3, <4>1, <4>2, <4>4 DEF StreamInv
    <3> QED
      BY <2>1, <3>2, <3>3
  <2> QED
    BY <2>4, <2>5
<1>5. ASSUME NEW k \in dead, SocketGone(k)
      PROVE  StreamInv'
  <2>1. /\ UNCHANGED <<made, conn, down, client>>
        /\ sessions' = [id \in DOMAIN sessions |->
                          [sessions[id] EXCEPT !.sock = IF @ = k THEN 0 ELSE @]]
    BY <1>5 DEF SocketGone
  <2>2. /\ DOMAIN sessions' = DOMAIN sessions
        /\ \A id \in DOMAIN sessions :
             /\ sessions'[id].inc = sessions[id].inc
             /\ sessions'[id].sock = IF sessions[id].sock = k THEN 0 ELSE sessions[id].sock
    BY <1>1, <2>1 DEF Adapters
  <2>3. k # conn
    BY DEF SocketInv
  <2>4. Attached' = Attached /\ Attached \subseteq DOMAIN sessions
    BY <2>1, <2>2, <2>3 DEF Attached
  <2>5. \A i \in DOMAIN down' : \E id \in Attached' :
          down'[i].sid = id /\ down'[i].inc = sessions'[id].inc
    BY <1>2, <2>1, <2>2, <2>4
  <2>6. \A id \in Attached' :
          id = client'.sid \/ (down' # <<>> /\ Head(down').kind = "snapshot")
    BY <1>2, <2>1, <2>4
  <2>7. \A id \in DOMAIN sessions' :
          /\ sessions'[id].inc = client'.base => id = client'.sid
          /\ client'.inc # client'.base => sessions'[id].inc # client'.base
    BY <1>2, <2>1, <2>2
  <2> QED
    BY <2>5, <2>6, <2>7 DEF StreamInv
<1>6. ASSUME NEW r \in DOMAIN sessions, Prune(r)
      PROVE  StreamInv'
  <2>1. /\ sessions' = [i \in DOMAIN sessions \ {r} |-> sessions[i]]
        /\ sessions[r].sock = 0 /\ UNCHANGED <<conn, down, client>>
    BY <1>6 DEF Prune
  <2>2. /\ DOMAIN sessions' = DOMAIN sessions \ {r}
        /\ \A id \in DOMAIN sessions' : sessions'[id] = sessions[id]
    BY <2>1
  <2>3. Attached' = Attached /\ Attached \subseteq DOMAIN sessions'
    BY <2>1, <2>2 DEF Attached
  <2> QED
    BY <1>2, <2>1, <2>2, <2>3 DEF StreamInv
<1>7. ASSUME Restart
      PROVE  StreamInv'
  <2>1. conn = 0 /\ down' = down /\ DOMAIN sessions' = {}
    BY <1>7 DEF Restart
  <2>2. Attached = {} /\ Attached' = {}
    BY <2>1 DEF Attached
  <2>3. down' = <<>>
    BY <2>1, <2>2, Silence
  <2> QED
    BY <2>1, <2>2, <2>3 DEF StreamInv
<1>8. ASSUME Connect
      PROVE  StreamInv'
  <2>1. /\ conn = 0 /\ conn' = made + 1 /\ UNCHANGED <<sessions, down, client>>
    BY <1>8 DEF Connect
  <2>2. Attached = {}
    BY <2>1 DEF Attached
  <2>3. down' = <<>>
    BY <2>1, <2>2, Silence
  <2>4. Attached' = {}
    <3>1. made \in Nat /\ Used \subseteq 0 .. made
      BY DEF SocketInv
    <3>2. made + 1 \notin Used
      BY <3>1
    <3> QED
      BY <2>1, <3>2, Speaking DEF Attached
  <2> QED
    BY <1>2, <2>1, <2>3, <2>4 DEF StreamInv
<1>9. ASSUME Drop
      PROVE  StreamInv'
  <2>1. conn' = 0 /\ down' = <<>> /\ UNCHANGED <<sessions, client>>
    BY <1>9 DEF Drop
  <2>2. Attached' = {}
    BY <2>1 DEF Attached
  <2> QED
    BY <1>2, <2>1, <2>2 DEF StreamInv
<1>10. ASSUME Deliver
       PROVE  StreamInv'
  <2> DEFINE env == Head(down)
  <2>1. /\ down # <<>> /\ down' = Tail(down)
        /\ UNCHANGED <<sessions, hellos, made, conn, dead>>
        /\ client'.sid = IF env.kind = "snapshot" THEN env.sid ELSE client.sid
        /\ client'.base = IF env.kind = "snapshot" THEN env.inc ELSE client.base
        /\ client'.inc = env.inc
    BY <1>10 DEF Deliver
  <2>2. PICK id \in Attached : env.sid = id /\ env.inc = sessions[id].inc
    <3>1. 1 \in DOMAIN down /\ env = down[1]
      BY <1>1, <2>1
    <3> QED
      BY <1>2, <3>1
  <2>3. env.kind # "snapshot" => id = client.sid
    BY <1>2
  <2>4. \A i \in DOMAIN down' : \E j \in DOMAIN down : down'[i] = down[j]
    BY <1>1, <2>1
  <2> HIDE DEF env
  <2>5. id \in DOMAIN sessions /\ Attached' = Attached
    BY <2>1 DEF Attached
  <2>6. \A i, j \in DOMAIN sessions : sessions[i].inc = sessions[j].inc => i = j
    BY DEF SocketInv
  <2>7. id = client'.sid
    BY <2>1, <2>2, <2>3
  <2>8. \A j \in Attached' : j = client'.sid
    BY <2>5, <2>7, OneAttached
  <2>9. \A j \in DOMAIN sessions :
          /\ sessions[j].inc = client'.base => j = client'.sid
          /\ client'.inc # client'.base => sessions[j].inc # client'.base
    <3>1. CASE env.kind = "snapshot"
      BY <2>1, <2>2, <2>5, <2>6, <2>7, <3>1
    <3>2. CASE env.kind # "snapshot"
      BY <1>2, <2>1, <2>2, <2>3, <2>5, <3>2
    <3> QED
      BY <3>1, <3>2
  <2>10. \A i \in DOMAIN down' : \E j \in Attached' :
           down'[i].sid = j /\ down'[i].inc = sessions'[j].inc
    BY <1>2, <2>1, <2>4, <2>5
  <2> QED
    BY <2>1, <2>8, <2>9, <2>10 DEF StreamInv
<1>11. CASE UNCHANGED vars
  <2>1. UNCHANGED <<sessions, down, conn, client>>
    BY <1>11 DEF vars
  <2> QED
    BY <2>1 DEF StreamInv, Attached
<1> QED
  BY <1>3, <1>4, <1>5, <1>6, <1>7, <1>8, <1>9, <1>10, <1>11, Emissions DEF Next

-----------------------------------------------------------------------------
(* History and order.                                                       *)

\* The envelopes that may still reach the client, and the last that did.
Held ==
  {e \in Envelopes :
     \/ \E i \in DOMAIN down : e = down[i]
     \/ \E id \in DOMAIN sessions : \E i \in DOMAIN sessions[id].ring :
          e = sessions[id].ring[i]}

Seen == [seq |-> client.last, inc |-> client.inc, truth |-> client.truth]

\* History: no number is ahead of its adapter's, the newest envelope is about
\* the managers' state, and consecutive ones differ by what the later one says.
HistoryInv ==
  /\ \A id \in DOMAIN sessions : \A e \in Held \cup {Seen} :
       e.inc = sessions[id].inc =>
         e.seq <= sessions[id].seq /\ (e.seq = sessions[id].seq => e.truth = spawns)
  /\ \A d \in Held \cup {Seen}, e \in Held :
       d.inc = e.inc /\ e.seq = d.seq + 1 => e.truth = Applied(d.truth, e)

\* Order: what is on its way is in order, and new to the client.
OrderInv ==
  /\ \A i, j \in DOMAIN down : i < j => down[i].seq < down[j].seq
  /\ \A i \in DOMAIN down : down[i].inc = client.inc => down[i].seq > client.last

-----------------------------------------------------------------------------
\* Every envelope held is on its way or in a ring.
LEMMA Holds ==
  ASSUME DataInv, RingInv
  PROVE  /\ \A i \in DOMAIN down : down[i] \in Held
         /\ \A id \in DOMAIN sessions : \A i \in DOMAIN sessions[id].ring :
              sessions[id].ring[i] \in Held
<1>1. \A i \in DOMAIN down : down[i] \in Envelopes
  BY DEF DataInv
<1>2. \A id \in DOMAIN sessions : \A i \in DOMAIN sessions[id].ring :
        sessions[id].ring[i] \in Envelopes
  BY DEF RingInv, RingOk
<1> QED
  BY <1>1, <1>2 DEF Held

\* No envelope is of an adapter that nobody has spoken of.
LEMMA HeldUsed ==
  ASSUME DataInv, RingInv, StreamInv, NEW e \in Held \cup {Seen}
  PROVE  e.inc \in Used /\ e.seq \in Nat
<1>1. CASE e \in Held
  <2>1. e.seq \in Nat
    BY <1>1, ResumeAssumption DEF Held, Envelopes
  <2>2. CASE \E i \in DOMAIN down : e = down[i]
    <3>1. PICK id \in Attached : e.inc = sessions[id].inc
      BY <2>2 DEF StreamInv
    <3>2. id \in DOMAIN sessions
      BY DEF Attached
    <3> QED
      BY <2>1, <3>1, <3>2, Speaking
  <2>3. CASE \E id \in DOMAIN sessions : \E i \in DOMAIN sessions[id].ring :
               e = sessions[id].ring[i]
    BY <2>1, <2>3, Speaking DEF RingInv, RingOk
  <2> QED
    BY <1>1, <2>2, <2>3 DEF Held
<1>2. CASE e = Seen
  <2>1. e.inc = client.inc /\ e.seq = client.last
    BY <1>2 DEF Seen
  <2>2. client.last \in 0 .. MaxEvents + 1
    BY DEF DataInv
  <2>3. client.last \in Nat
    BY <2>2
  <2> QED
    BY <2>1, <2>3, Speaking
<1> QED
  BY <1>1, <1>2

\* What no step renumbers or adds to stays history.
LEMMA Forgets ==
  ASSUME HistoryInv, Held' \subseteq Held,
         \E d \in Held \cup {Seen} :
           Seen'.seq = d.seq /\ Seen'.inc = d.inc /\ Seen'.truth = d.truth,
         \A id \in DOMAIN sessions' :
           /\ id \in DOMAIN sessions /\ spawns' = spawns
           /\ sessions'[id].inc = sessions[id].inc
           /\ sessions'[id].seq = sessions[id].seq
  PROVE  HistoryInv'
<1>1. PICK d \in Held \cup {Seen} :
        Seen'.seq = d.seq /\ Seen'.inc = d.inc /\ Seen'.truth = d.truth
  OBVIOUS
<1>2. ASSUME NEW id \in DOMAIN sessions', NEW e \in Held' \cup {Seen'},
             e.inc = sessions'[id].inc
      PROVE  /\ e.seq <= sessions'[id].seq
             /\ e.seq = sessions'[id].seq => e.truth = spawns'
  BY <1>1, <1>2 DEF HistoryInv
<1>3. ASSUME NEW c \in Held' \cup {Seen'}, NEW e \in Held', c.inc = e.inc, e.seq = c.seq + 1
      PROVE  e.truth = Applied(c.truth, e)
  <2>1. CASE c \in Held'
    BY <1>3, <2>1 DEF HistoryInv
  <2>2. CASE c = Seen'
    <3>1. e \in Held /\ d.inc = e.inc /\ e.seq = d.seq + 1
      BY <1>1, <1>3, <2>2
    <3>2. e.truth = Applied(d.truth, e)
      BY <3>1 DEF HistoryInv
    <3> QED
      BY <1>1, <2>2, <3>2
  <2> QED
    BY <2>1, <2>2
<1> QED
  BY <1>2, <1>3 DEF HistoryInv

\* What the managers publish extends the history of every adapter by one.
LEMMA HistoryEmission ==
  ASSUME DataInv, RingInv, SocketInv, StreamInv, HistoryInv,
         NEW D \in SUBSET DOMAIN sessions, NEW kind \in Kinds,
         NEW x \in Spawns \cup {0}, NEW s \in SUBSET Spawns, Emission(D, kind, x, s)
  PROVE  HistoryInv'
<1> DEFINE env(id) == Envelope(sessions[id], kind, x, s)
<1>1. /\ spawns' = s /\ client' = client
      /\ (D = DOMAIN sessions \/ s = spawns)
      /\ \A id \in DOMAIN sessions : Applied(spawns, env(id)) = s
  BY DEF Emission
<1>2. Emits(D, kind, x, s)
  BY Emitted DEF Emission
<1>3. /\ DOMAIN sessions' = DOMAIN sessions
      /\ \A id \in DOMAIN sessions :
           env(id) \in Envelopes /\ sessions'[id].inc = sessions[id].inc
      /\ \A id \in DOMAIN sessions \ D : sessions'[id] = sessions[id]
      /\ \A id \in D :
           /\ sessions'[id].seq = sessions[id].seq + 1
           /\ \A i \in DOMAIN sessions'[id].ring :
                \/ sessions'[id].ring[i] = env(id)
                \/ \E j \in DOMAIN sessions[id].ring :
                     sessions'[id].ring[i] = sessions[id].ring[j]
      /\ \/ D \cap Attached = {} /\ down' = down
         \/ \E id \in D \cap Attached : down' = Append(down, env(id))
  BY <1>2 DEF Emits
<1>4. \A id \in DOMAIN sessions :
        /\ env(id).seq = sessions[id].seq + 1 /\ env(id).inc = sessions[id].inc
        /\ env(id).truth = s /\ sessions[id].seq \in Nat
        /\ env(id).seq = sessions[id].seq + 1
  <2>1. \A id \in DOMAIN sessions : sessions[id].seq \in Nat
    BY DEF DataInv, Adapters
  <2> QED
    BY <2>1 DEF Envelope
<1> HIDE DEF env
<1>5. ASSUME NEW e \in Held'
      PROVE  e \in Held \/ \E id \in D : e = env(id)
  <2>1. CASE \E i \in DOMAIN down' : e = down'[i]
    <3>1. PICK i \in DOMAIN down' : e = down'[i]
      BY <2>1
    <3>2. CASE down' = down
      BY <3>1, <3>2, Holds
    <3>3. ASSUME NEW id \in D \cap Attached, down' = Append(down, env(id))
          PROVE  e \in Held \/ \E j \in D : e = env(j)
      <4> DEFINE n == env(id)
      <4>1. n \in Envelopes /\ down' = Append(down, n) /\ down \in Seq(Envelopes)
        BY <1>3, <3>3 DEF DataInv
      <4> HIDE DEF n
      <4>2. (i \in DOMAIN down /\ down'[i] = down[i]) \/ down'[i] = n
        BY <3>1, <4>1
      <4> QED
        BY <3>1, <4>2, Holds DEF n
    <3> QED
      BY <1>3, <3>2, <3>3
  <2>2. CASE \E id \in DOMAIN sessions' : \E i \in DOMAIN sessions'[id].ring :
               e = sessions'[id].ring[i]
    <3>0. PICK id \in DOMAIN sessions' :
            \E i \in DOMAIN sessions'[id].ring : e = sessions'[id].ring[i]
      BY <2>2
    <3>1. PICK i \in DOMAIN sessions'[id].ring : e = sessions'[id].ring[i]
      BY <3>0
    <3>2. CASE id \in D
      BY <1>3, <3>1, <3>2, Holds
    <3>3. CASE id \notin D
      BY <1>3, <3>1, <3>3, Holds
    <3> QED
      BY <3>2, <3>3
  <2> QED
    BY <2>1, <2>2 DEF Held
<1>6. Seen' = Seen
  <2>1. client' = client
    BY <1>1
  <2> QED
    BY <2>1 DEF Seen
<1>7. \A i, j \in DOMAIN sessions : sessions[i].inc = sessions[j].inc => i = j
  BY DEF SocketInv
<1>8. /\ \A id \in DOMAIN sessions : \A e \in Held \cup {Seen} :
           e.inc = sessions[id].inc =>
             e.seq <= sessions[id].seq /\ (e.seq = sessions[id].seq => e.truth = spawns)
      /\ \A d \in Held \cup {Seen}, e \in Held :
           d.inc = e.inc /\ e.seq = d.seq + 1 => e.truth = Applied(d.truth, e)
  BY DEF HistoryInv
<1>9. \A e \in Held \cup {Seen} : e.seq \in Nat
  BY HeldUsed
<1>10. \A e \in Held' \cup {Seen'} : e \in Held \cup {Seen} \/ \E id \in D : e = env(id)
  BY <1>5, <1>6
<1>11. \A e \in Held' : e \in Held \/ \E id \in D : e = env(id)
  BY <1>5
<1>12. ASSUME NEW id \in DOMAIN sessions', NEW e \in Held' \cup {Seen'},
              e.inc = sessions'[id].inc
       PROVE  /\ e.seq <= sessions'[id].seq
              /\ e.seq = sessions'[id].seq => e.truth = spawns'
  <2>1. CASE e \in Held \cup {Seen}
    <3>1. e.seq <= sessions[id].seq /\ (e.seq = sessions[id].seq => e.truth = spawns)
      BY <1>3, <1>8, <1>12, <2>1
    <3>2. CASE id \in D
      <4> DEFINE p == e.seq
                 q == sessions[id].seq
                 r == sessions'[id].seq
      <4>1. p \in Nat /\ q \in Nat /\ p <= q /\ r = q + 1
        BY <1>3, <1>4, <1>9, <2>1, <3>1, <3>2
      <4> HIDE DEF p, q, r
      <4>2. p <= r /\ p # r
        BY <4>1
      <4> QED
        BY <4>2 DEF p, r
    <3>3. CASE id \notin D
      <4>1. spawns' = spawns
        BY <1>1, <1>3, <3>3
      <4>2. sessions'[id] = sessions[id]
        BY <1>3, <3>3
      <4> QED
        BY <3>1, <4>1, <4>2
    <3> QED
      BY <3>2, <3>3
  <2>2. ASSUME NEW j \in D, e = env(j)
        PROVE  /\ e.seq <= sessions'[id].seq
               /\ e.seq = sessions'[id].seq => e.truth = spawns'
    <3>1. j = id
      BY <1>3, <1>4, <1>7, <1>12, <2>2
    <3>2. id \in D /\ id \in DOMAIN sessions /\ e = env(id)
      BY <2>2, <3>1
    <3>3. e.seq = sessions[id].seq + 1 /\ e.truth = s /\ sessions[id].seq \in Nat
      BY <1>4, <3>2
    <3>4. sessions'[id].seq = sessions[id].seq + 1
      BY <1>3, <3>2
    <3>5. spawns' = s
      BY <1>1
    <3>6. e.seq = sessions'[id].seq /\ e.seq \in Nat
      BY <3>3, <3>4
    <3> QED
      BY <3>3, <3>5, <3>6
  <2> QED
    BY <1>10, <2>1, <2>2
<1>13. ASSUME NEW d \in Held' \cup {Seen'}, NEW e \in Held', d.inc = e.inc, e.seq = d.seq + 1
       PROVE  e.truth = Applied(d.truth, e)
  <2>1. CASE d \in Held \cup {Seen} /\ e \in Held
    BY <1>8, <1>13, <2>1
  <2>2. ASSUME NEW j \in D, e = env(j), d \in Held \cup {Seen}
        PROVE  e.truth = Applied(d.truth, e)
    <3>1. d.inc = sessions[j].inc
      BY <1>4, <1>13, <2>2
    <3>2. d.seq = sessions[j].seq
      <4> DEFINE p == d.seq
                 q == sessions[j].seq
      <4>1. p \in Nat /\ q \in Nat /\ p + 1 = q + 1
        BY <1>4, <1>9, <1>13, <2>2
      <4> HIDE DEF p, q
      <4>2. p = q
        BY <4>1
      <4> QED
        BY <4>2 DEF p, q
    <3>3. d.truth = spawns
      BY <1>8, <2>2, <3>1, <3>2
    <3> QED
      BY <1>1, <1>4, <2>2, <3>3
  <2>3. ASSUME NEW i \in D, d = env(i)
        PROVE  FALSE
    <3>1. d.seq \in Nat /\ d.seq = sessions[i].seq + 1 /\ d.inc = sessions[i].inc
          /\ sessions[i].seq \in Nat
      BY <1>4, <2>3
    <3>2. CASE e \in Held
      <4>1. e.seq <= sessions[i].seq
        BY <1>8, <1>13, <3>1, <3>2
      <4> QED
        BY <1>13, <3>1, <4>1
    <3>3. ASSUME NEW j \in D, e = env(j)
          PROVE  FALSE
      <4>1. i = j
        BY <1>4, <1>7, <1>13, <2>3, <3>3
      <4>2. d.seq = d.seq + 1
        BY <1>13, <2>3, <3>3, <4>1
      <4> QED
        BY <3>1, <4>2
    <3> QED
      BY <1>11, <3>2, <3>3
  <2> QED
    BY <1>10, <1>11, <2>1, <2>2, <2>3
<1> QED
  BY <1>12, <1>13 DEF HistoryInv

\* A fresh adapter begins a history of its own, with the Snapshot.
LEMMA HistoryOpened ==
  ASSUME DataInv, RingInv, SocketInv, StreamInv, HistoryInv, NEW hello \in hellos,
         NEW id \in Ids, NEW a \in Adapters, NEW env \in Envelopes,
         Opened(hello, id, a, env), UNCHANGED <<spawns, client>>
  PROVE  HistoryInv'
<1>1. /\ id \notin DOMAIN sessions
      /\ DOMAIN sessions' = DOMAIN sessions \cup {id}
      /\ sessions'[id] = a /\ \A i \in DOMAIN sessions : sessions'[i] = sessions[i]
      /\ a.inc = hello.conn /\ a.seq = 1 /\ DOMAIN a.ring = {1} /\ a.ring[1] = env
      /\ env.seq = 1 /\ env.inc = hello.conn /\ env.truth = spawns
      /\ down' = IF hello.conn = conn THEN Append(down, env) ELSE down
  BY DEF Opened
<1>2. hello.conn \notin Used
  BY DEF SocketInv
<1>3. \A e \in Held \cup {Seen} : e.inc # hello.conn /\ e.seq \in Nat
  BY <1>2, HeldUsed
<1>4. \A i \in DOMAIN sessions : sessions[i].inc # hello.conn
  BY <1>2, Speaking
<1>5. ASSUME NEW e \in Held'
      PROVE  e \in Held \/ e = env
  <2>1. CASE \E i \in DOMAIN down' : e = down'[i]
    <3>1. PICK i \in DOMAIN down' : e = down'[i]
      BY <2>1
    <3>2. down \in Seq(Envelopes)
      BY DEF DataInv
    <3>3. (i \in DOMAIN down /\ down'[i] = down[i]) \/ down'[i] = env
      BY <1>1, <3>1, <3>2
    <3> QED
      BY <3>1, <3>3, Holds
  <2>2. CASE \E j \in DOMAIN sessions' : \E i \in DOMAIN sessions'[j].ring :
               e = sessions'[j].ring[i]
    <3>0. PICK j \in DOMAIN sessions' :
            \E i \in DOMAIN sessions'[j].ring : e = sessions'[j].ring[i]
      BY <2>2
    <3>1. PICK i \in DOMAIN sessions'[j].ring : e = sessions'[j].ring[i]
      BY <3>0
    <3> QED
      BY <1>1, <3>1, Holds
  <2> QED
    BY <2>1, <2>2 DEF Held
<1>6. Seen' = Seen
  BY DEF Seen
<1>7. ASSUME NEW i \in DOMAIN sessions', NEW e \in Held' \cup {Seen'},
             e.inc = sessions'[i].inc
      PROVE  /\ e.seq <= sessions'[i].seq
             /\ e.seq = sessions'[i].seq => e.truth = spawns'
  <2>1. CASE e \in Held \cup {Seen}
    BY <1>1, <1>3, <1>7, <2>1 DEF HistoryInv
  <2>2. CASE e = env
    BY <1>1, <1>4, <1>7, <2>2
  <2> QED
    BY <1>5, <1>6, <2>1, <2>2
<1>8. ASSUME NEW d \in Held' \cup {Seen'}, NEW e \in Held', d.inc = e.inc, e.seq = d.seq + 1
      PROVE  e.truth = Applied(d.truth, e)
  <2>1. CASE d \in Held \cup {Seen} /\ e \in Held
    BY <1>8, <2>1 DEF HistoryInv
  <2>2. CASE d = env /\ e = env
    BY <1>1, <1>8, <2>2
  <2>3. CASE d = env /\ e \in Held
    BY <1>1, <1>3, <1>8, <2>3
  <2>4. CASE d \in Held \cup {Seen} /\ e = env
    BY <1>1, <1>3, <1>8, <2>4
  <2> QED
    BY <1>5, <1>6, <2>1, <2>2, <2>3, <2>4
<1> QED
  BY <1>7, <1>8 DEF HistoryInv

-----------------------------------------------------------------------------
(* History and order are kept.                                              *)

\* What is held follows from what is on its way and what the rings hold.
LEMMA HeldFrom ==
  ASSUME DataInv, RingInv,
         \A i \in DOMAIN down' : down'[i] \in Held,
         \A id \in DOMAIN sessions' :
           id \in DOMAIN sessions /\ sessions'[id].ring = sessions[id].ring
  PROVE  Held' \subseteq Held
<1>1. SUFFICES ASSUME NEW e \in Held'
               PROVE  e \in Held
  OBVIOUS
<1>2. CASE \E i \in DOMAIN down' : e = down'[i]
  BY <1>2
<1>3. CASE \E id \in DOMAIN sessions' : \E i \in DOMAIN sessions'[id].ring :
             e = sessions'[id].ring[i]
  BY <1>3, Holds
<1> QED
  BY <1>2, <1>3 DEF Held

\* Every step keeps the history.
LEMMA HistoryStep ==
  ASSUME DataInv, RingInv, SocketInv, StreamInv, HistoryInv, [Next]_vars
  PROVE  HistoryInv'
<1>1. /\ down \in Seq(Envelopes)
      /\ \A id \in DOMAIN sessions : sessions[id] \in Adapters
  BY DEF DataInv
<1>2. \A i \in DOMAIN down : down[i] \in Held
  BY Holds
<1>3. ASSUME NEW D \in SUBSET DOMAIN sessions, NEW kind \in Kinds,
             NEW x \in Spawns \cup {0}, NEW s \in SUBSET Spawns, Emission(D, kind, x, s)
      PROVE  HistoryInv'
  BY <1>3, HistoryEmission
<1>4. ASSUME UNCHANGED client,
             \A i \in DOMAIN down' : down'[i] \in Held,
             \A id \in DOMAIN sessions' :
               /\ id \in DOMAIN sessions /\ spawns' = spawns
               /\ sessions'[id].ring = sessions[id].ring
               /\ sessions'[id].inc = sessions[id].inc
               /\ sessions'[id].seq = sessions[id].seq
      PROVE  HistoryInv'
  <2>1. Seen' = Seen
    BY <1>4 DEF Seen
  <2>2. Held' \subseteq Held
    BY <1>4, HeldFrom
  <2>3. \E d \in Held \cup {Seen} :
          Seen'.seq = d.seq /\ Seen'.inc = d.inc /\ Seen'.truth = d.truth
    BY <2>1
  <2> QED
    BY <1>4, <2>2, <2>3, Forgets
<1>5. ASSUME NEW hello \in hellos, OnHello(hello)
      PROVE  HistoryInv'
  <2>1. /\ UNCHANGED <<spawns, conn, client>>
        /\ \/ Resumed(hello)
           \/ \E id \in Ids, a \in Adapters, env \in Envelopes : Opened(hello, id, a, env)
    BY <1>5, Hello
  <2>2. CASE Resumed(hello)
    <3> DEFINE r == hello.sid
               t == Replay(sessions[r], hello.last)
    <3>1. /\ r \in DOMAIN sessions
          /\ sessions' = [sessions EXCEPT ![r].sock = hello.conn]
          /\ down' = IF hello.conn = conn THEN down \o t ELSE down
      BY <2>2 DEF Resumed
    <3>2. /\ t \in Seq(Envelopes)
          /\ \A i \in DOMAIN t : t[i] \in Held
      <4>1. sessions[r] \in Adapters /\ RingOk(sessions[r]) /\ hello.last \in Nat
        BY <1>1, <3>1 DEF RingInv, SocketInv, Hellos
      <4>2. /\ t \in Seq(Envelopes)
            /\ \A i \in DOMAIN t : \E j \in DOMAIN sessions[r].ring : t[i] = sessions[r].ring[j]
        BY <4>1, ReplayTail
      <4> QED
        BY <3>1, <4>2, Holds
    <3> HIDE DEF r, t
    <3>3. /\ DOMAIN sessions' = DOMAIN sessions
          /\ \A id \in DOMAIN sessions :
               /\ sessions'[id].ring = sessions[id].ring
               /\ sessions'[id].inc = sessions[id].inc
               /\ sessions'[id].seq = sessions[id].seq
      BY <1>1, <3>1 DEF Adapters
    <3>4. \A i \in DOMAIN down' : down'[i] \in Held
      <4>1. CASE hello.conn # conn
        BY <1>2, <3>1, <4>1
      <4>2. CASE hello.conn = conn
        <5>1. down = <<>>
          BY <4>2, OwnHello
        <5>2. down' = t
          BY <3>1, <3>2, <4>2, <5>1
        <5> QED
          BY <3>2, <5>2
      <4> QED
        BY <4>1, <4>2
    <3> QED
      BY <1>4, <2>1, <3>3, <3>4
  <2>3. ASSUME NEW id \in Ids, NEW a \in Adapters, NEW env \in Envelopes,
               Opened(hello, id, a, env)
        PROVE  HistoryInv'
    BY <2>1, <2>3, HistoryOpened
  <2> QED
    BY <2>1, <2>2, <2>3
<1>6. ASSUME NEW k \in dead, SocketGone(k)
      PROVE  HistoryInv'
  <2>1. /\ UNCHANGED <<spawns, down, client>>
        /\ sessions' = [id \in DOMAIN sessions |->
                          [sessions[id] EXCEPT !.sock = IF @ = k THEN 0 ELSE @]]
    BY <1>6 DEF SocketGone
  <2>2. /\ DOMAIN sessions' = DOMAIN sessions
        /\ \A id \in DOMAIN sessions :
             /\ sessions'[id].ring = sessions[id].ring
             /\ sessions'[id].inc = sessions[id].inc
             /\ sessions'[id].seq = sessions[id].seq
    BY <1>1, <2>1 DEF Adapters
  <2> QED
    BY <1>2, <1>4, <2>1, <2>2
<1>7. ASSUME NEW r \in DOMAIN sessions, Prune(r)
      PROVE  HistoryInv'
  <2>1. /\ sessions' = [i \in DOMAIN sessions \ {r} |-> sessions[i]]
        /\ UNCHANGED <<spawns, down, client>>
    BY <1>7 DEF Prune
  <2>2. \A id \in DOMAIN sessions' : id \in DOMAIN sessions /\ sessions'[id] = sessions[id]
    BY <2>1
  <2> QED
    BY <1>2, <1>4, <2>1, <2>2
<1>8. ASSUME Restart
      PROVE  HistoryInv'
  <2>1. UNCHANGED <<down, client>> /\ DOMAIN sessions' = {}
    BY <1>8 DEF Restart
  <2> QED
    BY <1>2, <1>4, <2>1
<1>9. ASSUME Connect \/ Drop \/ UNCHANGED vars
      PROVE  HistoryInv'
  <2>1. UNCHANGED <<spawns, sessions, client>> /\ down' \in {down, <<>>}
    BY <1>9 DEF Connect, Drop, vars
  <2>2. \A i \in DOMAIN down' : down'[i] \in Held
    BY <1>2, <2>1
  <2> QED
    BY <1>4, <2>1, <2>2
<1>10. ASSUME Deliver
       PROVE  HistoryInv'
  <2> DEFINE env == Head(down)
  <2>1. /\ UNCHANGED <<spawns, sessions>> /\ down # <<>> /\ down' = Tail(down)
        /\ client'.last = env.seq /\ client'.inc = env.inc /\ client'.truth = env.truth
    BY <1>10 DEF Deliver
  <2>2. 1 \in DOMAIN down /\ env = down[1]
    BY <1>1, <2>1
  <2>3. \A i \in DOMAIN down' : down'[i] \in Held
    <3>1. \A i \in DOMAIN down' : \E j \in DOMAIN down : down'[i] = down[j]
      BY <1>1, <2>1
    <3> QED
      BY <1>2, <3>1
  <2>4. env \in Held
    BY <1>2, <2>2
  <2> HIDE DEF env
  <2>5. Held' \subseteq Held
    BY <2>1, <2>3, HeldFrom
  <2>6. Seen'.seq = env.seq /\ Seen'.inc = env.inc /\ Seen'.truth = env.truth
    BY <2>1 DEF Seen
  <2> QED
    BY <2>1, <2>4, <2>5, <2>6, Forgets
<1> QED
  BY <1>3, <1>5, <1>6, <1>7, <1>8, <1>9, <1>10, Emissions DEF Next

\* Every step keeps what is on its way in order and new to the client.
LEMMA OrderStep ==
  ASSUME DataInv, RingInv, SocketInv, StreamInv, HistoryInv, OrderInv, [Next]_vars
  PROVE  OrderInv'
<1>1. /\ down \in Seq(Envelopes)
      /\ \A id \in DOMAIN sessions : sessions[id] \in Adapters
  BY DEF DataInv
<1>2. /\ \A i, j \in DOMAIN down : i < j => down[i].seq < down[j].seq
      /\ \A i \in DOMAIN down : down[i].inc = client.inc => down[i].seq > client.last
  BY DEF OrderInv
<1>3. ASSUME NEW D \in SUBSET DOMAIN sessions, NEW kind \in Kinds,
             NEW x \in Spawns \cup {0}, NEW s \in SUBSET Spawns, Emission(D, kind, x, s)
      PROVE  OrderInv'
  <2> DEFINE env(id) == Envelope(sessions[id], kind, x, s)
  <2>1. client' = client
    BY <1>3 DEF Emission
  <2>2. Emits(D, kind, x, s)
    BY <1>3, Emitted DEF Emission
  <2>3. /\ \A id \in DOMAIN sessions : env(id) \in Envelopes
        /\ \/ D \cap Attached = {} /\ down' = down
           \/ \E id \in D \cap Attached : down' = Append(down, env(id))
    BY <2>2 DEF Emits
  <2>4. \A id \in DOMAIN sessions :
          env(id).seq = sessions[id].seq + 1 /\ env(id).inc = sessions[id].inc
    BY DEF Envelope
  <2> HIDE DEF env
  <2>5. CASE down' = down
    BY <1>2, <2>1, <2>5 DEF OrderInv
  <2>6. ASSUME NEW id \in Attached, down' = Append(down, env(id))
        PROVE  OrderInv'
    <3> DEFINE n == env(id)
               k == Len(down)
    <3>1. id \in DOMAIN sessions
      BY DEF Attached
    <3>2. /\ n \in Envelopes /\ n.inc = sessions[id].inc /\ n.seq = sessions[id].seq + 1
          /\ sessions[id].seq \in Nat
      BY <1>1, <2>3, <2>4, <3>1 DEF Adapters
    <3>3. \A i \in DOMAIN down : down[i].seq < n.seq
      <4> TAKE i \in DOMAIN down
      <4>1. down[i].inc = sessions[id].inc
        BY OneAttached DEF StreamInv
      <4>2. down[i] \in Held /\ down[i].seq \in Nat
        BY Holds, HeldUsed
      <4>3. down[i].seq <= sessions[id].seq
        BY <3>1, <4>1, <4>2 DEF HistoryInv
      <4> QED
        BY <3>2, <4>2, <4>3
    <3>4. n.inc = client.inc => n.seq > client.last
      <4>1. Seen.inc = client.inc /\ Seen.seq = client.last /\ client.last \in Nat
        <5>1. Seen.inc = client.inc /\ Seen.seq = client.last
          BY DEF Seen
        <5>2. Seen.seq \in Nat
          BY HeldUsed
        <5> QED
          BY <5>1, <5>2
      <4>2. n.inc = client.inc => client.last <= sessions[id].seq
        BY <3>1, <3>2, <4>1 DEF HistoryInv
      <4> QED
        BY <3>2, <4>1, <4>2
    <3>5. down' = Append(down, n)
      BY <2>6
    <3> HIDE DEF n
    <3>6. /\ k \in Nat /\ DOMAIN down = 1 .. k /\ DOMAIN down' = 1 .. k + 1
          /\ down'[k + 1] = n /\ \A i \in 1 .. k : down'[i] = down[i]
      BY <1>1, <3>2, <3>5
    <3> HIDE DEF k
    <3>7. \A i \in DOMAIN down' : i \in 1 .. k \/ i = k + 1
      BY <3>6
    <3>8. \A i, j \in DOMAIN down' : i < j => down'[i].seq < down'[j].seq
      <4> TAKE i, j \in DOMAIN down'
      <4> HAVE i < j
      <4>1. i \in 1 .. k
        BY <3>6, <3>7
      <4>2. CASE j \in 1 .. k
        BY <1>2, <3>6, <4>1, <4>2
      <4>3. CASE j = k + 1
        BY <3>3, <3>6, <4>1, <4>3
      <4> QED
        BY <3>7, <4>2, <4>3
    <3>9. \A i \in DOMAIN down' : down'[i].inc = client'.inc => down'[i].seq > client'.last
      BY <1>2, <2>1, <3>4, <3>6, <3>7
    <3> QED
      BY <3>8, <3>9 DEF OrderInv
  <2> QED
    BY <2>3, <2>5, <2>6
<1>4. ASSUME NEW hello \in hellos, OnHello(hello)
      PROVE  OrderInv'
  <2>1. /\ UNCHANGED <<spawns, conn, client>>
        /\ \/ Resumed(hello)
           \/ \E id \in Ids, a \in Adapters, env \in Envelopes : Opened(hello, id, a, env)
    BY <1>4, Hello
  <2>2. CASE hello.conn # conn
    <3>1. down' = down
      BY <2>1, <2>2, OtherHello
    <3> QED
      BY <1>2, <2>1, <3>1 DEF OrderInv
  <2>3. CASE hello.conn = conn
    <3>1. down = <<>> /\ hello.last = client.last
      BY <2>3, OwnHello
    <3>2. CASE Resumed(hello)
      <4> DEFINE a == sessions[hello.sid]
                 t == Replay(a, hello.last)
      <4>1. hello.sid \in DOMAIN sessions /\ down' = down \o t
        BY <2>3, <3>2 DEF Resumed
      <4>2. a \in Adapters /\ RingOk(a) /\ hello.last \in Nat
        BY <1>1, <4>1 DEF RingInv, SocketInv, Hellos
      <4>3. /\ t \in Seq(Envelopes)
            /\ \A i \in DOMAIN t : t[i].seq > hello.last
            /\ \A i, j \in DOMAIN t : i < j => t[i].seq < t[j].seq
        BY <4>2, ReplayTail
      <4> HIDE DEF t
      <4>4. down' = t
        BY <3>1, <4>1, <4>3
      <4> QED
        BY <2>1, <3>1, <4>3, <4>4 DEF OrderInv
    <3>3. ASSUME NEW id \in Ids, NEW a \in Adapters, NEW env \in Envelopes,
                 Opened(hello, id, a, env)
          PROVE  OrderInv'
      <4>1. env.inc = hello.conn /\ down' = Append(down, env)
        BY <2>3, <3>3 DEF Opened
      <4>2. down' = <<env>>
        BY <3>1, <4>1
      <4>3. DOMAIN down' = {1} /\ down'[1] = env
        BY <4>2
      <4>4. env.inc # client.inc
        BY <4>1, Speaking DEF SocketInv
      <4>5. ~(1 < 1)
        OBVIOUS
      <4> QED
        BY <2>1, <4>3, <4>4, <4>5 DEF OrderInv
    <3> QED
      BY <2>1, <3>2, <3>3
  <2> QED
    BY <2>2, <2>3
<1>5. ASSUME \/ \E k \in dead : SocketGone(k)
             \/ \E r \in DOMAIN sessions : Prune(r)
             \/ Restart \/ Connect \/ Drop \/ UNCHANGED vars
      PROVE  OrderInv'
  <2>1. client' = client /\ down' \in {down, <<>>}
    BY <1>5 DEF SocketGone, Prune, Restart, Connect, Drop, vars
  <2>2. CASE down' = down
    BY <1>2, <2>1, <2>2 DEF OrderInv
  <2>3. CASE down' = <<>>
    BY <2>3 DEF OrderInv
  <2> QED
    BY <2>1, <2>2, <2>3
<1>6. ASSUME Deliver
      PROVE  OrderInv'
  <2>1. /\ down # <<>> /\ down' = Tail(down)
        /\ client'.last = Head(down).seq
    BY <1>6 DEF Deliver
  <2>2. /\ 1 \in DOMAIN down /\ Head(down) = down[1]
        /\ \A i \in DOMAIN down' : i \in Nat \ {0} /\ i + 1 \in DOMAIN down /\ down'[i] = down[i + 1]
    BY <1>1, <2>1
  <2>3. \A i, j \in DOMAIN down' : i < j => down'[i].seq < down'[j].seq
    <3> TAKE i, j \in DOMAIN down'
    <3> HAVE i < j
    <3>1. i + 1 < j + 1
      BY <2>2
    <3> QED
      BY <1>2, <2>2, <3>1
  <2>4. \A i \in DOMAIN down' : down'[i].seq > client'.last
    <3> TAKE i \in DOMAIN down'
    <3>1. 1 < i + 1
      BY <2>2
    <3>2. down[1].seq < down[i + 1].seq
      BY <1>2, <2>2, <3>1
    <3>3. down[1].seq \in Nat /\ down[i + 1].seq \in Nat
      BY <2>2, Holds, HeldUsed
    <3> QED
      BY <2>1, <2>2, <3>2, <3>3
  <2> QED
    BY <2>3, <2>4 DEF OrderInv
<1> QED
  BY <1>3, <1>4, <1>5, <1>6, Emissions DEF Next

-----------------------------------------------------------------------------
(* The theorems.                                                            *)

\* The inductive invariant.
SessionInv ==
  /\ DataInv /\ RingInv /\ SocketInv
  /\ StreamInv /\ HistoryInv /\ OrderInv /\ InSync

\* Before the first connection the invariant holds.
LEMMA SessionInit ==
  ASSUME Init
  PROVE  SessionInv
<1>1. /\ spawns = {} /\ clock = 0 /\ sessions = <<>> /\ hellos = {}
      /\ made = 0 /\ conn = 0 /\ down = <<>> /\ dead = {}
      /\ DOMAIN sessions = {} /\ DOMAIN down = {}
      /\ client = [sid |-> 0, last |-> 0, view |-> {}, gap |-> FALSE,
                   base |-> 0, inc |-> 0, truth |-> {}]
  BY DEF Init
<1>2. DataInv
  <2>1. sessions \in [DOMAIN sessions -> Adapters] /\ down \in Seq(Envelopes)
    BY <1>1
  <2>2. 0 \in 0 .. MaxEvents + 1 /\ 0 \in 0 .. MaxEvents
    BY ResumeAssumption
  <2> QED
    BY <1>1, <2>1, <2>2 DEF DataInv
<1>3. RingInv
  BY <1>1 DEF RingInv
<1>4. SocketInv
  <2>1. Attached = {} /\ 0 \in 0 .. MaxConns
    BY <1>1, ResumeAssumption DEF Attached
  <2>2. Used \subseteq 0 .. made
    BY <1>1 DEF Used
  <2> QED
    BY <1>1, <2>1, <2>2 DEF SocketInv
<1>5. StreamInv
  BY <1>1 DEF StreamInv, Attached
<1>6. HistoryInv
  <2>1. Held = {}
    BY <1>1 DEF Held
  <2> QED
    BY <1>1, <2>1 DEF HistoryInv
<1>7. OrderInv
  BY <1>1 DEF OrderInv
<1>8. InSync
  BY <1>1 DEF InSync
<1> QED
  BY <1>2, <1>3, <1>4, <1>5, <1>6, <1>7, <1>8 DEF SessionInv

\* Every step keeps the view of a client without a gap equal to what its last
\* envelope was made from.
LEMMA InSyncStep ==
  ASSUME DataInv, RingInv, SocketInv, StreamInv, HistoryInv, InSync, [Next]_vars
  PROVE  InSync'
<1>1. ASSUME Deliver
      PROVE  InSync'
  <2> DEFINE env == Head(down)
             snap == env.kind = "snapshot"
  <2>1. /\ down # <<>>
        /\ client' = [sid   |-> IF snap THEN env.sid ELSE client.sid,
                      last  |-> env.seq,
                      view  |-> Applied(client.view, env),
                      gap   |-> ~snap /\ (client.gap \/ env.seq # client.last + 1),
                      base  |-> IF snap THEN env.inc ELSE client.base,
                      inc   |-> env.inc,
                      truth |-> env.truth]
    BY <1>1 DEF Deliver
  <2>2. 1 \in DOMAIN down /\ env = down[1]
    BY <2>1 DEF DataInv
  <2>3. PICK id \in Attached : env.inc = sessions[id].inc
    BY <2>2 DEF StreamInv
  <2>4. env \in Held
    BY <2>2, Holds
  <2>5. id \in DOMAIN sessions
    BY DEF Attached
  <2> HIDE DEF env
  <2>6. CASE snap
    <3>1. client'.view = env.truth /\ client'.truth = env.truth
      BY <2>1, <2>6 DEF Applied
    <3> QED
      BY <3>1 DEF InSync
  <2>7. CASE ~snap
    <3>1. SUFFICES ASSUME ~client'.gap, client'.inc = client'.base
                   PROVE  client'.view = client'.truth
      BY DEF InSync
    <3>2. ~client.gap /\ env.seq = client.last + 1 /\ env.inc = client.base
      BY <2>1, <2>7, <3>1
    <3>3. client.inc = client.base
      BY <2>3, <2>5, <3>2 DEF StreamInv
    <3>4. client.view = client.truth
      BY <3>2, <3>3 DEF InSync
    <3>5. Seen.inc = env.inc /\ env.seq = Seen.seq + 1 /\ Seen.truth = client.truth
      BY <3>2, <3>3 DEF Seen
    <3>6. env.truth = Applied(client.truth, env)
      BY <2>4, <3>5 DEF HistoryInv
    <3>7. client'.view = Applied(client.view, env) /\ client'.truth = env.truth
      BY <2>1
    <3> QED
      BY <3>4, <3>6, <3>7
  <2> QED
    BY <2>6, <2>7
<1>2. ASSUME ~Deliver
      PROVE  client' = client
  BY <1>2 DEF Next, Publish, Tell, Resnapshot, Refresh, OnHello, SocketGone, Prune,
              Restart, Connect, Drop, vars
<1>3. ASSUME client' = client
      PROVE  InSync'
  BY <1>3 DEF InSync
<1> QED
  BY <1>1, <1>2, <1>3

\* The invariant holds throughout: signals, resumes, prunes, lost connections
\* and restarts of the daemon keep it.
THEOREM SessionSafe == Spec => []SessionInv
<1>1. Init => SessionInv
  BY SessionInit
<1>2. SessionInv /\ [Next]_vars => SessionInv'
  <2> SUFFICES ASSUME SessionInv, [Next]_vars
               PROVE  SessionInv'
    OBVIOUS
  <2>1. DataInv /\ RingInv /\ SocketInv /\ StreamInv /\ HistoryInv /\ OrderInv /\ InSync
    BY DEF SessionInv
  <2>2. DataInv' /\ RingInv'
    BY <2>1, DataRingStep
  <2>3. SocketInv'
    BY <2>1, SocketStep
  <2>4. StreamInv'
    BY <2>1, StreamStep
  <2>5. HistoryInv'
    BY <2>1, HistoryStep
  <2>6. OrderInv'
    BY <2>1, OrderStep
  <2>7. InSync'
    BY <2>1, InSyncStep
  <2> QED
    BY <2>2, <2>3, <2>4, <2>5, <2>6, <2>7 DEF SessionInv
<1> QED
  BY <1>1, <1>2, PTL DEF Spec

\* A client that has seen no gap shows the state its last envelope was made from,
\* and no ring has a hole (emitEnvelope, replaySince, setSink).
THEOREM ShowsWhatItWasTold == Spec => []ClientOK
<1>1. ASSUME SessionInv
      PROVE  ClientOK
  <2>1. DataInv /\ RingInv /\ SocketInv /\ InSync
    BY <1>1 DEF SessionInv
  <2>2. /\ spawns \subseteq Spawns /\ clock \in 0 .. MaxEvents
        /\ DOMAIN sessions \subseteq Ids /\ client.view \subseteq Spawns
        /\ \A i \in DOMAIN down : down[i] \in Envelopes
    BY <2>1 DEF DataInv
  <2>3. /\ made \in 0 .. MaxConns /\ conn \in {0, made}
        /\ dead \subseteq (1 .. made) \ {conn}
        /\ \A id \in DOMAIN sessions :
             sessions[id].sid = id /\ sessions[id].sock \in dead \cup {0, conn}
    BY <2>1 DEF SocketInv
  <2>4. \A id \in DOMAIN sessions : RingOk(sessions[id])
    BY <2>1 DEF RingInv
  <2>5. ASSUME NEW h \in hellos
        PROVE  /\ h.conn \in (dead \cup {conn}) \ {0}
               /\ h.sid \in Ids \cup {0} /\ h.last \in 0 .. MaxEvents + 1
    <3>1. /\ h \in Hellos /\ h.conn \in (dead \cup {conn}) \ {0}
          /\ h.last <= MaxEvents + 1 /\ Used \subseteq 0 .. made
      BY <2>1 DEF SocketInv
    <3>2. h.sid \in 0 .. made
      BY <3>1, Speaking
    <3>3. h.sid \in Ids \cup {0}
      BY <2>3, <3>2, ResumeAssumption DEF Ids
    <3>4. h.last \in 0 .. MaxEvents + 1
      BY <3>1, ResumeAssumption DEF Hellos
    <3> QED
      BY <3>1, <3>3, <3>4
  <2>6. TypeOK
    BY <2>2, <2>3, <2>4, <2>5 DEF TypeOK
  <2> QED
    BY <2>1, <2>6 DEF ClientOK
<1> QED
  BY <1>1, SessionSafe, PTL

\* A client whose Subscribe has been read stays attached to exactly one session
\* until it drops (onSocketDisconnected, resumeSession, pruneSession).
THEOREM StaysServed == Spec => []Served
<1>1. ASSUME SessionInv
      PROVE  Served
  <2>1. SocketInv
    BY <1>1 DEF SessionInv
  <2>2. ASSUME conn # 0, \A h \in hellos : h.conn # conn
        PROVE  \E id \in DOMAIN sessions : Attached = {id}
    <3>1. PICK id \in Attached : TRUE
      BY <2>1, <2>2 DEF SocketInv
    <3>2. Attached = {id}
      BY <2>1, <3>1, OneAttached
    <3>3. id \in DOMAIN sessions
      BY <3>1 DEF Attached
    <3> QED
      BY <3>2, <3>3
  <2> QED
    BY <2>2 DEF Served
<1> QED
  BY <1>1, SessionSafe, PTL

\* No envelope of one adapter is applied twice, whatever is replayed
\* (replaySince, onPendingFirstBinary).
THEOREM NeverTwice == Spec => NoRepeat
<1>1. ASSUME SessionInv, [Next]_vars
      PROVE  [Deliver /\ Head(down).inc = client.inc => client'.last > client.last]_vars
  <2>1. ASSUME Deliver, Head(down).inc = client.inc
        PROVE  client'.last > client.last
    <3>1. down # <<>> /\ client'.last = Head(down).seq
      BY <2>1 DEF Deliver
    <3>2. 1 \in DOMAIN down /\ Head(down) = down[1]
      BY <1>1, <3>1 DEF SessionInv, DataInv
    <3>3. down[1].seq > client.last
      BY <1>1, <2>1, <3>2 DEF SessionInv, OrderInv
    <3> QED
      BY <3>1, <3>2, <3>3
  <2> QED
    BY <2>1
<1> QED
  BY <1>1, SessionSafe, PTL DEF Spec, NoRepeat
================================================================================
