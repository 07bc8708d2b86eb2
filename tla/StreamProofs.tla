---------------------------- MODULE StreamProofs ----------------------------
(***************************************************************************)
(* Theorems about one stream, for every value of the constants: about      *)
(* PacketStream, which orders its packets, and about Fragments, its        *)
(* reassembly buffer.                                                      *)
(***************************************************************************)
EXTENDS PacketStream, Fragments, FiniteSetTheorems, TLAPS

-----------------------------------------------------------------------------
(* Sequence-number arithmetic.                                             *)

\* Advancing the 16-bit expected number yields a 16-bit number.
LEMMA AheadType ==
  ASSUME NEW e \in Int, NEW k \in Int
  PROVE  Ahead(e, k) \in SeqNums
BY WindowAssumption DEF Ahead, SeqNums

LEMMA WrapOnce ==
  ASSUME NEW x \in Int, x >= 0, x < 2 * SeqMod
  PROVE  x % SeqMod = IF x < SeqMod THEN x ELSE x - SeqMod
BY WindowAssumption

\* The window test is right on both sides, also across the wrap: the
\* WrapCutoff - 1 numbers after the expected one are cached, the expected one
\* and the WrapCutoff numbers before it are not.
THEOREM WindowSound ==
  ASSUME NEW e \in SeqNums, NEW seq \in SeqNums
  PROVE  /\ NearAhead(seq, e) => IsFuture(seq, e)
         /\ NearBehind(seq, e) \/ seq = e => ~IsFuture(seq, e)
<1>1. ASSUME NEW k \in 1 .. WrapCutoff - 1, seq = Ahead(e, k)
      PROVE  IsFuture(seq, e)
  <2>1. seq = IF e + k < SeqMod THEN e + k ELSE e + k - SeqMod
    <3>1. SeqMod \in Nat /\ e \in 0 .. SeqMod - 1 /\ k \in 1 .. SeqMod - 1
      BY <1>1, WindowAssumption DEF SeqNums
    <3> QED
      BY <1>1, <3>1, WrapOnce DEF Ahead
  <2> QED
    BY <2>1, WindowAssumption DEF IsFuture, SeqNums
<1>2. ASSUME NEW k \in 1 .. WrapCutoff, seq = Behind(e, k)
      PROVE  ~IsFuture(seq, e)
  <2>1. seq = IF e >= k THEN e - k ELSE e - k + SeqMod
    BY <1>2, WindowAssumption DEF Behind, SeqNums
  <2> QED
    BY <2>1, WindowAssumption DEF IsFuture, SeqNums
<1>3. seq = e => ~IsFuture(seq, e)
  BY WindowAssumption DEF IsFuture, SeqNums
<1> QED
  BY <1>1, <1>2, <1>3 DEF NearAhead, NearBehind

-----------------------------------------------------------------------------
(* What the handlers' parts preserve.  StreamOK is the part of TypeOK that  *)
(* processPacket and processCache touch, stated of an intermediate state.   *)

CacheOK(c) ==
  /\ DOMAIN c \subseteq SeqNums
  /\ \A q \in DOMAIN c : c[q] \in Packet /\ Seq16(c[q]) = q

StreamOK(st) ==
  /\ st = [exp |-> st.exp, cache |-> st.cache, out |-> st.out]
  /\ st.exp \in SeqNums
  /\ CacheOK(st.cache)
  /\ st.out \in Seq(Packet)

LEMMA SeqOfPacket ==
  ASSUME NEW p \in Packet
  PROVE  Seq16(p) \in SeqNums
BY WindowAssumption DEF Seq16, SeqNums, Packet

\* setCache files the packet under its own number and keeps the others.
LEMMA SetCacheOK ==
  ASSUME NEW c, CacheOK(c), NEW p \in Packet, NEW k
  PROVE  CacheOK(SetCache(c, p, k))
<1> DEFINE d == [q \in DOMAIN c \cup {Seq16(p)} |->
                   IF q = Seq16(p) THEN p ELSE c[q]]
<1>1. DOMAIN d \subseteq SeqNums
  BY SeqOfPacket DEF CacheOK
<1>2. \A q \in DOMAIN d : d[q] \in Packet /\ Seq16(d[q]) = q
  BY DEF CacheOK
<1>3. CacheOK(d)
  BY <1>1, <1>2 DEF CacheOK
<1>4. SetCache(c, p, k) = c \/ SetCache(c, p, k) = d
  BY DEF SetCache
<1> QED
  BY <1>3, <1>4

\* The three ways processPacket can go.
LEMMA ProcessPacketCases ==
  ASSUME NEW st, StreamOK(st), NEW p \in Packet, NEW k
  PROVE  LET r == ProcessPacket(st, p, k)
         IN  \/ r = [exp |-> Ahead(st.exp, 1), cache |-> st.cache,
                     out |-> Append(st.out, p)]
             \/ r = [exp |-> st.exp, cache |-> SetCache(st.cache, p, k),
                     out |-> st.out]
             \/ r = st
<1>1. CASE Seq16(p) = st.exp
  BY <1>1 DEF ProcessPacket, StreamOK
<1>2. CASE Seq16(p) # st.exp /\ IsFuture(Seq16(p), st.exp)
  BY <1>2 DEF ProcessPacket, StreamOK
<1>3. CASE Seq16(p) # st.exp /\ ~IsFuture(Seq16(p), st.exp)
  BY <1>3 DEF ProcessPacket
<1> QED
  BY <1>1, <1>2, <1>3

LEMMA ProcessPacketOK ==
  ASSUME NEW st, StreamOK(st), NEW p \in Packet, NEW k
  PROVE  StreamOK(ProcessPacket(st, p, k))
<1> DEFINE r == ProcessPacket(st, p, k)
<1>1. CASE r = [exp |-> Ahead(st.exp, 1), cache |-> st.cache,
                out |-> Append(st.out, p)]
  <2>1. Ahead(st.exp, 1) \in SeqNums
    BY AheadType DEF StreamOK, SeqNums
  <2> QED
    BY <1>1, <2>1 DEF StreamOK
<1>2. CASE r = [exp |-> st.exp, cache |-> SetCache(st.cache, p, k),
                out |-> st.out]
  BY <1>2, SetCacheOK DEF StreamOK
<1> QED
  BY <1>1, <1>2, ProcessPacketCases

\* processCache keeps the stream well typed and leaves no entry for the
\* number it now expects.
LEMMA AfterCacheOK ==
  ASSUME NEW st, StreamOK(st), NEW n \in 0 .. SeqMod, NEW m \in 0 .. SeqMod
  PROVE  LET r == AfterCache(st, n, m)
         IN  /\ r.exp \in SeqNums
             /\ CacheOK(r.cache)
             /\ r.exp \notin DOMAIN r.cache
             /\ DOMAIN r.cache \subseteq DOMAIN st.cache
             /\ \A q \in DOMAIN r.cache : r.cache[q] = st.cache[q]
<1> DEFINE r == AfterCache(st, n, m)
           b == Ahead(st.exp, n)
           kept == DOMAIN st.cache \ {Ahead(b, i) : i \in 0 .. m}
<1>1. b \in SeqNums /\ Ahead(b, m) \in SeqNums
  BY AheadType, WindowAssumption DEF StreamOK, SeqNums
<1>2. r.exp = Ahead(b, m) /\ r.cache = [q \in kept |-> st.cache[q]]
  BY DEF AfterCache, Restrict
<1>3. Ahead(b, m) \notin kept
  BY WindowAssumption
<1>4. CacheOK(r.cache)
  BY <1>2 DEF StreamOK, CacheOK
<1> QED
  BY <1>1, <1>2, <1>3, <1>4

LEMMA ProcessCacheOK ==
  ASSUME NEW st, StreamOK(st), NEW k, ProcessCache(st, k)
  PROVE  /\ exp' \in SeqNums
         /\ CacheOK(cache')
         /\ exp' \notin DOMAIN cache'
         /\ DOMAIN cache' \subseteq DOMAIN st.cache
         /\ \A q \in DOMAIN cache' : cache'[q] = st.cache[q]
<1>1. CASE DOMAIN st.cache = {}
  BY <1>1 DEF ProcessCache, StreamOK
<1>2. CASE DOMAIN st.cache # {}
  <2>1. PICK n \in 0 .. SeqMod, m \in 0 .. SeqMod :
           LET r == AfterCache(st, n, m)
           IN  exp' = r.exp /\ cache' = r.cache
    BY <1>2 DEF ProcessCache
  <2> QED
    BY <2>1, AfterCacheOK
<1> QED
  BY <1>1, <1>2

-----------------------------------------------------------------------------
(* Type correctness, and the drained cache.                                *)

\* Whatever processPacket made of the stream, processCache leaves it typed
\* and drained.
Drained == exp \in SeqNums /\ CacheOK(cache) /\ ExpectedNotCached

NowOK == StreamOK(Now)

LEMMA NowIsOK == TypeOK => NowOK
BY DEF TypeOK, NowOK, StreamOK, Now, CacheOK

LEMMA SequencedDrains ==
  ASSUME TypeOK, ExpectedNotCached, NEW s \in Sessions, NEW n \in Positions,
         HandleSequenced(s, n)
  PROVE  Drained'
<1> DEFINE p == [s |-> s, n |-> n, sub |-> FALSE]
<1>1. p \in Packet
  BY StreamAssumption DEF Packet, Positions
<1>2. CASE AcceptsCrc(s)
  <2>1. ProcessCache(ProcessPacket(Now, p, key), key)
    BY <1>2 DEF HandleSequenced
  <2>2. StreamOK(ProcessPacket(Now, p, key))
    BY <1>1, NowIsOK, ProcessPacketOK DEF NowOK
  <2> QED
    BY <2>1, <2>2, ProcessCacheOK DEF Drained, ExpectedNotCached
<1>3. CASE ~AcceptsCrc(s)
  BY <1>3 DEF HandleSequenced, Drained, ExpectedNotCached, TypeOK, CacheOK
<1> QED
  BY <1>2, <1>3

LEMMA CombinedDrains ==
  ASSUME TypeOK, ExpectedNotCached, NEW s \in Sessions,
         NEW n1 \in Positions, NEW n2 \in Positions, HandleCombined(s, n1, n2)
  PROVE  Drained'
<1> DEFINE p1 == [s |-> s, n |-> n1, sub |-> TRUE]
           p2 == [s |-> s, n |-> n2, sub |-> TRUE]
           mid == ProcessPacket(ProcessPacket(Now, p1, key), p2, key)
<1>1. p1 \in Packet /\ p2 \in Packet
  BY StreamAssumption DEF Packet, Positions
<1>2. CASE AcceptsCrc(s)
  <2>1. ProcessCache(mid, key)
    BY <1>2 DEF HandleCombined
  <2>2. StreamOK(ProcessPacket(Now, p1, key))
    BY <1>1, NowIsOK, ProcessPacketOK DEF NowOK
  <2>3. StreamOK(mid)
    BY <1>1, <2>2, ProcessPacketOK
  <2> QED
    BY <2>1, <2>3, ProcessCacheOK DEF Drained, ExpectedNotCached
<1>3. CASE ~AcceptsCrc(s)
  BY <1>3 DEF HandleCombined, Drained, ExpectedNotCached, TypeOK, CacheOK
<1> QED
  BY <1>2, <1>3

\* A handshake restarts the numbering at 0 and keeps the cache.
LEMMA RestartDrains ==
  ASSUME TypeOK, NEW k, ProcessCache([Now EXCEPT !.exp = 0], k)
  PROVE  Drained'
<1>1. StreamOK([Now EXCEPT !.exp = 0])
  BY WindowAssumption DEF TypeOK, StreamOK, Now, CacheOK, SeqNums
<1> QED
  BY <1>1, ProcessCacheOK DEF Drained, ExpectedNotCached

LEMMA HandlerDrains ==
  ASSUME TypeOK, ExpectedNotCached, NEW s \in Sessions, Handlers(s)
  PROVE  Drained'
<1>1. CASE \E n \in Positions : HandleSequenced(s, n)
  BY <1>1, SequencedDrains
<1>2. CASE \E n1, n2 \in Positions : HandleCombined(s, n1, n2)
  BY <1>2, CombinedDrains
<1>3. CASE HandleUnsequenced(s)
  BY <1>3, NowIsOK, ProcessCacheOK
  DEF HandleUnsequenced, NowOK, Drained, ExpectedNotCached
<1>4. CASE HandleSessionRequest(s)
  BY <1>4, RestartDrains DEF HandleSessionRequest
<1>5. CASE HandleSessionResponse(s)
  BY <1>5, RestartDrains DEF HandleSessionResponse
<1>6. CASE HandleSessionDisconnect(s)
  BY <1>6, WindowAssumption
  DEF HandleSessionDisconnect, Drained, ExpectedNotCached, CacheOK, SeqNums
<1>7. CASE ReceiveSessionKey(s)
  BY <1>7 DEF ReceiveSessionKey, Drained, ExpectedNotCached, TypeOK, CacheOK
<1>8. CASE Close(s)
  BY <1>8, WindowAssumption
  DEF Close, Drained, ExpectedNotCached, CacheOK, SeqNums
<1> QED
  BY <1>1, <1>2, <1>3, <1>4, <1>5, <1>6, <1>7, <1>8 DEF Handlers

\* The session variables and the environment stay well typed.
RestOK ==
  /\ sid \in Sessions \cup {NoSession} /\ key \in Sessions \cup {0}
  /\ latch \in Clients \cup {NoClient} /\ tracking \in 0 .. 2
  /\ opened \subseteq Sessions
  /\ sent \in [Sessions -> 0 .. MaxSend] /\ top \in [Sessions -> 0 .. MaxSend]
  /\ handoffs \in 0 .. MaxHandOffs

LEMMA SawOK ==
  ASSUME RestOK, NEW s \in Sessions, NEW n \in Positions, Saw(s, n)
  PROVE  top' \in [Sessions -> 0 .. MaxSend]
BY StreamAssumption DEF RestOK, Saw, Positions

LEMMA HandlerRest ==
  ASSUME RestOK, NEW s \in Sessions, Handlers(s)
  PROVE  RestOK'
<1> USE DEF RestOK
<1>1. CASE \E n \in Positions : HandleSequenced(s, n)
  BY <1>1, SawOK DEF HandleSequenced
<1>2. CASE \E n1, n2 \in Positions : HandleCombined(s, n1, n2)
  BY <1>2, SawOK DEF HandleCombined
<1>3. CASE HandleUnsequenced(s)
  BY <1>3 DEF HandleUnsequenced, env
<1>4. CASE HandleSessionRequest(s)
  BY <1>4 DEF HandleSessionRequest, env, Clients
<1>5. CASE HandleSessionResponse(s)
  BY <1>5 DEF HandleSessionResponse, env, Clients
<1>6. CASE HandleSessionDisconnect(s)
  BY <1>6 DEF HandleSessionDisconnect, env
<1>7. CASE ReceiveSessionKey(s)
  BY <1>7 DEF ReceiveSessionKey, env
<1>8. CASE Close(s)
  BY <1>8 DEF Close, env
<1> QED
  BY <1>1, <1>2, <1>3, <1>4, <1>5, <1>6, <1>7, <1>8 DEF Handlers

LEMMA DrainInit == Init => DrainInv
BY WindowAssumption, StreamAssumption
DEF Init, DrainInv, TypeOK, ExpectedNotCached, SeqNums

LEMMA DrainStep == DrainInv /\ [Next]_vars => DrainInv'
<1> SUFFICES ASSUME DrainInv, [Next]_vars
             PROVE  DrainInv'
  OBVIOUS
<1> USE DEF DrainInv
<1>1. CASE UNCHANGED vars
  BY <1>1 DEF vars, stream, env, TypeOK, ExpectedNotCached
<1>2. ASSUME NEW s \in Sessions, Open(s)
      PROVE  DrainInv'
  BY <1>2 DEF Open, stream, TypeOK, ExpectedNotCached
<1>3. ASSUME NEW s \in Sessions, Send(s)
      PROVE  DrainInv'
  <2>1. sent' \in [Sessions -> 0 .. MaxSend]
    <3>1. /\ sent \in [Sessions -> 0 .. MaxSend] /\ MaxSend \in Nat
          /\ sent[s] < MaxSend /\ sent' = [sent EXCEPT ![s] = @ + 1]
      BY <1>3, StreamAssumption DEF Send, TypeOK
    <3>2. sent[s] + 1 \in 0 .. MaxSend
      BY <3>1
    <3> QED
      BY <3>1, <3>2
  <2>2. UNCHANGED <<stream, opened, top, handoffs>>
    BY <1>3 DEF Send
  <2> QED
    BY <2>1, <2>2 DEF stream, TypeOK, ExpectedNotCached
<1>4. ASSUME NEW s \in Sessions, Handlers(s)
      PROVE  DrainInv'
  <2>1. RestOK
    BY DEF TypeOK, RestOK
  <2>2. Drained' /\ RestOK'
    BY <1>4, <2>1, HandlerDrains, HandlerRest
  <2> QED
    BY <2>2 DEF Drained, RestOK, TypeOK, CacheOK
<1>5. CASE HandOff
  <2>1. handoffs' \in 0 .. MaxHandOffs
    BY <1>5, StreamAssumption DEF HandOff, TypeOK
  <2> QED
    BY <1>5, <2>1 DEF HandOff, TypeOK, ExpectedNotCached
<1> QED
  BY <1>1, <1>2, <1>3, <1>4, <1>5 DEF Next

\* After every handler the stream is well typed (setCache files every packet
\* under its own 16-bit number, m_arqSeqExp stays one) and the packet it waits
\* for is not in m_cache.
THEOREM NeverWaitsForCached == Spec => []DrainInv
  BY DrainInit, DrainStep, PTL DEF Spec

-----------------------------------------------------------------------------
(* Old sessions stay silent when nothing is unrolled from OP_Combined.     *)

\* No cached packet is exempt from the CRC test.
Plain(c) == \A q \in DOMAIN c : ~c[q].sub

\* Everything about to be passed on belongs to the session of key k.
AllOf(o, k) == \A i \in DOMAIN o : o[i].s = k

LEMMA ProcessPacketPlain ==
  ASSUME NEW st, StreamOK(st), Plain(st.cache), NEW k, AllOf(st.out, k),
         NEW p \in Packet, ~p.sub, p.s = k
  PROVE  LET r == ProcessPacket(st, p, k)
         IN  Plain(r.cache) /\ AllOf(r.out, k)
<1> DEFINE r == ProcessPacket(st, p, k)
<1>1. CASE r = [exp |-> Ahead(st.exp, 1), cache |-> st.cache,
                out |-> Append(st.out, p)]
  <2>1. AllOf(Append(st.out, p), k)
    BY DEF AllOf, StreamOK
  <2> QED
    BY <1>1, <2>1
<1>2. CASE r = [exp |-> st.exp, cache |-> SetCache(st.cache, p, k),
                out |-> st.out]
  <2>1. Plain(SetCache(st.cache, p, k))
    BY DEF SetCache, Plain
  <2> QED
    BY <1>2, <2>1
<1> QED
  BY <1>1, <1>2, ProcessPacketCases

\* processCache passes on what processPacket did and entries whose CRC matches.
LEMMA ProcessCachePlain ==
  ASSUME NEW st, StreamOK(st), Plain(st.cache), NEW k, AllOf(st.out, k),
         ProcessCache(st, k)
  PROVE  AllOf(out', k)
<1>1. CASE DOMAIN st.cache = {}
  BY <1>1 DEF ProcessCache
<1>2. CASE DOMAIN st.cache # {}
  <2>1. PICK n \in 0 .. SeqMod, m \in 0 .. SeqMod :
           /\ ReadyRun(st.cache, Ahead(st.exp, n), k, m)
           /\ out' = AfterCache(st, n, m).out
    BY <1>2 DEF ProcessCache
  <2> DEFINE b == Ahead(st.exp, n)
             run == [i \in 1 .. m |-> st.cache[Ahead(b, i - 1)]]
  <2>2. out' = st.out \o run
    BY <2>1 DEF AfterCache
  <2>3. \A i \in 1 .. m : run[i].s = k /\ run[i] \in Packet
    <3> SUFFICES ASSUME NEW i \in 1 .. m
                 PROVE  run[i].s = k /\ run[i] \in Packet
      OBVIOUS
    <3>1. Good(st.cache, Ahead(b, i - 1), k)
      BY <2>1 DEF ReadyRun
    <3> QED
      BY <3>1 DEF Good, CrcOk, Plain, StreamOK, CacheOK
  <2>4. run \in Seq(Packet) /\ Len(run) = m
    BY <2>3
  <2>5. st.out \in Seq(Packet)
    BY DEF StreamOK
  <2>6. ASSUME NEW i \in DOMAIN out'
        PROVE  out'[i].s = k
    <3>1. i \in 1 .. Len(st.out) + m
      BY <2>2, <2>4, <2>5
    <3>2. CASE i <= Len(st.out)
      BY <2>2, <2>4, <2>5, <3>1, <3>2 DEF AllOf
    <3>3. CASE i > Len(st.out)
      <4>1. out'[i] = run[i - Len(st.out)]
        BY <2>2, <2>4, <2>5, <3>1, <3>3
      <4>2. i - Len(st.out) \in 1 .. m
        BY <2>5, <3>1, <3>3
      <4> QED
        BY <2>3, <4>1, <4>2
    <3> QED
      BY <2>5, <3>1, <3>2, <3>3
  <2> QED
    BY <2>6 DEF AllOf
<1> QED
  BY <1>1, <1>2

PlainInv == DrainInv /\ Plain(cache)

LEMMA PlainHandler ==
  ASSUME ~Bundling, PlainInv, NEW s \in Sessions, Handlers(s)
  PROVE  Plain(cache') /\ AllOf(out', key')
<1> DEFINE Restarted == [Now EXCEPT !.exp = 0]
<1>1. StreamOK(Now) /\ Plain(Now.cache) /\ \A k : AllOf(Now.out, k)
  BY NowIsOK DEF PlainInv, DrainInv, NowOK, Now, AllOf
<1>2. StreamOK(Restarted) /\ Restarted.cache = cache /\ Restarted.out = <<>>
  BY <1>1, WindowAssumption DEF StreamOK, Now, SeqNums
<1>3. Plain(Restarted.cache) /\ \A k : AllOf(Restarted.out, k)
  BY <1>2 DEF PlainInv, AllOf
<1>4. ASSUME NEW st, StreamOK(st), Plain(st.cache), NEW k, AllOf(st.out, k),
             ProcessCache(st, k)
      PROVE  Plain(cache') /\ AllOf(out', k)
  BY <1>4, ProcessCacheOK, ProcessCachePlain DEF Plain
<1>5. ASSUME NEW n \in Positions, HandleSequenced(s, n)
      PROVE  Plain(cache') /\ AllOf(out', key')
  <2> DEFINE p == [s |-> s, n |-> n, sub |-> FALSE]
             st == ProcessPacket(Now, p, key)
  <2>1. key' = key
    BY <1>5 DEF HandleSequenced
  <2>2. CASE AcceptsCrc(s)
    <3>1. p \in Packet /\ ~p.sub /\ p.s = key
      BY <2>2, StreamAssumption DEF Packet, Positions, AcceptsCrc
    <3>2. StreamOK(st) /\ Plain(st.cache) /\ AllOf(st.out, key)
      BY <1>1, <3>1, ProcessPacketOK, ProcessPacketPlain
    <3>3. ProcessCache(st, key)
      BY <1>5, <2>2 DEF HandleSequenced
    <3> HIDE DEF st
    <3> QED
      BY <1>4, <2>1, <3>2, <3>3
  <2>3. CASE ~AcceptsCrc(s)
    BY <1>5, <2>3 DEF HandleSequenced, PlainInv, AllOf
  <2> QED
    BY <2>2, <2>3
<1>6. ASSUME NEW n1 \in Positions, NEW n2 \in Positions,
             HandleCombined(s, n1, n2)
      PROVE  FALSE
  BY <1>6 DEF HandleCombined
<1>7. CASE HandleUnsequenced(s)
  BY <1>1, <1>4, <1>7 DEF HandleUnsequenced
<1>8. CASE HandleSessionRequest(s)
  BY <1>2, <1>3, <1>4, <1>8 DEF HandleSessionRequest
<1>9. CASE HandleSessionResponse(s)
  BY <1>2, <1>3, <1>4, <1>9 DEF HandleSessionResponse
<1>10. CASE HandleSessionDisconnect(s)
  BY <1>10 DEF HandleSessionDisconnect, Plain, AllOf
<1>11. CASE ReceiveSessionKey(s)
  BY <1>11 DEF ReceiveSessionKey, PlainInv, AllOf
<1>12. CASE Close(s)
  BY <1>12 DEF Close, Plain, AllOf
<1> QED
  BY <1>5, <1>6, <1>7, <1>8, <1>9, <1>10, <1>11, <1>12 DEF Handlers

LEMMA PlainStep ==
  ASSUME ~Bundling, PlainInv, [Next]_vars
  PROVE  /\ PlainInv'
         /\ [\A i \in DOMAIN out' : out'[i].s = key']_vars
<1>1. DrainInv'
  BY DrainStep DEF PlainInv
<1>2. CASE UNCHANGED vars
  BY <1>1, <1>2 DEF vars, stream, PlainInv
<1>3. ASSUME NEW s \in Sessions, Open(s) \/ Send(s)
      PROVE  Plain(cache') /\ AllOf(out', key')
  BY <1>3 DEF Open, Send, stream, PlainInv, AllOf
<1>4. CASE Next
  <2>1. Plain(cache') /\ AllOf(out', key')
    <3>1. CASE HandOff
      BY <3>1 DEF HandOff, Plain, AllOf
    <3> QED
      BY <1>3, <1>4, <3>1, PlainHandler DEF Next
  <2> QED
    BY <1>1, <2>1 DEF PlainInv, AllOf
<1> QED
  BY <1>2, <1>4

\* Without OP_Combined unrolling, no packet of another session than the one
\* whose key the stream holds is ever passed on, however long it sat in the
\* cache and whatever handshakes came in between.
THEOREM OldSessionsStaySilent ==
  ASSUME ~Bundling
  PROVE  Spec => OldSessionSilent
<1>1. Init => PlainInv
  BY DrainInit DEF PlainInv, Plain, Init
<1>2. PlainInv /\ [Next]_vars
        => PlainInv' /\ [\A i \in DOMAIN out' : out'[i].s = key']_vars
  BY PlainStep
<1> QED
  BY <1>1, <1>2, PTL DEF Spec, OldSessionSilent

-----------------------------------------------------------------------------
(* The cache never holds GiveUp packets between two handlers.              *)

LEMMA CacheFinite ==
  ASSUME NEW c, CacheOK(c)
  PROVE  IsFiniteSet(DOMAIN c)
<1>1. IsFiniteSet(0 .. SeqMod - 1)
  BY FS_Interval, WindowAssumption
<1>2. DOMAIN c \in SUBSET (0 .. SeqMod - 1)
  BY DEF CacheOK, SeqNums
<1> QED
  BY <1>1, <1>2, FS_Subset

\* processPacket caches at most one packet.
LEMMA ProcessPacketGrows ==
  ASSUME NEW st, StreamOK(st), NEW p \in Packet, NEW k
  PROVE  Cardinality(DOMAIN ProcessPacket(st, p, k).cache)
           <= Cardinality(DOMAIN st.cache) + 1
<1> DEFINE D == DOMAIN st.cache
           E == DOMAIN ProcessPacket(st, p, k).cache
           F == D \cup {Seq16(p)}
<1>1. E \subseteq F
  <2>1. DOMAIN SetCache(st.cache, p, k) \subseteq F
    BY DEF SetCache
  <2> QED
    BY <2>1, ProcessPacketCases
<1>2. IsFiniteSet(D)
  BY CacheFinite DEF StreamOK
<1> HIDE DEF D
<1>3. IsFiniteSet(F) /\ Cardinality(F) <= Cardinality(D) + 1
  <2>1. /\ IsFiniteSet(F)
        /\ Cardinality(F) = IF Seq16(p) \in D THEN Cardinality(D)
                            ELSE Cardinality(D) + 1
    BY <1>2, FS_AddElement
  <2> QED
    BY <1>2, <2>1, FS_CardinalityType
<1>4. IsFiniteSet(E) /\ Cardinality(E) <= Cardinality(F)
  <2> HIDE DEF E, F
  <2> QED
    BY <1>1, <1>3, FS_Subset
<1>5. Cardinality(D) \in Nat /\ Cardinality(E) \in Nat /\ Cardinality(F) \in Nat
  <2> HIDE DEF E, F
  <2> QED
    BY <1>2, <1>3, <1>4, FS_CardinalityType
<1>6. Cardinality(E) <= Cardinality(D) + 1
  <2> HIDE DEF E, F
  <2> QED
    BY <1>3, <1>4, <1>5
<1> QED
  BY <1>6 DEF D

\* processCache, run on a full cache, takes at least one packet out of it.
LEMMA ProcessCacheShrinks ==
  ASSUME NEW st, StreamOK(st), Cardinality(DOMAIN st.cache) <= GiveUp,
         NEW k, ProcessCache(st, k)
  PROVE  Cardinality(DOMAIN cache') < GiveUp
<1> DEFINE D == DOMAIN st.cache
           E == DOMAIN cache'
<1>1. IsFiniteSet(D) /\ Cardinality(D) \in Nat
  BY CacheFinite, FS_CardinalityType DEF StreamOK
<1>2. E \subseteq D
  BY ProcessCacheOK
<1>3. IsFiniteSet(E) /\ Cardinality(E) <= Cardinality(D)
      /\ Cardinality(E) \in Nat
  BY <1>1, <1>2, FS_Subset, FS_CardinalityType
<1>4. CASE Cardinality(D) < GiveUp
  BY <1>1, <1>3, <1>4, StreamAssumption
<1>5. CASE Cardinality(D) >= GiveUp
  <2>1. D # {}
    BY <1>5, FS_EmptySet, StreamAssumption
  <2>2. PICK n \in 0 .. SeqMod, m \in 0 .. SeqMod :
           /\ GivesUpOn(st, n)
           /\ cache' = AfterCache(st, n, m).cache
    BY <2>1 DEF ProcessCache
  <2> DEFINE b == Ahead(st.exp, n)
  <2>3. b \in D
    BY <1>5, <2>2 DEF GivesUpOn
  <2>4. b \in SeqNums /\ Ahead(b, 0) = b
    <3>1. b \in SeqNums
      BY <2>3 DEF StreamOK, CacheOK
    <3> HIDE DEF b
    <3>2. Ahead(b, 0) = b
      BY <3>1, WindowAssumption, WrapOnce DEF Ahead, SeqNums
    <3> QED
      BY <3>1, <3>2
  <2>5. b \notin E
    BY <2>2, <2>4, WindowAssumption DEF AfterCache, Restrict
  <2>6. E \subseteq D \ {b}
    BY <1>2, <2>5
  <2>7. IsFiniteSet(D \ {b}) /\ Cardinality(D \ {b}) = Cardinality(D) - 1
    BY <1>1, <2>3, FS_RemoveElement
  <2>8. Cardinality(E) <= Cardinality(D) - 1
    BY <2>6, <2>7, FS_Subset
  <2> QED
    BY <1>1, <1>3, <2>8, StreamAssumption
<1> QED
  BY <1>1, <1>4, <1>5, StreamAssumption

BoundInv == DrainInv /\ Cardinality(DOMAIN cache) < GiveUp

LEMMA BoundStep ==
  ASSUME ~Bundling, BoundInv, [Next]_vars
  PROVE  BoundInv'
<1>1. DrainInv'
  BY DrainStep DEF BoundInv
<1>2. StreamOK(Now) /\ Now.cache = cache
  BY NowIsOK DEF BoundInv, DrainInv, NowOK, Now
<1>3. Cardinality(DOMAIN cache) \in Nat /\ Cardinality(DOMAIN cache) + 1 <= GiveUp
  BY <1>2, CacheFinite, FS_CardinalityType, StreamAssumption
  DEF BoundInv, StreamOK
<1>4. CASE cache' = cache
  BY <1>1, <1>4 DEF BoundInv
<1>5. CASE cache' = <<>>
  <2>1. DOMAIN cache' = {}
    BY <1>5
  <2> QED
    BY <1>1, <2>1, FS_EmptySet, StreamAssumption DEF BoundInv
<1>6. ASSUME NEW st, StreamOK(st), Cardinality(DOMAIN st.cache) <= GiveUp,
             NEW k, ProcessCache(st, k)
      PROVE  BoundInv'
  BY <1>1, <1>6, ProcessCacheShrinks DEF BoundInv
<1>7. ASSUME NEW s \in Sessions, NEW n \in Positions, HandleSequenced(s, n)
      PROVE  BoundInv'
  <2> DEFINE p == [s |-> s, n |-> n, sub |-> FALSE]
             st == ProcessPacket(Now, p, key)
  <2>1. p \in Packet
    BY StreamAssumption DEF Packet, Positions
  <2>2. StreamOK(st)
    BY <1>2, <2>1, ProcessPacketOK
  <2>3. Cardinality(DOMAIN st.cache) <= Cardinality(DOMAIN cache) + 1
    BY <1>2, <2>1, ProcessPacketGrows
  <2>4. IsFiniteSet(DOMAIN st.cache)
    BY <2>2, CacheFinite DEF StreamOK
  <2>5. Cardinality(DOMAIN st.cache) <= GiveUp
    BY <1>3, <2>3, <2>4, FS_CardinalityType, StreamAssumption
  <2>6. ProcessCache(st, key) \/ cache' = cache
    BY <1>7 DEF HandleSequenced
  <2> HIDE DEF st
  <2> QED
    BY <1>4, <1>6, <2>2, <2>5, <2>6
<1>8. ASSUME NEW k, ProcessCache([Now EXCEPT !.exp = 0], k)
      PROVE  BoundInv'
  <2>1. /\ StreamOK([Now EXCEPT !.exp = 0])
        /\ [Now EXCEPT !.exp = 0].cache = cache
    BY <1>2, WindowAssumption DEF StreamOK, Now, SeqNums
  <2> DEFINE st == [Now EXCEPT !.exp = 0]
  <2>2. Cardinality(DOMAIN st.cache) <= GiveUp
    BY <1>3, <2>1, StreamAssumption
  <2>3. StreamOK(st) /\ ProcessCache(st, k)
    BY <1>8, <2>1
  <2> HIDE DEF st
  <2> QED
    BY <1>6, <2>2, <2>3
<1>9. ASSUME NEW s \in Sessions, Handlers(s)
      PROVE  BoundInv'
  <2>1. CASE HandleUnsequenced(s)
    BY <1>2, <1>3, <1>6, <2>1, StreamAssumption DEF HandleUnsequenced
  <2>2. CASE HandleSessionRequest(s) \/ HandleSessionResponse(s)
    BY <1>8, <2>2 DEF HandleSessionRequest, HandleSessionResponse
  <2>3. CASE HandleSessionDisconnect(s) \/ Close(s)
    BY <1>5, <2>3 DEF HandleSessionDisconnect, Close
  <2>4. CASE ReceiveSessionKey(s)
    BY <1>4, <2>4 DEF ReceiveSessionKey
  <2>5. ~ \E n1, n2 \in Positions : HandleCombined(s, n1, n2)
    BY DEF HandleCombined
  <2> QED
    BY <1>7, <1>9, <2>1, <2>2, <2>3, <2>4, <2>5 DEF Handlers
<1>10. CASE UNCHANGED vars
  BY <1>4, <1>10 DEF vars, stream
<1>11. ASSUME NEW s \in Sessions, Open(s) \/ Send(s)
       PROVE  BoundInv'
  BY <1>4, <1>11 DEF Open, Send, stream
<1>12. CASE HandOff
  BY <1>5, <1>12 DEF HandOff
<1> QED
  BY <1>9, <1>10, <1>11, <1>12 DEF Next

\* m_cache is a bounded buffer: unless several packets arrive in one
\* OP_Combined, fewer than m_arqSeqGiveUp packets wait in it between handlers.
THEOREM CacheStaysBounded ==
  ASSUME ~Bundling
  PROVE  Spec => []CacheBounded
<1>1. Init => BoundInv
  BY DrainInit, FS_EmptySet, StreamAssumption DEF BoundInv, Init
<1>2. BoundInv /\ [Next]_vars => BoundInv'
  BY BoundStep
<1>3. BoundInv => CacheBounded
  BY DEF BoundInv, CacheBounded
<1> QED
  BY <1>1, <1>2, <1>3, PTL DEF Spec

-----------------------------------------------------------------------------
(* First client wins.                                                      *)

\* While the stream is latched, its session is one of the latched client's.
LatchInv == TypeOK /\ (latch # NoClient /\ sid # NoSession => Owner[sid] = latch)

LEMMA LatchStep ==
  ASSUME DrainInv, LatchInv, [Next]_vars
  PROVE  /\ LatchInv'
         /\ [latch # NoClient /\ key' # key /\ key' # 0
               => Owner[key'] = latch]_vars
<1>1. TypeOK'
  BY DrainStep DEF DrainInv
<1>2. CASE UNCHANGED vars
  BY <1>1, <1>2 DEF vars, stream, LatchInv
<1>3. ASSUME NEW s \in Sessions, Open(s) \/ Send(s) \/ Handlers(s)
      PROVE  /\ LatchInv'
             /\ latch # NoClient /\ key' # key /\ key' # 0 => Owner[key'] = latch
  <2> USE DEF LatchInv, NoSession
  <2>1. CASE Open(s) \/ Send(s)
    BY <1>1, <2>1 DEF Open, Send, stream
  <2>2. CASE \E n \in Positions : HandleSequenced(s, n)
    BY <1>1, <2>2 DEF HandleSequenced
  <2>3. CASE \E n1, n2 \in Positions : HandleCombined(s, n1, n2)
    BY <1>1, <2>3 DEF HandleCombined
  <2>4. CASE HandleUnsequenced(s)
    BY <1>1, <2>4 DEF HandleUnsequenced
  <2>5. CASE HandleSessionRequest(s)
    BY <1>1, <2>5 DEF HandleSessionRequest, Latched
  <2>6. CASE HandleSessionResponse(s)
    BY <1>1, <2>6 DEF HandleSessionResponse, Latched
  <2>7. CASE HandleSessionDisconnect(s)
    BY <1>1, <2>7 DEF HandleSessionDisconnect
  <2>8. CASE ReceiveSessionKey(s)
    BY <1>1, <2>8, StreamAssumption DEF ReceiveSessionKey
  <2>9. CASE Close(s)
    BY <1>1, <2>9 DEF Close
  <2> QED
    BY <1>3, <2>1, <2>2, <2>3, <2>4, <2>5, <2>6, <2>7, <2>8, <2>9 DEF Handlers
<1>4. CASE HandOff
  BY <1>1, <1>4 DEF HandOff, LatchInv
<1> QED
  BY <1>2, <1>3, <1>4 DEF Next

\* A latched stream never adopts the key of another client's session, neither
\* from a handshake of its own nor from its sibling.
THEOREM FirstClientWins == Spec => LatchHolds
<1>1. Init => DrainInv /\ LatchInv
  BY DrainInit DEF LatchInv, DrainInv, Init
<1>2. DrainInv /\ LatchInv /\ [Next]_vars
        => /\ DrainInv' /\ LatchInv'
           /\ [latch # NoClient /\ key' # key /\ key' # 0
                 => Owner[key'] = latch]_vars
  BY DrainStep, LatchStep
<1> QED
  BY <1>1, <1>2, PTL DEF Spec, LatchHolds

-----------------------------------------------------------------------------
(* Positions and their numbers.                                            *)

\* The remainder is the only number below SeqMod that leaves a multiple.
LEMMA RemainderUnique ==
  ASSUME NEW x \in Int, NEW d \in Int, NEW r \in 0 .. SeqMod - 1,
         x = SeqMod * d + r
  PROVE  x % SeqMod = r
<1> DEFINE e == x \div SeqMod
           t == x % SeqMod
<1>1. SeqMod \in Nat /\ SeqMod > 0
  BY WindowAssumption
<1>2. e \in Int /\ t \in 0 .. SeqMod - 1 /\ x = SeqMod * e + t
  BY <1>1
<1> HIDE DEF e, t
<1>3. ASSUME e <= d - 1 PROVE FALSE
  <2>1. SeqMod * e <= SeqMod * (d - 1)
    BY <1>1, <1>2, <1>3
  <2>2. SeqMod * (d - 1) = SeqMod * d - SeqMod
    BY <1>1
  <2> QED
    BY <1>1, <1>2, <2>1, <2>2
<1>4. ASSUME d <= e - 1 PROVE FALSE
  <2>1. SeqMod * d <= SeqMod * (e - 1)
    BY <1>1, <1>2, <1>4
  <2>2. SeqMod * (e - 1) = SeqMod * e - SeqMod
    BY <1>1, <1>2
  <2> QED
    BY <1>1, <1>2, <2>1, <2>2
<1>5. d = e
  BY <1>2, <1>3, <1>4
<1>6. t = r
  BY <1>1, <1>2, <1>5
<1> QED
  BY <1>6 DEF t

\* Counting on from the number of a position gives the number of the position
\* that many later (or, backwards, earlier).
LEMMA AheadPos ==
  ASSUME NEW pos \in Int, NEW k \in Int
  PROVE  ((pos % SeqMod) + k) % SeqMod = (pos + k) % SeqMod
<1> DEFINE d == pos \div SeqMod
           r == pos % SeqMod
           e == (r + k) \div SeqMod
           t == (r + k) % SeqMod
<1>1. SeqMod \in Nat /\ SeqMod > 0
  BY WindowAssumption
<1>2. d \in Int /\ r \in Int /\ pos = SeqMod * d + r
  BY <1>1
<1>3. e \in Int /\ t \in 0 .. SeqMod - 1 /\ r + k = SeqMod * e + t
  <2> HIDE DEF r
  <2> QED
    BY <1>1, <1>2
<1> HIDE DEF d, r, e, t
<1>4. pos + k = SeqMod * (d + e) + t
  BY <1>1, <1>2, <1>3
<1>5. (pos + k) % SeqMod = t
  BY <1>2, <1>3, <1>4, RemainderUnique
<1> QED
  BY <1>5 DEF t, r

\* Positions fewer than SeqMod apart have different numbers.
LEMMA SeqDistinct ==
  ASSUME NEW x \in Int, NEW k \in 1 .. SeqMod - 1
  PROVE  (x + k) % SeqMod # x % SeqMod
<1> DEFINE r == x % SeqMod
<1>1. SeqMod \in Nat /\ SeqMod > 0 /\ r \in 0 .. SeqMod - 1
  BY WindowAssumption
<1>2. (x + k) % SeqMod = (r + k) % SeqMod
  BY AheadPos
<1> HIDE DEF r
<1>3. (r + k) % SeqMod = IF r + k < SeqMod THEN r + k ELSE r + k - SeqMod
  BY <1>1, WrapOnce
<1> QED
  BY <1>1, <1>2, <1>3 DEF r

\* Within the window, the 16-bit test tells apart what is ahead of a position
\* and what lies behind it.
LEMMA Classified ==
  ASSUME NEW pos \in Nat, NEW n \in Nat
  PROVE  /\ n > pos /\ n - pos < WrapCutoff
              => n % SeqMod # pos % SeqMod /\ IsFuture(n % SeqMod, pos % SeqMod)
         /\ n < pos /\ pos - n <= WrapCutoff
              => n % SeqMod # pos % SeqMod /\ ~IsFuture(n % SeqMod, pos % SeqMod)
<1> DEFINE e == pos % SeqMod
           seq == n % SeqMod
<1>1. e \in SeqNums /\ seq \in SeqNums
  BY WindowAssumption DEF SeqNums
<1>2. ASSUME n > pos, n - pos < WrapCutoff
      PROVE  seq # e /\ IsFuture(seq, e)
  <2> DEFINE k == n - pos
  <2>1. k \in 1 .. WrapCutoff - 1 /\ k \in 1 .. SeqMod - 1 /\ n = pos + k
    BY <1>2, WindowAssumption
  <2>2. seq = Ahead(e, k)
    BY <2>1, AheadPos DEF Ahead
  <2>3. seq # e
    BY <2>1, SeqDistinct
  <2>4. NearAhead(seq, e)
    BY <2>1, <2>2 DEF NearAhead
  <2> HIDE DEF e, seq
  <2> QED
    BY <1>1, <2>3, <2>4, WindowSound
<1>3. ASSUME n < pos, pos - n <= WrapCutoff
      PROVE  seq # e /\ ~IsFuture(seq, e)
  <2> DEFINE k == pos - n
  <2>1. k \in 1 .. WrapCutoff /\ k \in 1 .. SeqMod - 1 /\ pos = n + k
    BY <1>3, WindowAssumption
  <2>2. seq = Behind(e, k)
    <3>1. ((pos % SeqMod) + (-k)) % SeqMod = (pos + (-k)) % SeqMod
      BY <2>1, AheadPos
    <3>2. e \in Int /\ e + (-k) = e - k /\ pos + (-k) = n
      BY <1>1, <2>1, WindowAssumption DEF SeqNums
    <3> QED
      BY <3>1, <3>2 DEF Behind
  <2>3. seq # e
    BY <2>1, SeqDistinct
  <2>4. NearBehind(seq, e)
    BY <2>1, <2>2 DEF NearBehind
  <2> HIDE DEF e, seq
  <2> QED
    BY <1>1, <2>3, <2>4, WindowSound
<1> QED
  BY <1>2, <1>3

\* The entries of session s hold positions from lo on, within one window.
HeldFrom(c, s, lo) ==
  \A q \in DOMAIN c : c[q].s = s => c[q].n >= lo /\ c[q].n < lo + WrapCutoff

\* processCache's second half, in terms of positions: started at the number of
\* position b, it passes on b .. b + m - 1, stops at a position that is not
\* there, and keeps what is later.
LEMMA DrainRun ==
  ASSUME NEW st, StreamOK(st), Plain(st.cache), NEW s \in Sessions,
         NEW b \in Nat, HeldFrom(st.cache, s, b),
         NEW j \in 0 .. SeqMod, NEW m \in 0 .. SeqMod,
         Ahead(st.exp, j) = b % SeqMod,
         ReadyRun(st.cache, b % SeqMod, s, m)
  PROVE  LET r == AfterCache(st, j, m)
         IN  /\ m <= WrapCutoff
             /\ r.exp = (b + m) % SeqMod
             /\ \A i \in 0 .. m - 1 :
                  LET q == Ahead(b % SeqMod, i)
                  IN  q \in DOMAIN st.cache /\ st.cache[q].s = s
                      /\ st.cache[q].n = b + i
             /\ \A q \in DOMAIN st.cache :
                  st.cache[q].s = s =>
                    IF st.cache[q].n < b + m
                    THEN q \notin DOMAIN r.cache
                    ELSE st.cache[q].n > b + m /\ q \in DOMAIN r.cache
<1> DEFINE c == st.cache
           r == AfterCache(st, j, m)
           num(i) == Ahead(b % SeqMod, i)
<1>1. \A q \in DOMAIN c : c[q] \in Packet /\ c[q].n % SeqMod = q /\ ~c[q].sub
                          /\ c[q].n \in Nat
  BY DEF StreamOK, CacheOK, Plain, Seq16, Packet
<1>2. \A i \in Int : num(i) = (b + i) % SeqMod
  BY AheadPos DEF Ahead
<1>3. SeqMod \in Nat /\ WrapCutoff \in Nat /\ 2 * WrapCutoff < SeqMod
      /\ WrapCutoff > 0
  BY WindowAssumption
<1>4. \A i \in 0 .. m - 1 : num(i) \in DOMAIN c /\ c[num(i)].s = s
  BY <1>1 DEF ReadyRun, Good, CrcOk
<1>5. ASSUME NEW i \in 0 .. SeqMod - 1, num(i) \in DOMAIN c, c[num(i)].s = s
      PROVE  c[num(i)].n = b + i
  <2> DEFINE x == c[num(i)].n
  <2>1. x \in Nat /\ x >= b /\ x < b + WrapCutoff /\ x % SeqMod = (b + i) % SeqMod
    BY <1>1, <1>2, <1>5 DEF HeldFrom
  <2> HIDE DEF x
  <2>2. ASSUME x > b + i PROVE FALSE
    <3>1. x - (b + i) \in 1 .. SeqMod - 1 /\ (b + i) + (x - (b + i)) = x
      BY <1>3, <2>1, <2>2
    <3> QED
      BY <2>1, <3>1, SeqDistinct
  <2>3. ASSUME x < b + i PROVE FALSE
    <3>1. (b + i) - x \in 1 .. SeqMod - 1 /\ x + ((b + i) - x) = b + i
      BY <1>3, <2>1, <2>3
    <3> QED
      BY <2>1, <3>1, SeqDistinct
  <2>4. x = b + i
    BY <2>1, <2>2, <2>3
  <2> QED
    BY <2>4 DEF x
<1>6. m <= WrapCutoff
  <2> SUFFICES ASSUME m > WrapCutoff PROVE FALSE
    BY <1>3
  <2>1. WrapCutoff \in 0 .. m - 1 /\ WrapCutoff \in 0 .. SeqMod - 1
    BY <1>3
  <2>2. num(WrapCutoff) \in DOMAIN c /\ c[num(WrapCutoff)].s = s
    BY <1>4, <2>1
  <2>3. c[num(WrapCutoff)].n = b + WrapCutoff
    BY <1>5, <2>1, <2>2
  <2> HIDE DEF num
  <2> QED
    BY <1>3, <2>2, <2>3 DEF HeldFrom
<1>7. \A i \in 0 .. m - 1 : c[num(i)].n = b + i
  <2> TAKE i \in 0 .. m - 1
  <2>1. i \in 0 .. SeqMod - 1
    BY <1>3, <1>6
  <2> QED
    BY <1>4, <1>5, <2>1
<1>8. r.exp = (b + m) % SeqMod
      /\ DOMAIN r.cache = DOMAIN c \ {num(i) : i \in 0 .. m}
  BY <1>2 DEF AfterCache, Restrict
<1>9. ASSUME NEW q \in DOMAIN c, c[q].s = s
      PROVE  IF c[q].n < b + m
             THEN q \notin DOMAIN r.cache
             ELSE c[q].n > b + m /\ q \in DOMAIN r.cache
  <2> DEFINE x == c[q].n
             i == x - b
  <2>1. x \in Nat /\ x % SeqMod = q /\ x >= b /\ x < b + WrapCutoff
    BY <1>1, <1>9 DEF HeldFrom
  <2>2. i \in 0 .. WrapCutoff - 1 /\ x = b + i
    BY <1>3, <2>1
  <2>3. num(i) = q
    BY <1>2, <2>1, <2>2
  <2>4. CASE i < m
    <3>1. i \in 0 .. m
      BY <2>2, <2>4
    <3> QED
      BY <1>8, <2>2, <2>3, <2>4, <3>1
  <2>5. CASE i = m
    <3>1. ~Good(c, num(m), s)
      BY DEF ReadyRun
    <3> QED
      BY <1>9, <2>3, <2>5, <3>1 DEF Good, CrcOk
  <2>6. CASE i > m
    <3>1. ASSUME NEW k \in 0 .. m PROVE num(k) # q
      <4>1. i - k \in 1 .. SeqMod - 1 /\ (b + k) + (i - k) = x /\ b + k \in Int
        BY <1>3, <2>1, <2>2, <2>6
      <4>2. ((b + k) + (i - k)) % SeqMod # (b + k) % SeqMod
        BY <4>1, SeqDistinct
      <4>3. num(k) = (b + k) % SeqMod
        BY <1>2
      <4> HIDE DEF num, x, i
      <4> QED
        BY <2>1, <4>1, <4>2, <4>3
    <3>2. q \in DOMAIN r.cache
      BY <1>8, <3>1
    <3> QED
      BY <2>2, <2>6, <3>2
  <2> QED
    BY <2>2, <2>4, <2>5, <2>6
<1> QED
  BY <1>4, <1>6, <1>7, <1>8, <1>9

\* processCache on st passes on positions b .. to - 1 of session s, after what
\* st.out already holds, then waits for position to and keeps what is later.
Delivers(st, s, b, to) ==
  /\ exp' = to % SeqMod
  /\ \E run \in Seq(Packet) :
        /\ out' = st.out \o run
        /\ Len(run) = to - b
        /\ \A i \in 1 .. Len(run) : run[i].s = s /\ run[i].n = b + i - 1
  /\ \A q \in DOMAIN st.cache :
        st.cache[q].s = s =>
          /\ st.cache[q].n >= b
          /\ IF st.cache[q].n < to THEN q \notin DOMAIN cache'
             ELSE st.cache[q].n > to /\ q \in DOMAIN cache'
  /\ to > b => \E q \in DOMAIN st.cache :
                 st.cache[q].s = s /\ st.cache[q].n = to - 1

\* When the cache is full, giving up stops at the latest at a packet of the
\* session that is held: numbers of entries other sessions left behind only
\* make it stop earlier.
LEMMA ProcessCacheDelivers ==
  ASSUME NEW st, StreamOK(st), Plain(st.cache), NEW s \in Sessions,
         NEW e \in Nat, st.exp = e % SeqMod, HeldFrom(st.cache, s, e),
         NEW x \in Nat, x >= e, x < e + WrapCutoff,
         x = e \/ x % SeqMod \in DOMAIN st.cache,
         x = e => Cardinality(DOMAIN st.cache) < GiveUp,
         ProcessCache(st, s)
  PROVE  \E b, to \in Nat : /\ e <= b /\ b <= x /\ b <= to
                            /\ Cardinality(DOMAIN st.cache) < GiveUp => b = e
                            /\ Delivers(st, s, b, to)
<1> DEFINE c == st.cache
<1>1. SeqMod \in Nat /\ WrapCutoff \in Nat /\ 2 * WrapCutoff < SeqMod
      /\ WrapCutoff > 0
  BY WindowAssumption
<1>2. \A q \in DOMAIN c : c[q] \in Packet /\ c[q].n % SeqMod = q /\ ~c[q].sub
                          /\ c[q].n \in Nat
  BY DEF StreamOK, CacheOK, Plain, Seq16, Packet
<1>3. st.out \in Seq(Packet)
  BY DEF StreamOK
<1>4. CASE DOMAIN c = {}
  <2>1. exp' = e % SeqMod /\ out' = st.out \o <<>> /\ <<>> \in Seq(Packet)
    BY <1>3, <1>4 DEF ProcessCache
  <2>2. Delivers(st, s, e, e)
    <3> DEFINE run == <<>>
    <3>1. run \in Seq(Packet) /\ Len(run) = e - e
      OBVIOUS
    <3>2. \A i \in 1 .. Len(run) : run[i].s = s /\ run[i].n = e + i - 1
      OBVIOUS
    <3>3. out' = st.out \o run
      BY <2>1
    <3> HIDE DEF run
    <3>4. \E rn \in Seq(Packet) :
             /\ out' = st.out \o rn
             /\ Len(rn) = e - e
             /\ \A i \in 1 .. Len(rn) : rn[i].s = s /\ rn[i].n = e + i - 1
      BY <3>1, <3>2, <3>3
    <3>5. ~(e > e)
      OBVIOUS
    <3> QED
      BY <1>4, <2>1, <3>4, <3>5 DEF Delivers
  <2> QED
    BY <2>2
<1>5. CASE DOMAIN c # {}
  <2>1. PICK j \in 0 .. SeqMod, m \in 0 .. SeqMod :
          /\ GivesUpOn(st, j)
          /\ ReadyRun(c, Ahead(st.exp, j), s, m)
          /\ exp' = AfterCache(st, j, m).exp
          /\ cache' = AfterCache(st, j, m).cache
          /\ out' = AfterCache(st, j, m).out
    BY <1>5 DEF ProcessCache
  <2> DEFINE b == e + j
             to == b + m
             run == [i \in 1 .. m |-> c[Ahead(b % SeqMod, i - 1)]]
  <2>2. \A i \in Int : Ahead(st.exp, i) = (e + i) % SeqMod
    BY AheadPos DEF Ahead
  <2>3. b \in Nat /\ to \in Nat /\ e <= b /\ b <= to
    OBVIOUS
  <2>4. b <= x
    <3>1. CASE Cardinality(DOMAIN c) >= GiveUp
      <4>1. x % SeqMod \in DOMAIN c /\ x > e
        BY <3>1, CacheFinite, FS_CardinalityType, StreamAssumption DEF StreamOK
      <4>2. \A i \in 0 .. j - 1 : (e + i) % SeqMod \notin DOMAIN c
        BY <2>1, <2>2, <3>1 DEF GivesUpOn
      <4>3. ASSUME x < b PROVE FALSE
        <5>1. x - e \in 0 .. j - 1 /\ e + (x - e) = x
          BY <4>1, <4>3
        <5> QED
          BY <4>1, <4>2, <5>1
      <4> QED
        BY <2>3, <4>3
    <3>2. CASE ~(Cardinality(DOMAIN c) >= GiveUp)
      BY <2>1, <3>2 DEF GivesUpOn
    <3> QED
      BY <3>1, <3>2
  <2>5. Cardinality(DOMAIN c) < GiveUp => b = e
    <3>1. Cardinality(DOMAIN c) \in Nat
      BY CacheFinite, FS_CardinalityType DEF StreamOK
    <3> QED
      BY <2>1, <3>1, StreamAssumption DEF GivesUpOn
  <2>6. HeldFrom(c, s, b)
    <3> SUFFICES ASSUME NEW q \in DOMAIN c, c[q].s = s
                 PROVE  c[q].n >= b /\ c[q].n < b + WrapCutoff
      BY DEF HeldFrom
    <3> DEFINE y == c[q].n
    <3>1. y \in Nat /\ y >= e /\ y < e + WrapCutoff /\ y % SeqMod = q
      BY <1>2 DEF HeldFrom
    <3>2. CASE j = 0
      BY <3>1, <3>2
    <3>3. CASE j > 0
      <4>1. \A i \in 0 .. j - 1 : (e + i) % SeqMod \notin DOMAIN c
        <5>1. \A i \in 0 .. j - 1 : Ahead(st.exp, i) \notin DOMAIN c
          BY <2>1, <3>3 DEF GivesUpOn
        <5> QED
          BY <2>2, <5>1
      <4>2. ASSUME y < b PROVE FALSE
        <5>1. y - e \in 0 .. j - 1 /\ e + (y - e) = y
          BY <3>1, <4>2
        <5> HIDE DEF y
        <5> QED
          BY <3>1, <4>1, <5>1
      <4> QED
        BY <1>1, <3>1, <4>2
    <3> QED
      BY <3>2, <3>3
  <2>7. Ahead(st.exp, j) = b % SeqMod
    BY <2>2
  <2>8. ReadyRun(c, b % SeqMod, s, m)
    BY <2>1, <2>7
  <2> DEFINE r == AfterCache(st, j, m)
  <2>9. /\ r.exp = to % SeqMod
        /\ \A i \in 0 .. m - 1 :
             LET q == Ahead(b % SeqMod, i)
             IN  q \in DOMAIN c /\ c[q].s = s /\ c[q].n = b + i
        /\ \A q \in DOMAIN c :
             c[q].s = s =>
               IF c[q].n < to
               THEN q \notin DOMAIN r.cache
               ELSE c[q].n > to /\ q \in DOMAIN r.cache
    <3> HIDE DEF b
    <3> QED
      BY <2>3, <2>6, <2>7, <2>8, DrainRun
  <2>10. r.out = st.out \o run
    BY <2>7 DEF AfterCache
  <2>11. /\ \A i \in 1 .. m : run[i] \in Packet /\ run[i].s = s
                              /\ run[i].n = b + i - 1
         /\ run \in Seq(Packet) /\ Len(run) = m
    <3>1. ASSUME NEW i \in 1 .. m
          PROVE  run[i] \in Packet /\ run[i].s = s /\ run[i].n = b + i - 1
      <4> DEFINE q == Ahead(b % SeqMod, i - 1)
      <4>1. i - 1 \in 0 .. m - 1
        OBVIOUS
      <4>2. q \in DOMAIN c /\ c[q].s = s /\ c[q].n = b + (i - 1)
        BY <2>9, <4>1
      <4>3. run[i] = c[q]
        OBVIOUS
      <4> HIDE DEF q, run
      <4> QED
        BY <1>2, <4>2, <4>3
    <3>2. run \in Seq(Packet) /\ Len(run) = m
      BY <3>1
    <3> QED
      BY <3>1, <3>2
  <2>12. to > b => \E q \in DOMAIN c : c[q].s = s /\ c[q].n = to - 1
    <3> SUFFICES ASSUME m > 0
                 PROVE  \E q \in DOMAIN c : c[q].s = s /\ c[q].n = to - 1
      OBVIOUS
    <3>1. m - 1 \in 0 .. m - 1
      OBVIOUS
    <3> QED
      BY <2>9, <3>1
  <2>13. Delivers(st, s, b, to)
    <3>1. exp' = to % SeqMod
      BY <2>1, <2>9
    <3>2. \A q \in DOMAIN c :
            c[q].s = s =>
              /\ c[q].n >= b
              /\ IF c[q].n < to THEN q \notin DOMAIN cache'
                 ELSE c[q].n > to /\ q \in DOMAIN cache'
      BY <2>1, <2>6, <2>9 DEF HeldFrom
    <3>3. /\ run \in Seq(Packet) /\ out' = st.out \o run /\ Len(run) = to - b
          /\ \A i \in 1 .. Len(run) : run[i].s = s /\ run[i].n = b + i - 1
      <4>1. Len(run) = to - b
        BY <2>11
      <4> HIDE DEF run
      <4> QED
        BY <2>1, <2>10, <2>11, <4>1
    <3> HIDE DEF b, to, run
    <3> QED
      BY <2>12, <3>1, <3>2, <3>3 DEF Delivers
  <2> HIDE DEF b, to
  <2> QED
    BY <2>3, <2>4, <2>5, <2>13
<1> QED
  BY <1>4, <1>5

-----------------------------------------------------------------------------
(* The stream keeps its place.                                             *)

\* How far the expected position may fall behind while the cache fills up: of
\* every MaxLoss + 1 packets in a row one is captured, and held.
Lag == (GiveUp - 1) * (MaxLoss + 1)

\* The condition under which the window is wide enough: what the cache and the
\* hand-overs may cost, and the losses on top, fit into it, and so do the late
\* repeats.  (For the 512 and 1024 of the code: no two packets in a row missed
\* and no hand-over, or none missed and one hand-over.)
KeepsUp ==
  /\ MaxLate < WrapCutoff
  /\ \/ MaxSend <= WrapCutoff
     \/ (MaxHandOffs + 1) * Lag + MaxLoss < WrapCutoff

\* What the environment guarantees, and that the past stays the past.
Counted ==
  /\ high \in [Sessions -> Nat]
  /\ \A s \in Sessions : /\ high[s] <= top[s] /\ top[s] <= sent[s]
                         /\ sent[s] <= top[s] + MaxLoss + 1
  /\ \A q \in DOMAIN cache : cache[q].n < top[cache[q].s]

\* The stream waits for position pos of session s; from position base on it
\* has lost nothing that was captured.
Tracks(s, pos, base) ==
  /\ exp = pos % SeqMod
  /\ high[s] <= pos /\ pos <= base /\ base <= top[s]
  /\ base - pos <= handoffs * Lag
  /\ \A q \in DOMAIN cache : cache[q].s = s => cache[q].n > pos
  /\ \A x \in base .. top[s] - 1 : \E q \in DOMAIN cache :
        cache[q].s = s /\ cache[q].n \in x .. x + MaxLoss

LEMMA Multiples ==
  ASSUME NEW w \in Nat, NEW i \in Nat, NEW j \in Nat, i <= j
  PROVE  i * w \in Nat /\ j * w \in Nat /\ i * w <= j * w
         /\ (i + 1) * w = i * w + w
<1>1. i * w \in Nat /\ j * w \in Nat /\ (i + 1) * w = i * w + w
  OBVIOUS
<1>2. (j - i) * w \in Nat /\ j * w = i * w + (j - i) * w
  <2>1. j - i \in Nat
    OBVIOUS
  <2> QED
    BY <2>1
<1> QED
  BY <1>1, <1>2

LEMMA LagType == Lag \in Nat
<1>1. GiveUp - 1 \in Nat /\ MaxLoss + 1 \in Nat
  BY StreamAssumption
<1> QED
  BY <1>1, Multiples DEF Lag

\* Everything from base on was captured at least every MaxLoss + 1 packets and
\* is held, but fewer than GiveUp packets are: top cannot be far.
LEMMA LagBounded ==
  ASSUME BoundInv, Counted, NEW s \in Sessions, NEW pos \in Nat, NEW base \in Nat,
         Tracks(s, pos, base)
  PROVE  top[s] - base <= Lag
<1> DEFINE w == MaxLoss + 1
           f == [i \in 0 .. GiveUp - 1 |->
                   CHOOSE q \in DOMAIN cache :
                     /\ cache[q].s = s
                     /\ cache[q].n \in base + i * w .. base + i * w + MaxLoss]
<1>1. GiveUp \in Nat /\ GiveUp > 0 /\ w \in Nat /\ MaxLoss \in Nat /\ top[s] \in Nat
      /\ Lag \in Nat
  BY StreamAssumption, LagType DEF BoundInv, DrainInv, TypeOK
<1> SUFFICES ASSUME top[s] - base > Lag PROVE FALSE
  BY <1>1
<1>2. ASSUME NEW i \in 0 .. GiveUp - 1
      PROVE  /\ f[i] \in DOMAIN cache
             /\ cache[f[i]].n \in base + i * w .. base + i * w + MaxLoss
  <2>1. i * w \in Nat /\ i * w <= Lag
    <3>1. i \in Nat /\ GiveUp - 1 \in Nat /\ i <= GiveUp - 1
      BY <1>1
    <3> QED
      BY <1>1, <3>1, Multiples DEF Lag
  <2>2. base + i * w \in base .. top[s] - 1
    BY <1>1, <2>1
  <2>3. \E q \in DOMAIN cache :
           /\ cache[q].s = s
           /\ cache[q].n \in base + i * w .. base + i * w + MaxLoss
    BY <2>2 DEF Tracks
  <2> QED
    BY <2>3
<1>3. IsFiniteSet(0 .. GiveUp - 1) /\ Cardinality(0 .. GiveUp - 1) = GiveUp
  <2>1. 0 \in Int /\ GiveUp - 1 \in Int
    BY <1>1
  <2>2. /\ IsFiniteSet(0 .. GiveUp - 1)
        /\ Cardinality(0 .. GiveUp - 1)
             = IF 0 > GiveUp - 1 THEN 0 ELSE (GiveUp - 1) - 0 + 1
    BY <2>1, FS_Interval
  <2> QED
    BY <1>1, <2>2
<1>4. IsFiniteSet(DOMAIN cache) /\ Cardinality(DOMAIN cache) < GiveUp
  BY CacheFinite DEF BoundInv, DrainInv, TypeOK, CacheOK
<1>5. f \in [0 .. GiveUp - 1 -> DOMAIN cache]
  BY <1>2
<1> HIDE DEF f
<1>6. PICK i \in 0 .. GiveUp - 1, j \in 0 .. GiveUp - 1 : i # j /\ f[i] = f[j]
  BY <1>3, <1>4, <1>5, FS_PigeonHole
<1>7. ASSUME NEW a \in 0 .. GiveUp - 1, NEW b \in 0 .. GiveUp - 1, a < b,
             f[a] = f[b]
      PROVE  FALSE
  <2>1. a \in Nat /\ b \in Nat /\ a + 1 \in Nat /\ a + 1 <= b /\ a <= b
    BY <1>1, <1>7
  <2>2. a * w \in Nat /\ b * w \in Nat /\ (a + 1) * w <= b * w
        /\ (a + 1) * w = a * w + w
    BY <1>1, <2>1, Multiples
  <2>3. /\ cache[f[a]].n \in base + a * w .. base + a * w + MaxLoss
        /\ cache[f[a]].n \in base + b * w .. base + b * w + MaxLoss
    BY <1>2, <1>7
  <2> DEFINE aw == a * w
             bw == b * w
  <2>4. aw \in Nat /\ bw \in Nat /\ aw + w <= bw
    BY <2>2
  <2>5. cache[f[a]].n \in base + aw .. base + aw + MaxLoss
        /\ cache[f[a]].n \in base + bw .. base + bw + MaxLoss
    BY <2>3
  <2> HIDE DEF aw, bw
  <2> QED
    BY <1>1, <2>4, <2>5
<1> QED
  BY <1>6, <1>7

\* Every packet that can arrive lies within the window of the expected one.
LEMMA InWindow ==
  ASSUME KeepsUp, BoundInv, Counted, NEW s \in Sessions,
         NEW pos \in Nat, NEW base \in Nat, Tracks(s, pos, base),
         NEW n \in Nat, Capturable(s, n)
  PROVE  n < pos + WrapCutoff /\ pos - n <= WrapCutoff
         /\ top[s] <= pos + WrapCutoff
<1>1. /\ top[s] \in Nat /\ sent[s] \in Nat /\ sent[s] <= MaxSend
      /\ handoffs \in Nat /\ handoffs <= MaxHandOffs /\ MaxHandOffs \in Nat
      /\ MaxLoss \in Nat /\ MaxLate \in Nat /\ MaxSend \in Nat /\ Lag \in Nat
      /\ WrapCutoff \in Nat
  BY StreamAssumption, WindowAssumption, LagType
  DEF BoundInv, DrainInv, TypeOK
<1>2. /\ n < sent[s] /\ n >= sent[s] - MaxLate - 1
      /\ top[s] <= sent[s] /\ sent[s] <= top[s] + MaxLoss + 1
      /\ pos <= base /\ base <= top[s] /\ base - pos <= handoffs * Lag
  BY DEF Capturable, Counted, Tracks
<1>3. pos - n <= WrapCutoff
  BY <1>1, <1>2 DEF KeepsUp
<1>4. n < pos + WrapCutoff /\ top[s] <= pos + WrapCutoff
  <2>1. CASE MaxSend <= WrapCutoff
    BY <1>1, <1>2, <2>1
  <2>2. CASE (MaxHandOffs + 1) * Lag + MaxLoss < WrapCutoff
    <3>1. handoffs * Lag \in Nat /\ handoffs * Lag <= MaxHandOffs * Lag
      BY <1>1, Multiples
    <3>2. (MaxHandOffs + 1) * Lag = MaxHandOffs * Lag + Lag
          /\ MaxHandOffs * Lag \in Nat
      BY <1>1, Multiples
    <3>3. top[s] - base <= Lag
      BY LagBounded
    <3> DEFINE h == handoffs * Lag
               g == MaxHandOffs * Lag
    <3>4. h \in Nat /\ g \in Nat /\ h <= g /\ g + Lag + MaxLoss < WrapCutoff
          /\ base - pos <= h
      BY <1>2, <2>2, <3>1, <3>2
    <3> HIDE DEF h, g
    <3> QED
      BY <1>1, <1>2, <3>3, <3>4
  <2> QED
    BY <2>1, <2>2 DEF KeepsUp
<1> QED
  BY <1>3, <1>4

\* What a handler that accepts packets of session s does to the stream's place:
\* it passes on positions b .. to - 1 and waits for to.
Moves(s, b, to) ==
  /\ b <= to /\ to <= top'[s]
  /\ exp' = to % SeqMod
  /\ out' \in Seq(Packet) /\ Len(out') = to - b
  /\ \A i \in 1 .. Len(out') : out'[i].s = s /\ out'[i].n = b + i - 1
  /\ \A q \in DOMAIN cache' : cache'[q].n < top'[cache'[q].s]
  /\ \A q \in DOMAIN cache' : cache'[q].s = s => cache'[q].n > to
  /\ \A q \in DOMAIN cache : cache[q].s = s /\ cache[q].n >= to =>
        q \in DOMAIN cache' /\ cache'[q] = cache[q]

\* What the invariants say of the current session's entries.
LEMMA HeldEntries ==
  ASSUME BoundInv, Plain(cache)
  PROVE  /\ \A q \in DOMAIN cache :
              /\ cache[q] \in Packet /\ cache[q].n \in Nat
              /\ cache[q].s \in Sessions
              /\ cache[q].n % SeqMod = q /\ ~cache[q].sub
         /\ StreamOK(Now) /\ Now = [exp |-> exp, cache |-> cache, out |-> <<>>]
         /\ top \in [Sessions -> 0 .. MaxSend] /\ MaxSend \in Nat
         /\ \A s \in Sessions : top[s] \in Nat
BY NowIsOK, StreamAssumption
DEF BoundInv, DrainInv, TypeOK, NowOK, Plain, Seq16, Packet, Now

\* The packet the stream waits for.
LEMMA ExpectedMoves ==
  ASSUME BoundInv, Plain(cache), Counted, KeepsUp, NEW s \in Sessions,
         NEW pos \in Nat, NEW base \in Nat, Tracks(s, pos, base),
         NEW p \in Packet, p.s = s, p.n = pos, ~p.sub, Capturable(s, pos),
         Saw(s, pos), ProcessCache(ProcessPacket(Now, p, s), s)
  PROVE  \E to \in Nat : Moves(s, pos, to) /\ pos < to
<1> DEFINE st == [exp |-> Ahead(exp, 1), cache |-> cache, out |-> <<p>>]
           e == pos + 1
<1>1. /\ \A q \in DOMAIN cache :
           /\ cache[q] \in Packet /\ cache[q].n \in Nat /\ cache[q].s \in Sessions
           /\ cache[q].n % SeqMod = q /\ ~cache[q].sub
      /\ StreamOK(Now) /\ Now = [exp |-> exp, cache |-> cache, out |-> <<>>]
      /\ \A t \in Sessions : top[t] \in Nat
  BY HeldEntries
<1>2. ProcessPacket(Now, p, s) = st
  <2>1. Seq16(p) = exp
    BY DEF Seq16, Tracks
  <2>2. ProcessPacket(Now, p, s)
          = [Now EXCEPT !.exp = Ahead(exp, 1), !.out = Append(<<>>, p)]
    BY <1>1, <2>1 DEF ProcessPacket
  <2>3. Append(<<>>, p) = <<p>>
    OBVIOUS
  <2> QED
    BY <1>1, <2>2, <2>3
<1>3. StreamOK(st)
  BY <1>1, <1>2, ProcessPacketOK
<1>4. st.exp = e % SeqMod
  <2>1. ((pos % SeqMod) + 1) % SeqMod = (pos + 1) % SeqMod
    BY AheadPos
  <2> QED
    BY <2>1 DEF Ahead, Tracks
<1>5. /\ top' = [top EXCEPT ![s] = IF pos >= @ THEN pos + 1 ELSE @]
      /\ top[s] <= pos + WrapCutoff
  BY InWindow DEF Saw
<1>6. \A t \in Sessions : top'[t] \in Nat /\ top'[t] >= top[t]
  BY <1>1, <1>5 DEF BoundInv, DrainInv, TypeOK
<1>7. top'[s] >= pos + 1
  BY <1>1, <1>5 DEF BoundInv, DrainInv, TypeOK
<1>8. HeldFrom(st.cache, s, e)
  BY <1>1, <1>5, WindowAssumption DEF HeldFrom, Tracks, Counted
<1>9. Plain(st.cache) /\ Cardinality(DOMAIN st.cache) < GiveUp
  BY DEF BoundInv
<1>10. e \in Nat /\ e < e + WrapCutoff
  BY WindowAssumption
<1>11. PICK b, to \in Nat : e <= b /\ b <= e /\ b <= to /\ Delivers(st, s, b, to)
  <2> HIDE DEF st, e
  <2> QED
    BY <1>2, <1>3, <1>4, <1>8, <1>9, <1>10, ProcessCacheDelivers
<1>12. b = e
  BY <1>11
<1>13. Delivers(st, s, e, to)
  BY <1>11, <1>12
<1>14. PICK run \in Seq(Packet) :
         /\ out' = <<p>> \o run /\ Len(run) = to - e
         /\ \A i \in 1 .. Len(run) : run[i].s = s /\ run[i].n = e + i - 1
  BY <1>13 DEF Delivers
<1>15. /\ out' \in Seq(Packet) /\ Len(out') = to - pos
       /\ \A i \in 1 .. Len(out') : out'[i].s = s /\ out'[i].n = pos + i - 1
  <2>1. out' \in Seq(Packet) /\ Len(out') = Len(run) + 1
    BY <1>14
  <2>2. ASSUME NEW i \in 1 .. Len(out')
        PROVE  out'[i].s = s /\ out'[i].n = pos + i - 1
    <3>1. CASE i = 1
      BY <1>14, <3>1
    <3>2. CASE i # 1
      <4>1. i - 1 \in 1 .. Len(run) /\ out'[i] = run[i - 1]
        BY <1>14, <2>1, <3>2
      <4> QED
        BY <1>14, <4>1
    <3> QED
      BY <3>1, <3>2
  <2>3. Len(out') = to - pos
    <3> HIDE DEF st
    <3> QED
      BY <1>11, <1>12, <1>14, <2>1
  <2> QED
    BY <2>1, <2>2, <2>3
<1>16. /\ DOMAIN cache' \subseteq DOMAIN cache
       /\ \A q \in DOMAIN cache' : cache'[q] = cache[q]
  BY <1>2, <1>3, ProcessCacheOK
<1>17. \A q \in DOMAIN cache : cache[q].s = s =>
         IF cache[q].n < to THEN q \notin DOMAIN cache'
         ELSE cache[q].n > to /\ q \in DOMAIN cache'
  BY <1>13 DEF Delivers
<1>18. to <= top'[s]
  <2>1. CASE to = e
    BY <1>7, <2>1
  <2>2. CASE to > e
    <3>1. PICK q \in DOMAIN cache : cache[q].s = s /\ cache[q].n = to - 1
      BY <1>13, <2>2 DEF Delivers
    <3> QED
      BY <1>1, <1>6, <3>1 DEF Counted
  <2> QED
    BY <1>11, <1>12, <2>1, <2>2
<1>19. \A q \in DOMAIN cache' : cache'[q].n < top'[cache'[q].s]
  BY <1>1, <1>6, <1>16 DEF Counted
<1>20. exp' = to % SeqMod
  BY <1>13 DEF Delivers
<1>21. \A q \in DOMAIN cache' : cache'[q].s = s => cache'[q].n > to
  BY <1>16, <1>17
<1>22. \A q \in DOMAIN cache : cache[q].s = s /\ cache[q].n >= to =>
          q \in DOMAIN cache' /\ cache'[q] = cache[q]
  BY <1>1, <1>16, <1>17
<1>23. pos <= to /\ pos < to
  BY <1>11, <1>12
<1> QED
  BY <1>15, <1>18, <1>19, <1>20, <1>21, <1>22, <1>23 DEF Moves

\* Nothing, or a repeat of what the stream is past: only the cache is drained.
LEMMA NothingMoves ==
  ASSUME BoundInv, Plain(cache), Counted, NEW s \in Sessions,
         NEW pos \in Nat, NEW base \in Nat, Tracks(s, pos, base),
         top[s] <= pos + WrapCutoff,
         top' \in [Sessions -> Nat], \A t \in Sessions : top'[t] >= top[t],
         ProcessCache(Now, s)
  PROVE  \E to \in Nat : Moves(s, pos, to)
<1>1. /\ \A q \in DOMAIN cache :
           /\ cache[q] \in Packet /\ cache[q].n \in Nat /\ cache[q].s \in Sessions
           /\ cache[q].n % SeqMod = q /\ ~cache[q].sub
      /\ StreamOK(Now) /\ Now = [exp |-> exp, cache |-> cache, out |-> <<>>]
      /\ \A t \in Sessions : top[t] \in Nat
  BY HeldEntries
<1>2. HeldFrom(Now.cache, s, pos)
  BY <1>1, WindowAssumption DEF HeldFrom, Tracks, Counted
<1>3. Plain(Now.cache) /\ Cardinality(DOMAIN Now.cache) < GiveUp
      /\ Now.exp = pos % SeqMod
  BY <1>1 DEF BoundInv, Tracks
<1>4. pos < pos + WrapCutoff
  BY WindowAssumption
<1>5. PICK b, to \in Nat : /\ pos <= b /\ b <= pos /\ b <= to
                           /\ Delivers(Now, s, b, to)
  BY <1>1, <1>2, <1>3, <1>4, ProcessCacheDelivers
<1>6. Delivers(Now, s, pos, to) /\ pos <= to
  <2>1. b = pos
    BY <1>5
  <2> QED
    BY <1>5, <2>1
<1>7. /\ out' \in Seq(Packet) /\ Len(out') = to - pos
      /\ \A i \in 1 .. Len(out') : out'[i].s = s /\ out'[i].n = pos + i - 1
  <2>1. PICK run \in Seq(Packet) :
           /\ out' = Now.out \o run /\ Len(run) = to - pos
           /\ \A i \in 1 .. Len(run) : run[i].s = s /\ run[i].n = pos + i - 1
    BY <1>6 DEF Delivers
  <2>2. out' = run
    BY <1>1, <2>1
  <2> QED
    BY <2>1, <2>2
<1>8. /\ DOMAIN cache' \subseteq DOMAIN cache
      /\ \A q \in DOMAIN cache' : cache'[q] = cache[q]
  BY <1>1, ProcessCacheOK
<1>9. \A q \in DOMAIN cache : cache[q].s = s =>
        IF cache[q].n < to THEN q \notin DOMAIN cache'
        ELSE cache[q].n > to /\ q \in DOMAIN cache'
  BY <1>1, <1>6 DEF Delivers
<1>10. to <= top'[s]
  <2>1. CASE to = pos
    BY <1>1, <2>1 DEF Tracks
  <2>2. CASE to > pos
    <3>1. PICK q \in DOMAIN cache : cache[q].s = s /\ cache[q].n = to - 1
      BY <1>1, <1>6, <2>2 DEF Delivers
    <3> QED
      BY <1>1, <3>1 DEF Counted
  <2> QED
    BY <1>6, <2>1, <2>2
<1>11. \A q \in DOMAIN cache' : cache'[q].n < top'[cache'[q].s]
  BY <1>1, <1>8 DEF Counted
<1>12. exp' = to % SeqMod
  BY <1>6 DEF Delivers
<1>13. \A q \in DOMAIN cache' : cache'[q].s = s => cache'[q].n > to
  BY <1>8, <1>9
<1>14. \A q \in DOMAIN cache : cache[q].s = s /\ cache[q].n >= to =>
          q \in DOMAIN cache' /\ cache'[q] = cache[q]
  BY <1>1, <1>8, <1>9
<1> QED
  BY <1>6, <1>7, <1>10, <1>11, <1>12, <1>13, <1>14 DEF Moves

\* A packet ahead of the one the stream waits for: it is held, and when that
\* fills the cache the stream gives up on what is missing before it.
LEMMA FutureMoves ==
  ASSUME BoundInv, Plain(cache), Counted, KeepsUp, NEW s \in Sessions,
         NEW pos \in Nat, NEW base \in Nat, Tracks(s, pos, base),
         NEW p \in Packet, p.s = s, p.n > pos, ~p.sub, Capturable(s, p.n),
         Saw(s, p.n), ProcessCache(ProcessPacket(Now, p, s), s)
  PROVE  \E b, to \in Nat :
           /\ pos <= b /\ b <= p.n /\ Moves(s, b, to)
           /\ p.n >= to => \E q \in DOMAIN cache' :
                             cache'[q].s = s /\ cache'[q].n = p.n
<1> DEFINE n == p.n
           q0 == n % SeqMod
           c2 == [q \in DOMAIN cache \cup {q0} |-> IF q = q0 THEN p ELSE cache[q]]
           st == [exp |-> exp, cache |-> c2, out |-> <<>>]
<1>1. /\ \A q \in DOMAIN cache :
           /\ cache[q] \in Packet /\ cache[q].n \in Nat /\ cache[q].s \in Sessions
           /\ cache[q].n % SeqMod = q /\ ~cache[q].sub
      /\ StreamOK(Now) /\ Now = [exp |-> exp, cache |-> cache, out |-> <<>>]
      /\ \A t \in Sessions : top[t] \in Nat
  BY HeldEntries
<1>2. n \in Nat /\ n > pos /\ n < pos + WrapCutoff
      /\ top[s] <= pos + WrapCutoff /\ WrapCutoff \in Nat
  BY InWindow, WindowAssumption DEF Packet
<1>3. ProcessPacket(Now, p, s) = st
  <2>1. Seq16(p) = q0 /\ Seq16(p) # exp /\ IsFuture(Seq16(p), exp)
    <3>1. q0 # pos % SeqMod /\ IsFuture(q0, pos % SeqMod)
      <4> HIDE DEF n
      <4> QED
        BY <1>2, Classified
    <3>2. Seq16(p) = q0 /\ exp = pos % SeqMod
      BY DEF Seq16, Tracks
    <3> HIDE DEF q0
    <3> QED
      BY <3>1, <3>2
  <2>2. ProcessPacket(Now, p, s) = [Now EXCEPT !.cache = SetCache(cache, p, s)]
    BY <1>1, <2>1 DEF ProcessPacket
  <2>3. SetCache(cache, p, s) = c2
    BY <2>1 DEF SetCache, CrcOk
  <2> HIDE DEF c2
  <2> QED
    BY <1>1, <2>2, <2>3
<1>4. StreamOK(st)
  BY <1>1, <1>3, ProcessPacketOK
<1>5. st.exp = pos % SeqMod
  BY DEF Tracks
<1>6. top' = [top EXCEPT ![s] = IF n >= @ THEN n + 1 ELSE @]
  BY DEF Saw
<1>7. \A t \in Sessions : top'[t] \in Nat /\ top'[t] >= top[t]
  BY <1>1, <1>2, <1>6 DEF BoundInv, DrainInv, TypeOK
<1>8. top'[s] >= n + 1
  BY <1>1, <1>2, <1>6 DEF BoundInv, DrainInv, TypeOK
<1>9. \A q \in DOMAIN c2 : \/ c2[q] = p /\ q = q0
                           \/ q \in DOMAIN cache /\ c2[q] = cache[q]
  OBVIOUS
<1>10. q0 \in DOMAIN c2 /\ c2[q0] = p
  OBVIOUS
<1>11. ASSUME NEW q \in DOMAIN cache, cache[q].s = s
       PROVE  q \in DOMAIN c2 /\ c2[q] = cache[q]
  <2>1. CASE q # q0
    BY <2>1
  <2>2. CASE q = q0
    <3> DEFINE y == cache[q].n
    <3>1. y \in Nat /\ y % SeqMod = n % SeqMod /\ y > pos /\ y < pos + WrapCutoff
      <4>1. cache[q].n > pos /\ cache[q].n < top[s]
        BY <1>11 DEF Tracks, Counted
      <4>2. cache[q].n \in Nat /\ cache[q].n % SeqMod = q /\ top[s] \in Nat
        BY <1>1
      <4> HIDE DEF n
      <4> QED
        BY <1>2, <2>2, <4>1, <4>2
    <3> HIDE DEF y
    <3>2. ASSUME y < n PROVE FALSE
      <4>1. n - y \in 1 .. SeqMod - 1 /\ y + (n - y) = n
        BY <1>2, <3>1, <3>2, WindowAssumption
      <4> QED
        BY <3>1, <4>1, SeqDistinct
    <3>3. ASSUME y > n PROVE FALSE
      <4>1. y - n \in 1 .. SeqMod - 1 /\ n + (y - n) = y
        BY <1>2, <3>1, <3>3, WindowAssumption
      <4> QED
        BY <1>2, <3>1, <4>1, SeqDistinct
    <3>4. cache[q].n = n
      BY <1>2, <3>1, <3>2, <3>3 DEF y
    <3>5. cache[q] \in Packet /\ cache[q].s = p.s /\ cache[q].sub = p.sub
      BY <1>1, <1>11 DEF Packet
    <3>6. cache[q] = p
      BY <3>4, <3>5 DEF Packet
    <3> QED
      BY <2>2, <3>6
  <2> QED
    BY <2>1, <2>2
<1> HIDE DEF c2
<1>12. \A q \in DOMAIN c2 : /\ c2[q].s = s => c2[q].n > pos /\ c2[q].n < top'[s]
                            /\ c2[q].n < top'[c2[q].s] /\ c2[q].n \in Nat
  <2> SUFFICES ASSUME NEW q \in DOMAIN c2
               PROVE  /\ c2[q].s = s => c2[q].n > pos /\ c2[q].n < top'[s]
                      /\ c2[q].n < top'[c2[q].s] /\ c2[q].n \in Nat
    OBVIOUS
  <2>1. CASE c2[q] = p
    BY <1>2, <1>7, <1>8, <2>1
  <2>2. CASE q \in DOMAIN cache /\ c2[q] = cache[q]
    <3>1. /\ cache[q].s \in Sessions /\ cache[q].n \in Nat
          /\ cache[q].n < top[cache[q].s]
          /\ cache[q].s = s => cache[q].n > pos
      BY <1>1, <2>2 DEF Tracks, Counted
    <3>2. top[cache[q].s] \in Nat /\ top'[cache[q].s] \in Nat
          /\ top'[cache[q].s] >= top[cache[q].s]
      BY <1>1, <1>7, <3>1
    <3> QED
      BY <2>2, <3>1, <3>2
  <2> QED
    BY <1>9, <2>1, <2>2
<1>13. HeldFrom(c2, s, pos)
  <2> SUFFICES ASSUME NEW q \in DOMAIN c2, c2[q].s = s
               PROVE  c2[q].n >= pos /\ c2[q].n < pos + WrapCutoff
    BY DEF HeldFrom
  <2>1. CASE c2[q] = p
    BY <1>2, <2>1
  <2>2. CASE q \in DOMAIN cache /\ c2[q] = cache[q]
    <3>1. cache[q].n \in Nat /\ cache[q].n < top[s] /\ top[s] \in Nat
      BY <1>1, <2>2 DEF Counted
    <3>2. cache[q].n > pos
      BY <2>2 DEF Tracks
    <3> QED
      BY <1>2, <2>2, <3>1, <3>2
  <2> QED
    BY <1>9, <2>1, <2>2
<1>14. Plain(c2)
  BY <1>1, <1>9 DEF Plain
<1>15. PICK b, to \in Nat : pos <= b /\ b <= n /\ b <= to /\ Delivers(st, s, b, to)
  <2>1. n >= pos /\ n # pos /\ n % SeqMod \in DOMAIN st.cache /\ st.cache = c2
    BY <1>2, <1>10
  <2>2. ProcessCache(st, s)
    BY <1>3
  <2> HIDE DEF st, n, q0
  <2> QED
    BY <1>2, <1>4, <1>5, <1>13, <1>14, <2>1, <2>2, ProcessCacheDelivers
<1>16. /\ out' \in Seq(Packet) /\ Len(out') = to - b
       /\ \A i \in 1 .. Len(out') : out'[i].s = s /\ out'[i].n = b + i - 1
  <2>1. PICK run \in Seq(Packet) :
           /\ out' = <<>> \o run /\ Len(run) = to - b
           /\ \A i \in 1 .. Len(run) : run[i].s = s /\ run[i].n = b + i - 1
    BY <1>15 DEF Delivers
  <2>2. out' = run
    BY <2>1
  <2> QED
    BY <2>1, <2>2
<1>17. /\ DOMAIN cache' \subseteq DOMAIN c2
       /\ \A q \in DOMAIN cache' : cache'[q] = c2[q]
  BY <1>3, <1>4, ProcessCacheOK
<1>18. \A q \in DOMAIN c2 : c2[q].s = s =>
         IF c2[q].n < to THEN q \notin DOMAIN cache'
         ELSE c2[q].n > to /\ q \in DOMAIN cache'
  BY <1>15 DEF Delivers
<1>19. to <= top'[s]
  <2>1. CASE to = b
    BY <1>2, <1>7, <1>8, <1>15, <2>1
  <2>2. CASE to > b
    <3>1. PICK q \in DOMAIN c2 : c2[q].s = s /\ c2[q].n = to - 1
      BY <1>15, <2>2 DEF Delivers
    <3> QED
      BY <1>7, <1>12, <3>1
  <2> QED
    BY <1>15, <2>1, <2>2
<1>20. \A q \in DOMAIN cache' : cache'[q].n < top'[cache'[q].s]
  BY <1>12, <1>17
<1>21. exp' = to % SeqMod
  BY <1>15 DEF Delivers
<1>22. \A q \in DOMAIN cache' : cache'[q].s = s => cache'[q].n > to
  BY <1>17, <1>18
<1>23. \A q \in DOMAIN cache : cache[q].s = s /\ cache[q].n >= to =>
          q \in DOMAIN cache' /\ cache'[q] = cache[q]
  BY <1>1, <1>11, <1>17, <1>18
<1>24. Moves(s, b, to)
  BY <1>15, <1>16, <1>19, <1>20, <1>21, <1>22, <1>23 DEF Moves
<1>25. ASSUME n >= to
       PROVE  q0 \in DOMAIN cache' /\ cache'[q0].s = s /\ cache'[q0].n = n
  <2> HIDE DEF n, q0
  <2>1. c2[q0].s = s /\ c2[q0].n = n
    BY <1>10 DEF n
  <2> QED
    BY <1>2, <1>10, <1>17, <1>18, <1>25, <2>1
<1> QED
  BY <1>15, <1>24, <1>25

\* Whichever packet of the current session arrives.
LEMMA SequencedMoves ==
  ASSUME BoundInv, Plain(cache), Counted, KeepsUp, NEW s \in Sessions, s = key,
         NEW pos \in Nat, NEW base \in Nat, Tracks(s, pos, base),
         NEW n \in Positions, HandleSequenced(s, n), AcceptsCrc(s)
  PROVE  \E b, to \in Nat :
           /\ pos <= b /\ Moves(s, b, to)
           /\ n >= pos => n >= b
           /\ n >= to => \E q \in DOMAIN cache' :
                           cache'[q].s = s /\ cache'[q].n = n
<1> DEFINE p == [s |-> s, n |-> n, sub |-> FALSE]
<1>1. /\ p \in Packet /\ p.s = s /\ p.n = n /\ ~p.sub /\ n \in Nat
      /\ Capturable(s, n) /\ Saw(s, n)
      /\ ProcessCache(ProcessPacket(Now, p, s), s)
  BY StreamAssumption DEF Packet, Positions, HandleSequenced
<1> HIDE DEF p
<1>2. CASE n = pos
  <2>1. PICK to \in Nat : Moves(s, pos, to) /\ pos < to
    BY <1>1, <1>2, ExpectedMoves
  <2> QED
    BY <1>2, <2>1
<1>3. CASE n > pos
  <2>1. PICK b \in Nat, to \in Nat :
           /\ pos <= b /\ b <= n /\ Moves(s, b, to)
           /\ n >= to => \E q \in DOMAIN cache' :
                           cache'[q].s = s /\ cache'[q].n = n
    BY <1>1, <1>3, FutureMoves
  <2> QED
    BY <1>3, <2>1
<1>4. CASE n < pos
  <2>1. top[s] <= pos + WrapCutoff /\ pos - n <= WrapCutoff
    BY <1>1, InWindow
  <2>2. ProcessPacket(Now, p, s) = Now
    <3>1. Seq16(p) = n % SeqMod /\ Now.exp = pos % SeqMod
      BY <1>1 DEF Seq16, Now, Tracks
    <3>2. Seq16(p) # Now.exp /\ ~IsFuture(Seq16(p), Now.exp)
      BY <1>1, <1>4, <2>1, <3>1, Classified
    <3> QED
      BY <3>2 DEF ProcessPacket
  <2>3. top' \in [Sessions -> Nat] /\ \A t \in Sessions : top'[t] >= top[t]
    BY <1>1, HeldEntries DEF Saw
  <2>4. ProcessCache(Now, s)
    BY <1>1, <2>2
  <2>5. PICK to \in Nat : Moves(s, pos, to)
    BY <2>1, <2>3, <2>4, NothingMoves
  <2>6. n < to
    BY <1>1, <1>4, <2>5 DEF Moves
  <2> QED
    BY <1>1, <1>4, <2>5, <2>6
<1> QED
  BY <1>1, <1>2, <1>3, <1>4

\* The stream is at its place in the session whose key it holds; a session
\* becomes the current one only before it has sent anything.
OrderInv ==
  /\ BoundInv /\ Plain(cache) /\ LatchInv
  /\ sid = key
  /\ Counted
  /\ key # 0 => \E pos, base \in Nat : Tracks(key, pos, base)

\* One step as the consumer sees it.
Delivered ==
  \/ out' = <<>> /\ high' = high
  \/ \E s \in Sessions : Contract!Pass(s)

\* History follows out'.
LEMMA RecordNone ==
  ASSUME Counted, Record, out' = <<>>
  PROVE  high' = high
<1>1. \A s \in Sessions : ~ \E i \in DOMAIN out' : out'[i].s = s
  OBVIOUS
<1>2. high' = [s \in Sessions |-> high[s]]
  BY <1>1 DEF Record
<1> QED
  BY <1>2 DEF Counted

LEMMA RecordRun ==
  ASSUME Counted, Record, NEW s \in Sessions, NEW b \in Nat, NEW to \in Nat,
         b < to, out' \in Seq(Packet), Len(out') = to - b,
         \A i \in 1 .. Len(out') : out'[i].s = s /\ out'[i].n = b + i - 1
  PROVE  high' = [high EXCEPT ![s] = to]
<1>1. DOMAIN out' = 1 .. to - b /\ to - b \in DOMAIN out'
  OBVIOUS
<1>2. \A i \in DOMAIN out' : out'[i].s = s /\ out'[i].n = b + i - 1
  BY <1>1
<1> DEFINE Last(t) == CHOOSE i \in DOMAIN out' :
                        /\ out'[i].s = t
                        /\ \A j \in DOMAIN out' : out'[j].s = t => j <= i
<1>3. Last(s) = to - b
  <2>1. \E i \in DOMAIN out' : /\ out'[i].s = s
                               /\ \A j \in DOMAIN out' : out'[j].s = s => j <= i
    <3>1. \A j \in DOMAIN out' : j <= to - b
      BY <1>1
    <3>2. out'[to - b].s = s
      BY <1>1, <1>2
    <3> QED
      BY <1>1, <3>1, <3>2
  <2> DEFINE l == Last(s)
  <2>2. /\ l \in DOMAIN out'
        /\ \A j \in DOMAIN out' : out'[j].s = s => j <= l
    BY <2>1
  <2> HIDE DEF l
  <2>3. to - b <= l /\ l <= to - b
    BY <1>1, <1>2, <2>2
  <2>4. l = to - b
    BY <1>1, <2>2, <2>3
  <2> QED
    BY <2>4 DEF l
<1>4. high' = [t \in Sessions |-> IF \E i \in DOMAIN out' : out'[i].s = t
                                  THEN out'[Last(t)].n + 1 ELSE high[t]]
  BY DEF Record
<1> HIDE DEF Last
<1>5. \A t \in Sessions : high'[t] = IF t = s THEN to ELSE high[t]
  <2> TAKE t \in Sessions
  <2>1. CASE t = s
    <3>1. out'[Last(s)].n = to - 1
      BY <1>1, <1>2, <1>3
    <3>2. \E i \in DOMAIN out' : out'[i].s = s
      BY <1>1, <1>2
    <3>3. high'[s] = out'[Last(s)].n + 1
      BY <1>4, <3>2
    <3> QED
      BY <2>1, <3>1, <3>3
  <2>2. CASE t # s
    BY <1>2, <1>4, <2>2
  <2> QED
    BY <2>1, <2>2
<1>6. high' = [t \in Sessions |-> IF t = s THEN to ELSE high[t]]
  BY <1>4, <1>5
<1>7. high \in [Sessions -> Nat]
  BY DEF Counted
<1> QED
  BY <1>6, <1>7

\* A run of consecutive positions is one Pass of the contract.
LEMMA RunPasses ==
  ASSUME Counted, Record, NEW s \in Sessions, NEW b \in Nat, NEW to \in Nat,
         b < to, out' \in Seq(Packet), Len(out') = to - b,
         \A i \in 1 .. Len(out') : out'[i].s = s /\ out'[i].n = b + i - 1,
         high[s] <= b, to <= MaxSend
  PROVE  high' = [high EXCEPT ![s] = to] /\ Contract!Pass(s)
<1>1. high' = [high EXCEPT ![s] = to]
  BY RecordRun
<1>2. out' # <<>> /\ DOMAIN out' = 1 .. to - b
  OBVIOUS
<1>3. out'[Len(out')].n + 1 = to
  OBVIOUS
<1>4. high[s] \in Nat /\ MaxSend \in Nat
  BY StreamAssumption DEF Counted
<1>5. ASSUME NEW i \in DOMAIN out'
      PROVE  out'[i].s = s /\ out'[i].n >= high[s] /\ out'[i].n < MaxSend
  BY <1>2, <1>4
<1>6. \A i, j \in DOMAIN out' : i < j => out'[i].n < out'[j].n
  BY <1>2
<1> QED
  BY <1>1, <1>2, <1>3, <1>5, <1>6 DEF Contract!Pass

\* What moves the stream on keeps its place and is what the consumer expects.
LEMMA PlaceKept ==
  ASSUME OrderInv, BoundInv', NEW s \in Sessions, s = key,
         NEW pos \in Nat, NEW base \in Nat, Tracks(s, pos, base), Record,
         NEW b \in Nat, NEW to \in Nat, pos <= b, Moves(s, b, to),
         sent' = sent, handoffs' = handoffs, key' = key,
         \A t \in Sessions : t # s => top'[t] = top[t],
         \/ top'[s] = top[s]
         \/ /\ top'[s] > top[s] /\ top'[s] <= sent[s]
            /\ top'[s] - 1 >= to =>
                 \E q \in DOMAIN cache' :
                    cache'[q].s = s /\ cache'[q].n = top'[s] - 1
  PROVE  Counted' /\ Delivered /\ \E c \in Nat : Tracks(s, to, c)'
<1>1. /\ \A t \in Sessions : /\ top[t] \in Nat /\ sent[t] \in Nat
                             /\ top'[t] \in Nat /\ high[t] \in Nat
      /\ handoffs \in Nat /\ Lag \in Nat /\ MaxLoss \in Nat /\ MaxSend \in Nat
      /\ \A t \in Sessions : top'[t] <= MaxSend
  BY StreamAssumption, LagType
  DEF OrderInv, BoundInv, DrainInv, TypeOK, Counted
<1>2. b <= to /\ to <= top'[s]
  BY DEF Moves
<1>3. /\ high' \in [Sessions -> Nat]
      /\ \A t \in Sessions : high'[t] = IF t = s /\ b < to THEN to ELSE high[t]
      /\ Delivered
  <2>1. CASE b = to
    <3>1. out' = <<>>
      BY <2>1 DEF Moves
    <3> QED
      BY <2>1, <3>1, RecordNone DEF OrderInv, Counted, Delivered
  <2>2. CASE b < to
    <3>1. /\ out' \in Seq(Packet) /\ Len(out') = to - b
          /\ \A i \in 1 .. Len(out') : out'[i].s = s /\ out'[i].n = b + i - 1
      BY DEF Moves
    <3>2. high[s] <= b /\ to <= MaxSend /\ Counted
      <4>1. high[s] <= pos /\ Counted
        BY DEF Tracks, OrderInv
      <4> QED
        BY <1>1, <1>2, <4>1
    <3>3. high' = [high EXCEPT ![s] = to] /\ Contract!Pass(s)
      BY <2>2, <3>1, <3>2, RunPasses
    <3>4. high \in [Sessions -> Nat]
      BY <3>2 DEF Counted
    <3> QED
      BY <2>2, <3>3, <3>4 DEF Delivered
  <2> QED
    BY <1>2, <2>1, <2>2
<1>4. Counted'
  <2>1. ASSUME NEW t \in Sessions
        PROVE  /\ high'[t] <= top'[t] /\ top'[t] <= sent'[t]
               /\ sent'[t] <= top'[t] + MaxLoss + 1
    <3>1. /\ high[t] <= top[t] /\ top[t] <= sent[t]
          /\ sent[t] <= top[t] + MaxLoss + 1
      BY DEF OrderInv, Counted
    <3> QED
      BY <1>1, <1>2, <1>3, <3>1
  <2>2. \A q \in DOMAIN cache' : cache'[q].n < top'[cache'[q].s]
    BY DEF Moves
  <2> QED
    BY <1>3, <2>1, <2>2 DEF Counted
<1>5. PICK c \in Nat : c = IF base < to THEN to ELSE base
  OBVIOUS
<1>6. Tracks(s, to, c)'
  <2>1. pos <= base /\ base <= top[s] /\ base - pos <= handoffs * Lag
        /\ high[s] <= pos
    BY DEF Tracks
  <2>2. exp' = to % SeqMod
        /\ \A q \in DOMAIN cache' : cache'[q].s = s => cache'[q].n > to
    BY DEF Moves
  <2>3. to <= c /\ c <= top'[s] /\ high'[s] <= to
    BY <1>1, <1>2, <1>3, <1>5, <2>1
  <2>4. c - to <= handoffs' * Lag
    <3> DEFINE h == handoffs * Lag
    <3>1. h \in Nat
      BY <1>1
    <3>2. base - pos <= h
      BY <2>1
    <3> HIDE DEF h
    <3>3. c - to <= h
      BY <1>2, <1>5, <2>1, <3>1, <3>2
    <3> QED
      BY <3>3 DEF h
  <2>5. ASSUME NEW x \in c .. top'[s] - 1
        PROVE  \E q \in DOMAIN cache' :
                 cache'[q].s = s /\ cache'[q].n \in x .. x + MaxLoss
    <3>1. x \in Nat /\ x >= to /\ x >= base /\ x < top'[s]
      BY <1>1, <1>5
    <3>2. CASE x < top[s]
      <4>1. x \in base .. top[s] - 1
        BY <1>1, <3>1, <3>2
      <4>2. PICK q \in DOMAIN cache :
               cache[q].s = s /\ cache[q].n \in x .. x + MaxLoss
        BY <4>1 DEF Tracks
      <4>3. cache[q].n >= to
        BY <1>1, <3>1, <4>2
      <4>4. q \in DOMAIN cache' /\ cache'[q] = cache[q]
        BY <4>2, <4>3 DEF Moves
      <4> QED
        BY <4>2, <4>4
    <3>3. CASE x >= top[s]
      <4>1. top'[s] > top[s] /\ top'[s] <= sent[s] /\ top'[s] - 1 >= to
            /\ sent[s] <= top[s] + MaxLoss + 1
        BY <1>1, <3>1, <3>3 DEF OrderInv, Counted
      <4>2. PICK q \in DOMAIN cache' :
               cache'[q].s = s /\ cache'[q].n = top'[s] - 1
        BY <1>1, <4>1
      <4>3. top'[s] - 1 \in x .. x + MaxLoss
        BY <1>1, <3>1, <3>3, <4>1
      <4> QED
        BY <4>2, <4>3
    <3> QED
      BY <1>1, <3>1, <3>2, <3>3
  <2> QED
    BY <2>2, <2>3, <2>4, <2>5 DEF Tracks
<1> QED
  BY <1>3, <1>4, <1>6

\* The newest packet captured of the current session is passed on or held.
NewestKept ==
  \A s \in Sessions : key = s /\ top'[s] # top[s] => Kept(s, top'[s] - 1)

\* A packet that is not accepted does not belong to the current session.
LEMMA OwnAccepted ==
  ASSUME OrderInv, NEW s \in Sessions, key = s
  PROVE  AcceptsCrc(s)
BY StreamAssumption
DEF OrderInv, LatchInv, TypeOK, AcceptsCrc, Accepts, Latched, NoSession

LEMMA SequencedOrdered ==
  ASSUME KeepsUp, OrderInv, BoundInv', NEW s \in Sessions, NEW n \in Positions,
         HandleSequenced(s, n), Record
  PROVE  /\ Counted' /\ Delivered /\ NewestKept
         /\ key' # 0 => \E pos, base \in Nat : Tracks(key, pos, base)'
<1>1. /\ key' = key /\ sent' = sent /\ handoffs' = handoffs
      /\ Saw(s, n) /\ n < sent[s] /\ n \in Nat
      /\ \A t \in Sessions : top[t] \in Nat /\ sent[t] \in Nat
      /\ top \in [Sessions -> 0 .. MaxSend]
  BY StreamAssumption
  DEF HandleSequenced, Capturable, Positions, OrderInv, BoundInv, DrainInv, TypeOK
<1>2. /\ top' = [top EXCEPT ![s] = IF n >= top[s] THEN n + 1 ELSE top[s]]
      /\ \A t \in Sessions : t # s => top'[t] = top[t]
      /\ top'[s] = IF n >= top[s] THEN n + 1 ELSE top[s]
  BY <1>1 DEF Saw
<1>3. CASE key = s
  <2>1. PICK pos \in Nat, base \in Nat : Tracks(s, pos, base)
    BY <1>3, StreamAssumption DEF OrderInv
  <2>2. PICK b \in Nat, to \in Nat :
           /\ pos <= b /\ Moves(s, b, to)
           /\ n >= pos => n >= b
           /\ n >= to => \E q \in DOMAIN cache' :
                           cache'[q].s = s /\ cache'[q].n = n
    BY <1>3, <2>1, OwnAccepted, SequencedMoves DEF OrderInv
  <2>3. \/ top'[s] = top[s]
        \/ /\ top'[s] > top[s] /\ top'[s] <= sent[s]
           /\ top'[s] - 1 >= to =>
                \E q \in DOMAIN cache' :
                   cache'[q].s = s /\ cache'[q].n = top'[s] - 1
    <3>1. CASE n >= top[s]
      <4>1. top'[s] = n + 1 /\ top'[s] - 1 = n
        BY <1>1, <1>2, <3>1
      <4> QED
        BY <1>1, <2>2, <3>1, <4>1
    <3>2. CASE ~(n >= top[s])
      BY <1>2, <3>2
    <3> QED
      BY <3>1, <3>2
  <2>4. Counted' /\ Delivered /\ \E c \in Nat : Tracks(s, to, c)'
    BY <1>1, <1>2, <1>3, <2>1, <2>2, <2>3, PlaceKept
  <2>5. NewestKept
    <3> SUFFICES ASSUME top'[s] # top[s]
                 PROVE  Kept(s, top'[s] - 1)
      BY <1>3 DEF NewestKept
    <3>1. top'[s] - 1 = n /\ n >= top[s]
      BY <1>1, <1>2
    <3>2. n >= pos
      BY <1>1, <2>1, <3>1 DEF Tracks
    <3>3. CASE n >= to
      BY <2>2, <3>1, <3>3 DEF Kept
    <3>4. CASE n < to
      <4>1. n - b + 1 \in 1 .. Len(out') /\ DOMAIN out' = 1 .. Len(out')
        BY <1>1, <2>2, <3>2, <3>4 DEF Moves
      <4>2. out'[n - b + 1].s = s /\ out'[n - b + 1].n = b + (n - b + 1) - 1
        BY <2>2, <4>1 DEF Moves
      <4>3. b + (n - b + 1) - 1 = n
        BY <1>1
      <4> QED
        BY <3>1, <4>1, <4>2, <4>3 DEF Kept
    <3> QED
      BY <1>1, <3>3, <3>4
  <2>6. \E p2, c \in Nat : Tracks(key, p2, c)'
    BY <1>1, <1>3, <2>4
  <2> QED
    BY <2>4, <2>5, <2>6
<1>4. CASE key # s
  <2>1. exp' = exp /\ cache' = cache /\ out' = <<>>
    BY <1>4 DEF HandleSequenced, AcceptsCrc
  <2>2. high' = high
    BY <2>1, RecordNone DEF OrderInv
  <2>3. Counted'
    <3>1. ASSUME NEW t \in Sessions
          PROVE  /\ high'[t] <= top'[t] /\ top'[t] <= sent'[t]
                 /\ sent'[t] <= top'[t] + MaxLoss + 1 /\ top'[t] >= top[t]
      <4>1. /\ high[t] <= top[t] /\ top[t] <= sent[t] /\ high[t] \in Nat
            /\ sent[t] <= top[t] + MaxLoss + 1 /\ MaxLoss \in Nat
        BY StreamAssumption DEF OrderInv, Counted
      <4> QED
        BY <1>1, <1>2, <2>2, <4>1
    <3>2. ASSUME NEW q \in DOMAIN cache'
          PROVE  cache'[q].n < top'[cache'[q].s]
      <4>1. cache[q].n < top[cache[q].s] /\ cache[q].s \in Sessions
            /\ cache[q].n \in Nat
        BY <2>1, <3>2, HeldEntries DEF OrderInv, Counted
      <4>2. top'[cache[q].s] >= top[cache[q].s] /\ top[cache[q].s] \in Nat
            /\ top'[cache[q].s] \in Nat
        BY <1>1, <1>2, <3>1, <4>1
      <4> QED
        BY <2>1, <4>1, <4>2
    <3> QED
      BY <2>2, <3>1, <3>2 DEF OrderInv, Counted
  <2>4. key # 0 => \E pos, base \in Nat : Tracks(key, pos, base)'
    <3>1. ASSUME NEW pos \in Nat, NEW base \in Nat, Tracks(key, pos, base), key # 0
          PROVE  Tracks(key, pos, base)'
      <4>1. key \in Sessions
        BY <3>1 DEF OrderInv, LatchInv, TypeOK
      <4>2. top'[key] = top[key]
        BY <1>2, <1>4, <4>1
      <4> QED
        BY <1>1, <2>1, <2>2, <3>1, <4>2 DEF Tracks
    <3> QED
      BY <3>1 DEF OrderInv
  <2>5. NewestKept
    BY <1>2, <1>4 DEF NewestKept
  <2> QED
    BY <1>1, <2>1, <2>2, <2>3, <2>4, <2>5 DEF Delivered
<1> QED
  BY <1>3, <1>4

\* Nothing changes but what Tracks and Counted do not look at.
LEMMA StaysOrdered ==
  ASSUME OrderInv, Record, out' = <<>>, UNCHANGED <<exp, cache, key, top>>,
         handoffs' = handoffs,
         \A t \in Sessions : top'[t] <= sent'[t]
                             /\ sent'[t] <= top'[t] + MaxLoss + 1
  PROVE  /\ Counted' /\ Delivered /\ NewestKept
         /\ key' # 0 => \E pos, base \in Nat : Tracks(key, pos, base)'
<1>1. high' = high
  BY RecordNone DEF OrderInv
<1> QED
  BY <1>1 DEF OrderInv, Counted, Tracks, Delivered, NewestKept

LEMMA UnsequencedOrdered ==
  ASSUME KeepsUp, OrderInv, BoundInv', NEW s \in Sessions,
         HandleUnsequenced(s), Record
  PROVE  /\ Counted' /\ Delivered /\ NewestKept
         /\ key' # 0 => \E pos, base \in Nat : Tracks(key, pos, base)'
<1>1. /\ key = s /\ key' = key /\ sent' = sent /\ top' = top
      /\ handoffs' = handoffs /\ ProcessCache(Now, s)
  BY DEF HandleUnsequenced, AcceptsCrc, env
<1>2. PICK pos \in Nat, base \in Nat : Tracks(s, pos, base)
  BY <1>1, StreamAssumption DEF OrderInv
<1>3. top[s] <= pos + WrapCutoff
  <2>1. CASE sent[s] = 0
    BY <2>1, WindowAssumption DEF OrderInv, Counted, BoundInv, DrainInv, TypeOK
  <2>2. CASE sent[s] > 0
    <3> DEFINE n == sent[s] - 1
    <3>1. n \in Nat /\ Capturable(s, n)
      BY <1>1, <2>2, StreamAssumption
      DEF Capturable, OrderInv, BoundInv, DrainInv, TypeOK, HandleUnsequenced
    <3> HIDE DEF n
    <3> QED
      BY <1>2, <3>1, InWindow DEF OrderInv
  <2> QED
    BY <2>1, <2>2 DEF OrderInv, BoundInv, DrainInv, TypeOK
<1>4. top' \in [Sessions -> Nat] /\ \A t \in Sessions : top'[t] >= top[t]
  BY <1>1, HeldEntries DEF OrderInv
<1>5. PICK to \in Nat : Moves(s, pos, to)
  BY <1>1, <1>2, <1>3, <1>4, NothingMoves DEF OrderInv
<1>6. Counted' /\ Delivered /\ \E c \in Nat : Tracks(s, to, c)'
  BY <1>1, <1>2, <1>5, PlaceKept
<1>7. \E p2, c \in Nat : Tracks(key, p2, c)'
  BY <1>1, <1>6
<1> QED
  BY <1>1, <1>6, <1>7 DEF NewestKept

\* A fresh session starts at position 0: nothing of it is held yet.
LEMMA ResponseOrdered ==
  ASSUME OrderInv, NEW s \in Sessions, HandleSessionResponse(s), Record
  PROVE  /\ Counted' /\ Delivered /\ NewestKept
         /\ key' # 0 => \E pos, base \in Nat : Tracks(key, pos, base)'
<1> DEFINE st == [exp |-> 0, cache |-> cache, out |-> <<>>]
<1>1. /\ key' = s /\ sent' = sent /\ top' = top /\ handoffs' = handoffs
      /\ sent[s] = 0 /\ [Now EXCEPT !.exp = 0] = st /\ ProcessCache(st, s)
  BY DEF HandleSessionResponse, env, Now
<1>2. /\ \A q \in DOMAIN cache :
           /\ cache[q] \in Packet /\ cache[q].n \in Nat /\ cache[q].s \in Sessions
           /\ cache[q].n % SeqMod = q /\ ~cache[q].sub
      /\ StreamOK(Now) /\ Now = [exp |-> exp, cache |-> cache, out |-> <<>>]
      /\ \A t \in Sessions : top[t] \in Nat
  BY HeldEntries DEF OrderInv
<1>3. /\ top[s] = 0 /\ high[s] = 0 /\ handoffs * Lag \in Nat
      /\ high \in [Sessions -> Nat]
  <2>1. /\ high[s] \in Nat /\ high[s] <= top[s] /\ top[s] <= sent[s]
        /\ high \in [Sessions -> Nat] /\ handoffs \in Nat
    BY StreamAssumption DEF OrderInv, Counted, BoundInv, DrainInv, TypeOK
  <2> QED
    BY <1>1, <1>2, <2>1, LagType
<1>4. \A q \in DOMAIN cache : cache[q].s # s
  BY <1>2, <1>3 DEF OrderInv, Counted
<1>5. StreamOK(st) /\ 0 = 0 % SeqMod
  <2>1. 0 \in SeqNums /\ 0 = 0 % SeqMod
    BY WindowAssumption, WrapOnce DEF SeqNums
  <2> QED
    BY <1>2, <2>1 DEF StreamOK
<1>6. HeldFrom(st.cache, s, 0) /\ Plain(st.cache)
      /\ Cardinality(DOMAIN st.cache) < GiveUp
  BY <1>4 DEF HeldFrom, OrderInv, BoundInv
<1>7. PICK b \in Nat, to \in Nat : /\ 0 <= b /\ b <= 0 /\ b <= to
                                   /\ Delivers(st, s, b, to)
  <2>1. st.exp = 0 /\ 0 \in Nat /\ 0 >= 0 /\ 0 < 0 + WrapCutoff
    BY WindowAssumption
  <2> HIDE DEF st
  <2> QED
    BY <1>1, <1>5, <1>6, <2>1, ProcessCacheDelivers
<1>8. b = 0 /\ to = 0
  <2>1. ~(to > b)
    BY <1>4, <1>7 DEF Delivers
  <2> QED
    BY <1>7, <2>1
<1>9. out' = <<>> /\ exp' = 0 % SeqMod
  <2>1. PICK run \in Seq(Packet) : out' = <<>> \o run /\ Len(run) = 0 - 0
    BY <1>7, <1>8 DEF Delivers
  <2> QED
    BY <1>7, <1>8, <2>1 DEF Delivers
<1>10. /\ DOMAIN cache' \subseteq DOMAIN cache
       /\ \A q \in DOMAIN cache' : cache'[q] = cache[q]
  BY <1>1, <1>5, ProcessCacheOK
<1>11. high' = high
  BY <1>9, RecordNone DEF OrderInv
<1>12. Counted'
  BY <1>1, <1>10, <1>11 DEF OrderInv, Counted
<1>13. Tracks(s, 0, 0)'
  <2>1. handoffs' * Lag \in Nat /\ 0 - 0 <= handoffs' * Lag
    BY <1>1, <1>3
  <2> QED
    BY <1>1, <1>3, <1>4, <1>9, <1>10, <1>11, <2>1 DEF Tracks
<1>14. \E pos, base \in Nat : Tracks(key, pos, base)'
  BY <1>1, <1>13
<1> QED
  BY <1>1, <1>9, <1>11, <1>12, <1>14 DEF Delivered, NewestKept

\* Hand-over: what the cache held is lost, the stream's place is not.
LEMMA HandOffOrdered ==
  ASSUME OrderInv, HandOff, Record
  PROVE  /\ Counted' /\ Delivered /\ NewestKept
         /\ key' # 0 => \E pos, base \in Nat : Tracks(key, pos, base)'
<1>1. /\ cache' = <<>> /\ out' = <<>> /\ handoffs' = handoffs + 1
      /\ UNCHANGED <<exp, key, sent, top>>
  BY DEF HandOff
<1>2. high' = high
  BY <1>1, RecordNone DEF OrderInv
<1>3. DOMAIN cache' = {}
  BY <1>1
<1>4. Counted'
  BY <1>1, <1>2, <1>3 DEF OrderInv, Counted
<1>5. ASSUME NEW pos \in Nat, NEW base \in Nat, Tracks(key, pos, base), key # 0
      PROVE  Tracks(key, pos, top[key])' /\ top[key] \in Nat
  <2>1. key \in Sessions
    BY <1>5 DEF OrderInv, LatchInv, TypeOK
  <2>2. top[key] - base <= Lag /\ top[key] \in Nat /\ Lag \in Nat
        /\ handoffs \in Nat
    BY <1>5, <2>1, LagBounded, LagType, HeldEntries, StreamAssumption
    DEF OrderInv, BoundInv, DrainInv, TypeOK
  <2>3. (handoffs + 1) * Lag = handoffs * Lag + Lag /\ handoffs * Lag \in Nat
    BY <2>2, Multiples
  <2>4. /\ base - pos <= handoffs * Lag /\ pos <= base /\ base <= top[key]
        /\ high[key] <= pos /\ exp = pos % SeqMod
    BY <1>5 DEF Tracks
  <2> DEFINE h == handoffs * Lag
             h2 == (handoffs + 1) * Lag
  <2>5. top[key] - pos <= h2
    <3>1. h2 = h + Lag /\ base - pos <= h /\ h \in Nat
      BY <2>3, <2>4
    <3> HIDE DEF h, h2
    <3> QED
      BY <2>2, <2>4, <3>1
  <2>6. top'[key'] - pos <= handoffs' * Lag
    BY <1>1, <2>5
  <2>7. top[key] .. top'[key'] - 1 = {}
    BY <1>1, <2>2
  <2> HIDE DEF h, h2
  <2>8. pos <= top[key]
    BY <2>2, <2>4
  <2> QED
    BY <1>1, <1>2, <1>3, <2>2, <2>4, <2>6, <2>7, <2>8 DEF Tracks
<1>6. key' # 0 => \E pos, base \in Nat : Tracks(key, pos, base)'
  BY <1>1, <1>5 DEF OrderInv
<1> QED
  BY <1>1, <1>2, <1>4, <1>6 DEF Delivered, NewestKept

LEMMA OrderInit == Init => OrderInv /\ Contract!Init
<1> SUFFICES ASSUME Init PROVE OrderInv /\ Contract!Init
  OBVIOUS
<1>1. BoundInv
  BY DrainInit, FS_EmptySet, StreamAssumption DEF BoundInv, Init
<1> QED
  BY <1>1, StreamAssumption
  DEF Init, OrderInv, Plain, LatchInv, Counted, NoSession, BoundInv, DrainInv,
      Contract!Init

LEMMA OrderStep ==
  ASSUME KeepsUp, FromServer, Primary, ~Bundling, OrderInv, [Next]_vars
  PROVE  /\ OrderInv'
         /\ [Contract!Next]_<<out, high>>
         /\ [NewestKept]_vars
<1>1. BoundInv' /\ Plain(cache)' /\ LatchInv'
  <2>1. BoundInv'
    BY BoundStep DEF OrderInv
  <2>2. PlainInv'
    BY PlainStep DEF OrderInv, BoundInv, PlainInv
  <2>3. LatchInv'
    BY LatchStep DEF OrderInv, BoundInv
  <2> QED
    BY <2>1, <2>2, <2>3 DEF PlainInv
<1>2. CASE UNCHANGED vars
  BY <1>1, <1>2 DEF vars, stream, env, OrderInv, Counted, Tracks
<1>3. CASE Next
  <2> DEFINE Goal == /\ sid' = key'
                     /\ Counted' /\ Delivered /\ NewestKept
                     /\ key' # 0 => \E pos, base \in Nat : Tracks(key, pos, base)'
  <2>1. Record
    BY <1>3 DEF Next
  <2>2. ASSUME NEW s \in Sessions, Open(s) PROVE Goal
    <3>1. out' = <<>> /\ UNCHANGED <<exp, cache, key, sid, top, handoffs, sent>>
      BY <2>2 DEF Open, stream
    <3>2. \A t \in Sessions : top'[t] <= sent'[t]
                              /\ sent'[t] <= top'[t] + MaxLoss + 1
      BY <3>1 DEF OrderInv, Counted
    <3> QED
      BY <2>1, <3>1, <3>2, StaysOrdered DEF OrderInv
  <2>3. ASSUME NEW s \in Sessions, Send(s) PROVE Goal
    <3>1. /\ out' = <<>> /\ UNCHANGED <<exp, cache, key, sid, top, handoffs>>
          /\ sent' = [sent EXCEPT ![s] = @ + 1] /\ sent[s] - top[s] <= MaxLoss
      BY <2>3 DEF Send, stream
    <3>2. /\ \A t \in Sessions : top[t] \in Nat /\ sent[t] \in Nat
          /\ sent \in [Sessions -> 0 .. MaxSend] /\ MaxLoss \in Nat
      BY HeldEntries, StreamAssumption DEF OrderInv, BoundInv, DrainInv, TypeOK
    <3>3. ASSUME NEW t \in Sessions
          PROVE  top'[t] <= sent'[t] /\ sent'[t] <= top'[t] + MaxLoss + 1
      <4>1. top[t] <= sent[t] /\ sent[t] <= top[t] + MaxLoss + 1
        BY DEF OrderInv, Counted
      <4>2. sent'[t] = IF t = s THEN sent[t] + 1 ELSE sent[t]
        BY <3>1, <3>2
      <4> QED
        BY <3>1, <3>2, <4>1, <4>2
    <3> QED
      BY <2>1, <3>1, <3>3, StaysOrdered DEF OrderInv
  <2>4. ASSUME NEW s \in Sessions, NEW n \in Positions, HandleSequenced(s, n)
        PROVE  Goal
    <3>1. sid' = key'
      BY <2>4 DEF HandleSequenced, OrderInv
    <3> QED
      BY <1>1, <2>1, <2>4, <3>1, SequencedOrdered
  <2>5. ASSUME NEW s \in Sessions, HandleUnsequenced(s) PROVE Goal
    <3>1. sid' = key'
      BY <2>5 DEF HandleUnsequenced, OrderInv
    <3> QED
      BY <1>1, <2>1, <2>5, <3>1, UnsequencedOrdered
  <2>6. ASSUME NEW s \in Sessions, HandleSessionResponse(s) PROVE Goal
    <3>1. sid' = key'
      BY <2>6 DEF HandleSessionResponse
    <3> QED
      BY <2>1, <2>6, <3>1, ResponseOrdered
  <2>7. ASSUME NEW s \in Sessions, HandleSessionDisconnect(s) \/ Close(s)
        PROVE  Goal
    <3>1. /\ cache' = <<>> /\ out' = <<>> /\ sid' = 0 /\ key' = 0
          /\ sent' = sent /\ top' = top
      BY <2>7 DEF HandleSessionDisconnect, Close, NoSession, env
    <3>2. high' = high
      BY <2>1, <3>1, RecordNone DEF OrderInv
    <3>3. DOMAIN cache' = {}
      BY <3>1
    <3> QED
      BY <3>1, <3>2, <3>3 DEF OrderInv, Counted, Delivered, NewestKept
  <2>8. ASSUME HandOff PROVE Goal
    <3>1. sid' = key'
      BY <2>8 DEF HandOff, OrderInv
    <3> QED
      BY <2>1, <2>8, <3>1, HandOffOrdered
  <2>9. Goal
    <3>1. ASSUME NEW s \in Sessions, Handlers(s) PROVE Goal
      <4>1. ~HandleSessionRequest(s) /\ ~ReceiveSessionKey(s)
            /\ ~ \E n1, n2 \in Positions : HandleCombined(s, n1, n2)
        BY DEF HandleSessionRequest, ReceiveSessionKey, HandleCombined
      <4> HIDE DEF Goal
      <4> QED
        BY <2>4, <2>5, <2>6, <2>7, <3>1, <4>1 DEF Handlers
    <3> HIDE DEF Goal
    <3> QED
      BY <1>3, <2>2, <2>3, <2>8, <3>1 DEF Next
  <2>10. Contract!Next
    BY <2>9 DEF Delivered, Contract!Next, Contract!Quiet
  <2> QED
    BY <1>1, <2>9, <2>10 DEF OrderInv
<1> QED
  BY <1>2, <1>3

\* The stream implements ordered delivery: a global server-to-client stream
\* whose peer does not wrap packets in OP_Combined passes on each session's
\* packets in the order they were sent and each at most once, across losses,
\* repeats, reordering, giving up, other sessions' left-overs in the cache,
\* hand-overs and any number of wraps of the 16-bit sequence number.
THEOREM DeliversInOrder ==
  ASSUME KeepsUp, FromServer, Primary, ~Bundling
  PROVE  Spec => InOrder
<1>1. Init => OrderInv /\ Contract!Init
  BY OrderInit
<1>2. OrderInv /\ [Next]_vars => OrderInv' /\ [Contract!Next]_<<out, high>>
  BY OrderStep
<1> QED
  BY <1>1, <1>2, PTL DEF Spec, InOrder, Contract!Spec

\* Under the same conditions the newest packet of the current session is never
\* taken for one of the past and dropped: it is passed on or waits in m_cache.
THEOREM KeepsTheNewest ==
  ASSUME KeepsUp, FromServer, Primary, ~Bundling
  PROVE  Spec => NewestIsKept
<1>1. Init => OrderInv
  BY OrderInit
<1>2. OrderInv /\ [Next]_vars => OrderInv' /\ [NewestKept]_vars
  BY OrderStep
<1>3. [NewestKept]_vars =>
        [\A s \in Sessions :
           key = s /\ top'[s] # top[s] => Kept(s, top'[s] - 1)]_vars
  BY DEF NewestKept
<1> QED
  BY <1>1, <1>2, <1>3, PTL DEF Spec, NewestIsKept

-----------------------------------------------------------------------------
(* Fragments: the reassembly buffer, for every message length, packet size *)
(* and cap.                                                                *)

\* Where the sender is: at a fragment that carries something.
NextOK ==
  /\ next = [m |-> next.m, i |-> next.i]
  /\ next.m \in 1 .. NumMessages + 1 /\ next.i \in Nat \ {0}
  /\ next.m \in Messages => Carried(next.m, next.i - 1) < Size[next.m]

-----------------------------------------------------------------------------
(* Lengths.                                                                *)

LEMMA OneMore ==
  ASSUME NEW i \in Nat \ {0}
  PROVE  i * Mtu = (i - 1) * Mtu + Mtu /\ i * Mtu \in Nat /\ (i - 1) * Mtu \in Nat
<1>1. Mtu \in Nat
  BY FragmentAssumption
<1> QED
  BY <1>1

\* What is carried is a natural number, at least what a first fragment takes.
LEMMA CarriedType ==
  ASSUME NEW m \in Messages, NEW i \in Nat
  PROVE  /\ Carried(m, i) \in Nat
         /\ Carried(m, i) <= Size[m]
         /\ i # 0 => Carried(m, i) >= Mtu - LenField
<1>1. Size[m] \in Nat /\ Size[m] > Mtu - LenField /\ Mtu \in Nat
      /\ LenField \in Nat \ {0} /\ Mtu > LenField
  BY FragmentAssumption
<1>2. CASE i = 0
  BY <1>1, <1>2 DEF Carried
<1>3. CASE i # 0
  <2>1. i * Mtu = (i - 1) * Mtu + Mtu /\ i * Mtu \in Nat /\ (i - 1) * Mtu \in Nat
    BY <1>3, OneMore
  <2> HIDE DEF Messages
  <2> QED
    BY <1>1, <1>3, <2>1 DEF Carried
<1> QED
  BY <1>2, <1>3

\* A fragment that is still to be sent carries between 1 and Mtu bytes; a
\* first one carries Mtu - LenField.
LEMMA LengthBounds ==
  ASSUME NEW m \in Messages, NEW i \in Nat \ {0},
         Carried(m, i - 1) < Size[m]
  PROVE  /\ Length(m, i) \in Nat \ {0}
         /\ Length(m, i) <= Mtu
         /\ i = 1 => Length(m, i) = Mtu /\ Carried(m, 1) = Mtu - LenField
         /\ i # 1 => Carried(m, i) = Carried(m, i - 1) + Length(m, i)
<1>1. Size[m] \in Nat /\ Size[m] > Mtu - LenField /\ Mtu \in Nat
      /\ LenField \in Nat \ {0} /\ Mtu > LenField
  BY FragmentAssumption
<1>2. i * Mtu = (i - 1) * Mtu + Mtu /\ i * Mtu \in Nat /\ (i - 1) * Mtu \in Nat
  BY OneMore
<1>3. CASE i = 1
  BY <1>1, <1>2, <1>3 DEF Length, Carried
<1>4. CASE i # 1
  BY <1>1, <1>2, <1>4 DEF Length, Carried
<1> QED
  BY <1>3, <1>4

LEMMA AfterOK ==
  ASSUME NextOK, NEW f, Arrives(f)
  PROVE  /\ f = next /\ f.m \in Messages /\ f.i \in Nat \ {0}
         /\ Carried(f.m, f.i - 1) < Size[f.m]
         /\ NextOK'
<1>1. f = next /\ f.m \in Messages /\ f.i \in Nat \ {0} /\ next' = After(f)
      /\ Carried(f.m, f.i - 1) < Size[f.m]
  BY DEF Arrives, NextOK
<1>2. NumMessages \in Nat /\ f.m \in 1 .. NumMessages /\ Mtu \in Nat
      /\ LenField \in Nat
  BY <1>1, FragmentAssumption DEF Messages
<1>3. CASE IsLast(f)
  <2>1. next' = [m |-> f.m + 1, i |-> 1]
    BY <1>1, <1>3 DEF After
  <2>2. f.m + 1 \in Messages => Size[f.m + 1] \in Nat /\ Size[f.m + 1] > 0
    BY <1>2, FragmentAssumption
  <2>3. (Carried(next.m, next.i - 1))' = 0
    BY <2>1 DEF Carried
  <2> QED
    BY <1>1, <1>2, <2>1, <2>2, <2>3 DEF NextOK
<1>4. CASE ~IsLast(f)
  <2>1. next' = [m |-> f.m, i |-> f.i + 1]
    BY <1>1, <1>4 DEF After
  <2>2. Carried(f.m, f.i) \in Nat /\ Carried(f.m, f.i) <= Size[f.m]
    BY <1>1, CarriedType
  <2>3. Carried(f.m, f.i) # Size[f.m] /\ Size[f.m] \in Nat
    BY <1>1, <1>4, FragmentAssumption DEF IsLast
  <2>4. next'.i - 1 = f.i /\ next'.m = f.m /\ next'.i = f.i + 1
    BY <1>1, <2>1
  <2>5. Carried(f.m, f.i) < Size[f.m]
    BY <2>2, <2>3
  <2>6. (Carried(next.m, next.i - 1))' = Carried(f.m, f.i)
    BY <2>4 DEF Carried
  <2> QED
    BY <1>1, <1>2, <2>1, <2>4, <2>5, <2>6 DEF NextOK
<1> QED
  BY <1>1, <1>3, <1>4

-----------------------------------------------------------------------------
(* The buffer's bounds, whatever the stream missed.                        *)

BufferOK ==
  /\ fill \in Nat /\ total \in Nat /\ alloc \in Nat
  /\ fill <= Word /\ total <= alloc /\ alloc <= Cap
  /\ fill > alloc => overran /\ Len(parts) = 1

BufferInv == NextOK /\ BufferOK /\ clean \in BOOLEAN /\ overran \in BOOLEAN

LEMMA SettleBounded ==
  ASSUME NEW f \in Nat, NEW t \in Nat, NEW p, Settle(f, t, p),
         alloc' \in Nat, alloc' <= Cap, t <= alloc', f <= Word,
         f > alloc' => overran' /\ Len(p) = 1
  PROVE  BufferOK'
<1>1. CASE f # 0 /\ f = t
  BY <1>1, FragmentAssumption DEF Settle, BufferOK
<1>2. CASE ~(f # 0 /\ f = t)
  BY <1>2 DEF Settle, BufferOK
<1> QED
  BY <1>1, <1>2

LEMMA BufferInit == FragmentInit => BufferInv
<1> SUFFICES ASSUME FragmentInit
             PROVE  BufferInv
  OBVIOUS
<1>1. NumMessages \in Nat /\ Cap \in Nat /\ next = [m |-> 1, i |-> 1]
  BY FragmentAssumption DEF FragmentInit
<1>2. next.m \in Messages => Size[next.m] \in Nat /\ Size[next.m] > 0
  BY FragmentAssumption
<1>3. Carried(next.m, next.i - 1) = 0
  BY <1>1 DEF Carried
<1>4. next.m = 1 /\ next.i = 1
  BY <1>1
<1>5. next = [m |-> next.m, i |-> next.i]
  BY <1>1, <1>4
<1>6. NextOK
  BY <1>1, <1>2, <1>3, <1>4, <1>5 DEF NextOK
<1>7. BufferOK
  <2>1. Word \in Nat /\ Word >= 0
    BY FragmentAssumption
  <2> QED
    BY <1>1, <2>1 DEF FragmentInit, BufferOK
<1> QED
  BY <1>6, <1>7 DEF FragmentInit, BufferInv

\* What the first copy takes; of a first fragment, all but the length field.
LEMMA FirstCopyType ==
  ASSUME NEW f, f.m \in Messages, f.i \in Nat \ {0},
         Carried(f.m, f.i - 1) < Size[f.m]
  PROVE  /\ FirstCopy(f) \in Nat /\ FirstCopy(f) <= Word
         /\ f.i = 1 => FirstCopy(f) = Mtu - LenField
<1>1. /\ Length(f.m, f.i) \in Nat \ {0} /\ Length(f.m, f.i) <= Mtu
      /\ f.i = 1 => Length(f.m, f.i) = Mtu
  BY LengthBounds
<1>2. Mtu \in Nat /\ LenField \in Nat \ {0} /\ Mtu > LenField
      /\ Word \in Nat /\ Cap \in Nat /\ Word > Cap + Mtu
  BY FragmentAssumption
<1> QED
  BY <1>1, <1>2 DEF FirstCopy

LEMMA ResetBounded ==
  ASSUME BufferOK, Reset, alloc' = alloc
  PROVE  BufferOK'
<1>1. Word \in Nat /\ Word >= 0
  BY FragmentAssumption
<1> QED
  BY <1>1 DEF Reset, BufferOK

\* Starting a sequence: a copy that passes the end is remembered, and is alone.
LEMMA StartBounded ==
  ASSUME BufferInv, NEW f, NEW c \in Claims \cup {Size[f.m]}, Start(f, c)
  PROVE  BufferOK' /\ overran' \in BOOLEAN
<1>1. f.m \in Messages /\ f.i \in Nat \ {0} /\ Carried(f.m, f.i - 1) < Size[f.m]
  BY AfterOK DEF BufferInv, Start
<1>2. FirstCopy(f) \in Nat /\ FirstCopy(f) <= Word
  BY <1>1, FirstCopyType
<1>3. Cap \in Nat /\ Size[f.m] \in Nat /\ Claims \subseteq Nat
  BY <1>1, FragmentAssumption
<1>4. /\ Settle(FirstCopy(f), c, <<f>>)
      /\ alloc' = (IF c > alloc THEN c ELSE alloc)
      /\ c \in Nat /\ c <= Cap
  BY <1>3 DEF Start
<1>5. overran' = (overran \/ FirstCopy(f) > alloc')
  BY DEF Start
<1>6. overran' \in BOOLEAN /\ (FirstCopy(f) > alloc' => overran')
  BY <1>5 DEF BufferInv
<1>7. alloc' \in Nat /\ alloc' <= Cap /\ c <= alloc'
  BY <1>3, <1>4 DEF BufferInv, BufferOK
<1>8. Len(<<f>>) = 1
  OBVIOUS
<1> QED
  BY <1>2, <1>4, <1>6, <1>7, <1>8, SettleBounded

LEMMA BufferStep == BufferInv /\ [FragmentNext]_fragmentVars => BufferInv'
<1> SUFFICES ASSUME BufferInv, [FragmentNext]_fragmentVars
             PROVE  BufferInv'
  OBVIOUS
<1> USE DEF BufferInv
<1>1. ASSUME NEW c \in Claims \cup {Size[next.m]}, Refuse(next, c)
      PROVE  BufferInv'
  <2>1. NextOK'
    BY <1>1, AfterOK DEF Refuse
  <2>2. BufferOK'
    BY <1>1, ResetBounded DEF Refuse
  <2> QED
    BY <1>1, <2>1, <2>2 DEF Refuse
<1>2. ASSUME NEW c \in Claims \cup {Size[next.m]}, Start(next, c)
      PROVE  BufferInv'
  <2>1. NextOK' /\ BufferOK'
    BY <1>2, AfterOK, StartBounded DEF Start
  <2>2. overran' \in BOOLEAN
    BY <1>2, StartBounded
  <2> QED
    BY <1>2, <2>1, <2>2 DEF Start
<1>3. CASE Extend(next)
  <2>1. /\ NextOK' /\ next.m \in Messages /\ next.i \in Nat \ {0}
        /\ Carried(next.m, next.i - 1) < Size[next.m]
    BY <1>3, AfterOK DEF Extend
  <2>2. Length(next.m, next.i) \in Nat /\ Cap \in Nat /\ Word \in Nat /\ Mtu \in Nat
        /\ Word > Cap + Mtu
    BY <2>1, LengthBounds, FragmentAssumption
  <2>3. BufferOK'
    BY <1>3, <2>2, SettleBounded DEF Extend, Fits, BufferOK
  <2> QED
    BY <1>3, <2>1, <2>3 DEF Extend
<1>4. CASE Abandon(next)
  <2>1. NextOK'
    BY <1>4, AfterOK DEF Abandon
  <2>2. BufferOK'
    BY <1>4, ResetBounded DEF Abandon
  <2> QED
    BY <1>4, <2>1, <2>2 DEF Abandon
<1>5. CASE Miss(next)
  <2>1. NextOK'
    BY <1>5, AfterOK DEF Miss
  <2> QED
    BY <1>5, <2>1 DEF Miss, buffer, BufferOK
<1>6. ASSUME NEW closed \in BOOLEAN, Cut(closed)
      PROVE  BufferInv'
  <2>1. next' = [m |-> next.m + 1, i |-> 1] /\ next.m \in 1 .. NumMessages
    BY <1>6 DEF Cut, Messages
  <2>2. next'.m \in Messages => Size[next'.m] \in Nat /\ Size[next'.m] > 0
    BY FragmentAssumption
  <2>3. (Carried(next.m, next.i - 1))' = 0
    BY <2>1 DEF Carried
  <2>4. NextOK'
    BY <2>1, <2>2, <2>3, FragmentAssumption DEF NextOK
  <2>5. CASE closed
    <3>1. BufferOK'
      BY <1>6, <2>5, ResetBounded DEF Cut
    <3> QED
      BY <1>6, <2>4, <2>5, <3>1 DEF Cut
  <2>6. CASE ~closed
    <3>1. BufferOK'
      BY <1>6, <2>6 DEF Cut, buffer, BufferOK
    <3> QED
      BY <1>6, <2>4, <2>6, <3>1 DEF Cut
  <2> QED
    BY <2>5, <2>6
<1>7. CASE UNCHANGED fragmentVars
  BY <1>7 DEF fragmentVars, buffer, BufferOK, NextOK, Carried
<1> QED
  BY <1>1, <1>2, <1>3, <1>4, <1>5, <1>6, <1>7 DEF FragmentNext, Arrive, Finished

-----------------------------------------------------------------------------
(* Without gaps the buffer is in step with the sender.                     *)

InStepInv == BufferInv /\ InStep /\ (overran => ~clean)

\* Starting on a first fragment.
LEMMA StartInStep ==
  ASSUME InStepInv, clean, NEW c \in Claims \cup {Size[next.m]}, Start(next, c)
  PROVE  InStep' /\ done' = <<>> /\ ~overran'
<1>1. /\ next.m \in Messages /\ next.i \in Nat \ {0}
      /\ Carried(next.m, next.i - 1) < Size[next.m]
      /\ next = [m |-> next.m, i |-> next.i]
  BY AfterOK DEF InStepInv, BufferInv, Start, NextOK
<1>2. Size[next.m] \in Nat /\ Size[next.m] > Mtu - LenField /\ Mtu \in Nat
      /\ LenField \in Nat \ {0} /\ Mtu > LenField
  BY <1>1, FragmentAssumption
<1>3. next.i = 1
  <2>1. SUFFICES ASSUME next.i # 1 PROVE FALSE
    OBVIOUS
  <2>2. next.i - 1 \in Nat \ {0} /\ fill = Carried(next.m, next.i - 1) /\ fill = 0
    BY <1>1, <2>1 DEF InStepInv, InStep, Start
  <2>3. Carried(next.m, next.i - 1) >= Mtu - LenField
    BY <1>1, <2>2, CarriedType
  <2> QED
    BY <1>2, <2>2, <2>3
<1>4. c = Size[next.m]
  BY <1>3 DEF Start, Declares
<1>5. Length(next.m, next.i) = Mtu /\ Carried(next.m, 1) = Mtu - LenField
  BY <1>1, <1>3, LengthBounds
<1>6. ~IsLast(next)
  BY <1>2, <1>3, <1>5 DEF IsLast
<1>7. next' = [m |-> next.m, i |-> 2]
  BY <1>3, <1>6 DEF Start, Arrives, After
<1>8. FirstCopy(next) = Mtu - LenField
  BY <1>1, <1>3, FirstCopyType
<1>9. fill' = Mtu - LenField /\ total' = Size[next.m] /\ parts' = <<next>>
      /\ done' = <<>>
  BY <1>2, <1>4, <1>8 DEF Start, Settle
<1>10. <<next>> = UpTo(next.m, 1)
  BY <1>1, <1>3 DEF UpTo
<1>11. InStep'
  BY <1>5, <1>7, <1>9, <1>10 DEF InStep, UpTo, Carried
<1>12. ~(FirstCopy(next) > alloc')
  BY <1>2, <1>4, <1>8 DEF Start, InStepInv, BufferInv, BufferOK
<1>13. ~overran
  BY DEF InStepInv
<1>14. overran' = (overran \/ FirstCopy(next) > alloc')
  BY DEF Start
<1>15. ~overran'
  BY <1>12, <1>13, <1>14
<1> QED
  BY <1>9, <1>11, <1>15

\* Going on with the message in the buffer.
LEMMA ExtendInStep ==
  ASSUME InStepInv, clean, Extend(next)
  PROVE  /\ InStep'
         /\ done' # <<>> => IsLast(next) /\ done' = UpTo(next.m, next.i)
<1>1. /\ next.m \in Messages /\ next.i \in Nat \ {0}
      /\ Carried(next.m, next.i - 1) < Size[next.m]
      /\ next = [m |-> next.m, i |-> next.i]
  BY AfterOK DEF InStepInv, BufferInv, Extend, NextOK
<1>2. next.i # 1 /\ fill = Carried(next.m, next.i - 1) /\ total = Size[next.m]
      /\ parts = UpTo(next.m, next.i - 1)
  BY <1>1 DEF InStepInv, InStep, Extend
<1>3. fill + Length(next.m, next.i) = Carried(next.m, next.i)
  BY <1>1, <1>2, LengthBounds
<1>4. /\ Carried(next.m, next.i) \in Nat /\ Carried(next.m, next.i) # 0
      /\ Size[next.m] \in Nat
  BY <1>1, CarriedType, FragmentAssumption
<1>5. Append(parts, next) = UpTo(next.m, next.i)
  BY <1>1, <1>2 DEF UpTo
<1>6. CASE IsLast(next)
  <2>1. next' = [m |-> next.m + 1, i |-> 1]
    BY <1>6 DEF Extend, Arrives, After
  <2>2. fill' = 0 /\ total' = 0 /\ parts' = <<>>
        /\ done' = UpTo(next.m, next.i)
    BY <1>2, <1>3, <1>4, <1>5, <1>6 DEF Extend, Settle, IsLast
  <2>3. UpTo(next.m + 1, 0) = <<>>
    BY DEF UpTo
  <2> QED
    BY <1>6, <2>1, <2>2, <2>3 DEF InStep
<1>7. CASE ~IsLast(next)
  <2>1. next' = [m |-> next.m, i |-> next.i + 1]
    BY <1>7 DEF Extend, Arrives, After
  <2>2. /\ fill' = Carried(next.m, next.i) /\ total' = Size[next.m]
        /\ parts' = UpTo(next.m, next.i) /\ done' = <<>>
    BY <1>2, <1>3, <1>4, <1>5, <1>7 DEF Extend, Settle, IsLast
  <2>3. next'.m = next.m /\ next'.i = next.i + 1 /\ next'.i - 1 = next.i
        /\ next'.i # 1
    BY <1>1, <2>1
  <2> QED
    BY <2>2, <2>3 DEF InStep, UpTo, Carried
<1> QED
  BY <1>6, <1>7

\* A step that leaves the stream without gaps.
LEMMA CleanStep ==
  ASSUME InStepInv, FragmentNext, ~UNCHANGED fragmentVars, clean'
  PROVE  /\ InStep'
         /\ ~overran'
         /\ done' # <<>> => IsLast(next) /\ done' = UpTo(next.m, next.i)
<1> USE DEF InStepInv
<1>0. clean
  BY DEF FragmentNext, Arrive, Refuse, Start, Extend, Abandon, Miss, Cut, Finished
<1>1. ASSUME NEW c \in Claims \cup {Size[next.m]}, Refuse(next, c)
      PROVE  FALSE
  <2>1. next.m \in Messages /\ next.i \in Nat \ {0} /\ fill = 0
        /\ (c = 0 \/ c > Cap)
    BY <1>1, AfterOK DEF Refuse, BufferInv
  <2>2. CASE next.i = 1
    BY <2>1, <2>2, <1>1, FragmentAssumption DEF Refuse, Declares
  <2>3. CASE next.i # 1
    <3>1. Carried(next.m, next.i - 1) = 0 /\ next.i - 1 \in Nat \ {0}
      BY <1>0, <2>1, <2>3 DEF InStep
    <3>2. 0 >= Mtu - LenField
      BY <2>1, <3>1, CarriedType
    <3> QED
      BY <3>2, FragmentAssumption
  <2> QED
    BY <2>2, <2>3
<1>2. ASSUME NEW c \in Claims \cup {Size[next.m]}, Start(next, c)
      PROVE  InStep' /\ done' = <<>> /\ ~overran'
  BY <1>0, <1>2, StartInStep
<1>3. CASE Extend(next)
  <2>1. ~overran'
    BY <1>0, <1>3 DEF Extend
  <2> QED
    BY <1>0, <1>3, <2>1, ExtendInStep
<1>4. CASE Abandon(next)
  <2>1. /\ next.m \in Messages /\ next.i \in Nat \ {0}
        /\ Carried(next.m, next.i - 1) < Size[next.m]
    BY <1>4, AfterOK DEF Abandon, BufferInv
  <2>2. next.i # 1 /\ fill = Carried(next.m, next.i - 1) /\ total = Size[next.m]
    BY <1>0, <1>4, <2>1 DEF InStep, Abandon
  <2>3. fill + Length(next.m, next.i) = Carried(next.m, next.i)
    BY <2>1, <2>2, LengthBounds
  <2>4. Carried(next.m, next.i) <= Size[next.m] /\ Carried(next.m, next.i) \in Nat
        /\ Size[next.m] \in Nat
    BY <2>1, CarriedType, FragmentAssumption
  <2>5. Size[next.m] <= alloc
    BY <2>2 DEF BufferInv, BufferOK
  <2> QED
    BY <1>4, <2>2, <2>3, <2>4, <2>5 DEF Abandon, Fits, BufferInv, BufferOK
<1>5. CASE Miss(next)
  BY <1>5 DEF Miss
<1>6. ASSUME NEW closed \in BOOLEAN, Cut(closed)
      PROVE  InStep' /\ done' = <<>> /\ ~overran'
  <2>0. ~overran'
    BY <1>0, <1>6 DEF Cut
  <2>1. closed /\ fill' = 0 /\ total' = 0 /\ parts' = <<>> /\ done' = <<>>
        /\ next' = [m |-> next.m + 1, i |-> 1]
    BY <1>6 DEF Cut, Reset
  <2>2. UpTo(next.m + 1, 0) = <<>>
    BY DEF UpTo
  <2> QED
    BY <2>0, <2>1, <2>2 DEF InStep
<1> QED
  BY <1>1, <1>2, <1>3, <1>4, <1>5, <1>6 DEF FragmentNext, Arrive, Finished

LEMMA InStepInit == FragmentInit => InStepInv
<1> SUFFICES ASSUME FragmentInit
             PROVE  InStepInv
  OBVIOUS
<1>1. UpTo(1, 0) = <<>>
  BY DEF UpTo
<1> QED
  BY <1>1, BufferInit DEF FragmentInit, InStepInv, InStep

LEMMA InStepStep == InStepInv /\ [FragmentNext]_fragmentVars => InStepInv'
<1> SUFFICES ASSUME InStepInv, [FragmentNext]_fragmentVars
             PROVE  InStepInv'
  OBVIOUS
<1>1. BufferInv'
  BY BufferStep DEF InStepInv
<1>2. CASE UNCHANGED fragmentVars
  <2>1. UNCHANGED <<clean, overran, parts, fill, total, next>>
    BY <1>2 DEF fragmentVars, buffer
  <2> QED
    BY <1>1, <2>1 DEF InStepInv, InStep, UpTo, Carried
<1>3. CASE FragmentNext /\ ~UNCHANGED fragmentVars
  <2>1. ASSUME clean'
        PROVE  InStep' /\ ~overran'
    BY <1>3, <2>1, CleanStep
  <2>2. ASSUME ~clean'
        PROVE  InStep'
    BY <2>2 DEF InStep
  <2> QED
    BY <1>1, <2>1, <2>2 DEF InStepInv
<1> QED
  BY <1>2, <1>3

\* addFragment copies past the end of m_data at most when it starts a sequence,
\* and only after something was missed, whatever is read as a length field: an
\* append never does.  While nothing is missed, the buffer holds exactly what has
\* arrived of the message being sent, under the length its first fragment
\* declared.
THEOREM BufferIsSound == FragmentSpec => []BufferSound
<1>1. BufferInv => FragmentTypeOK
  BY FragmentAssumption DEF BufferInv, BufferOK, NextOK, FragmentTypeOK
<1>2. InStepInv => WithinBuffer
  BY DEF InStepInv, BufferInv, BufferOK, WithinBuffer
<1>3. InStepInv => BufferSound
  BY <1>1, <1>2 DEF InStepInv, BufferSound
<1> QED
  BY <1>3, InStepInit, InStepStep, PTL DEF FragmentSpec

\* While nothing is missed, what OP_Oversized dispatches is a whole message.
THEOREM DispatchesWhole == FragmentSpec => WholeMessages
<1>1. InStepInv /\ [FragmentNext]_fragmentVars =>
        [next.m \in Messages /\ clean' /\ done' # <<>>
           => IsLast(next) /\ done' = UpTo(next.m, next.i)]_fragmentVars
  <2> SUFFICES ASSUME InStepInv, [FragmentNext]_fragmentVars, ~UNCHANGED fragmentVars, clean',
                      done' # <<>>
               PROVE  IsLast(next) /\ done' = UpTo(next.m, next.i)
    OBVIOUS
  <2> QED
    BY CleanStep
<1> QED
  BY <1>1, InStepInit, InStepStep, PTL DEF FragmentSpec, WholeMessages
=============================================================================
