----------------------------- MODULE PacketStream -----------------------------
(***************************************************************************)
(* One EQPacketStream (src/src/packetstream.cpp): it listens to one        *)
(* direction of a UDP session it takes no part in, and rebuilds the        *)
(* sequenced stream from packets the capture may miss, repeat or reorder.  *)
(* It cannot ask for a retransmission, so when its cache of early packets  *)
(* is full it gives up on the missing ones and skips ahead.                *)
(*                                                                         *)
(* Sessions follow one another, and those of different clients overlap, on *)
(* the same stream.  A session's key is learnt from its SessionResponse    *)
(* and every top-level sequenced packet carries a CRC computed under it.   *)
(* A packet's payload is abstracted to its identity: the session that sent *)
(* it and its position in that session's send order (the sequence number   *)
(* on the wire is that position mod SeqMod).                               *)
(*                                                                         *)
(* A handler runs to completion on the daemon's single decode thread, so   *)
(* each is one action; processPacket and the processCache call that ends   *)
(* handlePacket are part of it.                                            *)
(***************************************************************************)
EXTENDS ArqWindow, FiniteSets, Sequences, Functions

CONSTANTS
  GiveUp,      \* m_arqSeqGiveUp: cached packets that make the stream skip
  Sessions,    \* 1..N: session ids in the order they are opened
  Owner,       \* [Sessions -> Clients]: the client endpoint of each session
  NoClient,    \* an unset m_sessionClientPort / m_sessionClientIP
  FromServer,  \* TRUE: a DIR_Server stream, it carries SessionResponse
               \* FALSE: a DIR_Client stream, it carries SessionRequest
  ZoneStream,  \* the stream is zone2client / client2zone
  Primary,     \* one of EQPacket's four global streams: closeStream reaches it
  Settings,    \* what m_session_tracking may be set to: 0 off, 1 on
  Bundling,    \* senders wrap sequenced packets in OP_Combined
  MaxSend,     \* bound: sequenced packets a session sends
  MaxLate,     \* bound: how many packets late a captured packet may be
  MaxLoss,     \* bound: newest packets in a row that the capture misses
  MaxHandOffs  \* bound: how often the daemon hands over to a new one

ASSUME StreamAssumption ==
  /\ GiveUp \in Nat \ {0}
  /\ Sessions \subseteq Nat \ {0}
  /\ Primary \in BOOLEAN /\ Settings \subseteq {0, 1} /\ Bundling \in BOOLEAN
  /\ FromServer \in BOOLEAN /\ ZoneStream \in BOOLEAN
  /\ MaxSend \in Nat /\ MaxLate \in Nat /\ MaxLoss \in Nat
  /\ MaxHandOffs \in Nat
  /\ NoClient \notin {Owner[s] : s \in Sessions}

VARIABLES
  exp,       \* m_arqSeqExp
  cache,     \* m_cache: sequence number -> packet copy
  sid,       \* m_sessionId, 0 when unset
  key,       \* m_sessionKey, 0 when unset
  latch,     \* m_sessionClientPort and m_sessionClientIP
  tracking,  \* m_session_tracking_enabled: 0 off, 1 enabled, 2 locked on
  out,       \* the packets the last handler passed on, in order
  high,      \* history: 1 + the last position of each session passed on
  opened,    \* environment: sessions that have been opened
  sent,      \* environment: sequenced packets each session has sent
  top,       \* environment: 1 + the newest packet of each session captured
  handoffs   \* environment: how often the daemon has handed over

stream == <<exp, cache, sid, key, latch, tracking>>
env    == <<opened, sent, top, handoffs>>
vars   == <<stream, out, high, env>>

NoSession == 0
Clients   == {Owner[s] : s \in Sessions}

\* A sequenced packet (OP_Packet or OP_Oversized): its session, its position
\* in the session's send order, and whether it was unrolled from an OP_Combined.
Packet == [s : Sessions, n : Nat, sub : BOOLEAN]
Seq16(p) == p.n % SeqMod

\* hasCRC() is false for a subpacket; a top-level packet's CRC matches when it
\* was computed under the stream's current key.
CrcOk(p, k) == p.sub \/ p.s = k
-----------------------------------------------------------------------------
(* processPacket and processCache, as functions of the stream's state.     *)

\* setCache: a new entry, or a valid replacement of the entry with its number.
SetCache(c, p, k) ==
  IF Seq16(p) \in DOMAIN c /\ ~CrcOk(p, k)
  THEN c
  ELSE [q \in DOMAIN c \cup {Seq16(p)} |-> IF q = Seq16(p) THEN p ELSE c[q]]

\* processPacket of OP_Packet / OP_Oversized on st = [exp, cache, out]: the
\* expected packet is passed on, a future one is cached, a past one dropped.
ProcessPacket(st, p, k) ==
  CASE Seq16(p) = st.exp ->
         [st EXCEPT !.exp = Ahead(st.exp, 1), !.out = Append(st.out, p)]
    [] Seq16(p) # st.exp /\ IsFuture(Seq16(p), st.exp) ->
         [st EXCEPT !.cache = SetCache(st.cache, p, k)]
    [] OTHER -> st

\* Mutant: gives up one packet too late.
GivesUpOnLate(st, n) ==
  IF Cardinality(DOMAIN st.cache) > GiveUp
  THEN /\ Ahead(st.exp, n) \in DOMAIN st.cache
       /\ \A i \in 0 .. n - 1 : Ahead(st.exp, i) \notin DOMAIN st.cache
  ELSE n = 0

\* processCache, first half: with GiveUp entries waiting, step over the n
\* numbers that have no entry.
GivesUpOn(st, n) ==
  IF Cardinality(DOMAIN st.cache) >= GiveUp
  THEN /\ Ahead(st.exp, n) \in DOMAIN st.cache
       /\ \A i \in 0 .. n - 1 : Ahead(st.exp, i) \notin DOMAIN st.cache
  ELSE n = 0

\* Mutant: cached packets are not validated again.
GoodUnchecked(c, q, k) == q \in DOMAIN c

Good(c, q, k) == q \in DOMAIN c /\ CrcOk(c[q], k)

\* processCache, second half: exactly m consecutive entries from b on are
\* present and valid under key k.
ReadyRun(c, b, k, m) ==
  /\ \A i \in 0 .. m - 1 : Good(c, Ahead(b, i), k)
  /\ ~Good(c, Ahead(b, m), k)

\* What processCache leaves: the run is passed on and erased, and so is the
\* entry after it when that one is there with a bad CRC.
AfterCache(st, n, m) ==
  LET b == Ahead(st.exp, n)
  IN  [exp   |-> Ahead(b, m),
       cache |-> Restrict(st.cache,
                          DOMAIN st.cache \ {Ahead(b, i) : i \in 0 .. m}),
       out   |-> st.out \o [i \in 1 .. m |-> st.cache[Ahead(b, i - 1)]]]

\* Mutant: the cache is looked at only when it is full.
ProcessCacheWhenFull(st, k) ==
  IF Cardinality(DOMAIN st.cache) < GiveUp
  THEN exp' = st.exp /\ cache' = st.cache /\ out' = st.out
  ELSE \E n, m \in 0 .. SeqMod :
         /\ GivesUpOn(st, n)
         /\ ReadyRun(st.cache, Ahead(st.exp, n), k, m)
         /\ LET res == AfterCache(st, n, m)
            IN  exp' = res.exp /\ cache' = res.cache /\ out' = res.out

\* handlePacket's last step: processCache when the cache is not empty.  There
\* is exactly one n and one m.
ProcessCache(st, k) ==
  IF DOMAIN st.cache = {}
  THEN exp' = st.exp /\ cache' = st.cache /\ out' = st.out
  ELSE \E n, m \in 0 .. SeqMod :
         /\ GivesUpOn(st, n)
         /\ ReadyRun(st.cache, Ahead(st.exp, n), k, m)
         /\ LET res == AfterCache(st, n, m)
            IN  exp' = res.exp /\ cache' = res.cache /\ out' = res.out

Now == [exp |-> exp, cache |-> cache, out |-> <<>>]

\* Mutant: the latch is not checked.
LatchedNever(s) == TRUE

\* handlePacket's early returns: an uninitialised stream takes only handshakes,
\* a latched stream takes only its client's packets.
Latched(s)   == latch # NoClient => latch = Owner[s]
Accepts(s)   == key # 0 /\ Latched(s)
\* Mutant: the CRC of an arriving packet is not validated.
AcceptsCrcUnchecked(s) == Accepts(s)

\* ... and the CRC of a packet that has one must match.
AcceptsCrc(s) == Accepts(s) /\ s = key
-----------------------------------------------------------------------------
(* The environment: the sessions and the capture.                          *)

Init ==
  /\ exp = 0 /\ cache = <<>> /\ sid = NoSession /\ key = 0
  /\ latch = NoClient /\ tracking \in Settings
  /\ out = <<>>
  /\ high = [s \in Sessions |-> 0]
  /\ opened = {}
  /\ sent = [s \in Sessions |-> 0]
  /\ top = [s \in Sessions |-> 0]
  /\ handoffs = 0

\* A client opens its next session.
Open(s) ==
  /\ s \notin opened
  /\ \A t \in Sessions : t < s /\ Owner[t] = Owner[s] => t \in opened
  /\ opened' = opened \cup {s}
  /\ out' = <<>>
  /\ UNCHANGED <<stream, sent, top, handoffs>>

\* The peer sends the session's next sequenced packet: only in the client's
\* latest session, and not when the capture has missed MaxLoss in a row.
Send(s) ==
  /\ s \in opened /\ sent[s] < MaxSend
  /\ \A t \in opened : t > s => Owner[t] # Owner[s]
  /\ sent[s] - top[s] <= MaxLoss
  /\ sent' = [sent EXCEPT ![s] = @ + 1]
  /\ out' = <<>>
  /\ UNCHANGED <<stream, opened, top, handoffs>>

\* Packet n of session s can reach the capture now (again, or late).
Capturable(s, n) == s \in opened /\ n < sent[s] /\ n >= sent[s] - MaxLate - 1

Saw(s, n) == top' = [top EXCEPT ![s] = IF n >= @ THEN n + 1 ELSE @]
-----------------------------------------------------------------------------
(* The handlers.                                                           *)

\* handlePacket(OP_Packet or OP_Oversized at top level).
HandleSequenced(s, n) ==
  /\ Capturable(s, n)
  /\ Saw(s, n)
  /\ IF AcceptsCrc(s)
     THEN ProcessCache(ProcessPacket(Now, [s |-> s, n |-> n, sub |-> FALSE], key), key)
     ELSE exp' = exp /\ cache' = cache /\ out' = <<>>
  /\ UNCHANGED <<sid, key, latch, tracking, opened, sent, handoffs>>

\* handlePacket(OP_Combined) carrying two sequenced packets: both go through
\* processPacket before the one processCache call.
HandleCombined(s, n1, n2) ==
  /\ Bundling
  /\ Capturable(s, n1) /\ Capturable(s, n2)
  /\ Saw(s, IF n1 > n2 THEN n1 ELSE n2)
  /\ LET p1 == [s |-> s, n |-> n1, sub |-> TRUE]
         p2 == [s |-> s, n |-> n2, sub |-> TRUE]
     IN  IF AcceptsCrc(s)
         THEN ProcessCache(ProcessPacket(ProcessPacket(Now, p1, key), p2, key), key)
         ELSE exp' = exp /\ cache' = cache /\ out' = <<>>
  /\ UNCHANGED <<sid, key, latch, tracking, opened, sent, handoffs>>

\* handlePacket of a packet that carries no sequence number (app opcode,
\* OP_AppCombined, acks, statistics): it only triggers processCache.
HandleUnsequenced(s) ==
  /\ s \in opened
  /\ AcceptsCrc(s)
  /\ ProcessCache(Now, key)
  /\ UNCHANGED <<sid, key, latch, tracking, env>>

\* handlePacket(OP_SessionRequest), client to server: a fresh handshake, or a
\* repeat before the session carries data.  The cache keeps its entries.
HandleSessionRequest(s) ==
  /\ ~FromServer /\ s \in opened /\ sent[s] = 0
  /\ Latched(s)
  /\ sid' = s
  /\ latch' = IF tracking # 0 THEN Owner[s] ELSE latch
  /\ ProcessCache([Now EXCEPT !.exp = 0], key)
  /\ UNCHANGED <<key, tracking, env>>

\* handlePacket(OP_SessionResponse), server to client: the key is ours from
\* here on.  The zone server's answer locks tracking on its client.
HandleSessionResponse(s) ==
  /\ FromServer /\ s \in opened /\ sent[s] = 0
  /\ Latched(s)
  /\ sid' = s
  /\ key' = s
  /\ latch' = IF tracking # 0 THEN Owner[s] ELSE latch
  /\ tracking' = IF tracking = 0 THEN 0 ELSE IF ZoneStream THEN 2 ELSE 1
  /\ ProcessCache([Now EXCEPT !.exp = 0], s)
  /\ UNCHANGED env

\* handlePacket(OP_SessionDisconnect), which carries no CRC; the session id is
\* compared only when tracking is on.  On a global stream the closing signal
\* comes back through EQPacket::closeStream to close().
HandleSessionDisconnect(s) ==
  /\ s \in opened
  /\ Accepts(s)
  /\ tracking # 0 => sid = s
  /\ exp' = 0 /\ cache' = <<>> /\ out' = <<>>
  /\ latch' = IF tracking # 0 \/ Primary THEN NoClient ELSE latch
  /\ tracking' = IF tracking = 0 THEN 0 ELSE 1
  /\ sid' = IF Primary THEN NoSession ELSE sid
  /\ key' = IF Primary THEN 0 ELSE key
  /\ UNCHANGED env

\* Mutant: the session ids of the two streams are not compared.
ReceiveSessionKeyAny(s) ==
  /\ ~FromServer /\ s \in opened /\ sent[s] = 0
  /\ key' = s
  /\ out' = <<>>
  /\ UNCHANGED <<exp, cache, sid, latch, tracking, env>>

\* receiveSessionKey: the sibling stream saw the SessionResponse of session s.
ReceiveSessionKey(s) ==
  /\ ~FromServer /\ s \in opened /\ sent[s] = 0
  /\ sid = s
  /\ key' = s
  /\ out' = <<>>
  /\ UNCHANGED <<exp, cache, sid, latch, tracking, env>>

\* close(), called for a disconnect another global stream decoded.
Close(s) ==
  /\ Primary /\ s \in opened
  /\ sid = s
  /\ exp' = 0 /\ cache' = <<>> /\ out' = <<>>
  /\ sid' = NoSession /\ key' = 0 /\ latch' = NoClient
  /\ tracking' = IF tracking = 0 THEN 0 ELSE 1
  /\ UNCHANGED env

\* Mutant: the new process counts from the start.
HandOffCold ==
  /\ Primary /\ handoffs < MaxHandOffs
  /\ handoffs' = handoffs + 1
  /\ exp' = 0 /\ cache' = <<>> /\ out' = <<>>
  /\ tracking' = IF tracking = 0 THEN 0 ELSE 1
  /\ UNCHANGED <<sid, key, latch, opened, sent, top>>

\* SIGHUP: exportState in this process, importState in the one that replaces
\* it.  The handed-over record has no room for the cache, nor for the lock on
\* tracking.
HandOff ==
  /\ Primary /\ handoffs < MaxHandOffs
  /\ handoffs' = handoffs + 1
  /\ cache' = <<>> /\ out' = <<>>
  /\ tracking' = IF tracking = 0 THEN 0 ELSE 1
  /\ UNCHANGED <<exp, sid, key, latch, opened, sent, top>>

Positions == 0 .. MaxSend - 1

\* History: high follows what out has just passed on.
Record ==
  high' = [s \in Sessions |->
             IF \E i \in DOMAIN out' : out'[i].s = s
             THEN LET i == CHOOSE i \in DOMAIN out' :
                             /\ out'[i].s = s
                             /\ \A j \in DOMAIN out' : out'[j].s = s => j <= i
                  IN  out'[i].n + 1
             ELSE high[s]]

Handlers(s) ==
  \/ \E n \in Positions : HandleSequenced(s, n)
  \/ \E n1, n2 \in Positions : HandleCombined(s, n1, n2)
  \/ HandleUnsequenced(s)
  \/ HandleSessionRequest(s)
  \/ HandleSessionResponse(s)
  \/ HandleSessionDisconnect(s)
  \/ ReceiveSessionKey(s)
  \/ Close(s)

Next == /\ HandOff \/ \E s \in Sessions : Open(s) \/ Send(s) \/ Handlers(s)
        /\ Record

Spec == Init /\ [][Next]_vars
-----------------------------------------------------------------------------
(* Properties.                                                             *)

\* Types: the expected number and the cache keys are 16-bit numbers, every
\* cached packet is filed under its own sequence number (setCache).
TypeOK ==
  /\ exp \in SeqNums
  /\ DOMAIN cache \subseteq SeqNums
  /\ \A q \in DOMAIN cache : cache[q] \in Packet /\ Seq16(cache[q]) = q
  /\ sid \in Sessions \cup {NoSession} /\ key \in Sessions \cup {0}
  /\ latch \in Clients \cup {NoClient} /\ tracking \in 0 .. 2
  /\ opened \subseteq Sessions
  /\ sent \in [Sessions -> 0 .. MaxSend] /\ top \in [Sessions -> 0 .. MaxSend]
  /\ handoffs \in 0 .. MaxHandOffs

\* The packet the stream waits for is not one it holds.
ExpectedNotCached == exp \notin DOMAIN cache

\* Between two packets the stream never waits for a packet that is already
\* in its cache: whatever advanced or reset m_arqSeqExp, and in whatever
\* order, processCache has drained it (or dropped it for a bad CRC).
DrainInv == TypeOK /\ ExpectedNotCached

\* The cache is a bounded buffer: no handler leaves m_arqSeqGiveUp entries
\* behind, as long as no packet can cache two at once.
CacheBounded == ~Bundling => Cardinality(DOMAIN cache) < GiveUp

\* A packet of another session is never passed on: it is stopped by the CRC
\* on arrival, or by processCache's second CRC test when the key has changed
\* while it sat in the cache ("If the packet is for an old session, we
\* probably shouldn't be using it!").
OldSessionSilent == [][\A i \in DOMAIN out' : out'[i].s = key']_vars

\* First client wins: a latched stream never adopts another client's key.
LatchHolds ==
  [][latch # NoClient /\ key' # key /\ key' # 0 => Owner[key'] = latch]_vars

\* The newest packet of the current session is never thrown away: it is passed
\* on or kept for later.  The branch that drops a packet is meant for "Past
\* packet outside the cut off" only.
Kept(s, n) ==
  \/ \E i \in DOMAIN out' : out'[i].s = s /\ out'[i].n = n
  \/ \E q \in DOMAIN cache' : cache'[q].s = s /\ cache'[q].n = n
NewestIsKept ==
  [][\A s \in Sessions :
       key = s /\ top'[s] # top[s] => Kept(s, top'[s] - 1)]_vars

\* The contract of the stream towards its consumers.
Contract == INSTANCE OrderedDelivery WITH passed <- out
InOrder  == Contract!Spec
==============================================================================
