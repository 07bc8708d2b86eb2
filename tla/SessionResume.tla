---------------------------- MODULE SessionResume ----------------------------
(***************************************************************************)
(* One web client and the daemon's session layer (WsServer and             *)
(* SessionAdapter).  A session outlives its socket: the adapter keeps      *)
(* numbering what the state managers publish and keeps the recent          *)
(* envelopes in a ring, and a client that comes back with its session id   *)
(* and last sequence number is replayed what it missed.  A detached        *)
(* session is pruned by a timer; a client may be back before the server    *)
(* has noticed that its old socket is dead.                                *)
(*                                                                         *)
(* Sockets are numbered by the client's connections.  A connection opens   *)
(* at most one session, so its number also stands for the id the server    *)
(* would generate for it and, as "inc", for the adapter built for it: an   *)
(* id can name two adapters one after the other.  The envelopes that carry *)
(* no spawns (statistics, group, preferences, chat) only take a sequence   *)
(* number.  "truth" in an envelope is history: the state it was made from, *)
(* which no client sees.                                                   *)
(***************************************************************************)
EXTENDS Integers, Sequences, SequencesExt

CONSTANTS
  Spawns,     \* what the shared SpawnShell may hold
  RingCap,    \* kMaxEntries
  MaxConns,   \* bound: connections the client makes
  MaxEvents   \* bound: signals of the managers, and refreshes asked for

ASSUME ResumeAssumption ==
  /\ RingCap \in Nat \ {0}
  /\ MaxConns \in Nat /\ MaxEvents \in Nat

VARIABLES
  spawns,    \* the managers' state
  clock,     \* events so far
  sessions,  \* m_sessions: id -> adapter, with the socket it is attached to
  hellos,    \* sockets in m_pending, with the Subscribe on its way
  made,      \* connections made so far
  conn,      \* the client's connection, 0: none
  down,      \* envelopes on their way to the client on it
  dead,      \* connections the client lost and the server still holds
  client     \* the client: its id and last number, its view, what it knows

server == <<sessions, hellos>>
vars   == <<spawns, clock, sessions, hellos, made, conn, down, dead, client>>

Ids   == 1 .. MaxConns
Kinds == {"snapshot", "added", "removed", "other"}

Init ==
  /\ spawns = {} /\ clock = 0
  /\ sessions = <<>> /\ hellos = {}
  /\ made = 0 /\ conn = 0 /\ down = <<>> /\ dead = {}
  /\ client = [sid |-> 0, last |-> 0, view |-> {}, gap |-> FALSE,
               base |-> 0, inc |-> 0, truth |-> {}]

-----------------------------------------------------------------------------
(* SessionAdapter.                                                         *)

\* The next envelope of adapter a, about state s.
Envelope(a, kind, x, s) ==
  [seq |-> a.seq + 1, sid |-> a.sid, inc |-> a.inc,
   kind |-> kind, item |-> x, truth |-> s]

\* Mutant: aged envelopes are not dropped.
LatestUncapped(ring, n) == ring

\* The last n entries: what the thirty seconds and the cap leave of the ring.
Latest(ring, n) ==
  SubSeq(ring, IF Len(ring) > n THEN Len(ring) - n + 1 ELSE 1, Len(ring))

\* Mutant: emitEnvelope is skipped while the adapter is detached.
EmitAttachedOnly(a, env, n) ==
  IF a.sock = 0 THEN a ELSE [a EXCEPT !.seq = @ + 1, !.ring = Latest(Append(@, env), n)]

\* emitEnvelope: number it, keep it, drop the aged ones.
Emit(a, env, n) == [a EXCEPT !.seq = @ + 1, !.ring = Latest(Append(@, env), n)]

\* m_sink: the socket's if there is one, else the sink that swallows.
Send(a, envs) == IF a.sock = conn /\ conn # 0 THEN down \o envs ELSE down

\* The entries from position i on.
From(ring, i) == SubSeq(ring, i, Len(ring))

\* Mutant: replaySince takes the last number the client has for one it lacks.
ReplayFromLast(a, last) ==
  From(a.ring, Cardinality({i \in DOMAIN a.ring : a.ring[i].seq < last}) + 1)

\* Mutant: resumeSession swaps the sink and replays nothing.
ReplayNothing(a, last) == <<>>

\* replaySince skips what the client has.  The ring is numbered upwards, so that
\* is its beginning.
Replay(a, last) ==
  From(a.ring, Cardinality({i \in DOMAIN a.ring : a.ring[i].seq <= last}) + 1)

\* The sessions whose sink is the client's socket.
Attached == {id \in DOMAIN sessions : conn # 0 /\ sessions[id].sock = conn}

\* Every adapter of D emits an envelope about the new state.
EmitAll(D, kind, x, s) ==
  LET env(id) == Envelope(sessions[id], kind, x, s) IN
  /\ \E n \in [D -> 1 .. RingCap] :
       sessions' = [id \in DOMAIN sessions |->
                      IF id \in D THEN Emit(sessions[id], env(id), n[id]) ELSE sessions[id]]
  /\ down' = down \o SetToSeq({env(id) : id \in D \cap Attached})

\* onAddItem and onDelItem, from the one SpawnShell to every adapter.
Publish(x) ==
  /\ clock < MaxEvents
  /\ clock' = clock + 1
  /\ spawns' = IF x \in spawns THEN spawns \ {x} ELSE spawns \cup {x}
  /\ EmitAll(DOMAIN sessions, IF x \in spawns THEN "removed" ELSE "added", x, spawns')
  /\ UNCHANGED <<hellos, made, conn, dead, client>>

\* What the other managers say: chat, statistics, buffs, preferences.
Tell ==
  /\ clock < MaxEvents
  /\ clock' = clock + 1
  /\ EmitAll(DOMAIN sessions, "other", 0, spawns)
  /\ UNCHANGED <<spawns, hellos, made, conn, dead, client>>

\* onPlayerIdChanged and onZoneChanged: a new Snapshot on every session.
Resnapshot ==
  /\ clock < MaxEvents
  /\ clock' = clock + 1
  /\ EmitAll(DOMAIN sessions, "snapshot", 0, spawns)
  /\ UNCHANGED <<spawns, hellos, made, conn, dead, client>>

\* SetActiveBox of the box already active: a Snapshot for this session only.
Refresh ==
  /\ clock < MaxEvents /\ Attached # {}
  /\ clock' = clock + 1
  /\ EmitAll(Attached, "snapshot", 0, spawns)
  /\ UNCHANGED <<spawns, hellos, made, conn, dead, client>>

-----------------------------------------------------------------------------
(* WsServer.                                                               *)

\* onPendingFirstBinary, resumed: the sink is swapped, what was missed sent.
Resume(hello) ==
  LET s == sessions[hello.sid] IN
  /\ hello.sid \in DOMAIN sessions
  /\ s.sock = 0
  /\ sessions' = [sessions EXCEPT ![hello.sid].sock = hello.conn]
  /\ down' = IF hello.conn = conn THEN down \o Replay(s, hello.last) ELSE down

\* The id of a fresh session: the client's own unless it is empty or taken.
FreshId(hello) ==
  IF hello.sid = 0 \/ hello.sid \in DOMAIN sessions THEN hello.conn ELSE hello.sid

\* onPendingFirstBinary, fresh: attachNewSession, then startStreaming.
Attach(hello) ==
  LET id  == FreshId(hello)
      new == [sid |-> id, inc |-> hello.conn, seq |-> 0, ring |-> <<>>, sock |-> hello.conn]
      env == Envelope(new, "snapshot", 0, spawns)
  IN /\ hello.sid \in DOMAIN sessions => sessions[hello.sid].sock # 0
     /\ sessions' = [i \in DOMAIN sessions \cup {id} |->
                       IF i = id THEN Emit(new, env, RingCap) ELSE sessions[i]]
     /\ down' = Send(new, <<env>>)

OnHello(hello) ==
  /\ hello \in hellos
  /\ hellos' = hellos \ {hello}
  /\ Resume(hello) \/ Attach(hello)
  /\ UNCHANGED <<spawns, clock, made, conn, dead, client>>

\* onSocketDisconnected of connection k: the session is detached, its timer runs.
SocketGone(k) ==
  /\ k \in dead
  /\ dead' = dead \ {k}
  /\ hellos' = {h \in hellos : h.conn # k}
  /\ sessions' = [id \in DOMAIN sessions |->
                    [sessions[id] EXCEPT !.sock = IF @ = k THEN 0 ELSE @]]
  /\ UNCHANGED <<spawns, clock, made, conn, down, client>>

\* Mutant: pruneSession does not look whether the session has been resumed.
PruneAttached(id) ==
  /\ id \in DOMAIN sessions
  /\ sessions' = [i \in DOMAIN sessions \ {id} |-> sessions[i]]
  /\ UNCHANGED <<spawns, clock, hellos, made, conn, down, dead, client>>

\* pruneSession, when the timer fires; resumeSession stops the timer.
Prune(id) ==
  /\ id \in DOMAIN sessions
  /\ sessions[id].sock = 0
  /\ sessions' = [i \in DOMAIN sessions \ {id} |-> sessions[i]]
  /\ UNCHANGED <<spawns, clock, hellos, made, conn, down, dead, client>>

\* The daemon stops and starts again: nothing of this is on disk.
Restart ==
  /\ sessions # <<>>
  /\ conn = 0
  /\ sessions' = <<>> /\ hellos' = {} /\ dead' = {} /\ spawns' = {}
  /\ UNCHANGED <<clock, made, conn, down, client>>

-----------------------------------------------------------------------------
(* The client.                                                             *)

\* It connects and sends its Subscribe.
Connect ==
  /\ conn = 0 /\ made < MaxConns
  /\ made' = made + 1
  /\ conn' = made + 1
  /\ hellos' = hellos \cup {[conn |-> made + 1, sid |-> client.sid, last |-> client.last]}
  /\ UNCHANGED <<spawns, clock, sessions, down, dead, client>>

\* It loses the connection, and what was on its way with it.
Drop ==
  /\ conn # 0 /\ made < MaxConns
  /\ conn' = 0
  /\ down' = <<>>
  /\ dead' = dead \cup {conn}
  /\ UNCHANGED <<spawns, clock, sessions, hellos, made, client>>

\* The view after an envelope.
Applied(view, env) ==
  CASE env.kind = "snapshot" -> env.truth
    [] env.kind = "added"    -> view \cup {env.item}
    [] env.kind = "removed"  -> view \ {env.item}
    [] env.kind = "other"    -> view

\* It applies an envelope; a number that does not follow the last is a gap,
\* which a Snapshot mends.
Deliver ==
  /\ down # <<>>
  /\ down' = Tail(down)
  /\ LET env == Head(down)  snap == env.kind = "snapshot" IN
     client' = [sid   |-> IF snap THEN env.sid ELSE client.sid,
                last  |-> env.seq,
                view  |-> Applied(client.view, env),
                gap   |-> ~snap /\ (client.gap \/ env.seq # client.last + 1),
                base  |-> IF snap THEN env.inc ELSE client.base,
                inc   |-> env.inc,
                truth |-> env.truth]
  /\ UNCHANGED <<spawns, clock, sessions, hellos, made, conn, dead>>

Next ==
  \/ \E x \in Spawns : Publish(x)
  \/ Tell \/ Resnapshot \/ Refresh
  \/ \E hello \in hellos : OnHello(hello)
  \/ \E k \in dead : SocketGone(k)
  \/ \E id \in DOMAIN sessions : Prune(id)
  \/ Restart
  \/ Connect \/ Drop \/ Deliver

\* The event loop gets to a message that has arrived, and a client that lost
\* its connection tries again.  Nothing is assumed of the timer or of how soon
\* the server notices a dead socket.
Fairness ==
  /\ WF_vars(Connect) /\ WF_vars(Deliver)
  /\ WF_vars(\E hello \in hellos : OnHello(hello))

Spec == Init /\ [][Next]_vars /\ Fairness

-----------------------------------------------------------------------------
(* Properties.                                                             *)

Envelopes ==
  {env \in [seq : 1 .. (MaxEvents + 1), sid : Ids, inc : Ids, kind : Kinds,
            item : Spawns \cup {0}, truth : SUBSET Spawns] :
     env.kind \in {"added", "removed"} => env.item \in Spawns}

\* The ring of adapter a holds its last envelopes, without a hole, up to the
\* number given last (emitEnvelope).
RingOk(a) ==
  /\ Len(a.ring) \in 1 .. RingCap
  /\ \A i \in DOMAIN a.ring : /\ a.ring[i] \in Envelopes
                              /\ a.ring[i].seq = a.seq - Len(a.ring) + i
                              /\ a.ring[i].inc = a.inc

\* The type invariant; emitEnvelope is what keeps the rings in shape.
TypeOK ==
  /\ spawns \subseteq Spawns /\ clock \in 0 .. MaxEvents
  /\ made \in 0 .. MaxConns /\ conn \in {0, made} /\ dead \subseteq (1 .. made) \ {conn}
  /\ \A h \in hellos : /\ h.conn \in (dead \cup {conn}) \ {0}
                       /\ h.sid \in Ids \cup {0} /\ h.last \in 0 .. MaxEvents + 1
  /\ \A i \in DOMAIN down : down[i] \in Envelopes
  /\ DOMAIN sessions \subseteq Ids
  /\ \A id \in DOMAIN sessions :
       /\ sessions[id].sid = id
       /\ sessions[id].sock \in dead \cup {0, conn}
       /\ RingOk(sessions[id])
  /\ client.view \subseteq Spawns

\* A client that has seen no gap, and whose envelopes all come from the adapter
\* its Snapshot came from, shows the state its last envelope was made from:
\* through drops, replays, and swaps of the sink under a running adapter
\* nothing is lost, doubled or applied out of order (replaySince, setSink).
InSync ==
  (~client.gap /\ client.inc = client.base) => client.view = client.truth

\* The same, and no ring has a hole.
ClientOK == TypeOK /\ InSync

\* A client whose Subscribe has been read stays attached to exactly one session
\* until it drops: neither an old socket noticed late nor the timer of its
\* first detachment takes the session away (onSocketDisconnected, pruneSession).
Served ==
  (conn # 0 /\ \A h \in hellos : h.conn # conn)
     => \E id \in DOMAIN sessions : Attached = {id}

\* No envelope of one adapter is applied twice (replaySince, onPendingFirstBinary).
NoRepeat ==
  [][ Deliver /\ Head(down).inc = client.inc => client'.last > client.last ]_vars

\* The adapter behind the client's socket is not the one its view comes from.
Misled == \E id \in Attached : sessions[id].inc # client.base

\* When the changes end, the client shows the managers' state for good, unless
\* it knows of a gap or resumed another adapter than its own.
CatchesUp == <>[](client.view = spawns \/ client.gap \/ Misled)
=============================================================================
