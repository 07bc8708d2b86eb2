# scry-cpp in TLA+

`scryd` (the repository this directory belongs to) listens to the UDP traffic
between an EverQuest client and its servers, rebuilds the sequenced streams it
is not a party to, decodes them into the state of a zone, and streams that
state to web clients. It runs beside clients it cannot ask anything: a packet
the capture missed is gone, a session it came late to is followed from the
middle, several clients behind one address share the wire.

These modules model the parts of the daemon where an order of events nobody
wrote a test for can go wrong. Lines and file names refer to `src/src/`.

- [1. The system](#1-the-system)
- [2. Modules](#2-modules)
- [3. What the runs show](#3-what-the-runs-show)
- [4. What is proved](#4-what-is-proved)
- [5. Assumptions](#5-assumptions)
- [6. Where the code and its comments disagree](#6-where-the-code-and-its-comments-disagree)
- [7. What is not modelled, and the plan](#7-what-is-not-modelled-and-the-plan)

To check a run: `tlc -config <Name>.cfg MC<Module>.tla`; to check the proofs:
`tlapm <Name>Proofs.tla`.

## 1. The system

The daemon has one event loop (Qt) on the main thread, on which everything is
decoded and served. The only other threads are the capture threads. Everything
but the capture is therefore a matter of the *order* of handlers, not of the
interleaving of their statements, and a handler is one action in the models.

```
 capture thread ──queue──▶ EQPacket::dispatchPacket ──▶ 4 global + per-box EQPacketStreams
                                │    ▲                        │ in order
                     BoxRegistry◀────┘ ZoneServerObserver     ▼
                          │                        fragments ─▶ opcode handlers (back ends)
                          ▼                                        │ signals
             DaemonApp (sweep, wiring)              SpawnShell, Player, ZoneMgr, SpellShell ...
                          │                                        │ signals
                          └──────────▶ WsServer / SessionAdapter ◀─┘ ──ws──▶ web clients
```

| part (files) | state it keeps | operations | talks to | what is hard about it | what makes it correct |
|---|---|---|---|---|---|
| Packet sources (`packetcapture*`, `remotecapture`, `vpacket`, timer slots of `packet.cpp`) | queue and its flags under a mutex, `m_stop`, `m_sock`, pcap handle; the playback buffer | start, stop, enqueue, drain, connect/reconnect, end of file, change of device | `dispatchPacket`, `playbackFinished` | two threads; a stop that meets the reader anywhere | nothing lost or doubled, `stop()` returns, a replay of a file that can be read ends once, whole |
| Dispatch and zone demultiplexing (`packet.cpp`, `zoneserverobserver.cpp`) | per box: expected port, binding to a 5-tuple, stamps | world, zone and announcement packets | BoxRegistry, per-box streams | zone packets carry no identity; two clients of one host zone at once; late packets | a session is decoded by its own box and by one only |
| `EQPacketStream` (`packetstream.cpp`) | expected number, cache of early packets, session id, key, client latch | handshakes, sequenced, combined and other packets, disconnect, close | fragments, opcode handlers, the sibling stream | loss, repetition, reordering, numbers that wrap, sessions that follow and overlap one another | order, at most once, one session at a time, bounded cache |
| `EQPacketFragmentSequence` (`packetfragment.cpp`) | buffer, fill, declared total | reset, addFragment | opcode handlers | nothing marks a message's first fragment; gaps shift everything | no append past the buffer; exact while nothing is missed |
| `BoxRegistry`, `NamePromoter` | boxes, characters' rows, active id | observe, promote, set active, evict | DaemonApp, WsServer | ids that change under a viewer; boxes freed by a timer while pointers to them are kept | no dangling pointer; the viewed id always resolves; the newest session wins |
| `WsServer`, `SessionAdapter` | sessions by id, pending sockets, per session: number, ring, sink | hello, resume, detach, prune, publish, snapshot | the managers, web clients | reconnects that race timers and dead sockets; ids reused | the client's view follows; nothing twice; always attached |
| `DaemonApp` (`daemonapp.cpp`, `main.cpp`) | what it built; timers | construction, wiring, sweep, map packages, SIGHUP hand-off | everything | order of wiring | its registry callbacks are part of BoxRegistry; the rest is I/O |
| Stream hand-off (`packet.cpp`, `packetstream.cpp`) | a file of stream state | export, import | the next daemon process | what the record leaves out: early packets, unfinished messages | the new process goes on where the old one stopped |
| `SpawnShell`, `Spawn`, `Player` | spawns, drops, doors by id, the ring of deleted ids, the player's id and identity | zone, spawn, move, die, rename, remove | SessionAdapter, GroupMgr | ids reused after zoning, the player's own records, packets of the former zone | the player is no mob of its own list; the client follows |
| `SpawnMonitor` | spawn points and candidates by place, the zone's name, a modified flag, `<zone>.sp` and its backup | pop, promote, kill, rename, change of zone, save, load | SpawnShell, ZoneMgr, SessionAdapter | it hears only some of the signals; ids reused; crashes inside a save; a skipped save | what was learnt reaches its zone's file; the file is never lost; no countdown for a live mob |
| `ZoneMgr`, `DateTimeMgr`, `ZoneServerMgr` | zone, zoning flag | zone entry, change, new zone | SpawnShell, Player, SessionAdapter | the zone's name, its spawns and the player's id come in an order of their own | each id or zone leaves the client with the new zone |
| `SpellShell`, `Spells` | the player's buffs, the effects on mobs, one timer | action, single buff, list, kill, removal, zone, tick | SpawnShell, Player, SessionAdapter | three sources for one buff; the player's id changes; one timer for two lists | the timer runs while there is something to count; one effect once; a list replaces the panel |
| `GroupMgr` | names and spawn pointers of the members | join, leave, disband, roster | SpawnShell, Player | pointers to spawns that another manager frees | no pointer to a freed spawn; the roster survives zoning |
| `Guild`, `GuildShell` | roster | roster, tags | SpawnShell | - | - |
| `MessageShell`, `Messages`, filters of messages | recent messages | append | SessionAdapter | none: no order matters beyond the envelope numbers | - |
| Filters, categories, preferences | rules, files | edit, save, reload | SessionAdapter | edits against reloads | planned in part |
| `ItemCache` | items by id, the worn set | learn, persist | SessionAdapter | - | planned |
| `protoencoder`, `packetformat`, `netstream` | none | conversions | - | pure data | - |
| Back ends (`backend/eql`, `backend/live`, the Rust decoders) | opcode tables | decode | the managers | pure data | - |
| Packet logs, maps, statistics, utilities | files | write, draw, format | - | - | - |

## 2. Modules

| module | models | built on |
|---|---|---|
| `ArqWindow` | the 16-bit sequence arithmetic and the past/future window test | - |
| `PacketStream` | one `EQPacketStream` | extends `ArqWindow`; implements `OrderedDelivery` |
| `OrderedDelivery` | what a stream promises its consumers (abstract) | - |
| `Fragments` | `EQPacketFragmentSequence` and its use by OP_Oversized | its environment is what `OrderedDelivery` allows |
| `BoxRegistry` | the registry, both naming paths, the sweep | - |
| `ZoneRouting` | the zone branch of `dispatchPacket`, the lookups, the observer | a view of the same boxes, as far as bindings go |
| `Capture` | both capture threads, recordings, the timer slots, `stop()` | - |
| `Zone` | ZoneMgr, Player, SpawnShell, GroupMgr and what SessionAdapter tells one client, on both back ends | finer than the set of spawns in `SessionResume` |
| `SpawnMonitor` | spawn points, their files, crashes, the hand-off | hears `SpawnShell`'s signals as free events |
| `SpellShell` | buffs, effects, their timer, on both back ends | the player's id and the spawns as far as buffs read them |
| `SessionResume` | `WsServer`, `SessionAdapter`, one client | takes the managers as one set that changes |
| `MC*` | instances for TLC | their module |
| `StreamProofs` | theorems and proofs | `PacketStream` (with `ArqWindow` and `OrderedDelivery`) and `Fragments` |
| the other `*Proofs` | theorems and proofs | their module |

The parts meet in this order: `Capture` decides what reaches dispatch and in
which order; `ZoneRouting` decides which stream a packet reaches; `PacketStream`
turns what may be late, repeated or lost into `OrderedDelivery`; `Fragments`
assumes exactly that. `BoxRegistry` and `ZoneRouting` split one C++ class: what
a *binding* is and what a *name* is never read each other, and both contain
observe and evict.

### PacketStream

A packet is its session and its position in that session's send order; the
number on the wire is the position mod `SeqMod`. The sender and the capture are
environment actions: `Open` (a client opens its next session), `Send`; a
handler action takes any captured packet that is not more than `MaxLate` late,
any number of times. `HandleSequenced`, `HandleCombined`, `HandleUnsequenced`,
`HandleSessionRequest`, `HandleSessionResponse`, `HandleSessionDisconnect` are
the cases of `handlePacket`, each with its early returns and the `processCache`
call that ends it; `ReceiveSessionKey` and `Close` are the slots the sibling
stream and `closeStream` call. `processCache` is stated by what it does: with
the cache full it steps over the `n` missing numbers (`GivesUpOn`), then passes
on the run of `m` valid entries (`ReadyRun`), and drops the entry after the run
if its CRC is bad (`AfterCache`); `n` and `m` are unique. `m_arqSeqFound` and
`m_maxLength`, which nothing reads back, are left out. `HandOff` is SIGHUP: the new
process has the expected number, the key, the session and the latch of the old one,
and an empty cache (`exportState` has no field for it), and tracks a stream if its own
settings say so.

### Fragments

(Its initial states, steps and type invariant are called `FragmentInit` and so on, so
that one module of proofs can extend both sides of the stream.)
A fragment is number `i` of message `m`, with the length that `Size`, `Mtu` and
`LenField` give it. `Refuse`, `Start`, `Extend`, `Abandon` are the branches of
`addFragment`, each followed by `Settle`: `isComplete`, dispatch, reset. `Miss`
is a fragment the stream gave up on, `Cut` a session that ends mid-message, with
or without the close that empties the buffer. A continuation read as a first
fragment declares some number of `Claims`, and what it then copies is its own length
less four bytes (`FirstCopy`, with the code's unsigned arithmetic, mod `Word`): no line
checks that against the buffer. `overran` is history, set by such a copy that is longer
than the allocation; the behaviour of the daemon is undefined from there, it may end at
once or go on as modelled.

### BoxRegistry

A `Box*` is the number of its observation; numbers are never reused, so that a
kept pointer to a freed box shows. Time is the order of first sightings
(`first`) and one flag, `silent` (past the time-to-live). `EnterWorld` is
`NamePromoter`'s path, `Profile` is `DaemonApp`'s name sources with
`promoteByName` and `onPromoted`; `Evict` is the sweep.

### ZoneRouting

A zone session is a number that stands for its whole 5-tuple. `Announce`,
`Connect` and `Zone` are what the game clients do, each with or without being
captured; `Dispatch` is `pickBox`'s three lookups and what they write. Stamps
are ranks, ages are three classes (inside the binding window, past it, past the
time-to-live). What can go wrong is enumerated and named (`Mishaps`), and `calm`
remembers whether any of it did.

### Capture

Each step is one access to what the two threads share. The reader's locations
follow `pcap_loop` with its callback or `RemoteCaptureThread::run`; the loop's
follow the timer slots and `stop()`. The socket is `sock` (what `m_sock` shows)
and `shut` (whether the open connection was shut down), because `stop()` loads
the one and then acts on the other. `ReadFails` is `pcap_loop` giving up on a device or
on a file that is truncated or corrupt: it returns -1, the thread ends, and no end of
file is signalled; `failed` remembers it.

### Zone

Packets are dispatched one at a time and Qt runs the slots of a signal at once, in
the order they were connected, so that an action of `Zone` is a packet and what its
signals do is composed of operators on the state `s`: `SetPlayerID`, for instance, is
`PlayerChangedID` (SpawnShell, with the `DeleteSpawn` and `DeletePlayer` that tell
GroupMgr and the client), then the client's `Snapshot`, then a changeItem. `Live` and
`Eql` hold the handlers of one back end, `Shared` those of both, `NewWorld` among
them: every world connection after the first, of this character as it zones or of
another client of the host, empties the one set of managers (`onBoxCreated`). On eql
the new connection has a dispatcher of its own, whose tracker starts afresh; the packets
that follow are taken to be all its own or all the former's.

A spawn is a name and a kind at its id; a member's pointer is the id it points to, or
says that the object was taken from the map (`Left`; `deleteItem` does not free it) or
freed (`Freed`; `clear` does). The client is the set of ids it shows, the player's id
and zone it was told, and the zone of the last Snapshot. The Rust tracker that knows
the player's records on eql is external (`tracker`, and the choices in `Spawn` and
`SelfReport`), and so is the client's rule that a ZoneChanged of another zone empties
its view. Left out: handlers that change only position, level, health, appearance or
statistics; filters; the group's counters, which are only dumped.

### SpawnMonitor

A place is a key; a candidate or a point remembers the id of its last mob, and for its
death time and its cycle what they were measured from: a kill, or the moment the file
was loaded. A zone's files are the content of `<zone>.sp` and whether a backup exists
(nothing reads what is in it, nor the `.new`); `ClearBackup`, `ToBackup`, `Promote` are
the calls of `saveSpawnPoints` in their order, and `Crash` leaves the files after any of
them. Any one call of a save may fail (`fault`: the opening of the new file, the removal
of the old backup, either rename), and so may the opening of a file that is there to be
loaded (`opens`); `Faults` are those of the calls that are made. The code takes a failed
opening for a save that is still to come, warns of a failed rename and clears
`m_modified` all the same, and takes a file it cannot open for none. `Pop`,
`Die` and `Depart` are free: SpawnShell gives an id out again once it holds no mob or
corpse of it. `ZoneBegin` is every signal that empties SpawnShell and that the monitor
does not hear. `learnt`, `saved` and `slipped` are history: the last says that
`m_modified` is clear after a save that broke or a load that failed.

### SpellShell

The two lists are sets of entries. An entry has the spell, the target it is filed under,
the name (panel) or the caster (effects), and the ticks left. `pc` is what SpellShell
reads of Player: id, name, the name of the profile, and whether the default name is
shown. `SelfId`, `NewWorld`, `SelfDie`, `ProfileEql`, `ZoneChangeLive`,
`ZonePlayerLive` are the packets that change it, with what SpellShell hears of each;
`Action`, `Buff`, `BuffFade`, `BuffListPanel`, `BuffListMob`, `BuffListNone` are its own
packets. A list without a record is none (`BuffListNone`: `buffList` returns at once); one
whose records are of empty slots only lists nothing, and empties the panel. Where
the code takes the first entry that fits, the model takes any. `m_lastPlayerSpell` is
only ever reset, and `simpleMessage` and `spellMessage` act only on it or are not
connected, so that they change nothing.

### SessionResume

Sockets are numbered; a connection's number also stands for the id the server
would generate and for the adapter built for it (`inc`), so that one id can name
two adapters one after the other. `Publish`, `Tell`, `Resnapshot`, `Refresh` are
what adapters emit; `OnHello` is `onPendingFirstBinary` with `Resume` and
`Attach`; `SocketGone`, `Prune`, `Restart` the server's side of failure;
`Connect`, `Drop`, `Deliver` the client, which is not part of the repository and
is modelled from what the protocol says of it.

## 3. What the runs show

Twelve runs; eleven pass, one shows that a comment of the code is not true of it
(section 6).

| run | states | question |
|---|---|---|
| `arqwrap` | 21,840 | One session with losses, repeats, reordering and a hand-off, across the wrap of the numbers: order, at most once, bounded cache, newest packet never dropped as past |
| `streamsessions` | 153,432 | Three sessions of two clients on a server stream, tracking on or off, a hand-off at any moment: no packet of an old session, no other client's key, order per session |
| `clientbundled` | 228,671 | A client stream, whose key comes from its sibling, with OP_Combined: never waits for what it holds, latch holds |
| `fragments` | 11,296 | Five messages with gaps, misread length fields and cut sessions: no append passes the buffer, only the copy of a misread first fragment can, and everything is exact while nothing is missed |
| `boxregistry` | 358,705 | Three 5-tuples reused by four boxes, two names: pointers live, viewed id resolves, newest session stays |
| `zonerouting` | 884,605 | Two boxes of one host, three sessions to one port, all mishaps: one decoder per session, no theft, and each its own in calm weather |
| `sessionresume` | 908,676 | Three connections, three events, a ring of two, drops, prunes, restarts: the view follows, nothing twice, always attached, catches up |
| `zone` | 535,349 | Six packets from the daemon's start on either back end, two ids, two zones, a group member, a client: no freed pointer, the player is no mob, the client follows every change and is repaired by every new id or zone, the roster survives and re-attaches |
| `capture` | 24,148 | The four packet sources, three packets, two device changes, files and devices that fail: nothing lost, stop returns, a replay ends once and whole unless its file cannot be read |
| `spawnmonitor` | 839,556 | Two zones, two places, two ids, four pops, renames, crashes, quits, hand-offs, and saves and loads of which any call fails: nothing learnt is lost but by a fault, the flag is honest but after one, a whole copy survives all of them, no live mob counts down |
| `spellshell` | 353,761 | Five packets on two ids and two spells, on either back end: the timer runs for the panel, no effect twice, casts of the present id stay whatever the lists say, a list with a record replaces the panel, all runs out |
| `deadspawn` | violation | a late position update brings a deleted spawn back |

### Bounds, and why they are enough

- **ArqWrap** `SeqMod = 37, WrapCutoff = 18, GiveUp = 3, MaxSend = 40, MaxLate = 3,
  MaxLoss = 2, MaxHandOffs = 1`. The window arithmetic needs `2 * WrapCutoff < SeqMod`
  and nothing else of 65536 and 1024; 37 and 18 are the tightest such pair of this
  size. `MaxSend > SeqMod` makes the numbers wrap under traffic. `GiveUp * (MaxLoss +
  1) = 9` is how far the give-up rule lets the stream lag behind the newest packet; a
  hand-off drops the cache and lets it lag that far once more, and `WrapCutoff` is
  just those 18: with one loss more the stream falls out of its window (section 6). Section 4 has the
  exact condition, `KeepsUp`; here it is `14 < 18`.
- **StreamSessions, ClientBundled** `SeqMod = 9, WrapCutoff = 4, GiveUp = 2`,
  three sessions, two clients, three packets each. Three sessions give every
  pair that matters: overlapping sessions of two clients, and a session that
  follows another of the same client, whose leftovers wait in the cache. Two
  cached packets reach the give-up rule. One hand-off, at any moment.
- **Fragments** sizes 13, 7, 6, 9, 4 with packets of four bytes and a length field of
  two: messages of two to four fragments, last packets full and not, one shorter than a
  length field; the first message grows the buffer past the later ones. `Cap = 16`,
  `Claims = {0, 1, 3, 8, 15, 17}`: refused as empty, too small for the copy that follows,
  shorter than the buffer, longer than it, above the cap. `Word = 64` stands for 2^32, so
  that a last fragment shorter than a length field copies nearly `Word` bytes.
- **BoxRegistry** three 5-tuples, four boxes (one tuple is used twice), two names,
  ties of the first-seen time allowed.
- **ZoneRouting** two boxes of one host and one server port are the hardest case:
  more ports or hosts only separate the boxes. Three sessions let a box zone twice
  while the other zones once.
- **Capture** three packets (a packet in the reader's hand, one in the queue, one
  decoded), two changes of the device, so that one can follow the other before
  its packets are decoded. The recording has records of 5, 2 and 2 units and a
  fourth cut short, read through a buffer of 6: one record larger than half the
  buffer, two that fit together, one that never completes.
- **Zone** two ids, one other name, two zones, a group of one peer, a ring of two, and
  six packets or subscriptions from the start of the daemon. What is looked for is
  short: a spawn, the player's id on it, a re-entry, the id again is four packets; a
  member, its spawn, a deletion, a clear and its spawn again is five. Ids and zones
  are symmetric. The constraint `Apart` drops states with both a client and a group,
  because GroupMgr's slots and the client's never read each other.
- **SpawnMonitor** two places and two ids are what a confusion of places takes; four
  pops promote both, or promote one and see it again after a restart. Two zones give
  every way out of one and back. One call at most fails in each save and one in each
  load, in as many of them as there are. Places are symmetric, and so are zones.
- **SpellShell** one spell others can cast and one of target type self, two ids (the
  player's old and new, or the player and a mob), one character (a second is only
  another profile), one tick, five packets. The shortest ways to two entries of one
  spell, to a stopped timer or to an entry under a former id take three or four.
- **SessionResume** two spawns, a ring of two, three connections, three events:
  the ring can age what a client missed, an id can be resumed, pruned, given away
  and resumed again. `CHECK_DEADLOCK FALSE` here and in `ZoneRouting` because
  connections, events and sessions are used up, and in `Zone` and `SpellShell` because
  packets are counted; in every other run a state without a step would be reported.

### Fairness

Only three specifications assume any.

- `Capture`: weak fairness of `ReaderRuns`, the steps the capture thread takes
  without waiting for a packet or an agent (a thread the system schedules; a
  `connect` ends by the kernel's timeout), and of `LoopRuns`, what the event loop
  does by itself once a slot runs. Not of `PcapRead` on a device, of `RecvFrame`,
  of a timer start, of a quit. `StopReturns` therefore holds though the agent and
  the wire may stay silent for good: that is what the shutdown of the socket and
  the break flag are for.
- `SessionResume`: weak fairness of `Connect`, `Deliver` and of reading a
  Subscribe. Nothing of the prune timer, nor of how soon the server notices a
  dead socket; the events end because they are bounded, which is what "when the
  changes end" in `CatchesUp` means.

- `SpellShell`: weak fairness of `Timeout`, a QTimer that runs and the event loop that
  serves it. The packets end by the bound, which is what "when no more packets come"
  in `BuffsRunOut` means.

### Properties

Each is stated above its definition. `OrderedDelivery` is checked as a property
of `PacketStream` (`InOrder`, a refinement with `passed <- out`). Some deserve
a word here.

The part `EachItsOwn` of `RoutedOK` is stated for `calm` behaviours: every
announcement captured, the clients of one host zone one at a time, no packet of the session just left
arrives after the announcement to the same port, no box freed. Each of these
four conditions is needed; with any of them dropped TLC finds a session decoded
by another's stream, or lost. `Exclusive` and `NotStolen` need none of them.

The part `InSync` of `ClientOK` is stated for a client that has seen no gap and whose
envelopes all come from the adapter of its Snapshot; without the second condition it
fails (section 6).

The type invariant of a module is a conjunct of the invariant its run checks first
(`DrainInv`, `BufferSound`, `RegistryOK`, `RoutedOK`, `StopOK`, `PointersOK`,
`ClientOK`, `RecordsOK`, `PanelOK`), next to what the module must keep together:
the expected packet is never in the cache, the fill is within the buffer (but where
`overran` says that the copy of a first fragment has passed it), no pointer is to a
freed box, and so on.

`FlagHonest` and `PlaybackEnds` except what the code does not do (section 6): the flag
is clear over another file after a rename that failed in a save or a file that could not
be opened in a load, until a point changes (`slipped`), and a replay whose file cannot be
read to its end does not end (`failed`). `Recoverable` and `NoFalseCountdown` need no
such exception. `NothingLost` is about what no fault has cost: `Forget` takes from
`learnt` what a crash, a failed save or an unreadable file left nowhere.

`OwnCastsStay` is about all casts of the player, under the id it has and those it had. A
mob's list takes only the latter, which the code's comment does not expect (section 6).

`NoFalseCountdown` is about kills only. A countdown that starts at the loading of a file
is an estimate, for a mob that may be up (section 6).

`StaysInSync` and `Resyncs` divide the truth about the client's view. Every packet
keeps a view that is exact exact, but for those that empty the shell or take the
player's id (`Unannounced`: nothing is sent then) and while two items share an id
(`Distinct`: the client keeps one item per id). `Resyncs` has no such condition:
when the player gets an id, or the zone becomes another, the view is exact again.

## 4. What is proved

`tlapm` proves the following for every value of the constants that satisfies the
named assumptions of the modules.

| module | theorem | property |
|---|---|---|
| `StreamProofs`, of the stream | `NeverWaitsForCached`, `CacheStaysBounded`, `OldSessionsStaySilent`, `FirstClientWins`, `WindowSound` | `DrainInv`, `CacheBounded` and `OldSessionSilent` (both without bundling), `LatchHolds`; the window test against its meaning |
| | `DeliversInOrder`, `KeepsTheNewest` | `InOrder` (the refinement of `OrderedDelivery`), `NewestIsKept`; on a global server stream, without bundling, under `KeepsUp` |
| `StreamProofs`, of the fragments | `BufferIsSound`, `DispatchesWhole` | `BufferSound`, `WholeMessages` |
| `BoxRegistryProofs` | `PointersLive`, `ViewedResolves`, `SessionsGoForward` | `RegistryOK`, `ActiveResolves`, `NeverGoesBack` |
| `ZoneRoutingProofs` | `OneDecoder`, `BoundStays`, `RoutesItsOwn` | `Exclusive`, `NotStolen`, `RoutedOK` |
| `CaptureProofs` | `ReplayComplete`, `StopIsSafe`, `NothingLost` | `FinishedWhole`, `StopOK`, `NoLoss` |
| `ZoneProofs` | `NoMemberDangles`, `PlayerIsNoMob`, `RosterOutlivesZones`, `ClientResyncs`, `ClientFollows` | `PointersOK`, `NeverAMob`, `RosterKept`, `Resyncs`, `StaysInSync` |
| `SessionResumeProofs` | `ShowsWhatItWasTold`, `StaysServed`, `NeverTwice` | `ClientOK`, `Served`, `NoRepeat` |
| `SpawnMonitorProofs` | `OneRecordPerPlace`, `FlagIsHonest`, `LearntIsKept`, `CopySurvives`, `CountdownsAreTrue` | `RecordsOK`, `FlagHonest`, `NothingLost`, `Recoverable`, `NoFalseCountdown` |
| `SpellShellProofs` | `PanelCountsDown`, `EffectsAreOne`, `CastsStay`, `PanelIsTheList` | `PanelOK`, `OneEffect`, `OwnCastsStay`, `ListIsPanel` |

**PacketStream.** `ExpectedNotCached` is inductive only with the typing of the
cache: `processCache` ends with `m` maximal, so that the entry at the new expected
number is missing or bad, and a bad one is erased. That every handler, whatever it
did to the expected number before, ends in `processCache` is the whole argument;
the proof shows it once for `ProcessCache` and then per handler. `CacheBounded`
needs more: below `GiveUp` entries one `setCache` adds at most one, and at `GiveUp`
the give-up step makes `m >= 1`, so that at least one entry leaves. It is false with
bundling, where one packet may add two entries before the one `processCache`.
`OldSessionSilent` rests on every packet passed on having been checked against the
key of that very step, on arrival or in `ReadyRun`. `LatchHolds` carries the
invariant that a client stream's session id belongs to the latched client, since the
key arrives later than the latch.

*Order.* `InOrder` is the refinement, so the proof shows that each step is one of
`OrderedDelivery` or leaves its variables alone. Three facts carry it. First, numbers
stand for positions as long as the position meant is within the window of the expected
one (`SeqDistinct`, `Classified`), however often they have wrapped. Second, the stream
keeps its place (`Tracks`): it waits for some position `pos`, everything held of the
session is beyond it, and from some `base` on nothing that was captured was dropped, so
that of every `MaxLoss + 1` positions from there one is held. As fewer than `GiveUp` are
held, the newest is at most `Lag == (GiveUp - 1) * (MaxLoss + 1)` beyond `base`, and each
hand-off, which drops the cache, puts at most that much between `pos` and `base`. Third,
therefore, the stream stays within its window under `KeepsUp`: `MaxLate < WrapCutoff`,
and `(MaxHandOffs + 1) * Lag + MaxLoss < WrapCutoff` or no session is longer than the
window. `NewestIsKept` follows from the same place. With the code's 512 and 1024 the
condition allows one packet missed in a row and no hand-off (1023), or none missed and
one hand-off (1022); the assumption is about the network and the settings, not about
the program, and beyond it the stream can lose its place (section 6).

**Fragments.** `total <= alloc <= Cap` is inductive, and so is that the fill is within
the allocation unless `overran`: every append is tested, and the one copy that is not is
that of a continuation taken for a first fragment, which a clean stream never has
(`BufferOK`, `overran => ~clean`). `WholeMessages` rests on `InStep`, inductive together with it (`InStepInv`): which fragments the buffer
holds in terms of the fragment expected next, and that the declared total is the size of
the message being sent. The arithmetic is about the last fragment: it completes the
message and no other does.

**BoxRegistry.** `RegInv` says that live boxes carry numbers no larger than `seen`, that
rows point to live boxes, that the primary is never freed, and that
an active id is resolved by a box or by a row; `Profile` and `Evict` are the two
actions where the parts need one another. `NeverGoesBack` is about one step: whatever
re-points a row compares first sightings before it does.

**ZoneRouting.** `Exclusive` holds because a lookup by a known 5-tuple precedes
the two that bind, and they choose only boxes that are unbound. The invariant adds
that bindings are to sessions that exist and that a freed box is unbound. `RoutedOK`
needs what a box is told and what its client is up to in one formula (`AtHome`, while
`calm`): a box decodes its client's session or none, a client about to zone goes to the
port its box expects, and no two unbound boxes of a host expect the same port, so that
the lookup by port has one answer and it is the right one. It also needs that stamps stay
a ranking (`Ranked`: distinct, and gap-free at the top), since the stamps of the model
are renumbered where the code's grow.

**Capture.** `ReplayComplete` goes through the order of the pipe: what was decoded,
then the queue, then the packet in hand is always the sequence of the packets read
(`ListInv`, `OrderInv`); `m_offline_eof` means that all packets were read and none is in
hand (`FileInv`), so that with the queue empty all were decoded. The order of the tests
(end of file first, then the list) does not matter for it, but that both are looked
at does. For a recording the end of the file means that every record fits what was
read, by the layout assumptions on `End`. `StopIsSafe` rests on the handle being
closed only after the join. `NoLoss` takes that the thread has a packet in hand only
between reading and enqueueing it, that the queue is closed while `stop()` waits, and
that what a device's thread and queue hold was read since its last start (`PipeInv`).

**Zone.** The invariant is the type of each part of the managers' record, with the
group's pointers typed so that none is to a freed object, and on eql that the player is
no spawn and that the client's zone is that of its last Snapshot (`Level`; without it a
NewZone of the zone last shown could empty the view and send no Snapshot). Actions are
compositions of operators on that record, and so is the argument: a lemma per operator
says which parts it leaves alone and what it does to the others (`AddedIs`, `DeleteSpawnIs`,
`ClearIs`, `SetPlayerIDIs`, ...), and a few relations between the states before and after
a packet say what the properties need. `Mild` is the strongest, and most packets are:
the roster is the same and new spawns are joined to it, a new id of the player has no
spawn and is followed by a Snapshot, and a client that held what the managers did
(`Holds`, while ids are `Apart`) still does. The packets about the group are `Mild` but
for the roster, those of `Unannounced` but for the client. That the group stays within
its slots is counted: those kept and those who take the free slots.

**SessionResume.** `ClientOK` needs the history of every envelope that may still reach
the client, in a ring or on its way: of two consecutive numbers of one adapter the later
is about the state that applying it to the earlier one's gives, and the newest about the
managers' (`HistoryInv`). Then a replay that starts after the client's number continues
its view; one that cannot is seen by the client as a gap in the numbers, or begins with a
Snapshot. `Served` and `NoRepeat` need the sockets
(`SocketInv`: a connection has one session or a Subscribe not yet read, and numbers of
connections to come are used nowhere) and the streams (`StreamInv`: what is on its way
is of the session attached to the client's socket). `Replay` is written with the number
of entries the client has seen; `ReplayIsTheScan`, which TLC evaluates, says that this is
the code's scan of the ring.

**SpawnMonitor.** The five properties are proved together, with one more part
(`LastSeen`: a point remembers the mob that popped there last, or none), because each
needs others. Zoning without a save loses nothing only because a clear flag means that
the file already holds the points; the flag stays honest only because what is loaded is
what was stored (`LoadedBack`: storing what a file loads gives the file back); and a
crash keeps a copy because each step of the save either leaves `<zone>.sp` or has the
backup already (`CrashKeepsCopy`). A save of which a call fails leaves the files as some
crash of it would (`FailedIsInterrupted`), so that it keeps a copy too; that its flag is
clear all the same is what `slipped` carries, into `FlagHonest` and, by way of `Failing`,
into what may be lost when memory is dropped. `NoFalseCountdown` follows from `LastSeen`: a kill
restarts the point whose last mob has the id that died, and if the newest mob of that
place is alive, it is another id.

**SpellShell.** `PanelOK` is inductive: whatever appends to the panel starts the timer,
and whatever stops it has just seen the panel empty, or has emptied it. The converse, for
the effects, is false: `deleteSpell` stops the timer when the panel is empty and effects
are left (section 6). `OneEffect` needs that an effect is appended only where
`findEffect` found none, for each of the spells of one list, and that a changed id of the
player does not re-file effects. `OwnCastsStay` goes through every operation on the
effects: each keeps an entry for the player's cast (`Still`) or is one of the excepted
steps, and a mob's list keeps all it does not reap (`BuffListMobLeaves`). `ListIsPanel`
is about what one list that holds a record leaves, whatever the panel held.

Only model-checked: the liveness properties `StopReturns`, `PlaybackEnds`, `CatchesUp`
and `BuffsRunOut`. Liveness under fairness and ENABLED are out of the prover's reach, and
so is induction over data; the modules with proofs therefore have no RECURSIVE operators.
Every invariant and every action property that a passing run checks is also a theorem.

## 5. Assumptions

- **PacketStream.** A handshake packet is repeated only before its session carries
  data. A captured packet is at most `MaxLate` late, and the capture misses at most
  `MaxLoss` of the newest packets in a row. Keys of sessions differ and CRCs do not
  collide. An opcode wrapped in OP_Packet is part of the packet's identity.
- **Fragments.** A message fits the cap and does not fit one packet. What a
  continuation declares when it is read as a first fragment is any of `Claims`, also when
  it is too short to hold a length field and the read goes past its end.
- **BoxRegistry.** Clock times are used only in comparisons, so their order and one
  cutoff are kept.
- **ZoneRouting.** Client ports are fresh for every session; the zone servers are on
  the subnet the code requires; stamps of two boxes differ; a client in a zone is
  heard within the time-to-live; the client of a freed box keeps to its zone.
- **Capture.** The daemon plays recordings at speed 0 (nothing in it calls
  `setPlayback`). Only frames of the agent are modelled. A descriptor number is used
  again by the next connection.
- **Zone.** One client, which keeps items by id and empties its view when it is told of
  another zone. A corpse's name is like no other; names with and without their digits
  are one name. The tracker adopts or swallows every record with the player's name,
  swallows only after it has adopted one, and takes an id from a report only while it
  knows none. After a new world connection the packets come from one of the two only, so
  that one tracker is enough. `createUnknownSpawns` keeps its default. There are finitely many names of
  characters (a roster is counted).
- **SpawnMonitor.** One call of a save fails at most; a rename to a target that exists
  fails (Qt's rule). What is written to the new file reaches it: the code looks at no
  write's result. Two names that differ in case only are one zone. `setPersist` is on: a
  replay neither saves nor loads.
- **SpellShell.** A spell's duration does not change with the level. A list names a spell
  once, and may leave casts of the player out. A spawn with the character's name is the character.
- **SessionResume.** One client; envelopes without spawns only take a number; how
  much of the ring has aged is a free choice per adapter; the managers are wired
  before the server listens.

## 6. Where the code and its comments disagree

One run expects a violation:

- `spawnshell.cpp:1108` says of a deleted spawn that the daemon "shouldn't see new
  position updates" and ignores them; `deleteSpawn` stores the first id at index 1
  (it advances the position first, line 1550), while the search looks at the indices
  below the count: until the ring of 50 is full the id deleted last is never found,
  and a late update of it makes an unknown spawn that nothing removes. (`deadspawn`)

Found while modelling, without a run of their own:

- `spellshell.cpp:388` says that "Player-cast records keep casterId == the player so the
  reap below leaves them to action()/the timer". The reap (line 430) compares with the id
  the player has now: after a death, or a new id, a mob's list takes the casts made under
  the former one. The last alternative of `OwnCastsStay` is this case: cast on a mob, die,
  and let the mob's list come without the spell.
- `spellshell.cpp:509` says that the player's list "is authoritative" and that "nothing
  else removes" a buff that has dropped; line 374 returns from a list without a record,
  which it does not tell from one that cannot be decoded: if the last buff drops with such
  a list, the panel keeps it until its time is up, and for good if it is permanent.
- `saveSpawnPoints` only warns when a rename fails (`spawnmonitor.cpp:403-415`), and clears
  `m_modified` in every case: the points stay in `<zone>.sp.new`, which nothing reads, and
  no save is due until a point changes; if the daemon leaves the zone or quits before that,
  they are lost. The same holds when the old backup cannot be removed. `loadSpawnPoints`
  takes a file it cannot open for none (445-449): the zone begins without points, and the
  next save replaces the file.
- `PacketCaptureThread::loop` signals the end of a recording only when `pcap_loop` returns
  0 (`packetcapture.cpp:272`). A truncated or corrupt file ends it with -1: the thread
  ends, `playbackFinished` does not come, and a daemon that was started to play the file
  and quit waits.
- `packetfragment.cpp:152` copies the rest of a first fragment without a look at what it
  declares. A continuation taken for one, after a gap, may declare less than it carries:
  the copy then passes the buffer, by up to 2^32 - 1 bytes when the fragment is shorter
  than a length field. The comment at 168 has the daemon survive a sequence that lost its
  place; the test it explains is that of the appends.

- `packetstream.cpp:356` says of a cached packet "If the packet is for an old
  session, we probably shouldn't be using it!"; a packet unrolled from an OP_Combined
  has no CRC to tell it by, and the handshake keeps the cache, so that such a packet is
  passed on in the next session. `OldSessionSilent` therefore excludes bundling.
- With OP_Combined, a sub-packet that is the expected one while a repeat of it is
  cached is passed on at once and its copy stays in the cache: it counts for the give-up
  rule and is passed on again once the numbers have wrapped. `InOrder` and `CacheBounded`
  are checked without bundling.
- A hand-off does not carry the early packets, the fragment buffer, nor the lock on
  `tracking`; the stream steps over what it dropped by the give-up rule.
- `sessionadapter.h:296` says a quick reconnect replays "without losing intermediate
  events"; an unknown id is taken over by a fresh adapter that numbers from 1
  (`wsserver.cpp:178`), and a client that lost its connection before the Snapshot of it
  resumes with the old number: the Snapshot is skipped, and the client shows a state the
  daemon never had and sees no gap.
- `spawnmonitor.cpp:471` says the first observed kill replaces the time a loaded point
  starts to count from; `update` (line 110) takes any: a mob that pops before it is seen
  to die, as every mob that is up at zone-in does, sets the cycle to the time since
  loading, and that is saved over the respawn time learnt.
- On eql the monitor never hears of a zone (`zoneResolved` is not among its signals), so
  that its zone's name stays empty and every save is refused; `sessionadapter.cpp:234`
  says of a rename that it survives a crash of the daemon. After a hand-off the name is
  set once, and the points of later zones go into that zone's file.
- A crash between the two renames leaves only the backup, which nothing reads; the
  zone's next save removes it.
- `zoneEnd` lower-cases the name it keeps and `zoneChanged` does not; between a camp and
  the next login spawns count for the zone left.
- `deleteSpell` stops the one timer when the panel is empty, whatever effects remain; they
  then stand still until something starts it.
- On eql effects survive a change of the zone (the comment at `spellshell.cpp:726` says
  they do not), the player's own death does not clear its buffs, and neither does a change
  of the character.
- A self-only spell in a mob's list is filed under target 0: it is appended again by each
  list and never reaped. A mob's list that comes before its spawn is known goes to the
  player's panel, and so does any OP_Buff near the player while its id is not known.
- An entry that OP_Buff made has the name "N/A", so that the sweep of former ids
  (`spellshell.cpp:456`) does not find it when the list names the spell again: both show
  until the older runs out. On Live an entry without a target is not found by OP_Buff
  after zoning, and is shown twice.
- `calcDuration` returns 65535 for formula 50, "as close to permanent as I can get", in an
  `int16_t`: it is -1, and the spell is not shown. A permanent buff that is refreshed by
  OP_Buff stays permanent.
- `group.cpp:296` and 310 count members in and out by names that may not match; the
  counters drift.

- `packetfragment.cpp:175` says the buffer is not grown so that the fill cannot pass
  the total; the test (line 164) is against an allocation that an earlier, longer
  message may have left larger: a sequence that lost its place fills past its total.
- `boxregistry.cpp:154` says "freeing a stale session never orphans a character that
  still has a live one"; it does, when the newest session is the silent one.
- `eqldispatch.h:134` says m_awaitingRespawnFromId keeps the dead body's id from being
  adopted again; it is set (lines 426, 468) and never read.
- A spawn known by its id keeps its first name in `upsertSpawn`: a recycled id without
  a deletion in between shows the new spawn under the old name.
- `zoneNew` resolves an unknown zone without telling the client, and `playerChangedID`
  gives the player the name "unknown" when the spawn that stood for it was made by a
  position update.
- After `zoneChanged` the player answers to its default name, so that a roster broadcast
  that comes before its profile takes the player in as its own peer.
- **Give-up against window.** The stream is sure to stay within its window only while
  `(MaxHandOffs + 1) * (GiveUp - 1) * (MaxLoss + 1) + MaxLoss < WrapCutoff` (section 4).
  With the defaults 512 and 1024 that is one packet missed in a row for each packet
  cached; a longer pattern of losses makes a *new* packet a "past" one
  (`packetstream.cpp:888`), and the stream is deaf until the numbers come round.
- **Client streams and per-box streams.** `InOrder` holds on the global server
  streams. On a client stream the expected number restarts at the SessionRequest while
  the key changes at the SessionResponse (`packetstream.cpp:1053`): repeats of the old
  session pass the CRC in between. On a per-box stream a disconnect keeps key and
  session id (`packetstream.cpp:1183`), because `closeStream` reaches only the four
  global streams. Nothing in the code promises otherwise.
- `packetfragment.cpp:174` says the next first fragment re-aligns the sequence; when the
  fragment that overran was itself the first of the next message, that message is lost
  too and its second fragment is read as a first.
- `boxregistry.h:117` describes ATTACHED as the state of a session that feeds a
  character; `NamePromoter`'s path names a box without setting it.
- A rename of the primary (`daemonapp.cpp:755`, every session's profile promotes the
  primary) leaves the former character's row pointing at the primary, which is
  now named otherwise, against `boxregistry.h:111`; `currentBoxFor` of the former
  character then streams the other one.
- `zoneserverobserver.cpp:47` says the box is once again awaiting a SessionRequest; a
  late packet of the session just left, to the same port, binds it again.
- Zone traffic whose announcement was missed is bound by world recency
  (`packet.cpp:980`); the comment accepts a mistake for two boxes zoning at once, but a
  box zoning alone can lose its session to an idle unbound one heard later. A box
  whose zone packets are dropped is not stamped and is freed while it plays.
- `sessionadapter.cpp:130` resets the "warned" flag with the next accepted message; the
  comment says the warning is sent once per session.
- The back-off of the agent's thread reaches 8000 ms, above the 5000 ms its constant
  names.
- A throttled or paused recording ends early (`packet.cpp:622` takes Playback's 0 for a
  drained source), and `stop()` would wait for ever for a paused replay
  (`packetcapture.cpp:341`); neither is reachable in the daemon. A recording of another
  version stops without `playbackFinished`, so that the daemon does not quit.
- `RemoteCaptureThread::start` keeps the packets queued before a change of the device;
  `PacketCaptureThread::start` forgets them.

## 7. What is not modelled, and the plan

The hazards in `PROJECT.json` that no property covers carry a note that says why. In
short: bytes and formats (`protoencoder`, `packetformat`, back ends), files (logs, maps,
preferences on disk) and rates have no control to model; the pace of a replay is
unreachable.

1. **Done**: streams with the hand-off (`ArqWindow`, `PacketStream`, `OrderedDelivery`),
   fragments, registry, routing, sessions, capture, the zone's managers, spawn points,
   buffs; theorems about each.
2. **Client commands**: edits of filters and preferences against reload and save,
   `ItemCache`; the rest of the hand-off (zone, spawns, player) as a step of `Zone`.
3. **Composition**: `SessionResume`'s set of spawns as the abstraction of `Zone`'s.
4. **Proofs**: every safety property of a passing run is proved; what is left is that
   the composition of item 3 is a refinement.

Left out of modelled parts: `deleteSpawnPoint` (nothing calls it), the selection and the
pop counts of `SpawnMonitor`; a hand-off before the first zone is named; in `Zone` packets
of two world connections in turn; the rate limiter of client commands.

Of the roughly 124,000 lines of source 72,000 are `staticspells.h`, a table, and most of
the remaining ones are structures of packets, opcode tables, formatting, maps and tests:
they have no control of their own, and the share of the source that the map can name is
small for that reason.
