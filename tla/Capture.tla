------------------------------- MODULE Capture -------------------------------
(***************************************************************************)
(* Where EQPacket's packets come from: a network device or a pcap file     *)
(* read by a PacketCaptureThread, a remote agent read by a                 *)
(* RemoteCaptureThread, or a recording read by the event loop itself       *)
(* (VPacket).  A capture thread appends to the queue of its provider under *)
(* the mutex; a timer of the event loop drains it; stop() closes the       *)
(* queue, breaks the thread out of its read and joins it.                  *)
(*                                                                         *)
(* Two processes: the event loop (`loop`) and the capture thread           *)
(* (`reader`).  Each step is one access to what they share: the queue and  *)
(* its flags under m_pcache_mutex, the atomics m_stop and m_sock, the      *)
(* break flag and the handle of libpcap.  Packets are numbered as the      *)
(* source gives them.  One connection to the agent is open at a time, and  *)
(* a descriptor number is used again by the next one, so a shutdown(fd)    *)
(* that comes late hits whatever connection is open then.                  *)
(*                                                                         *)
(* Left out: the pace of a throttled replay (the daemon always plays at    *)
(* speed 0), record checks and messages of the agent that carry no frame,  *)
(* the lengths of the agent's back-off.                                    *)
(***************************************************************************)
EXTENDS Naturals, Sequences, SequencesExt

CONSTANTS
  Sources,      \* of {"device", "agent", "pcap", "vpk"}
  Packets,      \* bound: packets of the source; a file has exactly these
  MaxRestarts,  \* bound: changes of the device
  Buffer,       \* VPacket's buffer, in units of a file
  Header,       \* sizeof(packet_struct)
  FileEnd,      \* length of a recording
  End           \* record -> where it ends; record Packets + 1 is cut short

Kinds == {"device", "agent", "pcap", "vpk"}

ASSUME CaptureAssumption ==
  /\ Sources \subseteq Kinds
  /\ Packets \in Nat /\ MaxRestarts \in Nat
  /\ Buffer \in Nat /\ Header \in Nat /\ FileEnd \in Nat
  /\ End \in [0 .. Packets + 1 -> Nat]
  /\ End[0] = 0 /\ End[Packets] <= FileEnd /\ FileEnd < End[Packets + 1]
  /\ \A i \in 1 .. Packets : End[i] <= End[i - 1] + Buffer
  /\ \A i, j \in 0 .. Packets : i < j => End[i] + Header < End[j]

VARIABLES
  source,    \* what the constructor chose
  read,      \* packets the reader has taken from the source
  queue,     \* the packetCache list
  closed,    \* m_pcache_closed
  eof,       \* m_offline_eof, m_bEndofFile
  reader,    \* where the capture thread is
  hand,      \* the packet it is about to enqueue, 0: none
  halt,      \* libpcap's break flag, m_stop
  handle,    \* the pcap_t is open
  sock,      \* m_sock holds a descriptor
  shut,      \* the connection was shut down
  loop,      \* where the event loop is
  fd,        \* stop()'s copy of m_sock
  timer,     \* m_timer: "new", "on", "off"
  ending,    \* stop() comes from the destructor
  restarts,  \* device changes so far
  since,     \* packets read before the capture was last started
  filled,    \* units VPacket has read from the recording
  foreign,   \* the record of another PACKETVERSION, 0: none
  failed,    \* history: pcap_loop returned an error
  out,       \* packets passed to dispatchPacket
  finished   \* times playbackFinished was emitted, at most 2 counted

cache  == <<queue, closed, eof>>
thread == <<read, reader, hand>>
link   == <<halt, handle, sock, shut, fd>>
file   == <<filled, foreign, failed>>
app    == <<timer, ending, restarts, since, finished>>
vars   == <<source, cache, thread, link, file, app, loop, out>>

Upto(n) == [i \in 1 .. n |-> i]

\* Where a capture thread of each kind begins.
Begin == [device |-> "wait", pcap |-> "wait", agent |-> "connect", vpk |-> "exited"]

Init ==
  /\ source \in Sources
  /\ read = 0 /\ queue = <<>> /\ hand = 0
  /\ closed = (source = "vpk") /\ eof = FALSE
  /\ reader = Begin[source]
  /\ halt = FALSE /\ handle = (source \in {"device", "pcap"})
  /\ sock = FALSE /\ shut = FALSE /\ fd = FALSE
  /\ filled = 0 /\ foreign \in (IF source = "vpk" THEN 0 .. Packets ELSE {0})
  /\ failed = FALSE
  /\ timer = "new" /\ ending = FALSE
  /\ restarts = 0 /\ since = 0
  /\ loop = "idle" /\ out = <<>> /\ finished = 0
-----------------------------------------------------------------------------
(* The capture thread: pcap_loop and its callback.                          *)

Captured ==
  /\ read < Packets
  /\ read' = read + 1 /\ hand' = read + 1 /\ reader' = "held"

\* A packet of the device or the file reaches packetCallBack.
PcapRead ==
  /\ reader = "wait" /\ ~halt /\ Captured
  /\ UNCHANGED <<source, cache, link, file, app, loop, out>>

\* Mutant: the list keeps its old tail when it becomes empty.
EnqueueAfterOldTail ==
  /\ reader = "held"
  /\ queue' = IF closed \/ (queue = <<>> /\ out # <<>>) THEN queue ELSE Append(queue, hand)
  /\ hand' = 0
  /\ reader' = IF source = "agent" THEN "check" ELSE "wait"
  /\ UNCHANGED <<source, closed, eof, read, link, file, app, loop, out>>

\* The packet joins the list unless the cache is closed.
Enqueue ==
  /\ reader = "held"
  /\ queue' = IF closed THEN queue ELSE Append(queue, hand)
  /\ hand' = 0
  /\ reader' = IF source = "agent" THEN "check" ELSE "wait"
  /\ UNCHANGED <<source, closed, eof, read, link, file, app, loop, out>>

\* pcap_loop returns 0 at the end of a file.
FileExhausted ==
  /\ reader = "wait" /\ source = "pcap" /\ read = Packets
  /\ reader' = "ended"
  /\ UNCHANGED <<source, cache, read, hand, link, file, app, loop, out>>

\* Mutant: the end of the file is not reported.
SignalOfflineEofNever ==
  /\ reader = "ended" /\ reader' = "exited"
  /\ UNCHANGED <<source, cache, read, hand, link, file, app, loop, out>>

SignalOfflineEof ==
  /\ reader = "ended"
  /\ eof' = TRUE /\ reader' = "exited"
  /\ UNCHANGED <<source, queue, closed, read, hand, link, file, app, loop, out>>

\* pcap_loop is broken.
PcapBroken ==
  /\ reader = "wait" /\ halt
  /\ reader' = "exited"
  /\ UNCHANGED <<source, cache, read, hand, link, file, app, loop, out>>

\* pcap_loop returns -1: the device went away, or the file is truncated or
\* corrupt at this place.  The thread ends and says nothing.
ReadFails ==
  /\ reader = "wait" /\ source \in {"device", "pcap"}
  /\ reader' = "exited" /\ failed' = TRUE
  /\ UNCHANGED <<source, cache, read, hand, link, filled, foreign, app, loop, out>>
-----------------------------------------------------------------------------
(* The capture thread: RemoteCaptureThread::run.                            *)

Goes(from, to) ==
  /\ reader = from /\ reader' = to
  /\ UNCHANGED <<source, cache, read, hand, file, app, loop, out>>

Stoppable(from, else) ==
  Goes(from, IF halt THEN "exited" ELSE else) /\ UNCHANGED link

\* The thread has a connection open.
Connected == source = "agent" /\ reader \in {"linked", "check", "recv", "held", "drop"}

\* connectToAgent succeeds, or fails and is tried again after a pause.
Dial == Goes("connect", "linked") /\ shut' = FALSE /\ UNCHANGED <<halt, handle, sock, fd>>
DialFails == Stoppable("connect", "sleep")
Wake == Stoppable("sleep", "connect")

\* Mutant: m_sock is not stored before the handshake is read.
PublishLate == Goes("linked", "check") /\ UNCHANGED link

\* m_sock.store(fd) comes before the first look at m_stop.
Publish == Goes("linked", "check") /\ sock' = TRUE /\ UNCHANGED <<halt, handle, shut, fd>>

\* readFull and sendClientHello look at m_stop, then may block.
Look == Goes("check", IF halt THEN "drop" ELSE "recv") /\ UNCHANGED link

RecvFrame ==
  /\ reader = "recv" /\ ~shut /\ Captured
  /\ UNCHANGED <<source, cache, link, file, app, loop, out>>

\* The agent closes or breaks the link.
RecvGone == Goes("recv", "drop") /\ ~shut /\ UNCHANGED link

\* stop() shut the connection down.
RecvShut == Goes("recv", "drop") /\ shut /\ UNCHANGED link

\* The link is closed; the thread ends or comes back after a pause.
Drop ==
  /\ Goes("drop", IF halt THEN "exited" ELSE "sleep")
  /\ sock' = FALSE /\ UNCHANGED <<halt, handle, shut, fd>>
-----------------------------------------------------------------------------
(* The event loop: the timer and its slots.                                 *)

LoopGoes(from, to) == loop = from /\ loop' = to

\* The timer is started, with --wait-for-client once a client subscribed.
StartTimer ==
  /\ loop = "idle" /\ timer = "new"
  /\ timer' = "on"
  /\ UNCHANGED <<source, cache, thread, link, file, ending, restarts, since, finished, loop, out>>

Tick ==
  /\ timer = "on"
  /\ LoopGoes("idle", IF source = "vpk" THEN "play" ELSE "drain")
  /\ UNCHANGED <<source, cache, thread, link, file, app, out>>

\* getPacket unlinks the head of the list, dispatchPacket decodes it.
DrainOne ==
  /\ loop = "drain" /\ queue # <<>>
  /\ queue' = Tail(queue) /\ out' = Append(out, Head(queue))
  /\ UNCHANGED <<source, closed, eof, thread, link, file, app, loop>>

\* The list is empty: a live source waits for the next tick.
DrainDone ==
  /\ queue = <<>>
  /\ LoopGoes("drain", IF source = "pcap" THEN "check" ELSE "idle")
  /\ UNCHANGED <<source, cache, thread, link, file, app, out>>

\* Playback is over: the timer stops, playbackFinished is emitted.
Finish(over) ==
  /\ timer' = IF over THEN "off" ELSE timer
  /\ finished' = IF over /\ finished < 2 THEN finished + 1 ELSE finished
  /\ UNCHANGED <<ending, restarts, since>>

\* Mutant: the end of the file alone ends the playback.
CheckCompleteEofOnly ==
  /\ LoopGoes("check", "idle")
  /\ Finish(eof)
  /\ UNCHANGED <<source, cache, thread, link, file, out>>

\* offlinePlaybackComplete: the end of the file, and an empty list.
CheckComplete ==
  /\ LoopGoes("check", "idle")
  /\ Finish(eof /\ queue = <<>>)
  /\ UNCHANGED <<source, cache, thread, link, file, out>>
-----------------------------------------------------------------------------
(* The event loop: processPlaybackPackets and VPacket.                      *)

NextRecord == Len(out) + 1
Buffered(n) == n - End[Len(out)]

Ready(n) == Buffered(n) > Header /\ End[NextRecord] <= n

\* Mutant: a read counts as full.
FilledAnyway == IF eof \/ Ready(filled) THEN filled ELSE End[Len(out)] + Buffer

\* fillBuffer tops the buffer up unless the end was met.
Filled == IF eof \/ Ready(filled) THEN filled
          ELSE IF End[Len(out)] + Buffer < FileEnd THEN End[Len(out)] + Buffer ELSE FileEnd

\* A read shorter than asked for is taken for the end of the file.
EndMet == eof \/ (~Ready(filled) /\ End[Len(out)] + Buffer > FileEnd)

\* Mutant: the budget of 100 ms ends the loop and the end of the file is asked.
PlayRecordOrFinish ==
  /\ loop = "play" /\ Ready(Filled) /\ NextRecord # foreign
  /\ filled' = Filled /\ eof' = EndMet
  /\ out' = Append(out, NextRecord)
  /\ \/ loop' = "play" /\ UNCHANGED app
     \/ loop' = "idle" /\ Finish(eof')
  /\ UNCHANGED <<source, queue, closed, thread, link, foreign, failed>>

\* A record is decoded; the loop goes on, or its budget of 100 ms is used up.
PlayRecord ==
  /\ loop = "play" /\ Ready(Filled) /\ NextRecord # foreign
  /\ filled' = Filled /\ eof' = EndMet
  /\ out' = Append(out, NextRecord)
  /\ loop' \in {"play", "idle"}
  /\ UNCHANGED <<source, queue, closed, thread, link, foreign, failed, app>>

\* A record of another version stops the timer, and nothing is emitted.
PlayForeign ==
  /\ Ready(Filled) /\ NextRecord = foreign
  /\ LoopGoes("play", "idle")
  /\ filled' = Filled /\ eof' = EndMet
  /\ timer' = "off"
  /\ UNCHANGED <<source, queue, closed, thread, link, foreign, failed, ending, restarts, since, finished, out>>

\* Nothing is left to play: drained, and the file has ended.
PlayDrained ==
  /\ ~Ready(Filled)
  /\ LoopGoes("play", "idle")
  /\ filled' = Filled /\ eof' = EndMet
  /\ Finish(eof')
  /\ UNCHANGED <<source, queue, closed, thread, link, foreign, failed, out>>
-----------------------------------------------------------------------------
(* The event loop: stop() of the two providers, and what follows it.        *)

\* monitorDevice, which a playback ignores.
ChangeDevice ==
  /\ source \in {"device", "agent"} /\ restarts < MaxRestarts
  /\ LoopGoes("idle", IF source = "agent" THEN "flag" ELSE "close")
  /\ restarts' = restarts + 1
  /\ UNCHANGED <<source, cache, thread, link, file, timer, ending, since, finished, out>>

\* The daemon quits: ~EQPacket.  A recording has no provider to stop.
Quit ==
  /\ LoopGoes("idle", CASE source = "vpk" -> "gone" [] source = "agent" -> "flag"
                         [] OTHER -> "close")
  /\ ending' = TRUE /\ timer' = "off"
  /\ UNCHANGED <<source, cache, thread, link, file, restarts, since, finished, out>>

Stopping(from, to) ==
  /\ LoopGoes(from, to)
  /\ UNCHANGED <<source, thread, file, app, out>>

\* RemoteCaptureThread::stop first stores m_stop.
StopFlag ==
  /\ Stopping("flag", "close") /\ halt' = TRUE
  /\ UNCHANGED <<cache, handle, sock, shut, fd>>

StopClose ==
  /\ Stopping("close", IF source = "agent" THEN "peek" ELSE "break")
  /\ closed' = TRUE
  /\ UNCHANGED <<queue, eof, link>>

StopBreak ==
  /\ Stopping("break", "join") /\ halt' = TRUE
  /\ UNCHANGED <<cache, handle, sock, shut, fd>>

\* m_sock.load(), then shutdown(fd).
StopPeek ==
  /\ Stopping("peek", "shut") /\ fd' = sock
  /\ UNCHANGED <<cache, halt, handle, sock, shut>>

StopShut ==
  /\ Stopping("shut", "join") /\ shut' = (shut \/ (fd /\ Connected))
  /\ UNCHANGED <<cache, halt, handle, sock, fd>>

\* Mutant: the thread is not waited for.
StopJoinNobody ==
  /\ Stopping("join", IF source = "agent" THEN "joined" ELSE "release")
  /\ UNCHANGED <<cache, link>>

StopJoin ==
  /\ reader = "exited"
  /\ Stopping("join", IF source = "agent" THEN "joined" ELSE "release")
  /\ UNCHANGED <<cache, link>>

\* pcap_close comes after the join.
StopRelease ==
  /\ Stopping("release", "joined") /\ handle' = FALSE
  /\ UNCHANGED <<cache, halt, sock, shut, fd>>

Gone ==
  /\ ending /\ Stopping("joined", "gone")
  /\ UNCHANGED <<cache, link>>

\* Mutant: the list of the last capture is kept.
RestartKeepingList ==
  /\ ~ending /\ LoopGoes("joined", "idle")
  /\ closed' = FALSE /\ halt' = FALSE /\ handle' = (source = "device")
  /\ reader' = Begin[source] /\ since' = read
  /\ UNCHANGED <<source, queue, eof, read, hand, sock, shut, fd, file, timer, ending, restarts, finished, out>>

\* start(): PacketCaptureThread forgets the list, RemoteCaptureThread keeps it.
Restart ==
  /\ ~ending /\ LoopGoes("joined", "idle")
  /\ closed' = FALSE /\ halt' = FALSE /\ handle' = (source = "device")
  /\ queue' = IF source = "device" THEN <<>> ELSE queue
  /\ reader' = Begin[source] /\ since' = read
  /\ UNCHANGED <<source, eof, read, hand, sock, shut, fd, file, timer, ending, restarts, finished, out>>

\* The process has ended.
Ended == loop = "gone" /\ UNCHANGED vars
-----------------------------------------------------------------------------
\* What the capture thread does without waiting for a packet or for the agent.
ReaderRuns ==
  \/ Enqueue \/ FileExhausted \/ SignalOfflineEof \/ PcapBroken
  \/ Dial \/ DialFails \/ Wake \/ Publish \/ Look \/ RecvShut \/ Drop
  \/ source = "pcap" /\ PcapRead

Reader == ReaderRuns \/ PcapRead \/ ReadFails \/ RecvFrame \/ RecvGone

\* What the event loop does by itself once a slot runs or the timer is on.
LoopRuns ==
  \/ Tick \/ DrainOne \/ DrainDone \/ CheckComplete
  \/ PlayRecord \/ PlayForeign \/ PlayDrained
  \/ StopFlag \/ StopClose \/ StopBreak \/ StopPeek \/ StopShut
  \/ StopJoin \/ StopRelease \/ Gone \/ Restart

Next == Reader \/ LoopRuns \/ StartTimer \/ ChangeDevice \/ Quit \/ Ended

Spec == Init /\ [][Next]_vars /\ WF_vars(ReaderRuns) /\ WF_vars(LoopRuns)
-----------------------------------------------------------------------------
(* Properties.                                                              *)

\* Where packets that were read are until they are decoded.
Pipe == out \o queue \o (IF hand = 0 THEN <<>> ELSE <<hand>>)

\* Types: packets are numbered in the order of the source, and no counter
\* passes its bound.
TypeOK ==
  /\ source \in Sources
  /\ read \in 0 .. Packets /\ hand \in 0 .. Packets
  /\ queue \in Seq(1 .. Packets) /\ out \in Seq(1 .. Packets)
  /\ closed \in BOOLEAN /\ eof \in BOOLEAN
  /\ reader \in {"wait", "held", "ended", "exited", "connect", "linked",
                 "check", "recv", "drop", "sleep"}
  /\ loop \in {"idle", "drain", "check", "play", "flag", "close", "break",
               "peek", "shut", "join", "release", "joined", "gone"}
  /\ {halt, handle, sock, shut, fd, ending, failed} \subseteq BOOLEAN
  /\ timer \in {"new", "on", "off"}
  /\ restarts \in 0 .. MaxRestarts /\ since \in 0 .. Packets
  /\ filled \in 0 .. FileEnd /\ foreign \in 0 .. Packets
  /\ finished \in 0 .. 2

\* The capture thread never uses a handle that stop() has closed, and none runs
\* once the provider is gone (PacketCaptureThread::stop).
HandleSafe ==
  /\ source \in {"device", "pcap"} /\ reader # "exited" => handle
  /\ loop = "gone" => reader = "exited"

StopOK == TypeOK /\ HandleSafe

\* playbackFinished means that every record was decoded, in order, and it is
\* emitted once (processPackets, processPlaybackPackets).
FinishedWhole == finished # 0 => finished = 1 /\ out = Upto(Packets)

\* A packet that was read leaves the queue by being decoded, in its place,
\* until stop() closes it (enqueue, packetCallBack, getPacket); and after a
\* change of the device no packet of the one before is decoded
\* (PacketCaptureThread::start).
NoLoss ==
  [][/\ closed \/ IsPrefix(Pipe, Pipe')
     /\ source = "device" /\ out' # out => out'[Len(out')] > since]_vars

\* stop() returns: the thread it joins is woken whatever it is doing, and no
\* read starts after it was asked to stop (the two stop functions).
StopReturns == loop \in {"flag", "close"} ~> loop \in {"idle", "gone"}

\* A replay ends: playbackFinished is emitted unless the daemon quits, the
\* recording has a record of another version, or pcap_loop fails on the file
\* (PacketCaptureThread::loop signals the end of a file only when it returns 0).
\* Then playbackFinished never comes, but what was read before the error is
\* decoded all the same.
PlaybackEnds ==
  source \in {"pcap", "vpk"} /\ foreign = 0 /\ timer = "on"
    ~> finished = 1 \/ loop = "gone" \/ (failed /\ out = Upto(read))
=============================================================================
