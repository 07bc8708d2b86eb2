---------------------------- MODULE CaptureProofs ----------------------------
(***************************************************************************)
(* A replay reports its end only when every record was decoded, the        *)
(* capture thread is joined before its handle goes, and what it read is    *)
(* decoded in its place or still under way until stop() (module Capture),  *)
(* for every number of packets and device changes and every file layout.   *)
(***************************************************************************)
EXTENDS Capture, TLAPS

Stops == {"flag", "close", "break", "peek", "shut", "join", "release", "joined", "gone"}
Slots == {"drain", "check", "play"}

\* What the variables may be.
TypeInv ==
  /\ source \in Kinds
  /\ read \in Nat /\ hand \in Nat /\ filled \in Nat
  /\ queue \in Seq(Nat) /\ out \in Seq(Nat)
  /\ closed \in BOOLEAN /\ eof \in BOOLEAN /\ handle \in BOOLEAN /\ ending \in BOOLEAN
  /\ foreign \in Nat

\* The order of stop(): the join, then the handle, then nothing more.
StopInv ==
  /\ loop \in {"release", "joined", "gone"} => reader = "exited"
  /\ source \in {"device", "pcap"} /\ ~handle => loop \in {"joined", "gone"}
  /\ source \in {"pcap", "vpk"} /\ loop \in Stops => ending

\* A file is read once, and what was read is in out, in the queue or in hand.
FileInv ==
  source = "pcap" =>
    /\ reader \in {"wait", "held", "ended", "exited"}
    /\ read <= Packets
    /\ reader = "held" <=> hand # 0
    /\ eof \/ reader = "ended" => read = Packets /\ hand = 0
    /\ eof => reader = "exited"
    /\ closed => loop \in Stops

\* The queue goes on where out ends, and the packet in hand where the queue does.
ListInv ==
  source = "pcap" /\ ~closed =>
    /\ hand = 0 => read = Len(out) + Len(queue)
    /\ hand # 0 => read = Len(out) + Len(queue) + 1 /\ hand = read
    /\ \A i \in 1 .. Len(queue) : queue[i] = Len(out) + i

\* A recording is played in order, from what was read of it.
PlayInv ==
  source = "vpk" =>
    /\ reader = "exited" /\ hand = 0
    /\ Len(out) <= Packets
    /\ End[Len(out)] <= filled /\ filled <= FileEnd
    /\ eof => filled = FileEnd

OrderInv ==
  source \in {"pcap", "vpk"} => \A i \in 1 .. Len(out) : out[i] = i

\* The end is reported by the slot that then stops the timer.
EndInv ==
  /\ loop \in Slots => timer = "on"
  /\ loop = "check" => source = "pcap"
  /\ loop = "play" => source = "vpk"
  /\ loop = "drain" => source # "vpk"
  /\ finished # 0 =>
       /\ finished = 1 /\ timer = "off" /\ Len(out) = Packets
       /\ source \in {"pcap", "vpk"}

CaptureInv == TypeInv /\ StopInv /\ FileInv /\ ListInv /\ PlayInv /\ OrderInv /\ EndInv
-----------------------------------------------------------------------------
\* The layout of a recording: where records end, and that each fits the file.
LEMMA Layout ==
  /\ \A n \in 0 .. Packets + 1 : End[n] \in Nat
  /\ \A n \in 0 .. Packets : n # Packets =>
       End[n] + Header < End[n + 1] /\ End[n + 1] <= FileEnd
<1>1. \A n \in 0 .. Packets + 1 : End[n] \in Nat
  BY CaptureAssumption
<1>2. ASSUME NEW n \in 0 .. Packets, n # Packets
      PROVE  End[n] + Header < End[n + 1] /\ End[n + 1] <= FileEnd
  <2>1. n + 1 \in 0 .. Packets /\ n < n + 1
    BY <1>2, CaptureAssumption
  <2>2. End[n] + Header < End[n + 1]
    BY <2>1, CaptureAssumption
  <2>3. n + 1 = Packets \/ End[n + 1] + Header < End[Packets]
    BY <2>1, CaptureAssumption
  <2>4. End[n + 1] \in Nat /\ End[Packets] \in Nat /\ Header \in Nat /\ FileEnd \in Nat
    BY <2>1, CaptureAssumption
  <2>5. End[n + 1] <= End[Packets] /\ End[Packets] <= FileEnd
    BY <2>3, <2>4, CaptureAssumption
  <2> QED
    BY <2>2, <2>4, <2>5
<1> QED
  BY <1>1, <1>2

\* The initial states of the four sources.
LEMMA Start == Init => CaptureInv
<1> SUFFICES ASSUME Init
             PROVE  CaptureInv
  OBVIOUS
<1> USE CaptureAssumption DEF Kinds, Begin
<1>1. Len(out) = 0 /\ Len(queue) = 0
  BY DEF Init
<1>2. foreign \in Nat
  <2>1. CASE source = "vpk"
    BY <2>1 DEF Init
  <2>2. CASE source # "vpk"
    BY <2>2 DEF Init
  <2> QED
    BY <2>1, <2>2
<1>3. TypeInv
  <2>1. source \in Kinds /\ read = 0 /\ hand = 0 /\ filled = 0
    BY DEF Init
  <2>2. queue \in Seq(Nat) /\ out \in Seq(Nat)
    BY DEF Init
  <2>3. closed \in BOOLEAN
    BY Zenon DEF Init
  <2>5. eof \in BOOLEAN /\ ending \in BOOLEAN
    BY DEF Init
  <2>4. CASE source \in {"device", "pcap"}
    BY <2>1, <2>2, <2>3, <2>4, <2>5, <1>2 DEF Init, TypeInv
  <2>6. CASE source \notin {"device", "pcap"}
    BY <2>1, <2>2, <2>3, <2>5, <2>6, <1>2 DEF Init, TypeInv
  <2> QED
    BY <2>4, <2>6
<1>4. FileInv
  <2>1. source = "pcap" => reader = "wait"
    BY DEF Init
  <2>3. source = "pcap" => ~closed
    BY DEF Init
  <2>2. read = 0 /\ hand = 0 /\ ~eof
    BY DEF Init
  <2> QED
    BY <2>1, <2>2, <2>3 DEF FileInv
<1>5. ListInv
  BY <1>1 DEF ListInv, Init
<1>6. PlayInv
  BY <1>1 DEF PlayInv, Init
<1>7. StopInv
  BY DEF StopInv, Stops, Init
<1>8. EndInv
  BY DEF EndInv, Slots, Init
<1>9. OrderInv
  BY <1>1 DEF OrderInv
<1> QED
  BY <1>3, <1>4, <1>5, <1>6, <1>7, <1>8, <1>9 DEF CaptureInv

\* Every step keeps the invariant.
LEMMA CaptureStep == CaptureInv /\ [Next]_vars => CaptureInv'
<1> SUFFICES ASSUME CaptureInv, [Next]_vars
             PROVE  CaptureInv'
  OBVIOUS
<1> USE DEF CaptureInv, TypeInv, StopInv, FileInv, ListInv, PlayInv, OrderInv, EndInv, Kinds,
            Slots, Stops, cache, thread, link, file, app
<1>n. Packets \in Nat /\ Header \in Nat /\ Buffer \in Nat /\ FileEnd \in Nat
  BY CaptureAssumption
<1>l. Len(queue) \in Nat /\ Len(out) \in Nat
  OBVIOUS
<1>1. CASE FileExhausted
  BY <1>1, <1>n, <1>l DEF FileExhausted, Captured
<1>2. CASE SignalOfflineEof
  BY <1>2, <1>n, <1>l DEF SignalOfflineEof, Captured
<1>3. CASE PcapBroken
  BY <1>3, <1>n, <1>l DEF PcapBroken, Captured
<1>4. CASE ReadFails
  BY <1>4, <1>n, <1>l DEF ReadFails, Captured
<1>5. CASE Dial
  BY <1>5, <1>n, <1>l DEF Dial, Goes, Stoppable, Captured
<1>6. CASE DialFails
  BY <1>6, <1>n, <1>l DEF DialFails, Goes, Stoppable, Captured
<1>7. CASE Wake
  BY <1>7, <1>n, <1>l DEF Wake, Goes, Stoppable, Captured
<1>8. CASE Publish
  BY <1>8, <1>n, <1>l DEF Publish, Goes, Stoppable, Captured
<1>9. CASE Look
  BY <1>9, <1>n, <1>l DEF Look, Goes, Stoppable, Captured
<1>10. CASE RecvFrame
  BY <1>10, <1>n, <1>l DEF RecvFrame, Goes, Stoppable, Captured
<1>11. CASE RecvGone
  BY <1>11, <1>n, <1>l DEF RecvGone, Goes, Stoppable, Captured
<1>12. CASE RecvShut
  BY <1>12, <1>n, <1>l DEF RecvShut, Goes, Stoppable, Captured
<1>13. CASE Drop
  BY <1>13, <1>n, <1>l DEF Drop, Goes, Stoppable, Captured
<1>14. CASE StartTimer
  BY <1>14, <1>n, <1>l DEF StartTimer, LoopGoes, Stopping, Finish
<1>15. CASE Tick
  BY <1>15, <1>n, <1>l DEF Tick, LoopGoes, Stopping, Finish
<1>16. CASE DrainDone
  BY <1>16, <1>n, <1>l DEF DrainDone, LoopGoes, Stopping, Finish
<1>17. CASE CheckComplete
  BY <1>17, <1>n, <1>l DEF CheckComplete, LoopGoes, Stopping, Finish
<1>18. CASE ChangeDevice
  BY <1>18, <1>n, <1>l DEF ChangeDevice, LoopGoes, Stopping, Finish
<1>19. CASE Quit
  BY <1>19, <1>n, <1>l DEF Quit, LoopGoes, Stopping, Finish
<1>20. CASE StopFlag
  BY <1>20, <1>n, <1>l DEF StopFlag, LoopGoes, Stopping, Finish
<1>21. CASE StopClose
  BY <1>21, <1>n, <1>l DEF StopClose, LoopGoes, Stopping, Finish
<1>22. CASE StopBreak
  BY <1>22, <1>n, <1>l DEF StopBreak, LoopGoes, Stopping, Finish
<1>23. CASE StopPeek
  BY <1>23, <1>n, <1>l DEF StopPeek, LoopGoes, Stopping, Finish
<1>24. CASE StopShut
  BY <1>24, <1>n, <1>l DEF StopShut, LoopGoes, Stopping, Finish
<1>25. CASE StopJoin
  BY <1>25, <1>n, <1>l DEF StopJoin, LoopGoes, Stopping, Finish
<1>26. CASE StopRelease
  BY <1>26, <1>n, <1>l DEF StopRelease, LoopGoes, Stopping, Finish
<1>27. CASE Gone
  BY <1>27, <1>n, <1>l DEF Gone, LoopGoes, Stopping, Finish
<1>28. CASE PcapRead
  <2>1. TypeInv'
    BY <1>28, <1>n, <1>l DEF PcapRead, Captured
  <2>2. StopInv'
    BY <1>28, <1>n, <1>l DEF PcapRead, Captured
  <2>3. FileInv'
    BY <1>28, <1>n, <1>l DEF PcapRead, Captured
  <2>4. ListInv'
    BY <1>28, <1>n, <1>l DEF PcapRead, Captured
  <2>5. PlayInv'
    BY <1>28, <1>n, <1>l DEF PcapRead, Captured
  <2>6. OrderInv'
    BY <1>28, <1>n, <1>l DEF PcapRead, Captured
  <2>7. EndInv'
    BY <1>28, <1>n, <1>l DEF PcapRead, Captured
  <2> QED
    BY <2>1, <2>2, <2>3, <2>4, <2>5, <2>6, <2>7
<1>29. CASE Enqueue
  <2>1. TypeInv'
    BY <1>29, <1>n, <1>l DEF Enqueue
  <2>2. StopInv'
    BY <1>29, <1>n, <1>l DEF Enqueue
  <2>3. FileInv'
    BY <1>29, <1>n, <1>l DEF Enqueue
  <2>4. ListInv'
    <3> SUFFICES ASSUME source = "pcap", ~closed
                 PROVE  ListInv'
      BY <1>29 DEF Enqueue
    <3>1. queue' = Append(queue, hand) /\ hand = Len(out) + Len(queue) + 1
      BY <1>29 DEF Enqueue
    <3>2. Len(queue') = Len(queue) + 1
      BY <3>1
    <3>3. \A i \in 1 .. Len(queue') :
             queue'[i] = IF i = Len(queue) + 1 THEN hand ELSE queue[i]
      BY <3>1, <3>2
    <3> QED
      BY <1>29, <1>l, <3>1, <3>2, <3>3 DEF Enqueue
  <2>5. PlayInv'
    BY <1>29, <1>n, <1>l DEF Enqueue
  <2>6. OrderInv'
    BY <1>29, <1>n, <1>l DEF Enqueue
  <2>7. EndInv'
    BY <1>29, <1>n, <1>l DEF Enqueue
  <2> QED
    BY <2>1, <2>2, <2>3, <2>4, <2>5, <2>6, <2>7
<1>30. CASE DrainOne
  <2>0. /\ Len(queue) > 0 /\ Len(queue') = Len(queue) - 1
        /\ \A i \in 1 .. Len(queue') : queue'[i] = queue[i + 1]
    BY <1>30 DEF DrainOne
  <2>o. /\ Len(out') = Len(out) + 1
        /\ \A i \in 1 .. Len(out') : out'[i] = IF i = Len(out) + 1 THEN queue[1] ELSE out[i]
    BY <1>30 DEF DrainOne
  <2>1. TypeInv'
    BY <1>30, <1>n, <1>l DEF DrainOne
  <2>2. StopInv'
    BY <1>30, <1>n, <1>l DEF DrainOne
  <2>3. FileInv'
    BY <1>30, <1>n, <1>l DEF DrainOne
  <2>4. ListInv'
    <3> SUFFICES ASSUME source = "pcap", ~closed
                 PROVE  ListInv'
      BY <1>30 DEF DrainOne
    <3>1. \A i \in 1 .. Len(queue') : queue[i + 1] = Len(out) + (i + 1)
      BY <2>0, <1>l
    <3>2. hand' = hand /\ read' = read
      BY <1>30 DEF DrainOne
    <3>3. \A i \in 1 .. Len(queue') : queue'[i] = Len(out') + i
      BY <1>l, <2>0, <2>o, <3>1
    <3>4. Len(out') + Len(queue') = Len(out) + Len(queue)
      BY <1>l, <2>0, <2>o
    <3> QED
      BY <3>2, <3>3, <3>4
  <2>5. PlayInv'
    BY <1>30, <1>n, <1>l DEF DrainOne
  <2>6. OrderInv'
    <3>1. source = "pcap" => queue[1] = Len(out) + 1
      BY <1>30, <2>0 DEF DrainOne
    <3> QED
      BY <1>30, <1>l, <2>o, <3>1 DEF DrainOne
  <2>7. EndInv'
    BY <1>30, <1>n, <1>l DEF DrainOne
  <2> QED
    BY <2>1, <2>2, <2>3, <2>4, <2>5, <2>6, <2>7
<1>31. CASE PlayRecord
  <2>a. /\ source = "vpk" /\ Len(out') = Len(out) + 1
        /\ filled' = Filled /\ eof' = EndMet /\ Ready(filled')
    BY <1>31 DEF PlayRecord, NextRecord
  <2>b. End[Len(out)] \in Nat /\ End[Len(out) + 1] \in Nat
    BY <2>a, <1>l, <1>n, Layout
  <2>c. filled' \in Nat /\ filled' <= FileEnd /\ eof' \in BOOLEAN /\ (eof' => filled' = FileEnd)
    BY <2>a, <2>b, <1>n DEF Ready, Filled, EndMet, Buffered, NextRecord
  <2>d. End[Len(out) + 1] <= filled'
    BY <2>a DEF Ready, NextRecord
  <2>e. Len(out) # Packets
    BY <2>b, <2>c, <2>d, <1>n, CaptureAssumption
  <2>1. TypeInv'
    BY <1>31, <2>c, <1>l DEF PlayRecord, NextRecord
  <2>2. StopInv'
    BY <1>31, <1>n, <1>l DEF PlayRecord, NextRecord
  <2>3. FileInv'
    BY <1>31, <1>n, <1>l DEF PlayRecord, NextRecord
  <2>4. ListInv'
    BY <1>31, <1>n, <1>l DEF PlayRecord, NextRecord
  <2>5. PlayInv'
    BY <1>31, <1>l, <1>n, <2>a, <2>c, <2>d, <2>e DEF PlayRecord
  <2>6. OrderInv'
    BY <1>31, <1>n, <1>l DEF PlayRecord, NextRecord
  <2>7. EndInv'
    BY <1>31, <1>n, <1>l DEF PlayRecord, NextRecord
  <2> QED
    BY <2>1, <2>2, <2>3, <2>4, <2>5, <2>6, <2>7
<1>32. CASE PlayForeign
  <2>a. /\ source = "vpk" /\ Len(out) <= Packets /\ out' = out
        /\ filled' = Filled /\ eof' = EndMet
    BY <1>32 DEF PlayForeign, LoopGoes
  <2>b. End[Len(out)] \in Nat /\ End[Len(out) + 1] \in Nat
    BY <2>a, <1>l, <1>n, Layout
  <2>c. /\ filled' \in Nat /\ filled' <= FileEnd /\ End[Len(out)] <= filled'
        /\ eof' \in BOOLEAN /\ (eof' => filled' = FileEnd)
    BY <2>a, <2>b, <1>n DEF Ready, Filled, EndMet, Buffered, NextRecord
  <2>1. TypeInv'
    BY <1>32, <2>c DEF PlayForeign
  <2>2. StopInv'
    BY <1>32, <1>n, <1>l DEF PlayForeign, LoopGoes
  <2>3. FileInv'
    BY <1>32, <1>n, <1>l DEF PlayForeign, LoopGoes
  <2>4. ListInv'
    BY <1>32, <1>n, <1>l DEF PlayForeign, LoopGoes
  <2>5. PlayInv'
    BY <1>32, <2>a, <2>c DEF PlayForeign
  <2>6. OrderInv'
    BY <1>32, <1>n, <1>l DEF PlayForeign, LoopGoes
  <2>7. EndInv'
    BY <1>32, <1>n, <1>l DEF PlayForeign, LoopGoes
  <2> QED
    BY <2>1, <2>2, <2>3, <2>4, <2>5, <2>6, <2>7
<1>33. CASE PlayDrained
  <2>a. /\ source = "vpk" /\ Len(out) <= Packets /\ out' = out
        /\ filled' = Filled /\ eof' = EndMet
    BY <1>33 DEF PlayDrained, LoopGoes
  <2>b. End[Len(out)] \in Nat /\ End[Len(out) + 1] \in Nat
    BY <2>a, <1>l, <1>n, Layout
  <2>c. /\ filled' \in Nat /\ filled' <= FileEnd /\ End[Len(out)] <= filled'
        /\ eof' \in BOOLEAN /\ (eof' => filled' = FileEnd)
    BY <2>a, <2>b, <1>n DEF Ready, Filled, EndMet, Buffered, NextRecord
  <2>d. ASSUME eof', Len(out) # Packets
        PROVE  FALSE
    <3>1. ~Ready(FileEnd)
      BY <1>33, <2>a, <2>c, <2>d DEF PlayDrained
    <3>2. End[Len(out)] + Header < End[Len(out) + 1] /\ End[Len(out) + 1] <= FileEnd
      BY <2>a, <2>d, <1>l, <1>n, Layout
    <3> HIDE DEF CaptureInv
    <3> QED
      BY <3>1, <3>2, <2>b, <1>n DEF Ready, Buffered, NextRecord
  <2>1. TypeInv'
    BY <1>33, <2>c DEF PlayDrained, Finish
  <2>2. StopInv'
    BY <1>33, <1>n, <1>l DEF PlayDrained, LoopGoes, Finish
  <2>3. FileInv'
    BY <1>33, <1>n, <1>l DEF PlayDrained, LoopGoes, Finish
  <2>4. ListInv'
    BY <1>33, <1>n, <1>l DEF PlayDrained, LoopGoes, Finish
  <2>5. PlayInv'
    BY <1>33, <2>a, <2>c DEF PlayDrained
  <2>6. OrderInv'
    BY <1>33, <1>n, <1>l DEF PlayDrained, LoopGoes, Finish
  <2>7. EndInv'
    BY <1>33, <2>a, <2>c, <2>d DEF PlayDrained, LoopGoes, Finish
  <2> QED
    BY <2>1, <2>2, <2>3, <2>4, <2>5, <2>6, <2>7
<1>34. CASE Restart
  <2>1. TypeInv'
    <3>1. queue' \in Seq(Nat)
      BY <1>34 DEF Restart
    <3>2. handle' \in BOOLEAN /\ closed' \in BOOLEAN
      BY <1>34 DEF Restart
    <3> QED
      BY <1>34, <3>1, <3>2 DEF Restart
  <2>2. StopInv'
    BY <1>34, <1>n, <1>l DEF Restart, LoopGoes
  <2>3. FileInv'
    BY <1>34, <1>n, <1>l DEF Restart, LoopGoes
  <2>4. ListInv'
    BY <1>34, <1>n, <1>l DEF Restart, LoopGoes
  <2>5. PlayInv'
    BY <1>34, <1>n, <1>l DEF Restart, LoopGoes
  <2>6. OrderInv'
    BY <1>34, <1>n, <1>l DEF Restart, LoopGoes
  <2>7. EndInv'
    BY <1>34, <1>n, <1>l DEF Restart, LoopGoes
  <2> QED
    BY <2>1, <2>2, <2>3, <2>4, <2>5, <2>6, <2>7
<1>35. CASE UNCHANGED vars
  BY <1>35 DEF vars
<1> QED
  BY <1>1, <1>2, <1>3, <1>4, <1>5, <1>6, <1>7, <1>8, <1>9, <1>10, <1>11, <1>12, <1>13, <1>14, <1>15, <1>16, <1>17, <1>18, <1>19, <1>20, <1>21, <1>22, <1>23, <1>24, <1>25, <1>26, <1>27, <1>28, <1>29, <1>30, <1>31, <1>32, <1>33, <1>34, <1>35 DEF Next, Reader, ReaderRuns, LoopRuns, Ended

-----------------------------------------------------------------------------
\* The inductive invariant of the capture: how far stop() has come, and where
\* each packet of a file is.
THEOREM CaptureInvariant == Spec => []CaptureInv
<1> QED
  BY Start, CaptureStep, PTL DEF Spec

\* playbackFinished is emitted once, and only when every record of the file was
\* decoded in its order (processPackets, processPlaybackPackets).
THEOREM ReplayComplete == Spec => []FinishedWhole
<1>1. CaptureInv => FinishedWhole
  <2> SUFFICES ASSUME CaptureInv, finished # 0
               PROVE  finished = 1 /\ out = Upto(Packets)
    BY DEF FinishedWhole
  <2>1. finished = 1 /\ Len(out) = Packets /\ source \in {"pcap", "vpk"}
    BY DEF CaptureInv, EndInv
  <2>2. out \in Seq(Nat) /\ \A i \in 1 .. Packets : out[i] = i
    BY <2>1 DEF CaptureInv, OrderInv, TypeInv
  <2>3. out = [i \in 1 .. Packets |-> i]
    BY <2>1, <2>2
  <2> QED
    BY <2>1, <2>3 DEF Upto
<1> QED
  BY <1>1, CaptureInvariant, PTL

-----------------------------------------------------------------------------
\* Type correctness; a thread that is about to enqueue has a packet in hand.
TypesInv == TypeOK /\ (reader = "held" => hand # 0)

LEMMA TypesStart == Init => TypesInv
<1> SUFFICES ASSUME Init
             PROVE  TypesInv
  OBVIOUS
<1>1. foreign \in 0 .. Packets
  BY CaptureAssumption DEF Init
<1>2. reader \in {"wait", "connect", "exited"}
  BY CaptureAssumption DEF Init, Begin, Kinds
<1>3. closed \in BOOLEAN
  BY Zenon DEF Init
<1>4. handle \in BOOLEAN
  <2>1. CASE source \in {"device", "pcap"}
    BY <2>1 DEF Init
  <2>2. CASE source \notin {"device", "pcap"}
    BY <2>2 DEF Init
  <2> QED
    BY <2>1, <2>2
<1>5. queue \in Seq(1 .. Packets) /\ out \in Seq(1 .. Packets)
  BY DEF Init
<1> QED
  <2> DEFINE flags == {halt, handle, sock, shut, fd, ending, failed}
  <2>1. flags \subseteq BOOLEAN /\ closed \in BOOLEAN /\ eof \in BOOLEAN
    BY <1>3, <1>4, Zenon DEF Init
  <2>2. /\ source \in Sources /\ read \in 0 .. Packets /\ hand \in 0 .. Packets
        /\ loop = "idle" /\ timer = "new" /\ restarts \in 0 .. MaxRestarts
        /\ since \in 0 .. Packets /\ filled \in 0 .. FileEnd /\ finished \in 0 .. 2
    BY CaptureAssumption DEF Init
  <2>3. reader # "held"
    BY <1>2
  <2> QED
    BY <1>1, <1>2, <1>5, <2>1, <2>2, <2>3 DEF TypesInv, TypeOK

LEMMA SeqGrows ==
  ASSUME NEW S, NEW q \in Seq(S), NEW x \in S
  PROVE  Append(q, x) \in Seq(S)
OBVIOUS

LEMMA SeqParts ==
  ASSUME NEW S, NEW q \in Seq(S)
  PROVE  /\ <<>> \in Seq(S)
         /\ q # <<>> => Head(q) \in S /\ Tail(q) \in Seq(S)
OBVIOUS

LEMMA TypesStep == TypesInv /\ CaptureInv /\ CaptureInv' /\ [Next]_vars => TypesInv'
<1> SUFFICES ASSUME TypesInv, CaptureInv, CaptureInv', [Next]_vars
             PROVE  TypesInv'
  OBVIOUS
<1> USE DEF TypesInv, TypeOK, cache, thread, link, file, app
<1>n. Packets \in Nat /\ FileEnd \in Nat /\ MaxRestarts \in Nat
  BY CaptureAssumption
<1>1. CASE FileExhausted
  BY <1>1, <1>n DEF FileExhausted
<1>2. CASE SignalOfflineEof
  BY <1>2, <1>n DEF SignalOfflineEof
<1>3. CASE PcapBroken
  BY <1>3, <1>n DEF PcapBroken
<1>4. CASE ReadFails
  BY <1>4, <1>n DEF ReadFails
<1>5. CASE Dial
  BY <1>5, <1>n DEF Dial, Goes, Stoppable
<1>6. CASE DialFails
  BY <1>6, <1>n DEF DialFails, Goes, Stoppable
<1>7. CASE Wake
  BY <1>7, <1>n DEF Wake, Goes, Stoppable
<1>8. CASE Publish
  BY <1>8, <1>n DEF Publish, Goes, Stoppable
<1>9. CASE Look
  BY <1>9, <1>n DEF Look, Goes, Stoppable
<1>10. CASE RecvGone
  BY <1>10, <1>n DEF RecvGone, Goes, Stoppable
<1>11. CASE RecvShut
  BY <1>11, <1>n DEF RecvShut, Goes, Stoppable
<1>12. CASE Drop
  BY <1>12, <1>n DEF Drop, Goes, Stoppable
<1>13. CASE StartTimer
  BY <1>13, <1>n DEF StartTimer, LoopGoes, Stopping, Finish
<1>14. CASE Tick
  BY <1>14, <1>n DEF Tick, LoopGoes, Stopping, Finish
<1>15. CASE DrainDone
  BY <1>15, <1>n DEF DrainDone, LoopGoes, Stopping, Finish
<1>16. CASE CheckComplete
  BY <1>16, <1>n DEF CheckComplete, LoopGoes, Stopping, Finish
<1>17. CASE ChangeDevice
  BY <1>17, <1>n DEF ChangeDevice, LoopGoes, Stopping, Finish
<1>18. CASE Quit
  BY <1>18, <1>n DEF Quit, LoopGoes, Stopping, Finish
<1>19. CASE StopFlag
  BY <1>19, <1>n DEF StopFlag, LoopGoes, Stopping, Finish
<1>20. CASE StopClose
  BY <1>20, <1>n DEF StopClose, LoopGoes, Stopping, Finish
<1>21. CASE StopBreak
  BY <1>21, <1>n DEF StopBreak, LoopGoes, Stopping, Finish
<1>22. CASE StopPeek
  BY <1>22, <1>n DEF StopPeek, LoopGoes, Stopping, Finish
<1>23. CASE StopShut
  BY <1>23, <1>n DEF StopShut, LoopGoes, Stopping, Finish
<1>24. CASE StopJoin
  BY <1>24, <1>n DEF StopJoin, LoopGoes, Stopping, Finish
<1>25. CASE StopRelease
  BY <1>25, <1>n DEF StopRelease, LoopGoes, Stopping, Finish
<1>26. CASE Gone
  BY <1>26, <1>n DEF Gone, LoopGoes, Stopping, Finish
<1>27. CASE PcapRead \/ RecvFrame
  <2>1. read' \in 0 .. Packets /\ hand' \in 1 .. Packets /\ reader' = "held"
    BY <1>27, <1>n DEF PcapRead, RecvFrame, Captured
  <2> QED
    BY <1>27, <2>1 DEF PcapRead, RecvFrame
<1>28. CASE Enqueue
  <2>1. hand \in 1 .. Packets
    BY <1>28 DEF Enqueue
  <2>2. queue' \in Seq(1 .. Packets)
    <3>1. queue' \in {queue, Append(queue, hand)} /\ queue \in Seq(1 .. Packets)
      BY <1>28 DEF Enqueue
    <3> HIDE DEF TypesInv
    <3> QED
      BY <2>1, <3>1, SeqGrows
  <2> QED
    BY <1>28, <2>2, <1>n DEF Enqueue
<1>29. CASE DrainOne
  <2>1. queue' \in Seq(1 .. Packets) /\ out' \in Seq(1 .. Packets)
    <3>1. /\ queue # <<>> /\ queue' = Tail(queue) /\ out' = Append(out, Head(queue))
          /\ queue \in Seq(1 .. Packets) /\ out \in Seq(1 .. Packets)
      BY <1>29 DEF DrainOne
    <3> HIDE DEF TypesInv
    <3>2. Head(queue) \in 1 .. Packets /\ Tail(queue) \in Seq(1 .. Packets)
      BY <3>1, SeqParts
    <3> QED
      BY <3>1, <3>2, SeqGrows
  <2> QED
    BY <1>29, <2>1, <1>n DEF DrainOne
<1>30. CASE PlayRecord \/ PlayForeign \/ PlayDrained
  <2>1. source' = "vpk"
    BY <1>30 DEF PlayRecord, PlayForeign, PlayDrained, LoopGoes, CaptureInv, EndInv
  <2>2. filled' \in 0 .. FileEnd /\ eof' \in BOOLEAN /\ Len(out') <= Packets
    BY <2>1, <1>n DEF CaptureInv, TypeInv, PlayInv
  <2>3. out' \in Seq(1 .. Packets)
    <3>1. CASE PlayRecord
      <4>1. out' = Append(out, Len(out) + 1) /\ Len(out) + 1 \in 1 .. Packets
        BY <3>1, <2>2, <1>n DEF PlayRecord, NextRecord
      <4> QED
        BY <4>1
    <3>2. CASE PlayForeign \/ PlayDrained
      BY <3>2 DEF PlayForeign, PlayDrained
    <3> QED
      BY <1>30, <3>1, <3>2
  <2>4. loop' \in {"play", "idle"} /\ timer' \in {"new", "on", "off"} /\ finished' \in 0 .. 2
    BY <1>30 DEF PlayRecord, PlayForeign, PlayDrained, LoopGoes, Finish
  <2>5. UNCHANGED <<source, queue, closed, thread, link, foreign, failed, ending, restarts, since>>
    BY <1>30 DEF PlayRecord, PlayForeign, PlayDrained, Finish
  <2> QED
    BY <2>2, <2>3, <2>4, <2>5
<1>31. CASE Restart
  <2>1. queue' \in Seq(1 .. Packets)
    <3>1. queue' \in {queue, <<>>} /\ queue \in Seq(1 .. Packets)
      BY <1>31 DEF Restart
    <3> HIDE DEF TypesInv
    <3> QED
      BY <3>1, SeqParts
  <2> QED
    <3>1. reader' \in {"wait", "connect", "exited"} /\ loop' = "idle"
      <4>1. source \in Kinds /\ reader' = Begin[source] /\ loop' = "idle"
        BY <1>31 DEF Restart, LoopGoes, CaptureInv, TypeInv
      <4> QED
        BY <4>1 DEF Begin, Kinds
    <3>2. {halt', handle', sock', shut', fd', ending'} \subseteq BOOLEAN /\ closed' \in BOOLEAN
      BY <1>31 DEF Restart
    <3> QED
      BY <1>31, <2>1, <3>1, <3>2 DEF Restart
<1>32. CASE UNCHANGED vars
  BY <1>32 DEF vars
<1> QED
  BY <1>1, <1>2, <1>3, <1>4, <1>5, <1>6, <1>7, <1>8, <1>9, <1>10, <1>11, <1>12, <1>13, <1>14, <1>15, <1>16, <1>17, <1>18, <1>19, <1>20, <1>21, <1>22, <1>23, <1>24, <1>25, <1>26, <1>27, <1>28, <1>29, <1>30, <1>31, <1>32
  DEF Next, Reader, ReaderRuns, LoopRuns, Ended

\* The capture is well typed; stop() joins the capture thread before it closes
\* the handle the thread reads from, and no thread is left when the provider is
\* gone.
THEOREM StopIsSafe == Spec => []StopOK
<1>1. CaptureInv => HandleSafe
  BY DEF CaptureInv, StopInv, HandleSafe
<1>2. CaptureInv /\ TypesInv => StopOK
  BY <1>1 DEF TypesInv, StopOK
<1> QED
  BY <1>2, Start, CaptureStep, TypesStart, TypesStep, PTL DEF Spec

-----------------------------------------------------------------------------
(* Nothing that was read is lost before stop().                            *)

\* A thread has a packet in hand only between reading and enqueueing it, the
\* queue is closed while the thread is being stopped (a recording has none),
\* and what a device's queue and thread hold was read since its last start.
PipeInv ==
  /\ hand # 0 => reader = "held"
  /\ source = "vpk" \/ loop \in {"break", "peek", "shut", "join", "release", "joined"} => closed
  /\ loop \in {"release", "joined"} => reader = "exited"
  /\ source = "vpk" => loop \in {"idle", "play", "gone"}
  /\ source = "device" =>
       /\ since <= read
       /\ hand # 0 => since < hand
       /\ \A i \in 1 .. Len(queue) : since < queue[i]

LEMMA PipeStart == Init => PipeInv
<1> SUFFICES ASSUME Init
             PROVE  PipeInv
  OBVIOUS
<1>1. source = "vpk" => closed
  BY Zenon DEF Init
<1> QED
  BY <1>1 DEF Init, PipeInv

LEMMA PipeStep == PipeInv /\ TypesInv /\ [Next]_vars => PipeInv'
<1> SUFFICES ASSUME PipeInv, TypesInv, [Next]_vars
             PROVE  PipeInv'
  OBVIOUS
<1> USE DEF PipeInv, cache, thread, link, file, app
<1>n. read \in Nat /\ hand \in Nat /\ since \in Nat /\ closed \in BOOLEAN
      /\ queue \in Seq(1 .. Packets) /\ source \in Kinds
  BY CaptureAssumption DEF TypesInv, TypeOK
<1>1. CASE FileExhausted \/ SignalOfflineEof \/ PcapBroken \/ ReadFails
  BY <1>1 DEF FileExhausted, SignalOfflineEof, PcapBroken, ReadFails
<1>2. CASE Dial \/ DialFails \/ Wake \/ Publish \/ Look \/ RecvGone \/ RecvShut \/ Drop
  BY <1>2 DEF Dial, DialFails, Wake, Publish, Look, RecvGone, RecvShut, Drop, Goes, Stoppable
<1>3. CASE PcapRead \/ RecvFrame
  BY <1>3, <1>n DEF PcapRead, RecvFrame, Captured, Goes
<1>4. CASE Enqueue
  <2>1. source = "device" =>
          \A i \in 1 .. Len(queue') : since < queue'[i]
    <3>1. hand # 0
      BY <1>4 DEF Enqueue, TypesInv
    <3> QED
      BY <1>4, <1>n, <3>1 DEF Enqueue
  <2> QED
    BY <1>4, <2>1 DEF Enqueue
<1>5. CASE StartTimer \/ Tick \/ DrainDone \/ CheckComplete \/ ChangeDevice \/ Quit
  BY <1>5 DEF StartTimer, Tick, DrainDone, CheckComplete, ChangeDevice, Quit, LoopGoes, Finish, Kinds
<1>6. CASE DrainOne
  <2>1. \A i \in 1 .. Len(queue') : i + 1 \in 1 .. Len(queue) /\ queue'[i] = queue[i + 1]
    BY <1>6, <1>n DEF DrainOne
  <2> QED
    BY <1>6, <2>1 DEF DrainOne
<1>7. CASE PlayRecord \/ PlayForeign \/ PlayDrained
  BY <1>7 DEF PlayRecord, PlayForeign, PlayDrained, LoopGoes, Finish
<1>8. CASE StopFlag \/ StopClose \/ StopBreak \/ StopPeek \/ StopShut
  BY <1>8 DEF StopFlag, StopClose, StopBreak, StopPeek, StopShut, Stopping, LoopGoes
<1>9. CASE StopJoin \/ StopRelease \/ Gone
  BY <1>9 DEF StopJoin, StopRelease, Gone, Stopping, LoopGoes
<1>10. CASE Restart
  <2>1. source = "device" => queue' = <<>> /\ since' = read /\ read' = read
    BY <1>10 DEF Restart
  <2>2. hand = 0 /\ hand' = hand /\ loop' = "idle" /\ source' = source
    BY <1>10 DEF Restart, LoopGoes
  <2>3. source # "vpk"
    BY <1>10 DEF Restart, LoopGoes
  <2> QED
    BY <1>n, <2>1, <2>2, <2>3
<1>11. CASE UNCHANGED vars
  BY <1>11 DEF vars
<1> QED
  BY <1>1, <1>2, <1>3, <1>4, <1>5, <1>6, <1>7, <1>8, <1>9, <1>10, <1>11
  DEF Next, Reader, ReaderRuns, LoopRuns, Ended

LEMMA PrefixOfItself ==
  ASSUME NEW s \in Seq(Nat), NEW t, t = s
  PROVE  IsPrefix(s, t)
BY DEF IsPrefix

LEMMA PrefixOfMore ==
  ASSUME NEW s \in Seq(Nat), NEW x \in Nat, NEW t, t = s \o <<x>>
  PROVE  IsPrefix(s, t)
<1>1. Len(t) = Len(s) + 1 /\ Len(s) \in Nat /\ t \in Seq(Nat)
  OBVIOUS
<1>2. SubSeq(t, 1, Len(s)) \in Seq(Nat) /\ Len(SubSeq(t, 1, Len(s))) = Len(s)
      /\ \A i \in 1 .. Len(s) : SubSeq(t, 1, Len(s))[i] = s[i]
  BY <1>1
<1>3. SubSeq(s, 1, Len(s)) \in Seq(Nat) /\ Len(SubSeq(s, 1, Len(s))) = Len(s)
      /\ \A i \in 1 .. Len(s) : SubSeq(s, 1, Len(s))[i] = s[i]
  BY <1>1
<1> QED
  BY <1>1, <1>2, <1>3 DEF IsPrefix

\* What is under way when the thread has nothing in hand.
LEMMA NoneInHand ==
  ASSUME NEW o \in Seq(Nat), NEW q \in Seq(Nat)
  PROVE  o \o q \o <<>> = o \o q
OBVIOUS

\* Enqueueing and draining move a packet on.
LEMMA MovesIn ==
  ASSUME NEW o \in Seq(Nat), NEW q \in Seq(Nat), NEW h \in Nat
  PROVE  o \o Append(q, h) \o <<>> = o \o q \o <<h>>
OBVIOUS

LEMMA HeadFirst ==
  ASSUME NEW q \in Seq(Nat), q # <<>>
  PROVE  <<Head(q)>> \o Tail(q) = q /\ Head(q) \in Nat /\ Tail(q) \in Seq(Nat)
OBVIOUS

LEMMA OneMore ==
  ASSUME NEW o \in Seq(Nat), NEW h \in Nat, NEW t \in Seq(Nat)
  PROVE  Append(o, h) \o t = o \o (<<h>> \o t)
OBVIOUS

LEMMA MovesOut ==
  ASSUME NEW o \in Seq(Nat), NEW q \in Seq(Nat), q # <<>>
  PROVE  Append(o, Head(q)) \o Tail(q) = o \o q
<1> DEFINE h == Head(q)
           t == Tail(q)
<1>1. <<h>> \o t = q /\ h \in Nat /\ t \in Seq(Nat)
  BY HeadFirst
<1> HIDE DEF h, t
<1>2. Append(o, h) \o t = o \o (<<h>> \o t)
  BY <1>1, OneMore
<1>3. Append(o, h) \o t = o \o q
  BY <1>1, <1>2, Zenon
<1> QED
  BY <1>3, Zenon DEF h, t

\* A packet that was read leaves the queue by being decoded, in its place, until
\* stop() closes it; and after a change of the device no packet of the one
\* before is decoded (enqueue, packetCallBack, getPacket and
\* PacketCaptureThread::start).
THEOREM NothingLost == Spec => NoLoss
<1> DEFINE Kept == /\ closed \/ IsPrefix(Pipe, Pipe')
                   /\ source = "device" /\ out' # out => out'[Len(out')] > since
<1>1. ASSUME PipeInv, TypesInv, CaptureInv, Next
      PROVE  Kept
  <2> USE DEF cache, thread, link, file, app
  <2>n. /\ queue \in Seq(Nat) /\ out \in Seq(Nat) /\ hand \in Nat /\ read \in Nat
        /\ since \in Nat /\ Pipe \in Seq(Nat)
    BY <1>1, CaptureAssumption DEF CaptureInv, TypeInv, TypesInv, TypeOK, Pipe
  <2>1. ASSUME UNCHANGED <<out, queue, hand>>
        PROVE  Kept
    <3>1. Pipe' = Pipe
      BY <2>1 DEF Pipe
    <3> QED
      BY <2>1, <2>n, <3>1, PrefixOfItself
  <2>2. ASSUME closed, UNCHANGED out
        PROVE  Kept
    BY <2>2
  <2>3. CASE FileExhausted \/ SignalOfflineEof \/ PcapBroken \/ ReadFails
    BY <2>1, <2>3 DEF FileExhausted, SignalOfflineEof, PcapBroken, ReadFails
  <2>4. CASE Dial \/ DialFails \/ Wake \/ Publish \/ Look \/ RecvGone \/ RecvShut \/ Drop
    BY <2>1, <2>4 DEF Dial, DialFails, Wake, Publish, Look, RecvGone, RecvShut, Drop, Goes, Stoppable
  <2>5. CASE StartTimer \/ Tick \/ DrainDone \/ CheckComplete \/ ChangeDevice \/ Quit \/ Ended
    BY <2>1, <2>5 DEF StartTimer, Tick, DrainDone, CheckComplete, ChangeDevice, Quit, Ended, vars
  <2>6. CASE StopFlag \/ StopClose \/ StopBreak \/ StopPeek \/ StopShut \/ StopJoin
               \/ StopRelease \/ Gone
    BY <2>1, <2>6 DEF StopFlag, StopClose, StopBreak, StopPeek, StopShut, StopJoin,
                      StopRelease, Gone, Stopping
  <2>7. CASE Restart
    BY <1>1, <2>2, <2>7 DEF Restart, LoopGoes, PipeInv
  <2>8. CASE PlayRecord \/ PlayForeign \/ PlayDrained
    <3>1. source = "vpk"
      BY <1>1, <2>8 DEF PlayRecord, PlayForeign, PlayDrained, LoopGoes, CaptureInv, EndInv
    <3> QED
      BY <1>1, <3>1 DEF PipeInv
  <2>9. CASE PcapRead \/ RecvFrame
    <3>1. hand = 0 /\ hand' # 0 /\ hand' \in Nat /\ UNCHANGED <<out, queue>>
      BY <1>1, <2>9, <2>n DEF PcapRead, RecvFrame, Captured, Goes, PipeInv
    <3>2. Pipe = out \o queue /\ Pipe' = out \o queue \o <<hand'>>
      BY <3>1, <2>n, NoneInHand DEF Pipe
    <3>3. IsPrefix(Pipe, Pipe')
      BY <3>1, <3>2, <2>n, PrefixOfMore
    <3> QED
      BY <3>1, <3>3
  <2>10. CASE Enqueue
    <3>1. /\ hand # 0 /\ hand' = 0 /\ UNCHANGED out
          /\ ~closed => queue' = Append(queue, hand)
      BY <1>1, <2>10 DEF Enqueue, TypesInv
    <3>2. ~closed => Pipe' = Pipe
      <4>1. out \o Append(queue, hand) \o <<>> = out \o queue \o <<hand>>
        BY <2>n, MovesIn
      <4>2. Pipe = out \o queue \o <<hand>> /\ Pipe' = out \o queue' \o <<>>
        BY <3>1 DEF Pipe
      <4> QED
        BY <3>1, <4>1, <4>2
    <3> QED
      BY <3>1, <3>2, <2>n, PrefixOfItself
  <2>11. CASE DrainOne
    <3>1. /\ queue # <<>> /\ queue' = Tail(queue) /\ out' = Append(out, Head(queue))
          /\ UNCHANGED <<hand, since>>
      BY <2>11 DEF DrainOne
    <3>2. out' \o queue' = out \o queue
      BY <3>1, <2>n, MovesOut
    <3>3. Pipe' = Pipe
      BY <3>1, <3>2 DEF Pipe
    <3>4. out'[Len(out')] = queue[1] /\ 1 \in 1 .. Len(queue)
      BY <3>1, <2>n
    <3>5. source = "device" => since < queue[1]
      BY <1>1, <3>4 DEF PipeInv
    <3>6. queue[1] \in Nat
      BY <3>4, <2>n
    <3> QED
      BY <2>n, <3>3, <3>4, <3>5, <3>6, PrefixOfItself
  <2> QED
    BY <1>1, <2>3, <2>4, <2>5, <2>6, <2>7, <2>8, <2>9, <2>10, <2>11
    DEF Next, Reader, ReaderRuns, LoopRuns
<1>2. ASSUME PipeInv, TypesInv, CaptureInv, [Next]_vars
      PROVE  [Kept]_vars
  BY <1>1, <1>2
<1> QED
  BY <1>2, Start, CaptureStep, TypesStart, TypesStep, PipeStart, PipeStep, PTL DEF Spec, NoLoss
=============================================================================
