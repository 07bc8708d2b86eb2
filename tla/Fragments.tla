------------------------------ MODULE Fragments ------------------------------
(***************************************************************************)
(* EQPacketFragmentSequence (src/src/packetfragment.cpp) and its use by    *)
(* OP_Oversized in EQPacketStream::processPacket: one reassembly buffer    *)
(* per stream.  The first fragment of a message starts with the message's  *)
(* total length; nothing else marks where a message begins or ends.        *)
(*                                                                         *)
(* The environment is what OrderedDelivery promises: the fragments of the  *)
(* successive messages arrive in order, each at most once, with gaps, and  *)
(* a session may end in the middle of a message.  A fragment's bytes are   *)
(* abstracted to its identity and its length.  The first fragment of a     *)
(* sequence is copied without a look at the allocation: when it is a       *)
(* continuation in truth, the copy may pass the end of m_data.  What such  *)
(* a copy does to the process is not defined: the behaviour may end there, *)
(* or go on with the sizes the code computes.  The buffer is a part of the *)
(* stream: the names Init, Next and Spec are PacketStream's, so that one   *)
(* module, StreamProofs, can speak of both.                                *)
(***************************************************************************)
EXTENDS Integers, Sequences

CONSTANTS
  NumMessages,  \* bound: fragmented messages sent one after the other
  Size,         \* [1..NumMessages -> Nat]: the length of each message
  Mtu,          \* payload bytes of a full fragment
  LenField,     \* bytes of the length field, 4 in the code
  Cap,          \* kMaxFragmentBuffer
  Word,         \* 2^32, the width of payloadLength()
  Claims        \* what a fragment's first LenField bytes may read as when it is
                \* not the first one of its message

Messages == 1 .. NumMessages

\* Only what does not fit one packet is fragmented.
ASSUME FragmentAssumption ==
  /\ NumMessages \in Nat
  /\ LenField \in Nat \ {0} /\ Mtu \in Nat /\ Mtu > LenField /\ Cap \in Nat
  /\ Size \in [Messages -> Nat]
  /\ \A m \in Messages : Size[m] > Mtu - LenField /\ Size[m] <= Cap
  /\ Word \in Nat /\ Word > Cap + Mtu
  /\ Claims \subseteq Nat

VARIABLES
  fill,   \* m_dataSize
  total,  \* m_totalLength
  alloc,  \* m_dataAllocSize
  parts,  \* history: the fragments copied into m_data since the last reset
  done,   \* the fragments of the message dispatched by the last step
  next,   \* environment: the fragment the sender sends next
  clean,  \* history: no fragment was missed and no message cut short
  overran \* history: some copy went past the end of m_data

buffer       == <<fill, total, alloc>>
fragmentVars == <<buffer, parts, done, next, clean, overran>>

\* A fragment is [m, i]: number i of message m.  The first i fragments of m
\* carry Carried(m, i) bytes of it, and fragment i has Length(m, i) bytes.
Carried(m, i) ==
  IF i = 0 THEN 0
  ELSE IF i * Mtu - LenField < Size[m] THEN i * Mtu - LenField ELSE Size[m]
Length(m, i)  == Carried(m, i) - Carried(m, i - 1) + (IF i = 1 THEN LenField ELSE 0)
IsLast(f)     == Carried(f.m, f.i) = Size[f.m]
UpTo(m, i)    == [k \in 1 .. i |-> [m |-> m, i |-> k]]
After(f)      == IF IsLast(f) THEN [m |-> f.m + 1, i |-> 1]
                 ELSE [m |-> f.m, i |-> f.i + 1]
-----------------------------------------------------------------------------
FragmentInit ==
  /\ fill = 0 /\ total = 0 /\ alloc = 0
  /\ parts = <<>> /\ done = <<>>
  /\ next = [m |-> 1, i |-> 1]
  /\ clean = TRUE /\ overran = FALSE

\* Mutant: the buffer is not reset after a message was dispatched.
SettleKeeps(f, t, p) ==
  /\ fill' = f /\ total' = t /\ parts' = p
  /\ done' = IF f # 0 /\ f = t THEN p ELSE <<>>

\* isComplete(), the dispatch and the reset that follows it.
Settle(f, t, p) ==
  IF f # 0 /\ f = t
  THEN fill' = 0 /\ total' = 0 /\ parts' = <<>> /\ done' = p
  ELSE fill' = f /\ total' = t /\ parts' = p /\ done' = <<>>

Reset == fill' = 0 /\ total' = 0 /\ parts' = <<>> /\ done' = <<>>

Arrives(f) == next = f /\ f.m \in Messages /\ next' = After(f)

\* The length field read from fragment f.  One too short to hold a length
\* field is read past its end.
Declares(f, c) == IF f.i = 1 THEN c = Size[f.m] ELSE c \in Claims

\* What the first copy takes, payloadLength() - 4: unsigned.
FirstCopy(f) ==
  IF Length(f.m, f.i) >= LenField THEN Length(f.m, f.i) - LenField
  ELSE Word + Length(f.m, f.i) - LenField

\* addFragment on an empty buffer, refused: a length of 0 or above the cap.
Refuse(f, c) ==
  /\ Arrives(f) /\ fill = 0 /\ Declares(f, c)
  /\ c = 0 \/ c > Cap
  /\ Reset
  /\ UNCHANGED <<alloc, clean, overran>>

\* Mutant: the length field is counted as data.
StartCountsHead(f, c) ==
  /\ Arrives(f) /\ fill = 0 /\ Declares(f, c)
  /\ c # 0 /\ c <= Cap
  /\ alloc' = IF c > alloc THEN c ELSE alloc
  /\ Settle(Length(f.m, f.i), c, <<f>>)
  /\ overran' = (overran \/ Length(f.m, f.i) > alloc')
  /\ UNCHANGED clean

\* addFragment on an empty buffer: the buffer only ever grows, and what follows
\* the length field is copied without a check against it.
Start(f, c) ==
  /\ Arrives(f) /\ fill = 0 /\ Declares(f, c)
  /\ c # 0 /\ c <= Cap
  /\ alloc' = IF c > alloc THEN c ELSE alloc
  /\ Settle(FirstCopy(f), c, <<f>>)
  /\ overran' = (overran \/ FirstCopy(f) > alloc')
  /\ UNCHANGED clean

\* Mutant: the check forgets the arriving fragment.
FitsStale(f) == fill <= alloc

\* The check is against the allocation, not against the declared total.
Fits(f) == fill + Length(f.m, f.i) <= alloc

\* addFragment on a started sequence.
Extend(f) ==
  /\ Arrives(f) /\ fill # 0 /\ Fits(f)
  /\ Settle(fill + Length(f.m, f.i), total, Append(parts, f))
  /\ UNCHANGED <<alloc, clean, overran>>

\* addFragment on a started sequence that f would overrun.
Abandon(f) ==
  /\ Arrives(f) /\ fill # 0 /\ ~Fits(f)
  /\ Reset
  /\ UNCHANGED <<alloc, clean, overran>>

\* The stream gave up on fragment f.
Miss(f) ==
  /\ Arrives(f)
  /\ clean' = FALSE /\ done' = <<>>
  /\ UNCHANGED <<buffer, parts, overran>>

\* The session ends in the middle of a message.  With a close (or a reset of
\* EQPacket) EQPacketStream::reset empties the buffer; the handshake of the
\* next session alone does not.
Cut(closed) ==
  /\ next.m \in Messages /\ next.i > 1
  /\ next' = [m |-> next.m + 1, i |-> 1]
  /\ IF closed THEN Reset /\ UNCHANGED <<clean, alloc>>
     ELSE clean' = FALSE /\ done' = <<>> /\ UNCHANGED <<buffer, parts>>
  /\ UNCHANGED overran

Arrive(f) ==
  \/ \E c \in Claims \cup {Size[f.m]} : Refuse(f, c) \/ Start(f, c)
  \/ Extend(f)
  \/ Abandon(f)
  \/ Miss(f)

\* All the messages have been sent.
Finished == next.m > NumMessages /\ UNCHANGED fragmentVars

FragmentNext ==
  \/ next.m \in Messages /\ Arrive(next)
  \/ \E closed \in BOOLEAN : Cut(closed)
  \/ Finished

FragmentSpec == FragmentInit /\ [][FragmentNext]_fragmentVars
-----------------------------------------------------------------------------
(* Properties.                                                             *)

FragmentTypeOK ==
  /\ fill \in 0 .. Word /\ total \in 0 .. Cap /\ alloc \in 0 .. Cap
  /\ next.m \in 1 .. NumMessages + 1 /\ next.i \in Nat \ {0}
  /\ clean \in BOOLEAN /\ overran \in BOOLEAN

\* Only the unchecked first copy of addFragment can pass the end of m_data, and
\* only when a fragment was missed or a message cut short before it; an append
\* never does, whatever the gaps made of the declared total.  After such a copy
\* the sequence holds that one fragment and nothing is appended to it.
WithinBuffer ==
  /\ total <= alloc
  /\ fill > alloc => overran /\ Len(parts) = 1
  /\ overran => ~clean

\* As long as the stream missed nothing and was closed whenever a session
\* ended in mid-message, the buffer holds exactly the fragments of the
\* message that is being sent.
InStep ==
  clean => /\ parts = UpTo(next.m, next.i - 1)
           /\ fill = (IF next.i = 1 THEN 0 ELSE Carried(next.m, next.i - 1))
           /\ total = (IF next.i = 1 THEN 0 ELSE Size[next.m])

\* The two together: the buffer holds what it should, and nothing beside it
\* while nothing is missed.
BufferSound == FragmentTypeOK /\ WithinBuffer /\ InStep

\* ... so that what is dispatched is a whole message, when its last fragment
\* arrives.
WholeMessages ==
  [][next.m \in Messages /\ clean' /\ done' # <<>>
       => IsLast(next) /\ done' = UpTo(next.m, next.i)]_fragmentVars
==============================================================================
