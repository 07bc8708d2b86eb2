------------------------------ MODULE ArqWindow ------------------------------
(***************************************************************************)
(* The 16-bit sequence-number arithmetic of EQPacketStream                 *)
(* (src/src/packetstream.cpp): the expected number m_arqSeqExp wraps, and  *)
(* a number that is not the expected one is classified as "future" (worth  *)
(* caching) or "past" (dropped) by comparing it with a window of           *)
(* arqSeqWrapCutoff numbers.                                               *)
(***************************************************************************)
EXTENDS Integers

CONSTANTS SeqMod,      \* 2^16 in the code: uint16_t m_arqSeqExp
          WrapCutoff   \* arqSeqWrapCutoff, 1024 in the code

\* 2^16 and 1024 satisfy it; nothing else is used of the two numbers.
ASSUME WindowAssumption ==
  /\ SeqMod \in Nat \ {0}
  /\ WrapCutoff \in Nat \ {0}
  /\ 2 * WrapCutoff < SeqMod

SeqNums == 0 .. SeqMod - 1

\* m_arqSeqExp++ done k times, on a uint16_t.
Ahead(e, k) == (e + k) % SeqMod

Behind(e, k) == (e - k) % SeqMod

\* Mutants: the wrap-around half, or the cutoff, is forgotten.
IsFutureNoWrap(seq, e)   == seq > e /\ seq < e + WrapCutoff
IsFutureNoCutoff(seq, e) == seq > e \/ seq < e - WrapCutoff

\* The test that sends an out-of-order packet to the cache.  The two sides
\* are promoted to 32 bits in the code, so neither bound wraps.
IsFuture(seq, e) ==
  \/ seq > e /\ seq < e + WrapCutoff
  \/ seq < e - WrapCutoff

\* The intended meaning: the reference the test is compared with.  A number is
\* near ahead (near behind) when fewer than WrapCutoff (at most WrapCutoff)
\* increments lead from e to it (from it to e).
NearAhead(seq, e)  == \E k \in 1 .. WrapCutoff - 1 : seq = Ahead(e, k)
NearBehind(seq, e) == \E k \in 1 .. WrapCutoff : seq = Behind(e, k)
==============================================================================
