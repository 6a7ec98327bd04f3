---------------------------- MODULE EmqTransfer ----------------------------
(***************************************************************************)
(* What the transfer functions of network.c promise to the rest of the     *)
(* library: one call is one step.  A read takes all the bytes it was asked *)
(* for, in the order sent, or fails after some of them (ReadOk and         *)
(* ReadFails of EmqClient); a write puts all bytes of its buffer on the    *)
(* stream, in order, or fails or falls short after some of them.           *)
(*                                                                         *)
(* A byte is named by its position: the i-th byte the peer sent is i, the  *)
(* i-th byte of a buffer to be written is i.                               *)
(***************************************************************************)
EXTENDS Integers

CONSTANTS Counts  \* sizes the callers ask for

VARIABLES
  arrived,  \* bytes received from the peer so far
  taken,    \* bytes of them consumed by calls
  last      \* the last call: function, size, result and the bytes moved

vars == <<arrived, taken, last>>

\* n bytes from position p on.
Run(p, n) == [i \in 1..n |-> p + i]

Ended(op, n, ret, moved) == last' = [op |-> op, count |-> n, ret |-> ret, moved |-> moved]

Init ==
  /\ arrived = 0 /\ taken = 0
  /\ last = [op |-> "none", count |-> 0, ret |-> 0, moved |-> Run(0, 0)]

Arrive == arrived' \in Nat /\ arrived' >= arrived /\ UNCHANGED <<taken, last>>

\* The connection is reset: what was not read is gone.
Lose == arrived' \in Nat /\ arrived' >= taken /\ arrived' <= arrived /\ UNCHANGED <<taken, last>>

\* A read takes n bytes, or fails after k < n of them.
Read(n) ==
  /\ taken + n <= arrived /\ taken' = taken + n
  /\ Ended("read", n, n, Run(taken, n))
  /\ UNCHANGED arrived

ReadFails(n) ==
  \E k \in 0..(n - 1) :
    /\ taken + k <= arrived /\ taken' = taken + k
    /\ Ended("read", n, -1, Run(taken, k))
    /\ UNCHANGED arrived

\* emq_client_write puts all n bytes on the stream or reports that it did not.
Write(n) ==
  \E k \in 0..n :
    /\ \E ret \in {-1, k} : (k < n \/ ret = k) /\ Ended("write", n, ret, Run(0, k))
    /\ UNCHANGED <<arrived, taken>>

\* emq_client_writev puts some bytes on the stream and returns how many, or
\* none and fails.
Writev(n) ==
  /\ \E k \in 0..n : \E ret \in {-1, k} :
       (k = 0 \/ ret = k) /\ Ended("writev", n, ret, Run(0, k))
  /\ UNCHANGED <<arrived, taken>>

Next ==
  \/ Arrive \/ Lose
  \/ \E n \in Counts : Read(n) \/ ReadFails(n) \/ Write(n) \/ Writev(n)

Spec == Init /\ [][Next]_vars
=============================================================================
