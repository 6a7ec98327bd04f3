----------------------------- MODULE EmqNetwork -----------------------------
(***************************************************************************)
(* The loops of network.c over the system calls: emq_client_read,          *)
(* emq_client_write and emq_client_writev, a kernel that splits the stream *)
(* wherever it likes and a peer that sends, drains and goes away.          *)
(*                                                                         *)
(* A byte is named by its position in the stream or buffer it comes from.  *)
(* Counts are assumed to be representable as an int: the bodies of replies *)
(* and events are shorter than 2^31 bytes.                                 *)
(***************************************************************************)
EXTENDS Integers

CONSTANTS
  Counts,      \* sizes the callers ask for
  SendBuffer,  \* bytes the kernel takes before the peer drains them
  MaxBytes,    \* bytes the peer sends
  MaxCalls,    \* calls of a behaviour
  MaxSignals,  \* signals that interrupt a system call
  ZeroWrites   \* TRUE: write may return 0

ASSUME NetworkAssumption ==
  /\ Counts \subseteq Nat
  /\ SendBuffer \in Nat \ {0} /\ MaxBytes \in Nat /\ MaxCalls \in Nat
  /\ MaxSignals \in Nat /\ ZeroWrites \in BOOLEAN

VARIABLES
  pc,       \* "idle", or the function executed: "read", "write", "writev"
  count,    \* its argument
  totlen, buf,  \* its variables; buf counts from the buffer's start
  memory,   \* "read": the bytes stored; else: the bytes on the stream
  arrived,  \* bytes received from the peer so far
  taken,    \* bytes of them the kernel handed out
  unsent,   \* bytes accepted by the kernel and not drained by the peer
  peer,     \* "up", "closed" (end of stream) or "reset"
  signals,  \* signals so far
  calls,    \* calls so far
  last      \* the last call that returned

vars == <<pc, count, totlen, buf, memory, arrived, taken, unsent, peer, signals,
          calls, last>>

kernelVars == <<arrived, taken, unsent, peer>>

Functions == {"read", "write", "writev"}
Nothing == [i \in 1..0 |-> 0]

Init ==
  /\ pc = "idle" /\ count = 0 /\ totlen = 0 /\ buf = 0 /\ memory = Nothing
  /\ arrived = 0 /\ taken = 0 /\ unsent = 0 /\ peer = "up"
  /\ signals = 0 /\ calls = 0
  /\ last = [op |-> "none", count |-> 0, ret |-> 0, moved |-> Nothing]

\* A function of network.c is entered.
Enter(op, n) ==
  /\ pc = "idle" /\ calls < MaxCalls
  /\ pc' = op /\ count' = n /\ totlen' = 0 /\ buf' = 0 /\ memory' = Nothing
  /\ calls' = calls + 1
  /\ UNCHANGED <<kernelVars, signals, last>>

\* It returns ret, having moved these bytes.
Returns(ret, moved) ==
  /\ pc' = "idle" /\ last' = [op |-> pc, count |-> count, ret |-> ret, moved |-> moved]
  /\ count' = 0 /\ totlen' = 0 /\ buf' = 0 /\ memory' = Nothing
  /\ UNCHANGED calls

\* The loops end when everything is transferred; writev has no loop.
LoopEnd ==
  /\ pc \in {"read", "write"} /\ totlen = count
  /\ Returns(totlen, memory)
  /\ UNCHANGED <<kernelVars, signals>>

\* Mutant: every call of the loop asks for the whole buffer.
AskedWhole == count

\* What the loop asks the kernel for.
Asked == count - totlen

\* Mutant: a later part is stored over the first.
AdvancedTotlenOnly(k) == totlen' = totlen + k /\ UNCHANGED buf

Advanced(k) == totlen' = totlen + k /\ buf' = buf + k

InLoop == totlen # count

(***************************************************************************)
(* emq_client_read.                                                        *)
(***************************************************************************)
\* memory with k bytes behind p stored at the pointer.
Stored(k, p) ==
  [i \in 1..(IF buf + k > totlen THEN buf + k ELSE totlen) |->
     IF i > buf /\ i <= buf + k THEN p + (i - buf) ELSE memory[i]]

\* read returns some of the bytes that are there.
ReadSome(k) ==
  /\ pc = "read" /\ InLoop
  /\ k >= 1 /\ k <= Asked /\ taken + k <= arrived
  /\ memory' = Stored(k, taken)
  /\ taken' = taken + k
  /\ Advanced(k)
  /\ UNCHANGED <<pc, count, arrived, unsent, peer, signals, calls, last>>

\* Mutant: the end of the stream is not an error.
ReadEofContinues ==
  /\ pc = "read" /\ InLoop
  /\ peer # "up" /\ taken = arrived
  /\ UNCHANGED vars

\* read returns 0 at the end of the stream, or -1 after a reset.
ReadEof ==
  /\ pc = "read" /\ InLoop
  /\ peer # "up" /\ taken = arrived
  /\ Returns(-1, memory)
  /\ UNCHANGED <<kernelVars, signals>>

\* read returns -1, interrupted: not retried.
ReadInterrupted ==
  /\ pc = "read" /\ InLoop
  /\ signals < MaxSignals /\ signals' = signals + 1
  /\ Returns(-1, memory)
  /\ UNCHANGED kernelVars

(***************************************************************************)
(* emq_client_write.                                                       *)
(***************************************************************************)
\* The stream with k bytes from the pointer on added.
Put(k) == [i \in 1..(totlen + k) |-> IF i > totlen THEN buf + (i - totlen) ELSE memory[i]]

Room == SendBuffer - unsent

WriteSome(k) ==
  /\ pc = "write" /\ InLoop /\ peer # "reset"
  /\ k >= 1 /\ k <= Asked /\ k <= Room
  /\ memory' = Put(k)
  /\ unsent' = unsent + k
  /\ Advanced(k)
  /\ UNCHANGED <<pc, count, arrived, taken, peer, signals, calls, last>>

\* write returns 0: what was written so far is returned.
WriteZero ==
  /\ pc = "write" /\ InLoop /\ ZeroWrites
  /\ Returns(totlen, memory)
  /\ UNCHANGED <<kernelVars, signals>>

\* write returns -1: the peer is gone, or a signal came.
WriteFails ==
  /\ pc = "write" /\ InLoop
  /\ \/ peer = "reset" /\ UNCHANGED signals
     \/ signals < MaxSignals /\ signals' = signals + 1
  /\ Returns(-1, memory)
  /\ UNCHANGED kernelVars

(***************************************************************************)
(* emq_client_writev.                                                      *)
(***************************************************************************)
\* One call; what it wrote is returned, however little.
WritevSome(k) ==
  /\ pc = "writev" /\ peer # "reset"
  /\ k <= count /\ k <= Room /\ (count # 0 => k >= 1)
  /\ unsent' = unsent + k
  /\ Returns(k, Put(k))
  /\ UNCHANGED <<arrived, taken, peer, signals>>

\* Interrupted: tried again.
WritevInterrupted ==
  /\ pc = "writev" /\ signals < MaxSignals /\ signals' = signals + 1
  /\ UNCHANGED <<pc, count, totlen, buf, memory, kernelVars, calls, last>>

WritevFails ==
  /\ pc = "writev" /\ peer = "reset"
  /\ Returns(-1, memory)
  /\ UNCHANGED <<kernelVars, signals>>

(***************************************************************************)
(* The peer and the network (external).                                    *)
(***************************************************************************)
PeerUnchanged == UNCHANGED <<pc, count, totlen, buf, memory, taken, signals, calls, last>>

PeerSends ==
  /\ peer = "up" /\ arrived < MaxBytes
  /\ arrived' = arrived + 1
  /\ UNCHANGED <<unsent, peer>> /\ PeerUnchanged

PeerDrains ==
  /\ peer # "reset" /\ unsent > 0
  /\ \E k \in 0..(unsent - 1) : unsent' = k
  /\ UNCHANGED <<arrived, peer>> /\ PeerUnchanged

PeerCloses ==
  /\ peer = "up" /\ peer' = "closed"
  /\ UNCHANGED <<arrived, unsent>> /\ PeerUnchanged

\* What the kernel holds for the client may be gone.
PeerResets ==
  /\ peer # "reset" /\ peer' = "reset"
  /\ \E k \in taken..arrived : arrived' = k
  /\ UNCHANGED unsent /\ PeerUnchanged

(***************************************************************************)
(* Specification.                                                          *)
(***************************************************************************)
Sizes == 0..count

\* The steps of the thread inside a function.
Proceeds ==
  \/ LoopEnd
  \/ \E k \in Sizes : ReadSome(k) \/ WriteSome(k) \/ WritevSome(k)
  \/ ReadEof \/ ReadInterrupted
  \/ WriteZero \/ WriteFails
  \/ WritevInterrupted \/ WritevFails

Next ==
  \/ \E op \in Functions, n \in Counts : Enter(op, n)
  \/ Proceeds
  \/ PeerSends \/ PeerDrains \/ PeerCloses \/ PeerResets

Spec == Init /\ [][Next]_vars

\* A system call that can return returns, and a peer that stays drains.
FairSpec == Spec /\ WF_vars(Proceeds) /\ WF_vars(PeerDrains)

(***************************************************************************)
(* Properties.                                                             *)
(***************************************************************************)
\* What the kernel may store or fetch is inside the buffer of the caller.
InBuffer == pc \in {"read", "write"} => buf + Asked <= count

\* A write or writev returns, and a read does once the peer has sent enough
\* or is gone, however the stream is split and interrupted.
CallEnds ==
  /\ pc \in {"write", "writev"} ~> pc = "idle"
  /\ (pc = "read" /\ (peer # "up" \/ arrived - taken >= count - totlen)) ~> pc = "idle"

\* To the callers a call is one step: the bytes taken or put in it count from
\* its return on.
Transfer == INSTANCE EmqTransfer WITH
  taken <- IF pc = "read" THEN taken - totlen ELSE taken
ImplementsTransfer == Transfer!Spec

\* Why both hold: the pointer and the total move together, and the bytes moved
\* are the next ones of the stream or of the buffer, in order.
NetInv ==
  /\ pc \in Functions \cup {"idle"} /\ peer \in {"up", "closed", "reset"}
  /\ count \in Nat /\ totlen \in 0..count /\ buf = totlen
  /\ arrived \in Nat /\ taken \in 0..arrived
  /\ pc # "idle" => count \in Counts
  /\ pc = "read" => totlen <= taken
  /\ pc \in {"idle", "writev"} => totlen = 0
  /\ memory = Transfer!Run(IF pc = "read" THEN taken - totlen ELSE 0, totlen)
=============================================================================
