-------------------------- MODULE EmqNetworkProofs --------------------------
(***************************************************************************)
(* The loops of network.c stay inside the buffers of their callers and     *)
(* implement one-step transfers, for every way the kernel splits the       *)
(* stream and every size.                                                  *)
(***************************************************************************)
EXTENDS EmqNetwork, TLAPS

\* A transfer that has moved nothing, whatever its start.
LEMMA RunEmpty ==
  ASSUME NEW p \in Int
  PROVE  Nothing = Transfer!Run(p, 0)
BY DEF Nothing, Transfer!Run

\* Bytes stored behind a run, or put on the stream behind it, continue it.
LEMMA StoredRun ==
  ASSUME NEW k \in Nat, NEW p \in Int, totlen \in Nat, buf = totlen,
         memory = Transfer!Run(p, totlen)
  PROVE  Stored(k, p + totlen) = Transfer!Run(p, totlen + k)
BY DEF Stored, Transfer!Run

LEMMA PutRun ==
  ASSUME NEW k \in Nat, totlen \in Nat, buf = totlen, memory = Transfer!Run(0, totlen)
  PROVE  Put(k) = Transfer!Run(0, totlen + k)
BY DEF Put, Transfer!Run

\* Entering and leaving a function establish the invariant.
LEMMA EnterInv ==
  ASSUME NetInv, NEW op \in Functions, NEW n \in Counts, Enter(op, n)
  PROVE  NetInv'
<1>1. n \in Nat  BY NetworkAssumption
<1>2. Nothing = Transfer!Run(taken, 0) /\ Nothing = Transfer!Run(0, 0)
  BY RunEmpty DEF NetInv
<1> QED BY <1>1, <1>2 DEF NetInv, Enter, kernelVars, Functions, Transfer!Run

LEMMA ReturnsInv ==
  ASSUME NetInv, NEW ret, NEW moved, Returns(ret, moved),
         arrived' = arrived, taken' = taken, peer' = peer
  PROVE  NetInv'
<1>1. Nothing = Transfer!Run(0, 0)  BY RunEmpty
<1> QED BY <1>1 DEF NetInv, Returns, Functions, Transfer!Run

\* Every step of the program keeps the invariant.
LEMMA ProceedsInv ==
  ASSUME NetInv, Proceeds
  PROVE  NetInv'
<1>1. CASE LoopEnd      BY <1>1, ReturnsInv DEF LoopEnd, kernelVars
<1>2. CASE ReadEof      BY <1>2, ReturnsInv DEF ReadEof, kernelVars
<1>3. CASE ReadInterrupted  BY <1>3, ReturnsInv DEF ReadInterrupted, kernelVars
<1>4. CASE WriteZero    BY <1>4, ReturnsInv DEF WriteZero, kernelVars
<1>5. CASE WriteFails   BY <1>5, ReturnsInv DEF WriteFails, kernelVars
<1>6. CASE WritevFails  BY <1>6, ReturnsInv DEF WritevFails, kernelVars
<1>7. CASE WritevInterrupted
  BY <1>7 DEF WritevInterrupted, kernelVars, NetInv, Transfer!Run
<1>8. ASSUME NEW k \in Sizes, ReadSome(k)
      PROVE  NetInv'
  <2>1. k \in Nat /\ totlen \in Nat /\ taken \in Nat /\ buf = totlen /\ pc = "read"
    BY <1>8 DEF NetInv, Sizes, ReadSome
  <2>2. memory = Transfer!Run(taken - totlen, totlen)  BY <2>1 DEF NetInv
  <2>3. Stored(k, (taken - totlen) + totlen) = Transfer!Run(taken - totlen, totlen + k)
    BY <2>1, <2>2, StoredRun
  <2>4. memory' = Transfer!Run(taken - totlen, totlen + k)
    BY <1>8, <2>1, <2>3 DEF ReadSome
  <2>5. /\ totlen' = totlen + k /\ buf' = totlen + k /\ taken' = taken + k
        /\ pc' = "read" /\ count' = count /\ arrived' = arrived /\ peer' = peer
        /\ totlen + k <= count /\ taken + k <= arrived /\ totlen <= taken
    BY <1>8, <2>1 DEF ReadSome, Advanced, Asked, NetInv
  <2>6. taken' - totlen' = taken - totlen  BY <2>1, <2>5
  <2>7. memory' = Transfer!Run(taken' - totlen', totlen')  BY <2>4, <2>5, <2>6
  <2> QED BY <2>1, <2>5, <2>7 DEF NetInv, Functions, Transfer!Run
<1>9. ASSUME NEW k \in Sizes, WriteSome(k)
      PROVE  NetInv'
  <2>1. k \in Nat /\ totlen \in Nat /\ buf = totlen /\ pc = "write"
    BY <1>9 DEF NetInv, Sizes, WriteSome
  <2>2. memory' = Transfer!Run(0, totlen + k)
    BY <1>9, <2>1, PutRun DEF WriteSome, NetInv
  <2>3. /\ totlen' = totlen + k /\ buf' = totlen + k /\ taken' = taken
        /\ pc' = "write" /\ count' = count /\ arrived' = arrived /\ peer' = peer
        /\ totlen + k <= count
    BY <1>9, <2>1 DEF WriteSome, Advanced, Asked, NetInv
  <2> QED BY <2>1, <2>2, <2>3 DEF NetInv, Functions, Transfer!Run
<1>10. ASSUME NEW k \in Sizes, WritevSome(k)
       PROVE  NetInv'
  BY <1>10, ReturnsInv DEF WritevSome
<1> QED BY <1>1, <1>2, <1>3, <1>4, <1>5, <1>6, <1>7, <1>8, <1>9, <1>10 DEF Proceeds

\* So does every step of the peer.
LEMMA PeerInv ==
  ASSUME NetInv, PeerSends \/ PeerDrains \/ PeerCloses \/ PeerResets
  PROVE  NetInv'
BY DEF NetInv, PeerSends, PeerDrains, PeerCloses, PeerResets, PeerUnchanged, Transfer!Run

LEMMA NetInvStep ==
  ASSUME NetInv, [Next]_vars
  PROVE  NetInv'
<1>1. CASE UNCHANGED vars
  BY <1>1 DEF vars, NetInv, Transfer!Run
<1>2. CASE Next
  BY <1>2, EnterInv, ProceedsInv, PeerInv DEF Next
<1> QED BY <1>1, <1>2

\* The invariant of the loops: pointer and total move together, and what was
\* moved is a run of consecutive bytes.
THEOREM NetInvCorrect == Spec => []NetInv
<1>1. Init => NetInv
  BY RunEmpty DEF Init, NetInv, Functions
<1> QED BY <1>1, NetInvStep, PTL DEF Spec

\* emq_client_read and emq_client_write never let the kernel go beyond the
\* buffer they were given, for every size and every split of the stream.
THEOREM InBufferCorrect == Spec => []InBuffer
<1>1. NetInv => InBuffer  BY DEF NetInv, InBuffer, Asked
<1> QED BY <1>1, NetInvCorrect, PTL

(***************************************************************************)
(* Refinement: every step is a step of EmqTransfer or changes nothing      *)
(* there.                                                                  *)
(***************************************************************************)
Taken == IF pc = "read" THEN taken - totlen ELSE taken

\* A return from read, and from the two writing functions.
LEMMA ReadReturns ==
  ASSUME NetInv, pc = "read", NEW ret, Returns(ret, memory),
         \/ ret = -1 /\ totlen # count
         \/ ret = totlen /\ totlen = count,
         arrived' = arrived, taken' = taken
  PROVE  \E n \in Counts : Transfer!Read(n) \/ Transfer!ReadFails(n)
<1>1. /\ count \in Counts /\ count \in Nat /\ totlen \in 0..count /\ totlen <= taken
      /\ taken \in Nat /\ arrived \in Nat /\ taken <= arrived
      /\ memory = Transfer!Run(taken - totlen, totlen)
  BY DEF NetInv
<1>2. pc' = "idle" /\ last' = [op |-> "read", count |-> count, ret |-> ret, moved |-> memory]
  BY DEF Returns
<1>3. CASE ret = totlen /\ totlen = count
  <2>1. Transfer!Read(count)
    BY <1>1, <1>2, <1>3 DEF Transfer!Read, Transfer!Ended
  <2> QED BY <1>1, <2>1
<1>4. CASE ret = -1 /\ totlen # count
  <2>1. totlen \in 0..(count - 1)  BY <1>1, <1>4
  <2>2. Transfer!ReadFails(count)
    BY <1>1, <1>2, <1>4, <2>1 DEF Transfer!ReadFails, Transfer!Ended
  <2> QED BY <1>1, <2>2
<1> QED BY <1>3, <1>4

LEMMA WriteReturns ==
  ASSUME NetInv, pc = "write", NEW ret, Returns(ret, memory),
         ret = totlen \/ (ret = -1 /\ totlen # count),
         arrived' = arrived, taken' = taken
  PROVE  \E n \in Counts : Transfer!Write(n)
<1>1. count \in Counts /\ count \in Nat /\ totlen \in 0..count /\ memory = Transfer!Run(0, totlen)
  BY DEF NetInv
<1>2. pc' = "idle" /\ last' = [op |-> "write", count |-> count, ret |-> ret, moved |-> memory]
  BY DEF Returns
<1>3. ret \in {-1, totlen} /\ (totlen < count \/ ret = totlen)
  BY <1>1
<1>4. Transfer!Write(count)
  BY <1>1, <1>2, <1>3 DEF Transfer!Write, Transfer!Ended
<1> QED BY <1>1, <1>4

\* A return of writev after k bytes.
LEMMA WritevReturns ==
  ASSUME NetInv, pc = "writev", NEW ret, NEW k \in 0..count,
         Returns(ret, Transfer!Run(0, k)),
         ret = k \/ (ret = -1 /\ k = 0),
         arrived' = arrived, taken' = taken
  PROVE  \E n \in Counts : Transfer!Writev(n)
<1>1. count \in Counts  BY DEF NetInv
<1>2. /\ pc' = "idle"
      /\ last' = [op |-> "writev", count |-> count, ret |-> ret, moved |-> Transfer!Run(0, k)]
  BY DEF Returns
<1>3. ret \in {-1, k} /\ (k = 0 \/ ret = k)
  OBVIOUS
<1>4. Transfer!Writev(count)
  BY <1>2, <1>3 DEF Transfer!Writev, Transfer!Ended
<1> QED BY <1>1, <1>4

LEMMA TransferStep ==
  ASSUME NetInv, [Next]_vars
  PROVE  [Transfer!Next]_(Transfer!vars)
<1> DEFINE Stutter == UNCHANGED <<arrived, Taken, last>>
<1>1. Stutter => UNCHANGED Transfer!vars  BY DEF Transfer!vars, Taken
<1>2. CASE UNCHANGED vars
  BY <1>1, <1>2 DEF vars, Taken
<1>3. ASSUME NEW op \in Functions, NEW n \in Counts, Enter(op, n)
      PROVE  Stutter
  BY <1>3 DEF Enter, kernelVars, Taken, NetInv
<1>4. ASSUME NEW k \in Sizes, ReadSome(k)
      PROVE  Stutter
  BY <1>4 DEF ReadSome, Advanced, Taken, NetInv, Sizes
<1>5. ASSUME NEW k \in Sizes, WriteSome(k)
      PROVE  Stutter
  BY <1>5 DEF WriteSome, Taken
<1>6. CASE WritevInterrupted
  BY <1>1, <1>6 DEF WritevInterrupted, kernelVars, Taken
<1>7. CASE PeerDrains \/ PeerCloses
  BY <1>1, <1>7 DEF PeerDrains, PeerCloses, PeerUnchanged, Taken
<1>8. CASE PeerSends
  <2>1. Transfer!Arrive
    BY <1>8 DEF PeerSends, PeerUnchanged, Transfer!Arrive, NetInv
  <2> QED BY <2>1 DEF Transfer!Next
<1>9. CASE PeerResets
  <2>1. Transfer!Lose
    BY <1>9 DEF PeerResets, PeerUnchanged, Transfer!Lose, NetInv
  <2> QED BY <2>1 DEF Transfer!Next
<1>10. CASE ReadEof \/ ReadInterrupted
  <2>1. Returns(-1, memory) /\ pc = "read" /\ totlen # count /\ arrived' = arrived /\ taken' = taken
    BY <1>10 DEF ReadEof, ReadInterrupted, InLoop, kernelVars
  <2> QED BY <2>1, ReadReturns DEF Transfer!Next
<1>11. CASE LoopEnd
  <2>1. Returns(totlen, memory) /\ totlen = count /\ arrived' = arrived /\ taken' = taken
    BY <1>11 DEF LoopEnd, kernelVars
  <2>2. CASE pc = "read"  BY <2>1, <2>2, ReadReturns DEF Transfer!Next
  <2>3. CASE pc = "write"  BY <2>1, <2>3, WriteReturns DEF Transfer!Next
  <2> QED BY <1>11, <2>2, <2>3 DEF LoopEnd
<1>12. CASE WriteZero
  <2>1. Returns(totlen, memory) /\ pc = "write" /\ arrived' = arrived /\ taken' = taken
    BY <1>12 DEF WriteZero, kernelVars
  <2> QED BY <2>1, WriteReturns DEF Transfer!Next
<1>13. CASE WriteFails
  <2>1. Returns(-1, memory) /\ pc = "write" /\ totlen # count /\ arrived' = arrived /\ taken' = taken
    BY <1>13 DEF WriteFails, InLoop, kernelVars
  <2> QED BY <2>1, WriteReturns DEF Transfer!Next
<1>14. CASE WritevFails
  <2>1. Returns(-1, memory) /\ pc = "writev" /\ arrived' = arrived /\ taken' = taken
    BY <1>14 DEF WritevFails, kernelVars
  <2>2. memory = Transfer!Run(0, 0) /\ 0 \in 0..count  BY <2>1 DEF NetInv
  <2>3. Returns(-1, Transfer!Run(0, 0))  BY <2>1, <2>2
  <2> QED BY <2>1, <2>2, <2>3, WritevReturns DEF Transfer!Next
<1>15. ASSUME NEW k \in Sizes, WritevSome(k)
       PROVE  Transfer!Next
  <2>1. Returns(k, Put(k)) /\ pc = "writev" /\ arrived' = arrived /\ taken' = taken
    BY <1>15 DEF WritevSome
  <2>2. k \in Nat /\ k \in 0..count /\ totlen = 0 /\ buf = totlen /\ memory = Transfer!Run(0, totlen)
    BY <2>1 DEF NetInv, Sizes
  <2>3. Put(k) = Transfer!Run(0, k)  BY <2>2, PutRun
  <2>4. Returns(k, Transfer!Run(0, k))  BY <2>1, <2>3
  <2> QED BY <2>1, <2>2, <2>4, WritevReturns DEF Transfer!Next
<1> HIDE DEF Stutter
<1> QED
  BY <1>1, <1>2, <1>3, <1>4, <1>5, <1>6, <1>7, <1>8, <1>9, <1>10, <1>11, <1>12,
     <1>13, <1>14, <1>15 DEF Next, Proceeds

\* A call of emq_client_read, emq_client_write or emq_client_writev is one step
\* to its caller: all the bytes in order, or a failure after some of them, for
\* every size, split and interruption.
THEOREM TransferImplemented == Spec => ImplementsTransfer
<1>1. Init => Transfer!Init
  BY RunEmpty DEF Init, Transfer!Init
<1> QED BY <1>1, TransferStep, NetInvCorrect, PTL DEF Spec, ImplementsTransfer, Transfer!Spec
=============================================================================
