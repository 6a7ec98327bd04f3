--------------------------- MODULE EmqReplyProofs ---------------------------
(***************************************************************************)
(* The replies of EmqClient, for every value of the constants: an          *)
(* application that reads replies only before it subscribes and gives up a *)
(* connection whose stream position it does not know (Disciplined) always  *)
(* gets the reply to its own request, all of it and nothing else.          *)
(***************************************************************************)
EXTENDS EmqClientProofs

USE ConstantsAssumption

Inv == ReplyInv /\ OkMeansServed

(***************************************************************************)
(* Facts about the operators of the model.                                 *)
(***************************************************************************)

\* What remains of a sequence after its first k elements.
Rest(s, k) == SubSeq(s, k + 1, Len(s))

\* A successful reply that is read with its header, and a reply that reports an
\* error, are as long as the first read.
LEMMA FirstReadLength ==
  ASSUME NEW c
  PROVE  /\ FirstRead(c) \in Nat \ {0} /\ FirstRead(c) >= HeaderWords
         /\ c.body # "stat" => FirstRead(c) = HeaderWords
         /\ c.body \in {"none", "stat"} => FirstRead(c) = HeaderWords + ExactLen(c)
BY DEF FirstRead, ExactLen

LEMMA ReplyLength ==
  ASSUME Disciplined, NEW c, NEW code, NEW len \in ReplyLens(c, code)
  PROVE  /\ code # "SUCCESS" => len = 0
         /\ code = "SUCCESS" /\ c.body \in {"none", "stat"} => len = ExactLen(c)
         /\ c.body = "none" => len = 0
         /\ code = "SUCCESS" /\ c.body = "message" => len = TagWords + MsgWords
<1>1. CASE code # "SUCCESS"
  BY <1>1 DEF Disciplined, ReplyLens
<1>2. CASE code = "SUCCESS"
  BY <1>2 DEF ReplyLens, ExactLen
<1> QED
  BY <1>1, <1>2

\* A step that is not part of a command: it may read events, and it writes
\* nothing and changes neither the server nor what the application knows of it.
LEMMA RestStep ==
  ASSUME TypeOK, Inv, pc \notin InCall, pc' \notin InCall,
         pc = "crashed" => pc' = "crashed", trusted' => trusted,
         NEW k \in 0..Len(inbox), inbox' = Rest(inbox, k),
         UNCHANGED <<outbox, subs, subscribed, served, done, nextId>>
  PROVE  Inv'
<1>1. inbox \in Seq(Word)
  BY DEF TypeOK, StreamType, Word
<1>2. /\ Len(inbox') = Len(inbox) - k /\ Len(inbox') \in Nat
      /\ \A i \in 1..Len(inbox') : inbox'[i] = inbox[k + i] /\ k + i \in 1..Len(inbox)
  BY <1>1, RestType DEF Rest
<1>3. \A j \in 1..Len(outbox) : trusted' => ~Answers(outbox[j])
  BY DEF Inv, ReplyInv, Pending, InCall
<1>4. Pending'
  BY <1>3 DEF Pending, Answers
<1>5. Waiting' /\ EventsAfterReply' /\ StreamInCall'
  BY DEF Waiting, EventsAfterReply, StreamInCall
<1>6. NotSubscribed'
  BY DEF Inv, ReplyInv, NotSubscribed, WillSubscribe
<1>7. StreamAtRest'
  <2>2. SUFFICES ASSUME trusted', pc' \notin InCall \cup {"crashed"}
                 PROVE  /\ \A i \in 1..Len(inbox') : inbox'[i].frame.magic = "EVENT"
                        /\ ~subscribed' => inbox' = <<>>
    BY DEF StreamAtRest
  <2>3. /\ \A i \in 1..Len(inbox) : inbox[i].frame.magic = "EVENT"
        /\ ~subscribed => inbox = <<>>
    BY <2>2 DEF Inv, ReplyInv, StreamAtRest
  <2> QED
    BY <1>2, <2>3
<1>8. ReplyLeft' /\ ReplyServed' /\ OkMeansServed'
  BY DEF Inv, ReplyInv, ReplyLeft, ReplyServed, OkMeansServed, InCall
<1> QED
  BY <1>4, <1>5, <1>6, <1>7, <1>8 DEF Inv, ReplyInv

(***************************************************************************)
(* Steps of a command that waits for its reply.                            *)
(***************************************************************************)

\* Once the reply has begun to arrive the server has no request left.
LEMMA NothingPending ==
  ASSUME TypeOK, Inv, pc \in InCall, inbox # <<>> \/ pc # "reply"
  PROVE  outbox = <<>>
<1>1. outbox \in Seq(RequestFrames)
  BY DEF TypeOK, StreamType
<1>2. outbox # <<>> => Len(outbox) \in 1..Len(outbox)
  BY <1>1
<1>3. trusted /\ (outbox # <<>> => Answers(outbox[Len(outbox)]))
  BY DEF Inv, ReplyInv, Waiting
<1> QED
  BY <1>2, <1>3 DEF Inv, ReplyInv, Pending

\* The identifier of the command being executed.
LEMMA CallId ==
  ASSUME TypeOK, Inv, pc \in InCall
  PROVE  call.id \in 1..MaxCalls /\ call.id <= nextId
<1>1. call.id \in 1..nextId
  BY DEF Inv, ReplyInv, ReplyServed
<1>2. nextId \in 0..MaxCalls
  BY DEF TypeOK, AppType
<1> QED
  BY <1>1, <1>2

\* A command returns.
LEMMA ReturnStep ==
  ASSUME TypeOK, Inv, pc \in InCall, pc' \in {"idle", "callback"},
         UNCHANGED <<outbox, subs, subscribed, served, nextId>>,
         done'.id = call.id,
         trusted' => /\ outbox = <<>>
                     /\ \A i \in 1..Len(inbox') : inbox'[i].frame.magic = "EVENT"
                     /\ ~subscribed => inbox' = <<>>,
         done'.status = "OK" => outbox = <<>> /\ served[call.id] = "SUCCESS"
  PROVE  Inv'
<1>1. pc' \notin InCall /\ Len(<<>>) = 0
  BY DEF InCall
<1>2. Pending'
  BY <1>1 DEF Pending
<1>3. Waiting' /\ EventsAfterReply' /\ StreamInCall'
  BY <1>1 DEF Waiting, EventsAfterReply, StreamInCall
<1>4. NotSubscribed'
  BY DEF Inv, ReplyInv, NotSubscribed, WillSubscribe
<1>5. StreamAtRest'
  BY DEF StreamAtRest
<1>6. ReplyLeft'
  BY <1>1 DEF ReplyLeft, InCall
<1>7. ReplyServed' /\ OkMeansServed'
  BY <1>1, CallId DEF ReplyServed, OkMeansServed, InCall
<1> QED
  BY <1>2, <1>3, <1>4, <1>5, <1>6, <1>7 DEF Inv, ReplyInv

\* A command fails so that the stream position is unknown.
LEMMA FailStep ==
  ASSUME TypeOK, Inv, pc \in InCall, NEW err \in Desync, Fail(err), ReadingUnchanged
  PROVE  Inv'
<1>1. /\ pc' = call.from /\ trusted' = FALSE
      /\ done' = [c |-> call.c, id |-> call.id, waited |-> TRUE, status |-> "ERR", error |-> err]
  BY DEF Fail, Leave, Return, SetResult, Done
<1>2. pc' \in {"idle", "callback"}
  BY <1>1, CallType DEF TypeOK
<1>3. UNCHANGED <<outbox, subs, subscribed, served, nextId>>
  BY DEF ReadingUnchanged, serverVars
<1> QED
  BY <1>1, <1>2, <1>3, ReturnStep

\* The first read of a command finds its reply.
LEMMA ReplyRead ==
  ASSUME TypeOK, Inv, pc = "reply", ReadOk(FirstRead(call.c))
  PROVE  /\ outbox = <<>> /\ Header = inbox[1].frame
         /\ served[call.id] = Header.code /\ Header.len \in Nat
         /\ Header.len \in ReplyLens(call.c, Header.code)
         /\ Len(inbox') = Len(inbox) - FirstRead(call.c) /\ Len(inbox') \in Nat
         /\ \A i \in 1..Len(inbox') : inbox'[i] = inbox[FirstRead(call.c) + i]
                                      /\ FirstRead(call.c) + i \in 1..Len(inbox)
         /\ inbox' \in Seq(Word)
         /\ ~Subscribes(call.c) => Len(inbox) <= HeaderWords + Header.len
<1>1. inbox \in Seq(Word) /\ FirstRead(call.c) \in Nat \ {0} /\ FirstRead(call.c) <= Len(inbox)
  BY FirstReadLength DEF TypeOK, StreamType, Word, ReadOk
<1>2. inbox # <<>> /\ 1 \in 1..Len(inbox) /\ inbox[1] \in Word
  BY <1>1
<1>3. /\ Header = inbox[1].frame /\ served[call.id] = inbox[1].frame.code
      /\ ~Subscribes(call.c) => Len(inbox) <= HeaderWords + inbox[1].frame.len
  BY <1>2 DEF Inv, ReplyInv, ReplyLeft, ReplyServed, Header
<1>4. IsOwn(inbox[1])
  BY <1>2 DEF Inv, ReplyInv, StreamInCall, InCall
<1>5. outbox = <<>>
  BY <1>2, NothingPending DEF InCall
<1>6. inbox[1].frame.len \in Nat
  BY <1>2 DEF Word, Frames
<1>7. inbox' = SubSeq(inbox, FirstRead(call.c) + 1, Len(inbox))
  BY DEF ReadOk
<1>8. /\ Len(inbox') = Len(inbox) - FirstRead(call.c) /\ Len(inbox') \in Nat
      /\ \A i \in 1..Len(inbox') : inbox'[i] = inbox[FirstRead(call.c) + i]
                                   /\ FirstRead(call.c) + i \in 1..Len(inbox)
      /\ inbox' \in Seq(Word)
  <2> DEFINE n == FirstRead(call.c)
  <2>1. n \in Nat /\ n <= Len(inbox) /\ inbox' = SubSeq(inbox, n + 1, Len(inbox))
    BY <1>1, <1>7
  <2> HIDE DEF n
  <2>2. /\ Len(inbox') = Len(inbox) - n /\ Len(inbox') \in Nat
        /\ \A i \in 1..Len(inbox') : inbox'[i] = inbox[n + i] /\ n + i \in 1..Len(inbox)
        /\ inbox' \in Seq(Word)
    BY <1>1, <2>1, RestType
  <2> QED
    BY <2>2 DEF n
<1> QED
  BY <1>3, <1>4, <1>5, <1>6, <1>8 DEF IsOwn

\* The first read takes the whole reply if it reports an error or has no body
\* that is read separately.
LEMMA ReplyEnds ==
  ASSUME Disciplined, TypeOK, Inv, pc = "reply", ReadOk(FirstRead(call.c)),
         Header.code # "SUCCESS" \/ call.c.body \in {"none", "stat"}
  PROVE  /\ \A i \in 1..Len(inbox') : inbox'[i].frame.magic = "EVENT"
         /\ ~subscribed => inbox' = <<>>
<1> DEFINE n == FirstRead(call.c)
<1>1. n \in Nat \ {0} /\ n >= HeaderWords /\ inbox \in Seq(Word)
  BY FirstReadLength DEF TypeOK, StreamType, Word
<1>2. CASE Subscribes(call.c)
  <2>1. call.c \in AllCalls
    BY CallType DEF TypeOK, Calls, AllCalls
  <2>2. n = HeaderWords
    BY <1>2, <2>1, SubscribeHasNoBody, FirstReadLength
  <2>3. \A k \in 1..Len(inbox) : k > HeaderWords => inbox[k].frame.magic = "EVENT"
    BY <1>2 DEF Inv, ReplyInv, StreamInCall, InCall
  <2>4. subscribed
    BY <1>2 DEF Inv, ReplyInv, Waiting, InCall
  <2>5. \A i \in 1..Len(inbox') : inbox'[i] = inbox[n + i] /\ n + i \in 1..Len(inbox)
    BY ReplyRead
  <2> HIDE DEF n
  <2>6. \A i \in 1..Len(inbox') : n + i > HeaderWords
    BY <2>2
  <2> QED
    BY <2>3, <2>4, <2>5, <2>6
<1>3. CASE ~Subscribes(call.c)
  <2>1. /\ Len(inbox) <= HeaderWords + Header.len /\ Len(inbox') = Len(inbox) - n
        /\ Len(inbox') \in Nat /\ inbox' \in Seq(Word)
        /\ Header.len \in ReplyLens(call.c, Header.code)
    BY <1>3, ReplyRead
  <2>2. CASE Header.code # "SUCCESS"
    <3>1. Header.len = 0
      BY <2>1, <2>2, ReplyLength
    <3> HIDE DEF n
    <3>2. Len(inbox') = 0
      BY <1>1, <2>1, <3>1
    <3> QED
      BY <2>1, <3>2
  <2>3. CASE Header.code = "SUCCESS"
    <3>1. Header.len = ExactLen(call.c) /\ n = HeaderWords + ExactLen(call.c)
      BY <2>1, <2>3, ReplyLength, FirstReadLength
    <3>2. ExactLen(call.c) \in Nat
      BY ExactLenType
    <3> HIDE DEF n
    <3>3. Len(inbox') = 0
      BY <1>1, <2>1, <3>1, <3>2
    <3> QED
      BY <2>1, <3>3
  <2> QED
    BY <2>2, <2>3
<1> QED
  BY <1>2, <1>3

LEMMA ReplyStatusStep ==
  ASSUME Disciplined, TypeOK, Inv, ReplyStatus
  PROVE  Inv'
<1>1. /\ pc = "reply" /\ ReadOk(FirstRead(call.c)) /\ Header.code # "SUCCESS"
      /\ pc' = call.from /\ done'.id = call.id /\ done'.status = "ERR"
  BY DEF ReplyStatus, emq_check_status, Fail, Leave, Return, Done
<1>2. pc' \in {"idle", "callback"}
  BY <1>1, CallType DEF TypeOK
<1>3. UNCHANGED <<outbox, subs, subscribed, served, nextId>>
  BY DEF ReplyStatus, ReadingUnchanged, serverVars
<1> QED
  BY <1>1, <1>2, <1>3, ReplyRead, ReplyEnds, ReturnStep DEF InCall

\* What a command reports when it completes.
LEMMA CompleteDone ==
  ASSUME NEW c, NEW id, NEW arg, NEW waited, Complete(c, id, arg, waited)
  PROVE  /\ done'.id = id /\ done'.waited = waited /\ done'.status \in {"OK", "ERR"}
         /\ trusted' => trusted
<1>1. PICK st \in {"OK", "ERR"}, err \in {"NONE", "ALLOC"} : Return(c, id, waited, st, err)
  BY DEF Complete
<1>2. done' = [c |-> c, id |-> id, waited |-> waited, status |-> st, error |-> err]
  BY <1>1 DEF Return, Done
<1>3. trusted' => trusted
  BY <1>1, Zenon DEF Return, SetResult
<1> QED
  BY <1>2, <1>3

\* The reply is a success and has a body.
LEMMA BodyFollows ==
  ASSUME Disciplined, TypeOK, Inv, pc = "reply", ReadOk(FirstRead(call.c)),
         Header.code = "SUCCESS", call.c.body \in {"word", "list", "message"},
         pc' = IF call.c.body = "message" THEN "tag" ELSE "body", hdr' = Header,
         UNCHANGED <<call, trusted, done>>, ReadingUnchanged
  PROVE  Inv'
<1>1. UNCHANGED <<conn, outbox, subs, subscribed, served, nextId>>
  BY DEF ReadingUnchanged, serverVars
<1>2. /\ outbox = <<>> /\ served[call.id] = "SUCCESS"
      /\ Header.len \in Nat /\ Header.len \in ReplyLens(call.c, Header.code)
  BY ReplyRead
<1>3. ~Subscribes(call.c)
  <2>1. call.c \in AllCalls
    BY CallType DEF TypeOK, Calls, AllCalls
  <2> QED
    BY <2>1, SubscribeHasNoBody
<1>4. /\ Len(inbox') = Len(inbox) - HeaderWords /\ Len(inbox') \in Nat
      /\ \A i \in 1..Len(inbox') : /\ inbox'[i] = inbox[HeaderWords + i]
                                   /\ HeaderWords + i \in 1..Len(inbox)
      /\ Len(inbox) <= HeaderWords + Header.len /\ inbox \in Seq(Word)
  <2>1. FirstRead(call.c) = HeaderWords
    BY FirstReadLength
  <2> QED
    BY <1>3, <2>1, ReplyRead DEF TypeOK, StreamType, Word
<1>5. pc' \in {"tag", "body"} /\ pc' \in InCall /\ pc' # "reply" /\ pc \in InCall
      /\ (pc' = "tag" => call.c.body = "message")
  BY DEF InCall
<1>6. trusted
  BY <1>5 DEF Inv, ReplyInv, Waiting
<1>7. Pending' /\ Waiting' /\ NotSubscribed'
  <2>1. Len(outbox') = 0
    BY <1>1, <1>2
  <2>2. subs' = subs /\ subscribed' = subscribed
    BY <1>1
  <2> QED
    BY <1>1, <1>2, <1>3, <1>6, <2>1, <2>2
       DEF Pending, Waiting, Subscribes, Inv, ReplyInv, NotSubscribed
<1>8. EventsAfterReply'
  <2>1. conn = "up" => subs = {}
    BY <1>3, <1>5 DEF Inv, ReplyInv, EventsAfterReply
  <2> QED
    BY <1>1, <2>1 DEF EventsAfterReply
<1>9. StreamAtRest'
  BY <1>5 DEF StreamAtRest
<1>10. StreamInCall'
  <2>1. \A k \in 1..Len(inbox) : IsOwn(inbox[k])
    BY <1>3, <1>5 DEF Inv, ReplyInv, StreamInCall
  <2>2. \A i \in 1..Len(inbox') : IsOwn(inbox'[i])
    BY <1>4, <2>1
  <2>3. \A i \in 1..Len(inbox') : IsOwn(inbox[i])'
    BY <2>2 DEF IsOwn, ReplyLens
  <2> QED
    BY <1>3, <2>3 DEF StreamInCall, Subscribes
<1>11. ReplyLeft'
  <2>1. Len(inbox') <= Header.len
    BY <1>2, <1>4
  <2>2. pc' = "tag" => Header.len = TagWords + MsgWords
    BY <1>2, <1>5, ReplyLength
  <2> QED
    BY <1>5, <2>1, <2>2 DEF ReplyLeft
<1>12. ReplyServed'
  BY <1>1, <1>2, <1>5, CallId DEF Inv, ReplyInv, ReplyServed
<1>13. OkMeansServed'
  BY <1>1 DEF Inv, OkMeansServed
<1> QED
  BY <1>7, <1>8, <1>9, <1>10, <1>11, <1>12, <1>13 DEF Inv, ReplyInv

LEMMA ReplySuccessStep ==
  ASSUME Disciplined, TypeOK, Inv, ReplySuccess
  PROVE  Inv'
<1>1. /\ pc = "reply" /\ ReadOk(FirstRead(call.c)) /\ Header.code = "SUCCESS"
      /\ ReadingUnchanged
  BY DEF ReplySuccess, emq_check_status
<1>2. CASE /\ call.c.body \in {"none", "stat"}
           /\ Complete(call.c, call.id, call.arg, TRUE) /\ Leave
  <2>1. pc' \in {"idle", "callback"}
    BY <1>2, CallType DEF TypeOK, Leave
  <2>2. UNCHANGED <<outbox, subs, subscribed, served, nextId>>
    BY <1>1 DEF ReadingUnchanged, serverVars
  <2>3. done'.id = call.id
    BY <1>2, CompleteDone
  <2>4. outbox = <<>> /\ served[call.id] = "SUCCESS"
    BY <1>1, ReplyRead
  <2>5. /\ \A i \in 1..Len(inbox') : inbox'[i].frame.magic = "EVENT"
        /\ ~subscribed => inbox' = <<>>
    BY <1>1, <1>2, ReplyEnds
  <2>6. pc \in InCall
    BY <1>1 DEF InCall
  <2> QED
    BY <2>1, <2>2, <2>3, <2>4, <2>5, <2>6, ReturnStep
<1>3. CASE /\ call.c.body \in {"word", "list", "message"}
           /\ pc' = IF call.c.body = "message" THEN "tag" ELSE "body"
           /\ hdr' = Header /\ UNCHANGED <<call, trusted, done>>
  BY <1>1, <1>3, BodyFollows
<1> QED
  BY <1>2, <1>3 DEF ReplySuccess

\* What is left of the reply is at most n words, and n words are read.
LEMMA LastRead ==
  ASSUME TypeOK, NEW n \in Nat, Len(inbox) <= n, ReadOk(n)
  PROVE  inbox' = <<>>
<1>1. inbox \in Seq(Word)
  BY DEF TypeOK, StreamType, Word
<1>2. inbox' \in Seq(Word) /\ Len(inbox') = 0
  BY <1>1, RestType DEF ReadOk
<1> QED
  BY <1>2

\* The rest of the reply is read and the command returns.
LEMMA LastReadStep ==
  ASSUME TypeOK, Inv, pc \in {"body", "message"}, inbox' = <<>>,
         Leave, Return(call.c, call.id, TRUE, "OK", "NONE"), ReadingUnchanged
  PROVE  Inv'
<1>1. pc \in InCall /\ outbox = <<>> /\ served[call.id] = "SUCCESS"
  BY DEF InCall, Inv, ReplyInv, ReplyServed
<1>2. pc' \in {"idle", "callback"}
  BY CallType DEF TypeOK, Leave
<1>3. UNCHANGED <<outbox, subs, subscribed, served, nextId>>
  BY DEF ReadingUnchanged, serverVars
<1>4. done'.id = call.id
  BY DEF Return, Done
<1>5. Len(inbox') = 0
  OBVIOUS
<1> QED
  BY <1>1, <1>2, <1>3, <1>4, <1>5, ReturnStep

LEMMA BodyReadStep ==
  ASSUME TypeOK, Inv, BodyRead
  PROVE  Inv'
<1>1. pc = "body" /\ ReadOk(hdr.len) /\ ReadingUnchanged
  BY DEF BodyRead
<1>2. CASE Leave /\ Return(call.c, call.id, TRUE, "OK", "NONE")
  <2>1. hdr.len \in Nat /\ Len(inbox) <= hdr.len
    BY <1>1 DEF TypeOK, FrameType, Frames, Inv, ReplyInv, ReplyLeft
  <2>2. inbox' = <<>>
    BY <1>1, <2>1, LastRead
  <2> QED
    BY <1>1, <1>2, <2>2, LastReadStep
<1>3. CASE Fail("ALLOC")
  BY <1>1, <1>3, FailStep DEF Desync, InCall
<1> QED
  BY <1>2, <1>3 DEF BodyRead

LEMMA MessageReadStep ==
  ASSUME TypeOK, Inv, MessageRead
  PROVE  Inv'
<1>1. /\ pc = "message" /\ hdr.len >= TagWords /\ ReadOk(hdr.len - TagWords)
      /\ Leave /\ Return(call.c, call.id, TRUE, "OK", "NONE") /\ ReadingUnchanged
  BY DEF MessageRead
<1>2. hdr.len \in Nat /\ Len(inbox) + TagWords <= hdr.len /\ inbox \in Seq(Word)
  BY <1>1 DEF TypeOK, FrameType, Frames, Inv, ReplyInv, ReplyLeft, StreamType, Word
<1>3. hdr.len - TagWords \in Nat /\ Len(inbox) <= hdr.len - TagWords
  BY <1>1, <1>2
<1>4. inbox' = <<>>
  BY <1>1, <1>3, LastRead
<1> QED
  BY <1>1, <1>4, LastReadStep

LEMMA TagReadStep ==
  ASSUME TypeOK, Inv, TagRead
  PROVE  Inv'
<1>1. /\ pc = "tag" /\ pc' = "message" /\ ReadOk(TagWords)
      /\ UNCHANGED <<call, hdr, trusted, done, conn, outbox, subs, subscribed,
                     served, nextId>>
  BY DEF TagRead, ReadingUnchanged, serverVars
<1>2. inbox \in Seq(Word) /\ hdr.len \in Nat
  BY DEF TypeOK, StreamType, Word, FrameType, Frames
<1>3. /\ Len(inbox') = Len(inbox) - TagWords /\ Len(inbox') \in Nat
      /\ \A i \in 1..Len(inbox') : /\ inbox'[i] = inbox[TagWords + i]
                                   /\ TagWords + i \in 1..Len(inbox)
  BY <1>1, <1>2, RestType DEF ReadOk
<1>4. /\ pc \in InCall /\ trusted /\ ~Subscribes(call.c) /\ outbox = <<>>
      /\ served[call.id] = "SUCCESS" /\ Len(inbox) <= hdr.len
      /\ hdr.len = TagWords + MsgWords
  BY <1>1 DEF InCall, Inv, ReplyInv, Waiting, ReplyServed, ReplyLeft
<1>5. Pending' /\ Waiting' /\ NotSubscribed'
  <2>1. Len(outbox') = 0
    BY <1>1, <1>4
  <2> QED
    BY <1>1, <1>4, <2>1
       DEF Pending, Waiting, Subscribes, Inv, ReplyInv, NotSubscribed
<1>6. EventsAfterReply' /\ StreamAtRest'
  <2>1. conn = "up" => subs = {}
    BY <1>4 DEF Inv, ReplyInv, EventsAfterReply
  <2> QED
    BY <1>1, <2>1 DEF EventsAfterReply, StreamAtRest, InCall
<1>7. StreamInCall'
  <2>1. \A k \in 1..Len(inbox) : IsOwn(inbox[k])
    BY <1>4 DEF Inv, ReplyInv, StreamInCall
  <2>2. \A i \in 1..Len(inbox') : IsOwn(inbox'[i])
    BY <1>3, <2>1
  <2>3. \A i \in 1..Len(inbox') : IsOwn(inbox[i])'
    BY <1>1, <2>2 DEF IsOwn, ReplyLens
  <2> QED
    BY <1>1, <1>4, <2>3 DEF StreamInCall, Subscribes
<1>8. ReplyLeft'
  BY <1>1, <1>2, <1>3, <1>4 DEF ReplyLeft
<1>9. ReplyServed' /\ OkMeansServed'
  BY <1>1, <1>4, CallId DEF Inv, ReplyInv, ReplyServed, OkMeansServed
<1> QED
  BY <1>5, <1>6, <1>7, <1>8, <1>9 DEF Inv, ReplyInv

\* The process dies: nothing is claimed of a connection it no longer has.
LEMMA MessageFailsStep ==
  ASSUME TypeOK, Inv, MessageFails
  PROVE  Inv'
<1>1. /\ pc = "message" /\ pc' = "crashed"
      /\ UNCHANGED <<call, hdr, trusted, done, conn, outbox, subs, subscribed,
                     served, nextId>>
  BY DEF MessageFails, ReadingUnchanged, serverVars
<1>2. outbox = <<>> /\ Len(outbox') = 0
  BY <1>1 DEF Inv, ReplyInv, ReplyServed
<1>3. Pending' /\ Waiting' /\ NotSubscribed' /\ EventsAfterReply' /\ StreamAtRest'
  BY <1>1, <1>2 DEF Pending, Waiting, NotSubscribed, EventsAfterReply, StreamAtRest,
     InCall, Inv, ReplyInv
<1>4. StreamInCall' /\ ReplyLeft'
  BY <1>1 DEF StreamInCall, ReplyLeft, InCall
<1>5. ReplyServed' /\ OkMeansServed'
  BY <1>1 DEF ReplyServed, OkMeansServed, InCall, Inv, ReplyInv
<1> QED
  BY <1>3, <1>4, <1>5 DEF Inv, ReplyInv

LEMMA CallStepInv ==
  ASSUME Disciplined, TypeOK, Inv, CallStep
  PROVE  Inv'
<1> USE DEF Desync, InCall
<1>1. CASE ReplyReadFails
  BY <1>1, FailStep DEF ReplyReadFails
<1>2. CASE ReplyRejected
  BY <1>2, FailStep DEF ReplyRejected
<1>3. CASE BodyFails
  BY <1>3, FailStep DEF BodyFails
<1>4. CASE TagFails
  BY <1>4, FailStep DEF TagFails
<1> QED
  BY <1>1, <1>2, <1>3, <1>4, ReplyStatusStep, ReplySuccessStep, BodyReadStep,
     TagReadStep, MessageReadStep, MessageFailsStep DEF CallStep

(***************************************************************************)
(* Steps of the application and of emq_process.                            *)
(***************************************************************************)

\* A new connection, or none.
LEMMA ConnectStep ==
  ASSUME TypeOK, Inv, emq_connect \/ emq_disconnect \/ Restart
  PROVE  Inv'
<1>1. /\ pc' = "idle" /\ inbox' = <<>> /\ outbox' = <<>> /\ subs' = {}
      /\ UNCHANGED <<nextId, served, done>>
  BY DEF emq_connect, emq_disconnect, Restart, NewStreams
<1>2. Len(inbox') = 0 /\ Len(outbox') = 0
  BY <1>1
<1>3. Pending' /\ Waiting' /\ NotSubscribed' /\ EventsAfterReply' /\ StreamAtRest'
  BY <1>1, <1>2 DEF Pending, Waiting, NotSubscribed, EventsAfterReply, StreamAtRest,
     InCall
<1>4. StreamInCall' /\ ReplyLeft'
  BY <1>1 DEF StreamInCall, ReplyLeft, InCall
<1>5. ReplyServed' /\ OkMeansServed'
  BY <1>1, <1>2 DEF ReplyServed, OkMeansServed, InCall, Inv, ReplyInv
<1> QED
  BY <1>3, <1>4, <1>5 DEF Inv, ReplyInv

\* A step that reads nothing is a RestStep with k = 0.
LEMMA NothingRead ==
  ASSUME TypeOK
  PROVE  inbox = Rest(inbox, 0) /\ 0 \in 0..Len(inbox)
<1>1. inbox \in Seq(Word)
  BY DEF TypeOK, StreamType, Word
<1> QED
  BY <1>1 DEF Rest

LEMMA QuietStep ==
  ASSUME TypeOK, Inv, NEW c,
         emq_noack_enable \/ emq_noack_disable \/ CallRejected(c)
           \/ emq_process \/ \E stop \in BOOLEAN : CallbackReturns(stop)
  PROVE  Inv'
<1>1. inbox' = inbox /\ UNCHANGED <<outbox, subs, subscribed, served, done, nextId>>
  BY DEF emq_noack_enable, emq_noack_disable, SetNoack, CallRejected, emq_process,
     CallbackReturns, ProcessUnchanged, serverVars, appVars
<1>2. pc \notin InCall /\ pc' \notin InCall /\ pc # "crashed"
  BY DEF emq_noack_enable, emq_noack_disable, SetNoack, CallRejected, MayCall,
     emq_process, CallbackReturns, LoopHead, InCall
<1>3. trusted' => trusted
  <2>1. CASE emq_noack_enable \/ emq_noack_disable
    BY <2>1, Zenon DEF emq_noack_enable, emq_noack_disable, SetNoack, appVars
  <2>2. CASE CallRejected(c)
    BY <2>2, Zenon DEF CallRejected, SetResult
  <2>3. CASE emq_process \/ \E stop \in BOOLEAN : CallbackReturns(stop)
    <3>1. trusted' = trusted
      BY <2>3 DEF emq_process, CallbackReturns
    <3> QED
      BY <3>1
  <2> QED
    BY <2>1, <2>2, <2>3
<1> QED
  BY <1>1, <1>2, <1>3, NothingRead, RestStep

\* A read of emq_process takes words from the front of the stream.
LEMMA ReadIsRest ==
  ASSUME TypeOK, NEW n, (n \in Nat /\ ReadOk(n)) \/ ReadFails(n)
  PROVE  \E k \in 0..Len(inbox) : inbox' = Rest(inbox, k)
<1>1. inbox \in Seq(Word)
  BY DEF TypeOK, StreamType, Word
<1>2. CASE n \in Nat /\ ReadOk(n)
  <2>1. n \in 0..Len(inbox) /\ inbox' = Rest(inbox, n)
    BY <1>1, <1>2 DEF ReadOk, Rest
  <2> QED
    BY <2>1
<1>3. CASE ReadFails(n)
  BY <1>3 DEF ReadFails, Rest
<1> QED
  BY <1>2, <1>3

LEMMA ProcessStepInv ==
  ASSUME TypeOK, Inv, ProcessStep
  PROVE  Inv'
<1> DEFINE FW == EventFieldWords(hdr.cmd)
<1>1. HeaderWords \in Nat /\ FW \in Nat /\ hdr.len \in Nat
  BY EventFieldWordsType DEF TypeOK, FrameType, Frames
<1>2. \E k \in 0..Len(inbox) : inbox' = Rest(inbox, k)
  <2>1. CASE EventReadFails
    BY <2>1, ReadIsRest DEF EventReadFails
  <2>2. CASE EventRejected \/ EventHeader
    BY <1>1, <2>2, ReadIsRest DEF EventRejected, EventHeader
  <2>3. CASE EventFieldsFail \/ EventNotFound \/ EventFound
    BY <1>1, <2>3, ReadIsRest DEF EventFieldsFail, EventNotFound, EventFound
  <2>4. CASE EventMessage
    <3>1. hdr.len - FW \in Nat /\ ReadOk(hdr.len - FW)
      BY <1>1, <2>4 DEF EventMessage
    <3> QED
      BY <3>1, ReadIsRest
  <2>5. CASE EventMessageFails
    <3>1. ReadFails(hdr.len - FW) \/ inbox' = inbox
      BY <2>5 DEF EventMessageFails
    <3> QED
      BY <3>1, ReadIsRest, NothingRead
  <2> QED
    BY <2>1, <2>2, <2>3, <2>4, <2>5 DEF ProcessStep
<1>3. UNCHANGED <<outbox, subs, subscribed, served, done, nextId>>
  <2>1. ProcessUnchanged
    BY DEF ProcessStep, EventReadFails, EventRejected, EventHeader, EventFieldsFail,
       EventNotFound, EventFound, EventMessage, EventMessageFails
  <2> QED
    BY <2>1 DEF ProcessUnchanged, serverVars
<1>4. pc \in {"event", "fields", "payload"} /\ pc' \in {"idle", "fields", "payload", "callback"}
  BY DEF ProcessStep, EventReadFails, EventRejected, EventHeader, EventFieldsFail,
     EventNotFound, EventFound, EventMessage, EventMessageFails, ProcessFails, Callback
<1>5. trusted' = FALSE \/ trusted' = trusted
  BY DEF ProcessStep, EventReadFails, EventRejected, EventHeader, EventFieldsFail,
     EventNotFound, EventFound, EventMessage, EventMessageFails, ProcessFails
<1>6. trusted' => trusted
  BY <1>5
<1>7. pc \notin InCall /\ pc' \notin InCall /\ pc # "crashed"
  BY <1>4 DEF InCall
<1> QED
  BY <1>2, <1>3, <1>6, <1>7, RestStep

\* Nothing answers at rest: the outbox of a trusted connection holds only
\* requests without a reply.
LEMMA NoAnswerAtRest ==
  ASSUME Inv, trusted, pc \notin InCall
  PROVE  \A j \in 1..Len(outbox) : ~Answers(outbox[j])
BY DEF Inv, ReplyInv, Pending, InCall

LEMMA CallWriteFailsStep ==
  ASSUME TypeOK, Inv, NEW c \in Calls, NEW arg \in Arguments(c), CallWriteFails(c, arg)
  PROVE  Inv'
<1>1. /\ nextId' = nextId + 1 /\ nextId < MaxCalls /\ pc' = pc /\ pc \notin InCall
      /\ UNCHANGED <<conn, call, hdr, inbox, subs, subscribed, served>>
      /\ done' = [c |-> c, id |-> nextId + 1, waited |-> FALSE, status |-> "ERR",
                  error |-> "WRITE"]
  BY DEF CallWriteFails, Done, MayCall, InCall, serverVars, frameVars
<1>2. trusted' = FALSE
  BY DEF CallWriteFails, SetResult, Desync
<1>3. outbox' = outbox \/ outbox' = Append(outbox, RequestFrame(c, arg, FALSE))
  BY DEF CallWriteFails
<1>4. nextId \in Nat
  BY DEF TypeOK, AppType
<1>5. Pending' /\ Waiting' /\ EventsAfterReply' /\ StreamAtRest' /\ StreamInCall'
  BY <1>1, <1>2 DEF Pending, Waiting, EventsAfterReply, StreamAtRest, StreamInCall
<1>6. NotSubscribed'
  <2> DEFINE rq == RequestFrame(c, arg, FALSE)
  <2>1. outbox \in Seq(RequestFrames) /\ rq \in RequestFrames
    BY <1>1, RequestType DEF TypeOK, StreamType
  <2>2. ~WillSubscribe(rq)
    BY DEF WillSubscribe, RequestFrame
  <2>3. ~subscribed => subs = {} /\ \A j \in 1..Len(outbox) : ~WillSubscribe(outbox[j])
    BY DEF Inv, ReplyInv, NotSubscribed
  <2>4. ~subscribed => \A j \in 1..Len(outbox') : ~WillSubscribe(outbox'[j])
    <3>1. CASE outbox' = outbox
      BY <2>3, <3>1
    <3>2. CASE outbox' = Append(outbox, rq)
      <4> HIDE DEF rq
      <4>1. /\ Len(outbox') = Len(outbox) + 1 /\ Len(outbox) \in Nat
            /\ \A k \in 1..Len(outbox) : outbox'[k] = outbox[k]
            /\ outbox'[Len(outbox) + 1] = rq
        BY <2>1, <3>2, AppendType
      <4> QED
        BY <2>2, <2>3, <4>1
    <3> QED
      BY <1>3, <3>1, <3>2
  <2> QED
    BY <1>1, <2>3, <2>4 DEF NotSubscribed, WillSubscribe, Subscribes
<1>7. ReplyLeft'
  BY <1>1 DEF ReplyLeft, InCall
<1>8. ReplyServed' /\ OkMeansServed'
  BY <1>1, <1>4 DEF ReplyServed, OkMeansServed, InCall
<1> QED
  BY <1>5, <1>6, <1>7, <1>8 DEF Inv, ReplyInv

\* The request of a command that does not wait for a reply.
LEMMA SentWithoutReply ==
  ASSUME Disciplined, TypeOK, Inv, NEW c \in Calls, NEW arg \in Arguments(c),
         CallSent(c, arg), ~Waits(c)
  PROVE  Inv'
<1>1. /\ nextId' = nextId + 1 /\ nextId < MaxCalls /\ pc' = pc /\ pc \notin InCall
      /\ UNCHANGED <<conn, call, hdr, inbox, subs, served>>
      /\ Complete(c, nextId + 1, arg, FALSE)
  BY DEF CallSent, MayCall, InCall, serverVars
<1>2. trusted
  BY Zenon DEF CallSent, MayCall, Disciplined
<1>3. PICK whole \in BOOLEAN : outbox' = Append(outbox, RequestFrame(c, arg, whole))
  BY DEF CallSent
<1> DEFINE rq == RequestFrame(c, arg, whole)
<1>4. /\ rq.id = nextId + 1 /\ rq.c = c /\ ~Answers(rq)
  BY DEF RequestFrame, Answers, Waits
<1>5. /\ Len(outbox') = Len(outbox) + 1 /\ Len(outbox) \in Nat
      /\ \A k \in 1..Len(outbox) : outbox'[k] = outbox[k]
      /\ outbox'[Len(outbox) + 1] = rq
  <2>1. outbox \in Seq(RequestFrames) /\ rq \in RequestFrames
    BY <1>1, RequestType DEF TypeOK, StreamType
  <2> QED
    BY <1>3, <2>1, AppendType
<1>6. done'.id = nextId + 1 /\ done'.waited = FALSE /\ nextId \in Nat
  <2>1. done'.id = nextId + 1 /\ done'.waited = FALSE
    BY <1>1, CompleteDone, Zenon
  <2>2. nextId \in Nat
    BY DEF TypeOK, AppType
  <2> QED
    BY <2>1, <2>2
<1>7. subscribed' = (subscribed \/ Subscribes(c))
  BY DEF CallSent, Subscribes
<1> HIDE DEF rq
<1>8. \A j \in 1..Len(outbox') : ~Answers(outbox'[j])
  BY <1>1, <1>2, <1>4, <1>5, NoAnswerAtRest
<1>9. Pending'
  BY <1>8 DEF Pending, Answers
<1>10. Waiting' /\ EventsAfterReply' /\ StreamInCall'
  BY <1>1 DEF Waiting, EventsAfterReply, StreamInCall
<1>11. NotSubscribed'
  <2> SUFFICES ASSUME ~subscribed'
               PROVE  subs' = {} /\ \A j \in 1..Len(outbox') : ~WillSubscribe(outbox'[j])
    BY DEF NotSubscribed, WillSubscribe, Subscribes
  <2>1. ~subscribed /\ ~Subscribes(c)
    BY <1>7
  <2>2. subs = {} /\ \A j \in 1..Len(outbox) : ~WillSubscribe(outbox[j])
    BY <2>1 DEF Inv, ReplyInv, NotSubscribed
  <2>3. ~WillSubscribe(rq)
    BY <1>4, <2>1 DEF WillSubscribe
  <2> QED
    BY <1>1, <1>5, <2>2, <2>3
<1>12. StreamAtRest'
  BY <1>1, <1>2, <1>7 DEF Inv, ReplyInv, StreamAtRest
<1>13. ReplyLeft'
  BY <1>1 DEF ReplyLeft, InCall
<1>14. ReplyServed' /\ OkMeansServed'
  BY <1>1, <1>6 DEF ReplyServed, OkMeansServed, InCall
<1> QED
  BY <1>9, <1>10, <1>11, <1>12, <1>13, <1>14 DEF Inv, ReplyInv

\* The request of a command that waits for its reply: the stream is empty and
\* nothing is subscribed, because the application has not subscribed yet.
LEMMA SentAndWaits ==
  ASSUME Disciplined, TypeOK, Inv, NEW c \in Calls, NEW arg \in Arguments(c),
         CallSent(c, arg), Waits(c)
  PROVE  Inv'
<1>1. /\ nextId' = nextId + 1 /\ nextId < MaxCalls /\ pc' = "reply"
      /\ pc \in {"idle", "callback"} /\ UNCHANGED <<inbox, subs, served, done>>
      /\ call' = [c |-> c, id |-> nextId + 1, arg |-> arg, from |-> pc]
  BY DEF CallSent, MayCall, serverVars
<1>2. trusted /\ ~subscribed /\ trusted' = trusted
  BY Zenon DEF CallSent, MayCall, MayRead, Disciplined
<1>3. PICK whole \in BOOLEAN : outbox' = Append(outbox, RequestFrame(c, arg, whole))
  BY DEF CallSent
<1> DEFINE rq == RequestFrame(c, arg, whole)
<1>4. rq.id = nextId + 1 /\ rq.c = c /\ Answers(rq)
  BY DEF RequestFrame, Answers, Waits
<1>5. /\ Len(outbox') = Len(outbox) + 1 /\ Len(outbox) \in Nat
      /\ \A k \in 1..Len(outbox) : outbox'[k] = outbox[k]
      /\ outbox'[Len(outbox) + 1] = rq
  <2>1. outbox \in Seq(RequestFrames) /\ rq \in RequestFrames
    BY <1>1, RequestType DEF TypeOK, StreamType
  <2> QED
    BY <1>3, <2>1, AppendType
<1>6. nextId \in Nat
  BY DEF TypeOK, AppType
<1>7. subscribed' = (subscribed \/ Subscribes(c))
  BY DEF CallSent, Subscribes
<1>8. /\ subs = {} /\ \A j \in 1..Len(outbox) : ~WillSubscribe(outbox[j])
      /\ inbox = <<>> /\ Len(inbox) = 0
  BY <1>1, <1>2 DEF Inv, ReplyInv, NotSubscribed, StreamAtRest, InCall
<1>9. \A j \in 1..Len(outbox) : ~Answers(outbox[j])
  BY <1>1, <1>2, NoAnswerAtRest DEF InCall
<1> HIDE DEF rq
<1>10. Pending'
  <2> SUFFICES ASSUME NEW j \in 1..Len(outbox'), Answers(outbox'[j])
               PROVE  /\ outbox'[j].id = call'.id /\ outbox'[j].c = call'.c
                      /\ j = Len(outbox') /\ inbox' = <<>> /\ subs' = {}
                      /\ \A i \in 1..(j - 1) : ~WillSubscribe(outbox'[i])
    BY <1>1 DEF Pending, Answers, WillSubscribe, Subscribes
  <2>1. j = Len(outbox) + 1
    BY <1>5, <1>9
  <2> QED
    BY <1>1, <1>4, <1>5, <1>8, <2>1
<1>11. Waiting'
  <2>1. Subscribes(call'.c) => subscribed'
    BY <1>1, <1>7
  <2> QED
    BY <1>1, <1>2, <1>4, <1>5, <2>1 DEF Waiting, Answers, Subscribes
<1>12. NotSubscribed'
  <2> SUFFICES ASSUME ~subscribed'
               PROVE  subs' = {} /\ \A j \in 1..Len(outbox') : ~WillSubscribe(outbox'[j])
    BY DEF NotSubscribed, WillSubscribe, Subscribes
  <2>1. ~WillSubscribe(rq)
    BY <1>4, <1>7 DEF WillSubscribe
  <2> QED
    BY <1>1, <1>5, <1>8, <2>1
<1>13. EventsAfterReply' /\ StreamAtRest' /\ StreamInCall'
  BY <1>1, <1>8 DEF EventsAfterReply, StreamAtRest, StreamInCall, InCall
<1>14. ReplyLeft'
  BY <1>1, <1>8 DEF ReplyLeft
<1>15. ReplyServed'
  <2>1. done.id <= nextId /\ done.id \in Nat
    BY DEF Inv, ReplyInv, ReplyServed, TypeOK, AppType
  <2>2. done.status = "OK" /\ done.waited =>
          done.id \in 1..MaxCalls /\ \A j \in 1..Len(outbox') : outbox'[j].id # done.id
    <3>1. done.status = "OK" /\ done.waited =>
            done.id \in 1..MaxCalls /\ \A j \in 1..Len(outbox) : outbox[j].id # done.id
      BY DEF Inv, ReplyInv, ReplyServed
    <3>2. rq.id # done.id
      BY <1>4, <1>6, <2>1
    <3> QED
      BY <1>5, <3>1, <3>2
  <2>3. call'.id \in 1..nextId' /\ done.id <= nextId'
    BY <1>1, <1>6, <2>1
  <2> QED
    BY <1>1, <1>8, <2>2, <2>3 DEF ReplyServed
<1>16. OkMeansServed'
  BY <1>1 DEF Inv, OkMeansServed
<1> QED
  BY <1>10, <1>11, <1>12, <1>13, <1>14, <1>15, <1>16 DEF Inv, ReplyInv

(***************************************************************************)
(* Steps of the server and of the network.                                 *)
(***************************************************************************)

\* The server takes the first request.
LEMMA Taken ==
  ASSUME TypeOK, NEW code, ServerStep(code)
  PROVE  /\ Head(outbox) = outbox[1] /\ 1 \in 1..Len(outbox) /\ outbox # <<>>
         /\ outbox[1] \in RequestFrames /\ outbox[1].whole
         /\ Len(outbox') = Len(outbox) - 1 /\ Len(outbox') \in Nat
         /\ \A j \in 1..Len(outbox') : outbox'[j] = outbox[j + 1] /\ j + 1 \in 1..Len(outbox)
<1>1. /\ outbox \in Seq(RequestFrames) /\ outbox # <<>> /\ outbox' = Tail(outbox)
      /\ Head(outbox).whole
  BY DEF TypeOK, StreamType, ServerStep
<1>2. Head(outbox) = outbox[1] /\ 1 \in 1..Len(outbox)
  BY <1>1
<1> QED
  BY <1>1, <1>2

\* What the server does to a request changes neither what the application has
\* already been told nor, before the first subscribe, its subscriptions.
LEMMA ServerPast ==
  ASSUME TypeOK, Inv, NEW code \in Statuses, ServerStep(code)
  PROVE  /\ NotSubscribed' /\ OkMeansServed' /\ done'.id <= nextId'
         /\ done'.status = "OK" /\ done'.waited =>
              /\ done'.id \in 1..MaxCalls
              /\ \A j \in 1..Len(outbox') : outbox'[j].id # done'.id
<1>1. UNCHANGED <<done, nextId, subscribed>>
  BY DEF ServerStep, appVars
<1>2. /\ served' = [served EXCEPT ![outbox[1].id] = code]
      /\ subs' = SubsAfter(outbox[1], code)
  BY Taken DEF ServerStep
<1>3. NotSubscribed'
  <2> SUFFICES ASSUME ~subscribed
               PROVE  subs' = {} /\ \A j \in 1..Len(outbox') : ~WillSubscribe(outbox'[j])
    BY <1>1 DEF NotSubscribed, WillSubscribe, Subscribes
  <2>1. subs = {} /\ \A j \in 1..Len(outbox) : ~WillSubscribe(outbox[j])
    BY DEF Inv, ReplyInv, NotSubscribed
  <2>2. ~Subscribes(outbox[1].c)
    BY <2>1, Taken DEF WillSubscribe
  <2>3. subs' = {}
    BY <1>2, <2>1, <2>2 DEF SubsAfter, Subscribes
  <2> QED
    BY <2>1, <2>3, Taken
<1>4. done.status = "OK" /\ done.waited =>
        /\ done.id \in 1..MaxCalls /\ served[done.id] = "SUCCESS"
        /\ \A j \in 1..Len(outbox) : outbox[j].id # done.id
  BY DEF Inv, ReplyInv, ReplyServed, OkMeansServed
<1>5. OkMeansServed'
  <2> SUFFICES ASSUME done.status = "OK", done.waited
               PROVE  served'[done.id] = "SUCCESS"
    BY <1>1 DEF OkMeansServed
  <2>1. outbox[1].id # done.id /\ done.id \in 1..MaxCalls
    BY <1>4, Taken
  <2>2. served \in [1..MaxCalls -> Statuses \cup {"none"}]
    BY DEF TypeOK, AppType
  <2> QED
    BY <1>2, <1>4, <2>1, <2>2
<1>6. done.id <= nextId
  BY DEF Inv, ReplyInv, ReplyServed
<1>7. done.status = "OK" /\ done.waited =>
        \A j \in 1..Len(outbox') : outbox'[j].id # done.id
  BY <1>4, Taken
<1> QED
  BY <1>1, <1>3, <1>4, <1>5, <1>6, <1>7

\* The application is not waiting for a reply.
LEMMA ServedAtRest ==
  ASSUME TypeOK, Inv, NEW code \in Statuses, ServerStep(code), pc \notin InCall
  PROVE  Inv'
<1>1. UNCHANGED <<conn, pc, call, hdr, trusted, subscribed, nextId, done>>
  BY DEF ServerStep, frameVars, appVars
<1>2. trusted => \A j \in 1..Len(outbox) : ~Answers(outbox[j])
  BY NoAnswerAtRest
<1>3. Pending'
  <2>1. trusted => \A j \in 1..Len(outbox') : ~Answers(outbox'[j])
    BY <1>2, Taken
  <2> QED
    BY <1>1, <2>1 DEF Pending, Answers
<1>4. Waiting' /\ EventsAfterReply' /\ StreamInCall'
  BY <1>1 DEF Waiting, EventsAfterReply, StreamInCall
<1>5. StreamAtRest'
  <2>1. trusted => inbox' = inbox
    BY <1>2, Taken DEF ServerStep
  <2> QED
    BY <1>1, <2>1 DEF Inv, ReplyInv, StreamAtRest
<1>6. ReplyLeft'
  BY <1>1 DEF ReplyLeft, InCall
<1>7. ReplyServed'
  BY <1>1, ServerPast DEF ReplyServed, InCall
<1> QED
  BY <1>3, <1>4, <1>5, <1>6, <1>7, ServerPast DEF Inv, ReplyInv

\* A command waits, and its own request is not the one taken: an earlier
\* request without a reply is.
LEMMA ServedBefore ==
  ASSUME TypeOK, Inv, NEW code \in Statuses, ServerStep(code), pc \in InCall,
         ~Answers(outbox[1])
  PROVE  Inv'
<1>1. UNCHANGED <<conn, pc, call, hdr, trusted, subscribed, nextId, done, inbox>>
  BY Taken DEF ServerStep, frameVars, appVars
<1>2. pc = "reply" /\ inbox = <<>> /\ Len(inbox) = 0
  BY Taken, NothingPending
<1>3. trusted /\ Answers(outbox[Len(outbox)]) /\ Len(outbox) \in 1..Len(outbox)
      /\ Len(outbox) # 1
  BY Taken DEF Inv, ReplyInv, Waiting
<1>4. \A j \in 1..Len(outbox) : Answers(outbox[j]) =>
        /\ outbox[j].id = call.id /\ outbox[j].c = call.c /\ j = Len(outbox) /\ subs = {}
        /\ \A i \in 1..(j - 1) : ~WillSubscribe(outbox[i])
  BY <1>3 DEF Inv, ReplyInv, Pending
<1>5. 1 \in 1..(Len(outbox) - 1)
  BY <1>3
<1>6. subs = {} /\ ~WillSubscribe(outbox[1])
  BY <1>3, <1>4, <1>5
<1>7. subs' = {}
  BY <1>6, Taken DEF ServerStep, SubsAfter, WillSubscribe, Subscribes
<1>8. Pending'
  <2> SUFFICES ASSUME NEW j \in 1..Len(outbox'), Answers(outbox'[j])
               PROVE  /\ outbox'[j].id = call.id /\ outbox'[j].c = call.c
                      /\ j = Len(outbox')
                      /\ \A i \in 1..(j - 1) : ~WillSubscribe(outbox'[i])
    BY <1>1, <1>2, <1>7 DEF Pending, Answers, WillSubscribe, Subscribes
  <2>1. /\ j + 1 \in 1..Len(outbox) /\ outbox'[j] = outbox[j + 1]
        /\ Len(outbox') = Len(outbox) - 1 /\ Len(outbox) \in Nat
    BY <1>3, Taken
  <2>2. /\ outbox[j + 1].id = call.id /\ outbox[j + 1].c = call.c /\ j + 1 = Len(outbox)
        /\ \A i \in 1..((j + 1) - 1) : ~WillSubscribe(outbox[i])
    BY <1>4, <2>1
  <2>3. \A i \in 1..(j - 1) : outbox'[i] = outbox[i + 1] /\ i + 1 \in 1..((j + 1) - 1)
    BY <2>1, Taken
  <2> QED
    BY <2>1, <2>2, <2>3
<1>9. Waiting'
  <2>1. Answers(outbox'[Len(outbox')])
    BY <1>3, Taken
  <2>2. Subscribes(call.c) => subscribed
    BY DEF Inv, ReplyInv, Waiting
  <2> QED
    BY <1>1, <1>2, <1>3, <2>1, <2>2 DEF Waiting, Answers, Subscribes
<1>10. EventsAfterReply' /\ StreamAtRest' /\ StreamInCall'
  BY <1>1, <1>2, <1>7 DEF EventsAfterReply, StreamAtRest, StreamInCall, InCall
<1>11. ReplyLeft'
  BY <1>1, <1>2 DEF ReplyLeft
<1>12. ReplyServed'
  <2>1. call.id \in 1..nextId
    BY DEF Inv, ReplyInv, ReplyServed
  <2> QED
    BY <1>1, <1>2, <2>1, ServerPast DEF ReplyServed
<1> QED
  BY <1>8, <1>9, <1>10, <1>11, <1>12, ServerPast DEF Inv, ReplyInv

\* The request of the waiting command is taken: its reply is now all there is
\* in the stream.
LEMMA ServedNow ==
  ASSUME Disciplined, TypeOK, Inv, NEW code \in Statuses, ServerStep(code),
         pc \in InCall, Answers(outbox[1])
  PROVE  Inv'
<1>1. UNCHANGED <<conn, pc, call, hdr, trusted, subscribed, nextId, done>>
  BY DEF ServerStep, frameVars, appVars
<1>2. trusted
  BY DEF Inv, ReplyInv, Waiting
<1>3. /\ pc = "reply" /\ outbox[1].id = call.id /\ outbox[1].c = call.c
      /\ 1 = Len(outbox) /\ inbox = <<>> /\ subs = {}
  BY <1>2, Taken DEF Inv, ReplyInv, Pending
<1>4. Len(outbox') = 0 /\ outbox' = <<>>
  BY <1>3, Taken DEF TypeOK, StreamType, ServerStep
<1>5. PICK len \in ReplyLens(call.c, code) :
        inbox' = inbox \o Words(Reply(outbox[1], code, len))
  BY <1>3, Taken DEF ServerStep
<1> DEFINE f == Reply(outbox[1], code, len)
<1>6. f \in Frames
  BY <1>3, <1>5, Taken, ReplyType
<1>7. f.magic = "RES" /\ f.id = call.id /\ f.len = len /\ f.code = code
  BY <1>3 DEF Reply, Frame
<1>8. len \in Nat
  BY <1>5, ReplyLensType
<1> HIDE DEF f
<1>9. /\ inbox' = Words(f) /\ Len(inbox') = HeaderWords + len
      /\ \A k \in 1..(HeaderWords + len) : inbox'[k] = [frame |-> f, i |-> k]
  <2>1. /\ Words(f) \in Seq(Word) /\ Len(Words(f)) = HeaderWords + f.len
        /\ \A k \in 1..(HeaderWords + f.len) : Words(f)[k] = [frame |-> f, i |-> k]
    BY <1>6, WordsType
  <2>2. inbox' = inbox \o Words(f)
    BY <1>5 DEF f
  <2>3. inbox' = Words(f)
    BY <1>3, <2>1, <2>2
  <2> QED
    BY <1>7, <2>1, <2>3
<1>10. inbox' # <<>> /\ inbox'[1] = [frame |-> f, i |-> 1]
  <2>1. 1 \in 1..(HeaderWords + len)
    BY <1>8
  <2> QED
    BY <1>9, <2>1
<1>11. Subscribes(call.c) => len = 0
  <2>1. call.c \in AllCalls
    BY CallType DEF TypeOK, Calls, AllCalls
  <2> QED
    BY <1>5, <2>1, SubscribeHasNoBody, ReplyLength
<1>12. Pending'
  BY <1>4 DEF Pending
<1>13. Waiting'
  BY <1>1, <1>2, <1>3, <1>4 DEF Inv, ReplyInv, Waiting, Subscribes
<1>14. EventsAfterReply'
  <2>1. ~Subscribes(call.c) => subs' = {}
    BY <1>3, Taken DEF ServerStep, SubsAfter, Subscribes
  <2>2. Len(inbox') >= HeaderWords
    BY <1>8, <1>9
  <2> QED
    BY <1>1, <2>1, <2>2 DEF EventsAfterReply, Subscribes
<1>15. StreamAtRest'
  BY <1>1 DEF StreamAtRest
<1>16. StreamInCall'
  <2>1. ASSUME NEW k \in 1..Len(inbox')
        PROVE  IsOwn(inbox[k])'
    BY <1>1, <1>5, <1>7, <1>9, <2>1 DEF IsOwn, ReplyLens
  <2>2. ASSUME NEW k \in 1..Len(inbox'), Subscribes(call.c)
        PROVE  k <= HeaderWords
    BY <1>9, <1>11, <2>2
  <2> QED
    BY <1>1, <2>1, <2>2 DEF StreamInCall, Subscribes
<1>17. ReplyLeft'
  BY <1>1, <1>3, <1>7, <1>9, <1>10 DEF ReplyLeft
<1>18. ReplyServed'
  <2>1. call.id \in 1..nextId /\ call.id \in 1..MaxCalls
    BY CallId DEF Inv, ReplyInv, ReplyServed
  <2>2. served'[call.id] = code
    <3>1. served' = [served EXCEPT ![call.id] = code]
      BY <1>3, Taken DEF ServerStep
    <3>2. served \in [1..MaxCalls -> Statuses \cup {"none"}]
      BY DEF TypeOK, AppType
    <3> QED
      BY <2>1, <3>1, <3>2
  <2> QED
    BY <1>1, <1>3, <1>7, <1>10, <2>1, <2>2, ServerPast DEF ReplyServed
<1> QED
  BY <1>12, <1>13, <1>14, <1>15, <1>16, <1>17, <1>18, ServerPast DEF Inv, ReplyInv

\* An event goes to the end of the stream: behind the reply to the subscribe
\* that causes it, if that has not been read yet.
LEMMA SendEventStep ==
  ASSUME TypeOK, Inv, NEW s \in Sub, NEW type \in protocol_event_type, SendEvent(s, type)
  PROVE  Inv'
<1>1. /\ UNCHANGED <<conn, pc, call, hdr, outbox, trusted, subscribed, nextId, done,
                    subs, served>>
      /\ conn = "up" /\ subs # {}
  BY DEF SendEvent, frameVars, appVars
<1> DEFINE len == EventFieldWords(s.via) + (IF type = "MESSAGE" THEN MsgWords ELSE 0)
           f == Event(s, type, len, sent + 1)
<1>2. f \in Frames /\ f.magic = "EVENT"
  <2>1. len \in Nat
    BY EventFieldWordsType
  <2>2. sent + 1 \in Nat
    BY DEF TypeOK, AppType
  <2> QED
    BY <2>1, <2>2, EventType DEF Event, Frame
<1>3. inbox' = inbox \o Words(f)
  BY DEF SendEvent
<1> HIDE DEF f
<1>4. /\ Len(inbox') = Len(inbox) + Len(Words(f)) /\ Len(inbox) \in Nat
      /\ Len(Words(f)) \in Nat
      /\ \A k \in 1..Len(inbox) : inbox'[k] = inbox[k]
      /\ \A k \in (Len(inbox) + 1)..Len(inbox') : inbox'[k].frame.magic = "EVENT"
  <2>1. inbox \in Seq(Word) /\ Words(f) \in Seq(Word) /\ f.len \in Nat
    BY <1>2, WordsType DEF TypeOK, StreamType, Word, Frames
  <2>2. /\ Len(inbox') = Len(inbox) + Len(Words(f)) /\ Len(inbox) \in Nat
        /\ Len(Words(f)) \in Nat
        /\ \A k \in 1..Len(inbox) : inbox'[k] = inbox[k]
        /\ \A k \in (Len(inbox) + 1)..Len(inbox') :
              inbox'[k] = Words(f)[k - Len(inbox)] /\ k - Len(inbox) \in 1..Len(Words(f))
    BY <1>3, <2>1
  <2>3. \A k \in 1..Len(Words(f)) : Words(f)[k].frame = f
    <3> TAKE k \in 1..Len(Words(f))
    <3>1. k \in 1..(HeaderWords + f.len)
      BY <1>2, WordsType
    <3>2. Words(f)[k] = [frame |-> f, i |-> k]
      BY <1>2, <3>1, WordsType
    <3> QED
      BY <3>2
  <2> QED
    BY <1>2, <2>2, <2>3
<1>5. trusted => \A j \in 1..Len(outbox) : ~Answers(outbox[j])
  BY <1>1 DEF Inv, ReplyInv, Pending
<1>6. subscribed
  BY <1>1 DEF Inv, ReplyInv, NotSubscribed
<1>7. pc \in InCall => /\ Subscribes(call.c) /\ Len(inbox) >= HeaderWords
                       /\ pc = "reply" /\ trusted
  BY <1>1 DEF Inv, ReplyInv, EventsAfterReply, Waiting
<1>8. Pending'
  BY <1>1, <1>5 DEF Pending, Answers
<1>9. Waiting' /\ NotSubscribed'
  BY <1>1 DEF Inv, ReplyInv, Waiting, NotSubscribed, Answers, Subscribes, WillSubscribe
<1>10. EventsAfterReply'
  BY <1>1, <1>4, <1>7 DEF EventsAfterReply, Subscribes
<1>11. StreamAtRest'
  <2> SUFFICES ASSUME trusted, pc \notin InCall \cup {"crashed"}
               PROVE  \A k \in 1..Len(inbox') : inbox'[k].frame.magic = "EVENT"
    BY <1>1, <1>6 DEF StreamAtRest
  <2>1. \A k \in 1..Len(inbox) : inbox[k].frame.magic = "EVENT"
    BY DEF Inv, ReplyInv, StreamAtRest
  <2> QED
    BY <1>4, <2>1
<1>12. StreamInCall'
  <2> SUFFICES ASSUME pc \in InCall, NEW k \in 1..Len(inbox')
               PROVE  IF k <= HeaderWords THEN IsOwn(inbox[k])'
                                          ELSE inbox'[k].frame.magic = "EVENT"
    BY <1>1, <1>7 DEF StreamInCall, Subscribes
  <2>1. \A i \in 1..Len(inbox) : IF i <= HeaderWords THEN IsOwn(inbox[i])
                                                   ELSE inbox[i].frame.magic = "EVENT"
    BY <1>7 DEF Inv, ReplyInv, StreamInCall
  <2>2. CASE k <= Len(inbox)
    <3>1. k \in 1..Len(inbox) /\ inbox'[k] = inbox[k]
      BY <1>4, <2>2
    <3> QED
      BY <1>1, <2>1, <3>1 DEF IsOwn, ReplyLens
  <2>3. CASE k > Len(inbox)
    BY <1>4, <1>7, <2>3
  <2> QED
    BY <1>4, <2>2, <2>3
<1>13. ReplyLeft'
  <2>1. pc \notin {"body", "tag", "message"}
    BY <1>7 DEF InCall
  <2>2. ASSUME pc = "reply"
        PROVE  inbox'[1].i = 1 /\ Subscribes(call.c)
    <3>1. pc \in InCall
      BY <2>2 DEF InCall
    <3>2. 1 \in 1..Len(inbox) /\ inbox # <<>>
      BY <1>4, <1>7, <3>1
    <3>3. inbox[1].i = 1
      BY <2>2, <3>2 DEF Inv, ReplyInv, ReplyLeft
    <3> QED
      BY <1>4, <1>7, <3>1, <3>2, <3>3
  <2> QED
    BY <1>1, <2>1, <2>2 DEF ReplyLeft, Subscribes
<1>14. ReplyServed' /\ OkMeansServed'
  <2>1. ASSUME pc = "reply"
        PROVE  served[call.id] = inbox'[1].frame.code
    <3>1. pc \in InCall
      BY <2>1 DEF InCall
    <3>2. 1 \in 1..Len(inbox) /\ inbox # <<>>
      BY <1>4, <1>7, <3>1
    <3> QED
      BY <1>4, <2>1, <3>2 DEF Inv, ReplyInv, ReplyServed
  <2> QED
    BY <1>1, <2>1 DEF Inv, ReplyInv, ReplyServed, OkMeansServed
<1> QED
  BY <1>8, <1>9, <1>10, <1>11, <1>12, <1>13, <1>14 DEF Inv, ReplyInv

\* The connection breaks: the requests are lost and the stream is cut.
LEMMA BreakStep ==
  ASSUME TypeOK, Inv, Break, NEW n \in 0..Len(inbox), inbox' = SubSeq(inbox, 1, n)
  PROVE  Inv'
<1>1. /\ UNCHANGED <<pc, call, hdr, trusted, subscribed, nextId, done, subs, served>>
      /\ conn' = "broken" /\ outbox' = <<>> /\ Len(outbox') = 0
  BY DEF Break, frameVars, appVars, serverVars
<1>2. /\ Len(inbox') = n /\ Len(inbox) \in Nat
      /\ \A k \in 1..n : inbox'[k] = inbox[k] /\ k \in 1..Len(inbox)
      /\ inbox' # <<>> => inbox # <<>> /\ inbox'[1] = inbox[1]
  <2>1. inbox \in Seq(Word)
    BY DEF TypeOK, StreamType, Word
  <2>2. /\ inbox' \in Seq(Word) /\ Len(inbox') = n
        /\ \A k \in 1..n : inbox'[k] = inbox[k]
    BY <2>1, PrefixType
  <2> QED
    BY <2>1, <2>2
<1>3. Pending' /\ Waiting' /\ NotSubscribed' /\ EventsAfterReply'
  BY <1>1 DEF Inv, ReplyInv, Pending, Waiting, NotSubscribed, EventsAfterReply, Subscribes
<1>4. StreamAtRest'
  BY <1>1, <1>2 DEF Inv, ReplyInv, StreamAtRest
<1>5. StreamInCall'
  <2> SUFFICES ASSUME pc \in InCall, NEW k \in 1..n
               PROVE  IF k <= HeaderWords \/ ~Subscribes(call.c)
                      THEN IsOwn(inbox[k])' ELSE inbox'[k].frame.magic = "EVENT"
    BY <1>1, <1>2 DEF StreamInCall, Subscribes
  <2>1. IF k <= HeaderWords \/ ~Subscribes(call.c)
        THEN IsOwn(inbox[k]) ELSE inbox[k].frame.magic = "EVENT"
    BY <1>2 DEF Inv, ReplyInv, StreamInCall
  <2>2. IsOwn(inbox[k]) => IsOwn(inbox[k])'
    <3>1. call' = call /\ inbox'[k] = inbox[k]
      BY <1>1, <1>2
    <3> QED
      BY <3>1 DEF IsOwn
  <2> QED
    BY <1>2, <2>1, <2>2
<1>6. ReplyLeft'
  <2>1. hdr.len \in Nat
    BY DEF TypeOK, FrameType, Frames
  <2>2. inbox # <<>> => inbox[1].frame.len \in Nat
    <3>1. inbox \in Seq(Word)
      BY DEF TypeOK, StreamType, Word
    <3>2. inbox # <<>> => inbox[1] \in Word
      BY <3>1
    <3> QED
      BY <3>2 DEF Word, Frames
  <2> QED
    BY <1>1, <1>2, <2>1, <2>2 DEF Inv, ReplyInv, ReplyLeft, Subscribes
<1>7. ReplyServed' /\ OkMeansServed'
  BY <1>1, <1>2 DEF Inv, ReplyInv, ReplyServed, OkMeansServed
<1> QED
  BY <1>3, <1>4, <1>5, <1>6, <1>7 DEF Inv, ReplyInv

LEMMA ServerInv ==
  ASSUME Disciplined, TypeOK, Inv, ServerOrNetworkStep
  PROVE  Inv'
<1>1. inbox \in Seq(Word)
  BY DEF TypeOK, StreamType, Word
<1>2. CASE ServerMisframe
  <2>1. Len(inbox) \in 0..Len(inbox) /\ inbox' = SubSeq(inbox, 1, Len(inbox)) /\ Break
    BY <1>1, <1>2 DEF ServerMisframe
  <2> QED
    BY <2>1, BreakStep
<1>3. CASE Drop
  BY <1>3, BreakStep DEF Drop
<1>4. CASE Serve
  BY <1>4, ServedAtRest, ServedBefore, ServedNow DEF Serve
<1> QED
  BY <1>2, <1>3, <1>4, SendEventStep DEF ServerOrNetworkStep

LEMMA UnchangedInv ==
  ASSUME Inv, UNCHANGED vars
  PROVE  Inv'
<1>1. UNCHANGED <<conn, pc, call, hdr, trusted, subscribed, nextId, done, subs, served,
                  inbox, outbox>>
  BY DEF vars, frameVars, appVars, serverVars
<1>2. Pending' /\ Waiting' /\ NotSubscribed' /\ EventsAfterReply'
  BY <1>1 DEF Inv, ReplyInv, Pending, Waiting, NotSubscribed, EventsAfterReply,
     Subscribes, WillSubscribe, Answers
<1>3. StreamAtRest' /\ StreamInCall' /\ ReplyLeft'
  BY <1>1 DEF Inv, ReplyInv, StreamAtRest, StreamInCall, ReplyLeft, Subscribes, IsOwn,
     ReplyLens
<1>4. ReplyServed' /\ OkMeansServed'
  BY <1>1 DEF Inv, ReplyInv, ReplyServed, OkMeansServed
<1> QED
  BY <1>2, <1>3, <1>4 DEF Inv, ReplyInv

LEMMA NextInv ==
  ASSUME Disciplined, TypeOK, Inv, [Next]_vars
  PROVE  Inv'
<1>1. CASE AppStep
  BY <1>1, ConnectStep, QuietStep, CallWriteFailsStep, SentWithoutReply, SentAndWaits
     DEF AppStep
<1> QED
  BY <1>1, CallStepInv, ProcessStepInv, ServerInv, UnchangedInv DEF Next

LEMMA InitInv == Init => Inv
<1> SUFFICES ASSUME Init PROVE Inv
  OBVIOUS
<1>1. /\ pc = "idle" /\ inbox = <<>> /\ outbox = <<>> /\ subs = {} /\ nextId = 0
      /\ Len(inbox) = 0 /\ Len(outbox) = 0 /\ done.id = 0 /\ done.waited = FALSE
  BY DEF Init
<1>2. Pending /\ Waiting /\ NotSubscribed /\ EventsAfterReply /\ StreamAtRest
  BY <1>1 DEF Pending, Waiting, NotSubscribed, EventsAfterReply, StreamAtRest, InCall
<1>3. StreamInCall /\ ReplyLeft /\ ReplyServed /\ OkMeansServed
  BY <1>1 DEF StreamInCall, ReplyLeft, ReplyServed, OkMeansServed, InCall
<1> QED
  BY <1>2, <1>3 DEF Inv, ReplyInv

(***************************************************************************)
(* Theorems.                                                               *)
(***************************************************************************)

\* The reply a disciplined application is reading is its own, is in front of
\* every event, and is at the position the client takes it to be at; between
\* two commands the stream holds events only.
THEOREM ReplyInvariant == ASSUME Disciplined PROVE Spec => [](TypeOK /\ Inv)
<1>1. Init => TypeOK /\ Inv
  BY InitType, InitInv
<1>2. TypeOK /\ Inv /\ [Next]_vars => (TypeOK /\ Inv)'
  BY NextType, NextInv
<1> QED
  BY <1>1, <1>2, PTL DEF Spec

\* The inductive invariant the runs check.
THEOREM ReplyInvCorrect == ASSUME Disciplined PROVE Spec => []ReplyInv
<1>1. TypeOK /\ Inv => ReplyInv
  BY DEF Inv
<1> QED
  BY <1>1, ReplyInvariant, PTL

\* EMQ_STATUS_OK from a command that read its reply means that the server
\* executed that very request with success.
THEOREM OkMeansServedCorrect == ASSUME Disciplined PROVE Spec => []OkMeansServed
<1>1. TypeOK /\ Inv => OkMeansServed
  BY DEF Inv
<1> QED
  BY <1>1, ReplyInvariant, PTL

\* No part of a reply is left in the stream for a later command or for
\* emq_process while the application trusts the connection.
THEOREM ReplyConsumedCorrect == ASSUME Disciplined PROVE Spec => []ReplyConsumed
<1>1. TypeOK /\ Inv => ReplyConsumed
  BY DEF Inv, ReplyInv, StreamAtRest, ReplyConsumed
<1> QED
  BY <1>1, ReplyInvariant, PTL

(***************************************************************************)
(* What a command reads.                                                   *)
(***************************************************************************)

\* A step of a command reads words from the front of the stream, and no more
\* than the first read asks for while it waits for the header.
LEMMA CallReads ==
  ASSUME TypeOK, Inv, CallStep
  PROVE  \E k \in 0..Len(inbox) : /\ inbox' = Rest(inbox, k)
                                  /\ pc = "reply" => k <= FirstRead(call.c)
<1>1. inbox \in Seq(Word) /\ Len(inbox) \in Nat /\ hdr.len \in Nat
  <2>1. inbox \in Seq(Word)
    BY DEF TypeOK, StreamType, Word
  <2>2. hdr.len \in Nat
    BY DEF TypeOK, FrameType, Frames
  <2> QED
    BY <2>1, <2>2
<1>2. ASSUME pc = "reply", ReadOk(FirstRead(call.c)) \/ ReadFails(FirstRead(call.c))
      PROVE  \E k \in 0..Len(inbox) : inbox' = Rest(inbox, k) /\ k <= FirstRead(call.c)
  <2> DEFINE n == FirstRead(call.c)
  <2>1. n \in Nat
    BY FirstReadLength
  <2>2. ReadOk(n) \/ ReadFails(n)
    BY <1>2
  <2> HIDE DEF n
  <2>3. CASE ReadOk(n)
    <3>1. n \in 0..Len(inbox) /\ inbox' = Rest(inbox, n) /\ n <= n
      BY <1>1, <2>1, <2>3 DEF ReadOk, Rest
    <3> QED
      BY <3>1 DEF n
  <2>4. CASE ReadFails(n)
    <3>1. PICK k \in 0..Len(inbox) : k < n /\ inbox' = Rest(inbox, k)
      BY <2>4 DEF ReadFails, Rest
    <3>2. k <= n
      BY <1>1, <2>1, <3>1
    <3> QED
      BY <3>1, <3>2 DEF n
  <2> QED
    BY <2>2, <2>3, <2>4
<1>3. CASE ReplyReadFails \/ ReplyRejected \/ ReplyStatus \/ ReplySuccess
  BY <1>2, <1>3 DEF ReplyReadFails, ReplyRejected, ReplyStatus, ReplySuccess
<1>4. CASE BodyRead \/ BodyFails
  <2>1. /\ pc # "reply"
        /\ ReadOk(hdr.len) \/ ReadFails(hdr.len) \/ inbox' = inbox
    BY <1>4 DEF BodyRead, BodyFails
  <2> QED
    BY <1>1, <2>1, ReadIsRest, NothingRead
<1>5. CASE TagRead \/ TagFails
  <2>1. pc # "reply" /\ (ReadOk(TagWords) \/ ReadFails(TagWords)) /\ TagWords \in Nat
    BY <1>5 DEF TagRead, TagFails
  <2> QED
    BY <2>1, ReadIsRest
<1>6. CASE MessageRead
  <2>1. pc # "reply" /\ hdr.len - TagWords \in Nat /\ ReadOk(hdr.len - TagWords)
    BY <1>1, <1>6 DEF MessageRead
  <2> QED
    BY <2>1, ReadIsRest
<1>7. CASE MessageFails
  <2>1. pc # "reply" /\ (ReadFails(hdr.len - TagWords) \/ inbox' = inbox)
    BY <1>7 DEF MessageFails
  <2> QED
    BY <2>1, ReadIsRest, NothingRead
<1> QED
  BY <1>3, <1>4, <1>5, <1>6, <1>7 DEF CallStep

\* The words it reads are of its own reply.
LEMMA CallReadsOwn ==
  ASSUME TypeOK, Inv, pc \in InCall, CallStep
  PROVE  \A k \in 1..(Len(inbox) - Len(inbox')) :
           inbox[k].frame.magic = "RES" /\ inbox[k].frame.id = call.id
<1>1. PICK n \in 0..Len(inbox) : /\ inbox' = Rest(inbox, n)
                                 /\ pc = "reply" => n <= FirstRead(call.c)
  BY CallReads
<1>2. inbox \in Seq(Word) /\ Len(inbox) \in Nat
  BY DEF TypeOK, StreamType, Word
<1>3. Len(inbox) - Len(inbox') = n
  <2>1. Len(inbox') = Len(inbox) - n
    BY <1>1, <1>2, RestType DEF Rest
  <2> QED
    BY <1>2, <2>1
<1>4. SUFFICES ASSUME NEW k \in 1..n PROVE IsOwn(inbox[k])
  BY <1>3 DEF IsOwn
<1>5. k \in 1..Len(inbox)
  BY <1>2
<1>6. CASE Subscribes(call.c)
  <2>1. pc = "reply"
    BY <1>6 DEF Inv, ReplyInv, Waiting
  <2>2. call.c \in AllCalls
    BY CallType DEF TypeOK, Calls, AllCalls
  <2>3. FirstRead(call.c) = HeaderWords
    BY <1>6, <2>2, SubscribeHasNoBody, FirstReadLength
  <2>4. k <= HeaderWords
    BY <1>1, <2>1, <2>3
  <2> QED
    BY <1>5, <2>4 DEF Inv, ReplyInv, StreamInCall
<1>7. CASE ~Subscribes(call.c)
  BY <1>5, <1>7 DEF Inv, ReplyInv, StreamInCall
<1> QED
  BY <1>6, <1>7

\* Only the steps of a command move it on.
LEMMA OnlyCallStep ==
  ASSUME pc \in InCall, pc' # pc, Next
  PROVE  CallStep
<1>1. ASSUME AppStep PROVE FALSE
  BY <1>1 DEF AppStep, emq_connect, emq_disconnect, Restart, emq_noack_enable,
     emq_noack_disable, SetNoack, emq_process, CallRejected, CallWriteFails, CallSent,
     MayCall, CallbackReturns, InCall
<1>2. ASSUME ProcessStep PROVE FALSE
  BY <1>2 DEF ProcessStep, EventReadFails, EventRejected, EventHeader, EventFieldsFail,
     EventNotFound, EventFound, EventMessage, EventMessageFails, InCall
<1>3. ASSUME ServerOrNetworkStep PROVE FALSE
  BY <1>3 DEF ServerOrNetworkStep, Serve, ServerStep, SendEvent, ServerMisframe, Drop,
     Break
<1> QED
  BY <1>1, <1>2, <1>3 DEF Next

\* A command takes the words of its own reply from the stream and no others: not
\* those of an event, and not those of an earlier command's reply.
THEOREM OwnReplyOnlyCorrect == ASSUME Disciplined PROVE Spec => OwnReplyOnly
<1> DEFINE A == (pc \in InCall /\ pc' # pc) =>
                  (\A k \in 1..(Len(inbox) - Len(inbox')) :
                     inbox[k].frame.magic = "RES" /\ inbox[k].frame.id = call.id)
<1>1. TypeOK /\ Inv /\ [Next]_vars => [A]_vars
  BY OnlyCallStep, CallReadsOwn
<1> QED
  BY <1>1, ReplyInvariant, PTL DEF Spec, OwnReplyOnly
=============================================================================
