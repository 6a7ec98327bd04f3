-------------------------- MODULE EmqServiceProofs --------------------------
(***************************************************************************)
(* The commands of EmqClient as remote calls, for every value of the       *)
(* constants: what a disciplined application is told about a command is    *)
(* what the server did with that request (ErrorMeansNotServed), and its    *)
(* calls implement EmqService.                                             *)
(*                                                                         *)
(* emq_channel_punsubscribe compares its reply with the command of another *)
(* function and refuses every reply, so the theorems are about             *)
(* applications that do not call it (Comparable).                          *)
(***************************************************************************)
EXTENDS EmqReplyProofs

USE ConstantsAssumption

Comparable == Disciplined /\ "emq_channel_punsubscribe" \notin Apis

(***************************************************************************)
(* The invariant, on top of ReplyInv.                                      *)
(***************************************************************************)

\* The requests are numbered in the order they are written.
RequestsNumbered ==
  \A j \in 1..Len(outbox) :
    /\ outbox[j].id <= nextId
    /\ \A i \in 1..(j - 1) : outbox[i].id < outbox[j].id

\* The server has not got to a request that it has still to take, nor to any
\* later one.
ServedInTurn ==
  \A id \in 1..MaxCalls :
    /\ id > nextId => served[id] = "none"
    /\ \A j \in 1..Len(outbox) : outbox[j].id <= id => served[id] = "none"

\* A reply carries the command of its request.
OwnCommand == pc = "reply" /\ inbox # <<>> => inbox[1].frame.cmd = call.c.req.cmd

MessageCall == pc \in {"tag", "message"} => call.c.body = "message"

\* The last command failed with an error that says what the server did.
Refused ==
  done.status = "ERR" /\ done.waited /\ done.error \notin {"READ", "ALLOC", "NONE"}
RefusalServed ==
  Refused => done.id \in 1..MaxCalls /\ served[done.id] \notin {"none", "SUCCESS"}

ServiceInv ==
  RequestsNumbered /\ ServedInTurn /\ OwnCommand /\ MessageCall /\ RefusalServed

(***************************************************************************)
(* Facts about the commands and their replies.                             *)
(***************************************************************************)

\* Every command but emq_channel_punsubscribe compares the reply with its own
\* command, and compares the length only where the length is fixed.
LEMMA ChecksOwnReply ==
  ASSUME NEW c \in AllCalls, c.api # "emq_channel_punsubscribe"
  PROVE  /\ c.expect = c.req.cmd
         /\ c.header = "exact" => c.body \notin {"list", "message"}
<1> DEFINE P(d) == /\ d.expect = d.req.cmd
                   /\ d.header = "exact" => d.body \notin {"list", "message"}
<1>1. \A api, req : P(Command(api, req))
  BY DEF Command
<1>2. \A api, req, header, body :
        (header = "exact" => body \notin {"list", "message"}) =>
          P(Query(api, req, header, body))
  BY DEF Query, Command
<1>3. \A api, req, expire : P(Send(api, req, expire))
  BY DEF Send, Command
<1>4. \A api, req, effect : P(Subscribe(api, req, effect)) /\ P(Unsubscribe(api, req, effect))
  BY DEF Subscribe, Unsubscribe, Command
<1>5. P(emq_queue_confirm) /\ emq_channel_punsubscribe.api = "emq_channel_punsubscribe"
  BY DEF emq_queue_confirm, emq_channel_punsubscribe, Unsubscribe, Command
<1> HIDE DEF P
<1>6. P(emq_auth) /\ P(emq_ping) /\ P(emq_stat) /\ P(emq_save) /\ P(emq_flush)
      /\ P(emq_user_create) /\ P(emq_user_list) /\ P(emq_user_rename)
      /\ P(emq_user_set_perm) /\ P(emq_user_delete)
  BY <1>1, <1>2 DEF emq_auth, emq_ping, emq_stat, emq_save, emq_flush,
     emq_user_create, emq_user_list, emq_user_rename, emq_user_set_perm,
     emq_user_delete
<1>7. P(emq_queue_create) /\ P(emq_queue_declare) /\ P(emq_queue_exist)
      /\ P(emq_queue_list) /\ P(emq_queue_rename) /\ P(emq_queue_size)
      /\ P(emq_queue_push) /\ P(emq_queue_get) /\ P(emq_queue_pop)
      /\ P(emq_queue_subscribe) /\ P(emq_queue_unsubscribe)
      /\ P(emq_queue_purge) /\ P(emq_queue_delete)
  BY <1>1, <1>2, <1>3, <1>4 DEF emq_queue_create, emq_queue_declare,
     emq_queue_exist, emq_queue_list, emq_queue_rename, emq_queue_size,
     emq_queue_push, emq_queue_get, emq_queue_pop, emq_queue_subscribe,
     emq_queue_unsubscribe, emq_queue_purge, emq_queue_delete
<1>8. P(emq_route_create) /\ P(emq_route_exist) /\ P(emq_route_list)
      /\ P(emq_route_keys) /\ P(emq_route_rename) /\ P(emq_route_bind)
      /\ P(emq_route_unbind) /\ P(emq_route_push) /\ P(emq_route_delete)
  BY <1>1, <1>2, <1>3 DEF emq_route_create, emq_route_exist, emq_route_list,
     emq_route_keys, emq_route_rename, emq_route_bind, emq_route_unbind,
     emq_route_push, emq_route_delete
<1>9. P(emq_channel_create) /\ P(emq_channel_exist) /\ P(emq_channel_list)
      /\ P(emq_channel_rename) /\ P(emq_channel_publish)
      /\ P(emq_channel_subscribe) /\ P(emq_channel_psubscribe)
      /\ P(emq_channel_unsubscribe) /\ P(emq_channel_delete)
  BY <1>1, <1>2, <1>3, <1>4 DEF emq_channel_create, emq_channel_exist,
     emq_channel_list, emq_channel_rename, emq_channel_publish,
     emq_channel_subscribe, emq_channel_psubscribe, emq_channel_unsubscribe,
     emq_channel_delete
<1>10. P(c)
  BY <1>5, <1>6, <1>7, <1>8, <1>9 DEF AllCalls
<1> QED
  BY <1>10 DEF P

\* The command being executed is one the application may call.
LEMMA CallComparable ==
  ASSUME Comparable, TypeOK
  PROVE  call.c \in AllCalls /\ call.c.api # "emq_channel_punsubscribe"
<1>1. emq_ping \in AllCalls /\ emq_ping.api # "emq_channel_punsubscribe"
  <2>1. emq_ping \in AllCalls
    BY DEF AllCalls
  <2>2. emq_ping.api = "emq_ping"
    BY DEF emq_ping, Command
  <2> QED
    BY <2>1, <2>2
<1>2. call.c \in Calls \cup {emq_ping}
  BY CallType DEF TypeOK
<1>3. \A c \in Calls : c \in AllCalls /\ c.api # "emq_channel_punsubscribe"
  BY DEF Calls, Comparable
<1> QED
  BY <1>1, <1>2, <1>3

\* What the first read of a command finds: the status is what the server did.
LEMMA StatusServed ==
  ASSUME TypeOK, Inv, pc = "reply", ReadOk(FirstRead(call.c))
  PROVE  /\ served[call.id] = Header.code /\ Header.code # "none"
         /\ served[call.id] \in Statuses /\ inbox # <<>> /\ Header = inbox[1].frame
         /\ 1 \in 1..Len(inbox)
<1>1. inbox \in Seq(Word) /\ FirstRead(call.c) \in Nat \ {0} /\ FirstRead(call.c) <= Len(inbox)
  BY FirstReadLength DEF TypeOK, StreamType, Word, ReadOk
<1>2. inbox # <<>> /\ inbox[1] \in Word /\ 1 \in 1..Len(inbox)
  BY <1>1
<1>3. served[call.id] = Header.code /\ Header = inbox[1].frame
  BY ReplyRead
<1>4. inbox[1].frame.code \in protocol_response_status \cup protocol_event_type \cup {""}
  BY <1>2 DEF Word, Frames
<1>5. Header.code # "none"
  BY <1>3, <1>4 DEF protocol_response_status, protocol_event_type
<1>6. call.id \in 1..MaxCalls /\ served \in [1..MaxCalls -> Statuses \cup {"none"}]
  BY CallId DEF InCall, TypeOK, AppType
<1> QED
  BY <1>2, <1>3, <1>5, <1>6

\* A reply that is refused reports an error: its length is not the one of a
\* success.
LEMMA RejectedMeansError ==
  ASSUME Comparable, TypeOK, Inv, OwnCommand, ReplyRejected
  PROVE  served[call.id] \notin {"none", "SUCCESS"}
<1>1. pc = "reply" /\ ReadOk(FirstRead(call.c)) /\ ~HeaderAccepted(call.c, Header)
  BY DEF ReplyRejected
<1>2. /\ served[call.id] = Header.code /\ Header.code # "none"
      /\ inbox # <<>> /\ 1 \in 1..Len(inbox) /\ Header = inbox[1].frame
  BY <1>1, StatusServed
<1>3. Header.cmd = call.c.req.cmd
  BY <1>1, <1>2 DEF OwnCommand
<1>4. Header.magic = "RES" /\ Header.len \in ReplyLens(call.c, Header.code)
  <2>1. 1 <= HeaderWords
    OBVIOUS
  <2>2. IsOwn(inbox[1])
    BY <1>1, <1>2, <2>1 DEF Inv, ReplyInv, StreamInCall, InCall
  <2> QED
    BY <1>2, <2>2 DEF IsOwn
<1>5. /\ call.c.expect = call.c.req.cmd
      /\ call.c.header = "exact" => call.c.body \notin {"list", "message"}
  BY CallComparable, ChecksOwnReply
<1>6. call.c.header = "exact" /\ Header.len # ExactLen(call.c)
  BY <1>1, <1>3, <1>4, <1>5 DEF HeaderAccepted, emq_check_response_header,
     emq_check_response_header_mini
<1>7. Header.code # "SUCCESS"
  BY <1>4, <1>5, <1>6 DEF ReplyLens
<1> QED
  BY <1>2, <1>7

(***************************************************************************)
(* The steps keep ServiceInv.                                              *)
(***************************************************************************)

\* Nothing is written and nothing is executed; the requests may be lost.
LEMMA NothingExecuted ==
  ASSUME TypeOK, Inv, ServiceInv, outbox' = outbox \/ outbox' = <<>>,
         UNCHANGED <<nextId, served>>, RefusalServed',
         pc' = "reply" => /\ pc = "reply" /\ call' = call
                          /\ inbox' # <<>> => inbox # <<>> /\ inbox'[1] = inbox[1],
         pc' \in {"tag", "message"} => call'.c.body = "message"
  PROVE  ServiceInv'
<1>1. RequestsNumbered' /\ ServedInTurn'
  <2>1. CASE outbox' = outbox
    BY <2>1 DEF ServiceInv, RequestsNumbered, ServedInTurn
  <2>2. CASE outbox' = <<>>
    <3>1. Len(outbox') = 0
      BY <2>2
    <3> QED
      BY <3>1 DEF ServiceInv, RequestsNumbered, ServedInTurn
  <2> QED
    BY <2>1, <2>2
<1>2. OwnCommand'
  BY DEF ServiceInv, OwnCommand
<1>3. MessageCall'
  BY DEF MessageCall
<1> QED
  BY <1>1, <1>2, <1>3 DEF ServiceInv

\* A command that waited returns.
LEMMA ReturnServed ==
  ASSUME TypeOK, Inv, ServiceInv, pc \in InCall, pc' \in {"idle", "callback"},
         UNCHANGED <<outbox, nextId, served>>,
         NEW st, NEW err, Done(call.c, call.id, TRUE, st, err),
         st = "ERR" /\ err \notin {"READ", "ALLOC", "NONE"} =>
           served[call.id] \notin {"none", "SUCCESS"}
  PROVE  ServiceInv'
<1>1. done' = [c |-> call.c, id |-> call.id, waited |-> TRUE, status |-> st, error |-> err]
  BY DEF Done
<1>2. call.id \in 1..MaxCalls
  BY CallId
<1>3. RefusalServed'
  BY <1>1, <1>2 DEF RefusalServed, Refused
<1> QED
  BY <1>3, NothingExecuted

\* What a step of a command may return, and what the server did then: one of
\* the conditions of a truthful result.
Told(st, err) ==
  /\ st = "OK" => served[call.id] = "SUCCESS"
  /\ st = "ERR" /\ err = "RESPONSE" => served[call.id] \notin {"none", "SUCCESS"}
  /\ st = "ERR" /\ err \notin {"READ", "ALLOC", "RESPONSE", "NONE"} =>
       /\ served[call.id] \notin {"none", "SUCCESS"}
       /\ emq_get_error([code |-> served[call.id]]) = err
  /\ st = "ERR" /\ err = "NONE" =>
       call.c.body = "message" \/ served[call.id] \in {"ERROR", "ERROR_VALUE"}

\* A step of a command reads on, returns, or kills the process.
LEMMA CallStepKinds ==
  ASSUME Comparable, TypeOK, Inv, ServiceInv, CallStep
  PROVE  /\ pc \in InCall /\ UNCHANGED <<outbox, nextId, served>>
         /\ \/ /\ pc' \in {"body", "tag", "message"} /\ UNCHANGED <<call, done>>
               /\ pc' \in {"tag", "message"} => call.c.body = "message"
            \/ /\ pc' \in {"idle", "callback"}
               /\ \E st \in {"OK", "ERR"}, err \in EMQ_ERROR :
                    Done(call.c, call.id, TRUE, st, err) /\ Told(st, err)
            \/ pc' = "crashed" /\ done' = done
<1>1. pc \in InCall
  BY DEF CallStep, ReplyReadFails, ReplyRejected, ReplyStatus, ReplySuccess, BodyRead,
     BodyFails, TagRead, TagFails, MessageRead, MessageFails, InCall
<1>2. UNCHANGED <<outbox, nextId, served>>
  BY DEF CallStep, ReplyReadFails, ReplyRejected, ReplyStatus, ReplySuccess, BodyRead,
     BodyFails, TagRead, TagFails, MessageRead, MessageFails, ReadingUnchanged, serverVars
<1> DEFINE Returned == \E st \in {"OK", "ERR"}, err \in EMQ_ERROR :
                         Done(call.c, call.id, TRUE, st, err) /\ Told(st, err)
<1>3. call.from \in {"idle", "callback"}
  BY CallType DEF TypeOK
<1>4. ASSUME NEW err \in EMQ_ERROR, Fail(err), Told("ERR", err)
      PROVE  pc' \in {"idle", "callback"} /\ Returned
  <2>1. pc' \in {"idle", "callback"} /\ Done(call.c, call.id, TRUE, "ERR", err)
    BY <1>3, <1>4 DEF Fail, Leave, Return
  <2> QED
    BY <1>4, <2>1
<1>5. ASSUME Leave, Return(call.c, call.id, TRUE, "OK", "NONE"), served[call.id] = "SUCCESS"
      PROVE  pc' \in {"idle", "callback"} /\ Returned
  <2>1. pc' \in {"idle", "callback"} /\ Done(call.c, call.id, TRUE, "OK", "NONE")
    BY <1>3, <1>5 DEF Leave, Return
  <2>2. Told("OK", "NONE") /\ "NONE" \in EMQ_ERROR
    BY <1>5 DEF Told, EMQ_ERROR
  <2> QED
    BY <2>1, <2>2
<1>6. /\ Told("ERR", "READ") /\ Told("ERR", "ALLOC")
      /\ "READ" \in EMQ_ERROR /\ "ALLOC" \in EMQ_ERROR /\ "RESPONSE" \in EMQ_ERROR
      /\ "NONE" \in EMQ_ERROR
  BY DEF Told, EMQ_ERROR
<1>7. pc \in {"body", "tag", "message"} => served[call.id] = "SUCCESS"
  BY DEF Inv, ReplyInv, ReplyServed
<1>8. MessageCall /\ OwnCommand
  BY DEF ServiceInv
<1> HIDE DEF Returned
<1>9. CASE ReplyReadFails
  BY <1>1, <1>2, <1>4, <1>6, <1>9 DEF ReplyReadFails, Returned
<1>10. CASE ReplyRejected
  <2>1. Told("ERR", "RESPONSE") /\ Fail("RESPONSE")
    BY <1>8, <1>10, RejectedMeansError DEF Told, ReplyRejected
  <2> QED
    BY <1>1, <1>2, <1>4, <1>6, <2>1 DEF Returned
<1>11. CASE ReplyStatus
  <2>1. /\ served[call.id] = Header.code /\ served[call.id] # "none"
        /\ served[call.id] \in protocol_response_status
    BY <1>11, StatusServed DEF ReplyStatus
  <2>2. Header.code # "SUCCESS" /\ Fail(emq_get_error(Header))
    BY <1>11 DEF ReplyStatus, emq_check_status
  <2>3. emq_get_error([code |-> served[call.id]]) = emq_get_error(Header)
    BY <2>1 DEF emq_get_error
  <2>4. emq_get_error(Header) = "NONE" => served[call.id] \in {"ERROR", "ERROR_VALUE"}
    BY <2>1, <2>2 DEF emq_get_error, protocol_response_status
  <2>5. emq_get_error(Header) \in EMQ_ERROR /\ emq_get_error(Header) # "RESPONSE"
    BY GetErrorType DEF emq_get_error
  <2>6. Told("ERR", emq_get_error(Header))
    BY <2>1, <2>2, <2>3, <2>4, <2>5 DEF Told
  <2> QED
    BY <1>1, <1>2, <1>4, <2>2, <2>5, <2>6 DEF Returned
<1>12. CASE ReplySuccess
  <2>1. served[call.id] = "SUCCESS"
    BY <1>12, StatusServed DEF ReplySuccess, emq_check_status
  <2>2. CASE Complete(call.c, call.id, call.arg, TRUE) /\ Leave
    <3>1. PICK st \in {"OK", "ERR"}, err \in {"NONE", "ALLOC"} :
            Done(call.c, call.id, TRUE, st, err) /\ (st = "ERR" => err = "ALLOC")
      BY <2>2 DEF Complete, Return
    <3>2. Told(st, err) /\ err \in EMQ_ERROR
      BY <2>1, <3>1 DEF Told, EMQ_ERROR
    <3>3. Returned
      BY <3>1, <3>2 DEF Returned
    <3>4. pc' \in {"idle", "callback"}
      BY <1>3, <2>2 DEF Leave
    <3> QED
      BY <1>1, <1>2, <3>3, <3>4 DEF Returned
  <2>3. CASE /\ pc' = IF call.c.body = "message" THEN "tag" ELSE "body"
             /\ UNCHANGED <<call, done>>
    BY <1>1, <1>2, <2>3
  <2> QED
    BY <1>12, <2>2, <2>3 DEF ReplySuccess
<1>13. CASE BodyRead
  BY <1>1, <1>2, <1>4, <1>5, <1>6, <1>7, <1>13 DEF BodyRead, Returned
<1>14. CASE BodyFails
  BY <1>1, <1>2, <1>4, <1>6, <1>14 DEF BodyFails, Returned
<1>15. CASE TagRead
  BY <1>1, <1>2, <1>8, <1>15 DEF TagRead, MessageCall
<1>16. CASE TagFails
  <2>1. Told("ERR", "NONE") /\ Fail("NONE")
    BY <1>8, <1>16 DEF TagFails, MessageCall, Told
  <2> QED
    BY <1>1, <1>2, <1>4, <1>6, <2>1 DEF Returned
<1>17. CASE MessageRead
  BY <1>1, <1>2, <1>5, <1>7, <1>17 DEF MessageRead, Returned
<1>18. CASE MessageFails
  BY <1>1, <1>2, <1>18 DEF MessageFails
<1> QED
  BY <1>9, <1>10, <1>11, <1>12, <1>13, <1>14, <1>15, <1>16, <1>17, <1>18 DEF CallStep

LEMMA CallStepService ==
  ASSUME Comparable, TypeOK, Inv, ServiceInv, CallStep
  PROVE  ServiceInv'
<1>1. pc \in InCall /\ UNCHANGED <<outbox, nextId, served>>
  BY CallStepKinds
<1>2. ASSUME UNCHANGED done PROVE RefusalServed'
  BY <1>1, <1>2 DEF ServiceInv, RefusalServed, Refused
<1>3. CASE /\ pc' \in {"body", "tag", "message"} /\ UNCHANGED <<call, done>>
           /\ pc' \in {"tag", "message"} => call.c.body = "message"
  BY <1>1, <1>2, <1>3, NothingExecuted
<1>4. CASE /\ pc' \in {"idle", "callback"}
           /\ \E st \in {"OK", "ERR"}, err \in EMQ_ERROR :
                Done(call.c, call.id, TRUE, st, err) /\ Told(st, err)
  <2>1. PICK st \in {"OK", "ERR"}, err \in EMQ_ERROR :
          Done(call.c, call.id, TRUE, st, err) /\ Told(st, err)
    BY <1>4
  <2>2. st = "ERR" /\ err \notin {"READ", "ALLOC", "NONE"} =>
          served[call.id] \notin {"none", "SUCCESS"}
    BY <2>1 DEF Told
  <2> QED
    BY <1>1, <1>4, <2>1, <2>2, ReturnServed
<1>5. CASE pc' = "crashed" /\ done' = done
  BY <1>1, <1>2, <1>5, NothingExecuted
<1> QED
  BY <1>3, <1>4, <1>5, CallStepKinds

\* Steps that are no part of a command: connecting, emq_process, the switches.
LEMMA AsideKinds ==
  ASSUME NEW c, \/ emq_connect \/ emq_disconnect \/ Restart \/ emq_noack_enable
                \/ emq_noack_disable \/ emq_process \/ CallRejected(c)
                \/ (\E stop \in BOOLEAN : CallbackReturns(stop)) \/ ProcessStep
  PROVE  /\ pc \notin InCall /\ pc' \notin InCall /\ UNCHANGED <<nextId, served, done>>
         /\ outbox' = outbox \/ outbox' = <<>>
<1>1. CASE emq_connect \/ emq_disconnect \/ Restart
  BY <1>1 DEF emq_connect, emq_disconnect, Restart, NewStreams, InCall
<1>2. CASE emq_noack_enable \/ emq_noack_disable
  BY <1>2 DEF emq_noack_enable, emq_noack_disable, SetNoack, InCall, appVars, serverVars
<1>3. CASE emq_process \/ \E stop \in BOOLEAN : CallbackReturns(stop)
  BY <1>3 DEF emq_process, CallbackReturns, LoopHead, ProcessUnchanged, InCall, serverVars
<1>4. CASE CallRejected(c)
  BY <1>4 DEF CallRejected, MayCall, InCall, serverVars
<1>5. CASE ProcessStep
  <2>1. ProcessUnchanged
    BY <1>5 DEF ProcessStep, EventReadFails, EventRejected, EventHeader, EventFieldsFail,
       EventNotFound, EventFound, EventMessage, EventMessageFails
  <2>2. pc \in {"event", "fields", "payload"}
        /\ pc' \in {"idle", "fields", "payload", "callback"}
    BY <1>5 DEF ProcessStep, EventReadFails, EventRejected, EventHeader, EventFieldsFail,
       EventNotFound, EventFound, EventMessage, EventMessageFails, ProcessFails, Callback
  <2> QED
    BY <2>1, <2>2 DEF ProcessUnchanged, serverVars, InCall
<1> QED
  BY <1>1, <1>2, <1>3, <1>4, <1>5

LEMMA AsideService ==
  ASSUME TypeOK, Inv, ServiceInv, pc' \notin InCall, UNCHANGED <<nextId, served, done>>,
         outbox' = outbox \/ outbox' = <<>>
  PROVE  ServiceInv'
<1>1. RefusalServed'
  BY DEF ServiceInv, RefusalServed, Refused
<1>2. pc' # "reply" /\ pc' \notin {"tag", "message"}
  BY DEF InCall
<1> QED
  BY <1>1, <1>2, NothingExecuted

\* A request is written, or lost, under the next number.
LEMMA RequestWritten ==
  ASSUME TypeOK, ServiceInv, NEW rq \in RequestFrames, rq.id = nextId + 1,
         outbox' = outbox \/ outbox' = Append(outbox, rq),
         nextId' = nextId + 1, served' = served
  PROVE  RequestsNumbered' /\ ServedInTurn'
<1>1. outbox \in Seq(RequestFrames) /\ nextId \in Nat
  BY DEF TypeOK, StreamType, AppType
<1>2. /\ \A j \in 1..Len(outbox) : outbox[j].id \in Nat /\ outbox[j].id <= nextId
      /\ \A j \in 1..Len(outbox) : \A i \in 1..(j - 1) : outbox[i].id < outbox[j].id
      /\ \A id \in 1..MaxCalls : id > nextId => served[id] = "none"
      /\ \A id \in 1..MaxCalls : \A j \in 1..Len(outbox) :
           outbox[j].id <= id => served[id] = "none"
  <2>1. \A j \in 1..Len(outbox) : outbox[j] \in RequestFrames
    BY <1>1
  <2> QED
    BY <2>1 DEF ServiceInv, RequestsNumbered, ServedInTurn, RequestFrames
<1>3. CASE outbox' = outbox
  BY <1>1, <1>2, <1>3 DEF RequestsNumbered, ServedInTurn
<1>4. CASE outbox' = Append(outbox, rq)
  <2>1. /\ Len(outbox') = Len(outbox) + 1 /\ Len(outbox) \in Nat
        /\ \A k \in 1..Len(outbox) : outbox'[k] = outbox[k]
        /\ outbox'[Len(outbox) + 1] = rq
    BY <1>1, <1>4, AppendType
  <2>2. RequestsNumbered'
    <3> SUFFICES ASSUME NEW j \in 1..Len(outbox')
                 PROVE  /\ outbox'[j].id <= nextId'
                        /\ \A i \in 1..(j - 1) : outbox'[i].id < outbox'[j].id
      BY DEF RequestsNumbered
    <3>1. CASE j \in 1..Len(outbox)
      <4>1. \A i \in 1..(j - 1) : i \in 1..Len(outbox)
        BY <2>1, <3>1
      <4>2. outbox'[j] = outbox[j] /\ \A i \in 1..(j - 1) : outbox'[i] = outbox[i]
        BY <2>1, <3>1, <4>1
      <4>3. outbox[j].id \in Nat /\ outbox[j].id <= nextId /\ nextId <= nextId + 1
        BY <1>1, <1>2, <3>1
      <4>4. outbox[j].id <= nextId'
        BY <1>1, <4>3
      <4>5. \A i \in 1..(j - 1) : outbox[i].id < outbox[j].id
        BY <1>2, <3>1
      <4> QED
        BY <4>2, <4>4, <4>5
    <3>2. CASE j = Len(outbox) + 1
      <4>1. \A i \in 1..(j - 1) : i \in 1..Len(outbox)
        BY <2>1, <3>2
      <4>2. outbox'[j].id = nextId + 1
        BY <2>1, <3>2
      <4> QED
        BY <1>1, <1>2, <2>1, <4>1, <4>2
    <3> QED
      BY <2>1, <3>1, <3>2
  <2>3. ServedInTurn'
    <3> SUFFICES ASSUME NEW id \in 1..MaxCalls
                 PROVE  /\ id > nextId' => served'[id] = "none"
                        /\ \A j \in 1..Len(outbox') :
                             outbox'[j].id <= id => served'[id] = "none"
      BY DEF ServedInTurn
    <3>1. id > nextId' => served[id] = "none"
      BY <1>1, <1>2
    <3>2. ASSUME NEW j \in 1..Len(outbox'), outbox'[j].id <= id
          PROVE  served[id] = "none"
      <4>1. CASE j \in 1..Len(outbox)
        BY <1>2, <2>1, <3>2, <4>1
      <4>2. CASE j = Len(outbox) + 1
        <5>1. id > nextId
          BY <1>1, <2>1, <3>2, <4>2
        <5> QED
          BY <1>2, <5>1
      <4> QED
        BY <2>1, <3>2, <4>1, <4>2
    <3> QED
      BY <3>1, <3>2
  <2> QED
    BY <2>2, <2>3
<1> QED
  BY <1>3, <1>4

\* What the two ways of calling a command do.
LEMMA CallWriteFailsKinds ==
  ASSUME TypeOK, NEW c \in Calls, NEW arg \in Arguments(c), CallWriteFails(c, arg)
  PROVE  /\ pc' = pc /\ pc \notin InCall /\ nextId < MaxCalls /\ nextId' = nextId + 1
         /\ served' = served /\ done'.id = nextId + 1 /\ done'.waited = FALSE
         /\ \E rq \in RequestFrames : /\ rq.id = nextId + 1
                                      /\ outbox' = outbox \/ outbox' = Append(outbox, rq)
<1>1. /\ pc' = pc /\ pc \notin InCall /\ nextId < MaxCalls /\ nextId' = nextId + 1
      /\ served' = served
      /\ done' = [c |-> c, id |-> nextId + 1, waited |-> FALSE, status |-> "ERR",
                  error |-> "WRITE"]
      /\ outbox' = outbox \/ outbox' = Append(outbox, RequestFrame(c, arg, FALSE))
  BY DEF CallWriteFails, MayCall, Done, InCall, serverVars
<1>2. RequestFrame(c, arg, FALSE) \in RequestFrames
  BY <1>1, RequestType
<1>3. RequestFrame(c, arg, FALSE).id = nextId + 1
  BY DEF RequestFrame
<1> QED
  BY <1>1, <1>2, <1>3

LEMMA CallSentKinds ==
  ASSUME Disciplined, TypeOK, Inv, NEW c \in Calls, NEW arg \in Arguments(c), CallSent(c, arg)
  PROVE  /\ pc \notin InCall /\ nextId < MaxCalls /\ nextId' = nextId + 1 /\ served' = served
         /\ \E rq \in RequestFrames : rq.id = nextId + 1 /\ outbox' = Append(outbox, rq)
         /\ \/ /\ pc' = "reply" /\ call'.id = nextId + 1 /\ done' = done /\ inbox' = <<>>
            \/ /\ pc' = pc /\ done'.id = nextId + 1 /\ done'.waited = FALSE
<1>1. /\ pc \in {"idle", "callback"} /\ pc \notin InCall /\ nextId < MaxCalls
      /\ nextId' = nextId + 1 /\ served' = served /\ inbox' = inbox
  BY DEF CallSent, MayCall, InCall, serverVars
<1>2. \E rq \in RequestFrames : rq.id = nextId + 1 /\ outbox' = Append(outbox, rq)
  <2>1. PICK whole \in BOOLEAN : outbox' = Append(outbox, RequestFrame(c, arg, whole))
    BY DEF CallSent
  <2>2. RequestFrame(c, arg, whole) \in RequestFrames
    BY <1>1, RequestType
  <2>3. RequestFrame(c, arg, whole).id = nextId + 1
    BY DEF RequestFrame
  <2> QED
    BY <2>1, <2>2, <2>3
<1>3. CASE Waits(c)
  <2>1. pc' = "reply" /\ call'.id = nextId + 1 /\ done' = done
    BY <1>3 DEF CallSent
  <2>2. trusted /\ ~subscribed
    BY <1>3, Zenon DEF CallSent, MayCall, MayRead, Disciplined
  <2>3. inbox = <<>>
    BY <1>1, <2>2 DEF Inv, ReplyInv, StreamAtRest, InCall
  <2> QED
    BY <1>1, <1>2, <2>1, <2>3
<1>4. CASE ~Waits(c)
  <2>1. pc' = pc /\ Complete(c, nextId + 1, arg, FALSE)
    BY <1>4 DEF CallSent
  <2>2. done'.id = nextId + 1 /\ done'.waited = FALSE
    BY <2>1, CompleteDone, Zenon
  <2> QED
    BY <1>1, <1>2, <2>1, <2>2
<1> QED
  BY <1>3, <1>4

LEMMA CallingService ==
  ASSUME Disciplined, TypeOK, Inv, ServiceInv, NEW c \in Calls, NEW arg \in Arguments(c),
         CallWriteFails(c, arg) \/ CallSent(c, arg)
  PROVE  ServiceInv'
<1>1. RequestsNumbered' /\ ServedInTurn'
  BY RequestWritten, CallWriteFailsKinds, CallSentKinds
<1>2. pc \notin InCall /\ served' = served
  BY CallWriteFailsKinds, CallSentKinds
<1>3. (pc' = "reply" /\ inbox' = <<>>) \/ pc' = pc
  BY CallWriteFailsKinds, CallSentKinds
<1>4. OwnCommand' /\ MessageCall'
  BY <1>2, <1>3 DEF OwnCommand, MessageCall, InCall
<1>5. done' = done \/ done'.waited = FALSE
  BY CallWriteFailsKinds, CallSentKinds
<1>6. RefusalServed'
  BY <1>2, <1>5 DEF ServiceInv, RefusalServed, Refused
<1> QED
  BY <1>1, <1>4, <1>6 DEF ServiceInv

\* The server takes the first request: nobody has got to it or to a later one.
LEMMA TakenInTurn ==
  ASSUME TypeOK, ServiceInv, NEW code \in Statuses, ServerStep(code)
  PROVE  /\ outbox[1].id \in 1..nextId /\ outbox[1].id \in 1..MaxCalls
         /\ \A id \in 1..MaxCalls : outbox[1].id <= id => served[id] = "none"
         /\ served' = [served EXCEPT ![outbox[1].id] = code]
         /\ served \in [1..MaxCalls -> Statuses \cup {"none"}]
         /\ UNCHANGED <<conn, pc, call, nextId, done>>
<1>1. 1 \in 1..Len(outbox) /\ outbox[1] \in RequestFrames /\ Head(outbox) = outbox[1]
  BY Taken
<1>2. outbox[1].id \in 1..MaxCalls /\ nextId \in 0..MaxCalls
  BY <1>1 DEF RequestFrames, TypeOK, AppType
<1>3. outbox[1].id <= nextId
  BY <1>1 DEF ServiceInv, RequestsNumbered
<1>4. \A id \in 1..MaxCalls : outbox[1].id <= id => served[id] = "none"
  BY <1>1 DEF ServiceInv, ServedInTurn
<1>5. UNCHANGED <<conn, pc, call, nextId, done>>
  BY DEF ServerStep, frameVars, appVars
<1>6. served' = [served EXCEPT ![outbox[1].id] = code]
  BY <1>1 DEF ServerStep
<1>7. served \in [1..MaxCalls -> Statuses \cup {"none"}]
  BY DEF TypeOK, AppType
<1>8. outbox[1].id \in 1..nextId
  BY <1>2, <1>3
<1> QED
  BY <1>2, <1>4, <1>5, <1>6, <1>7, <1>8

LEMMA ServerStepService ==
  ASSUME TypeOK, Inv, ServiceInv, NEW code \in Statuses, ServerStep(code)
  PROVE  ServiceInv'
<1> DEFINE first == outbox[1].id
<1>1. /\ first \in 1..nextId /\ first \in 1..MaxCalls
      /\ \A id \in 1..MaxCalls : first <= id => served[id] = "none"
      /\ served' = [served EXCEPT ![first] = code]
      /\ served \in [1..MaxCalls -> Statuses \cup {"none"}]
      /\ UNCHANGED <<pc, call, nextId, done>>
  BY TakenInTurn
<1>2. /\ Len(outbox') = Len(outbox) - 1 /\ Len(outbox') \in Nat /\ Len(outbox) \in Nat
      /\ \A j \in 1..Len(outbox') : outbox'[j] = outbox[j + 1] /\ j + 1 \in 1..Len(outbox)
      /\ 1 \in 1..Len(outbox) /\ outbox # <<>>
  <2>1. Len(outbox) \in Nat
    BY DEF TypeOK, StreamType
  <2> QED
    BY <2>1, Taken
<1>3. /\ \A j \in 1..Len(outbox) : outbox[j].id <= nextId
      /\ \A j \in 1..Len(outbox) : \A i \in 1..(j - 1) : outbox[i].id < outbox[j].id
  BY DEF ServiceInv, RequestsNumbered
<1>4. RequestsNumbered'
  <2> SUFFICES ASSUME NEW j \in 1..Len(outbox')
               PROVE  /\ outbox'[j].id <= nextId
                      /\ \A i \in 1..(j - 1) : outbox'[i].id < outbox'[j].id
    BY <1>1 DEF RequestsNumbered
  <2>1. outbox'[j] = outbox[j + 1] /\ j + 1 \in 1..Len(outbox)
    BY <1>2
  <2>2. \A i \in 1..(j - 1) : outbox'[i] = outbox[i + 1] /\ i + 1 \in 1..((j + 1) - 1)
    BY <1>2
  <2> QED
    BY <1>3, <2>1, <2>2
<1>5. \A j \in 1..Len(outbox') : first < outbox'[j].id
  <2> TAKE j \in 1..Len(outbox')
  <2>1. 1 \in 1..((j + 1) - 1) /\ j + 1 \in 1..Len(outbox) /\ outbox'[j] = outbox[j + 1]
    BY <1>2
  <2> QED
    BY <1>3, <2>1
<1>6. \A j \in 1..Len(outbox') : outbox'[j].id \in Nat
  <2> TAKE j \in 1..Len(outbox')
  <2>1. outbox'[j] \in RequestFrames
    <3>1. outbox'[j] = outbox[j + 1] /\ j + 1 \in 1..Len(outbox)
      BY <1>2
    <3>2. outbox \in Seq(RequestFrames)
      BY DEF TypeOK, StreamType
    <3> QED
      BY <3>1, <3>2
  <2> QED
    BY <2>1 DEF RequestFrames
<1> HIDE DEF first
<1>7. nextId \in Nat /\ \A id \in 1..MaxCalls : id > nextId => served[id] = "none"
  BY DEF TypeOK, AppType, ServiceInv, ServedInTurn
<1>8. ServedInTurn'
  <2> SUFFICES ASSUME NEW id \in 1..MaxCalls
               PROVE  /\ id > nextId => served'[id] = "none"
                      /\ \A j \in 1..Len(outbox') :
                           outbox'[j].id <= id => served'[id] = "none"
    BY <1>1 DEF ServedInTurn
  <2>1. first < id => served'[id] = "none"
    BY <1>1
  <2>2. id > nextId => first < id
    BY <1>1, <1>7
  <2>3. \A j \in 1..Len(outbox') : outbox'[j].id <= id => first < id
    BY <1>1, <1>5, <1>6
  <2> QED
    BY <2>1, <2>2, <2>3
<1>9. OwnCommand'
  <2> SUFFICES ASSUME pc = "reply", inbox' # <<>>
               PROVE  inbox'[1].frame.cmd = call.c.req.cmd
    BY <1>1 DEF OwnCommand
  <2>1. inbox = <<>> /\ trusted
    BY <1>2, NothingPending DEF InCall, Inv, ReplyInv, Waiting
  <2>2. Answers(outbox[1])
    BY <2>1, Taken DEF ServerStep
  <2>3. outbox[1].c = call.c
    BY <1>2, <2>1, <2>2 DEF Inv, ReplyInv, Pending
  <2>4. PICK len \in ReplyLens(call.c, code) :
          inbox' = inbox \o Words(Reply(outbox[1], code, len))
    BY <2>2, <2>3, Taken DEF ServerStep
  <2> DEFINE f == Reply(outbox[1], code, len)
  <2>5. f \in Frames
    BY <2>3, <2>4, Taken, ReplyType
  <2>6. f.cmd = call.c.req.cmd
    BY <2>3 DEF Reply, Frame
  <2>7. inbox' = inbox \o Words(f)
    BY <2>4
  <2> HIDE DEF f
  <2>8. Words(f) \in Seq(Word) /\ f.len \in Nat
        /\ \A k \in 1..(HeaderWords + f.len) : Words(f)[k] = [frame |-> f, i |-> k]
    BY <2>5, WordsType DEF Frames
  <2>9. inbox' = Words(f)
    BY <2>1, <2>7, <2>8
  <2>10. inbox'[1] = [frame |-> f, i |-> 1]
    BY <2>8, <2>9
  <2> QED
    BY <2>6, <2>10
<1>10. MessageCall'
  BY <1>1 DEF ServiceInv, MessageCall
<1>11. RefusalServed'
  <2>1. Refused => done.id \in 1..MaxCalls /\ served[done.id] \notin {"none", "SUCCESS"}
    BY DEF ServiceInv, RefusalServed
  <2>2. Refused => done.id # first
    BY <1>1, <2>1
  <2> QED
    BY <1>1, <2>1, <2>2 DEF RefusalServed, Refused
<1> QED
  BY <1>4, <1>8, <1>9, <1>10, <1>11 DEF ServiceInv

\* An event is sent, or the connection is lost.
LEMMA NetworkKinds ==
  ASSUME TypeOK, Inv,
         \/ \E s \in Sub, type \in protocol_event_type : SendEvent(s, type)
         \/ ServerMisframe
         \/ Drop
  PROVE  /\ UNCHANGED <<pc, call, nextId, served, done>>
         /\ outbox' = outbox \/ outbox' = <<>>
         /\ pc = "reply" /\ inbox' # <<>> => inbox # <<>> /\ inbox'[1] = inbox[1]
<1>1. inbox \in Seq(Word)
  BY DEF TypeOK, StreamType, Word
<1>2. CASE \E s \in Sub, type \in protocol_event_type : SendEvent(s, type)
  <2>1. PICK s \in Sub, type \in protocol_event_type : SendEvent(s, type)
    BY <1>2
  <2>2. UNCHANGED <<pc, call, nextId, served, done, outbox>> /\ conn = "up" /\ subs # {}
    BY <2>1 DEF SendEvent, frameVars, appVars
  <2>3. pc = "reply" => Len(inbox) >= HeaderWords
    BY <2>2 DEF Inv, ReplyInv, EventsAfterReply, InCall
  <2> DEFINE len == EventFieldWords(s.via) + (IF type = "MESSAGE" THEN MsgWords ELSE 0)
             f == Event(s, type, len, sent + 1)
  <2>4. f \in Frames
    <3>1. len \in Nat /\ sent + 1 \in Nat
      BY EventFieldWordsType DEF TypeOK, AppType
    <3> QED
      BY <3>1, EventType
  <2>5. inbox' = inbox \o Words(f)
    BY <2>1 DEF SendEvent
  <2>6. Words(f) \in Seq(Word)
    BY <2>4, WordsType
  <2> HIDE DEF f
  <2>7. pc = "reply" => inbox # <<>> /\ 1 \in 1..Len(inbox)
    BY <1>1, <2>3
  <2>8. pc = "reply" => inbox'[1] = inbox[1]
    BY <1>1, <2>5, <2>6, <2>7, ConcatType
  <2> QED
    BY <2>2, <2>7, <2>8
<1>3. CASE ServerMisframe
  BY <1>3 DEF ServerMisframe, Break, frameVars, appVars, serverVars
<1>4. CASE Drop
  <2>1. Break
    BY <1>4 DEF Drop
  <2>2. PICK k \in 0..Len(inbox) : inbox' = SubSeq(inbox, 1, k)
    BY <1>4 DEF Drop
  <2>3. /\ inbox' \in Seq(Word) /\ Len(inbox') = k
        /\ \A i \in 1..k : inbox'[i] = inbox[i]
    BY <1>1, <2>2, PrefixType
  <2>4. inbox' # <<>> => 1 \in 1..k
    BY <2>3
  <2>5. inbox' # <<>> => inbox # <<>> /\ inbox'[1] = inbox[1]
    BY <1>1, <2>3, <2>4
  <2> QED
    BY <2>1, <2>5 DEF Break, frameVars, appVars, serverVars
<1> QED
  BY <1>2, <1>3, <1>4

LEMMA NetworkService ==
  ASSUME TypeOK, Inv, ServiceInv,
         \/ \E s \in Sub, type \in protocol_event_type : SendEvent(s, type)
         \/ ServerMisframe
         \/ Drop
  PROVE  ServiceInv'
<1>1. /\ UNCHANGED <<pc, call, nextId, served, done>>
      /\ outbox' = outbox \/ outbox' = <<>>
      /\ pc = "reply" /\ inbox' # <<>> => inbox # <<>> /\ inbox'[1] = inbox[1]
  BY NetworkKinds
<1>2. RefusalServed'
  BY <1>1 DEF ServiceInv, RefusalServed, Refused
<1>3. pc' \in {"tag", "message"} => call'.c.body = "message"
  BY <1>1 DEF ServiceInv, MessageCall
<1> QED
  BY <1>1, <1>2, <1>3, NothingExecuted

LEMMA NextService ==
  ASSUME Comparable, TypeOK, Inv, ServiceInv, [Next]_vars
  PROVE  ServiceInv'
<1>1. Disciplined
  BY DEF Comparable
<1>2. CASE AppStep
  <2>1. CASE \E c \in Calls : \E arg \in Arguments(c) :
               CallWriteFails(c, arg) \/ CallSent(c, arg)
    BY <1>1, <2>1, CallingService
  <2>2. CASE \/ emq_connect \/ emq_disconnect \/ Restart \/ emq_noack_enable
             \/ emq_noack_disable \/ emq_process \/ (\E c \in Calls : CallRejected(c))
             \/ (\E stop \in BOOLEAN : CallbackReturns(stop))
    BY <2>2, AsideKinds, AsideService
  <2> QED
    BY <1>2, <2>1, <2>2 DEF AppStep
<1>3. CASE ProcessStep
  BY <1>3, AsideKinds, AsideService
<1>4. CASE ServerOrNetworkStep
  BY <1>4, ServerStepService, NetworkService DEF ServerOrNetworkStep, Serve
<1>5. CASE UNCHANGED vars
  <2>1. UNCHANGED <<pc, call, nextId, served, done, outbox, inbox>>
    BY <1>5 DEF vars, frameVars, appVars, serverVars
  <2> QED
    BY <2>1 DEF ServiceInv, RequestsNumbered, ServedInTurn, OwnCommand, MessageCall,
       RefusalServed, Refused
<1> QED
  BY <1>2, <1>3, <1>4, <1>5, CallStepService DEF Next

LEMMA InitService == Init => ServiceInv
<1> SUFFICES ASSUME Init PROVE ServiceInv
  OBVIOUS
<1>1. /\ pc = "idle" /\ outbox = <<>> /\ Len(outbox) = 0 /\ nextId = 0
      /\ served = [i \in 1..MaxCalls |-> "none"] /\ done.waited = FALSE
  BY DEF Init
<1> QED
  BY <1>1 DEF ServiceInv, RequestsNumbered, ServedInTurn, OwnCommand, MessageCall,
     RefusalServed, Refused

(***************************************************************************)
(* Theorems.                                                               *)
(***************************************************************************)

\* The numbering of the requests, the order in which the server gets to them
\* and what the application is told about a refused one.
THEOREM ServiceInvariant ==
  ASSUME Comparable PROVE Spec => [](TypeOK /\ Inv /\ ServiceInv)
<1>1. Disciplined
  BY DEF Comparable
<1>2. Init => TypeOK /\ Inv /\ ServiceInv
  BY InitType, InitInv, InitService
<1>3. TypeOK /\ Inv /\ ServiceInv /\ [Next]_vars => (TypeOK /\ Inv /\ ServiceInv)'
  BY <1>1, NextType, NextInv, NextService
<1> QED
  BY <1>2, <1>3, PTL DEF Spec

\* An error that is not about reading or memory means that the server did not
\* execute the request with success: neither a status mistaken for an error nor
\* a refused header hides a success.
THEOREM ErrorMeansNotServedCorrect == ASSUME Comparable PROVE Spec => []ErrorMeansNotServed
<1>1. TypeOK /\ Inv /\ ServiceInv => ErrorMeansNotServed
  BY DEF ServiceInv, RefusalServed, Refused, ErrorMeansNotServed
<1> QED
  BY <1>1, ServiceInvariant, PTL

(***************************************************************************)
(* EmqClient implements EmqService.  `calling' is the request of the       *)
(* command that is reading its reply.                                      *)
(***************************************************************************)
Calling == IF pc \in InCall THEN call.id ELSE 0

LEMMA InitImplements == Init => Service!Init
BY DEF Init, Service!Init, InCall

\* A step of a command is invisible, returns the truth, or ends the program.
LEMMA CallStepImplements ==
  ASSUME Comparable, TypeOK, Inv, ServiceInv, CallStep
  PROVE  [Service!Next]_(Service!vars)
<1>1. pc \in InCall /\ UNCHANGED <<outbox, nextId, served>>
  BY CallStepKinds
<1>2. Calling = call.id /\ call.id # 0
  BY <1>1, CallId DEF Calling
<1>3. CASE pc' \in {"body", "tag", "message"} /\ UNCHANGED <<call, done>>
  <2>1. Calling' = Calling
    BY <1>1, <1>3 DEF Calling, InCall
  <2> QED
    BY <1>1, <1>3, <2>1 DEF Calling, Service!vars
<1>4. CASE /\ pc' \in {"idle", "callback"}
           /\ \E st \in {"OK", "ERR"}, err \in EMQ_ERROR :
                Done(call.c, call.id, TRUE, st, err) /\ Told(st, err)
  <2>1. PICK st \in {"OK", "ERR"}, err \in EMQ_ERROR :
          Done(call.c, call.id, TRUE, st, err) /\ Told(st, err)
    BY <1>4
  <2>2. done' = [c |-> call.c, id |-> call.id, waited |-> TRUE, status |-> st, error |-> err]
    BY <2>1 DEF Done
  <2>3. Calling' = 0
    BY <1>4 DEF Calling, InCall
  <2>4. Service!emq_get_error([code |-> served[call.id]])
          = emq_get_error([code |-> served[call.id]])
    BY DEF Service!emq_get_error, emq_get_error
  <2>5. Service!Truthful(done')
    BY <2>1, <2>2, <2>4 DEF Service!Truthful, Service!Unknown, Told
  <2>6. Service!Return
    BY <1>1, <1>2, <2>2, <2>3, <2>5 DEF Service!Return, Calling
  <2> QED
    BY <2>6 DEF Service!Next
<1>5. CASE pc' = "crashed" /\ done' = done
  <2>1. Calling' = 0
    BY <1>5 DEF Calling, InCall
  <2>2. Service!Abort
    BY <1>1, <1>2, <1>5, <2>1 DEF Service!Abort, Calling
  <2> QED
    BY <2>2 DEF Service!Next
<1> QED
  BY <1>3, <1>4, <1>5, CallStepKinds

\* Calling a command is Call if it waits for its reply and Post if it does not.
LEMMA CallingImplements ==
  ASSUME Disciplined, TypeOK, Inv, NEW c \in Calls, NEW arg \in Arguments(c),
         CallWriteFails(c, arg) \/ CallSent(c, arg)
  PROVE  [Service!Next]_(Service!vars)
<1>1. pc \notin InCall /\ nextId < MaxCalls /\ nextId' = nextId + 1 /\ served' = served
  BY CallWriteFailsKinds, CallSentKinds
<1>2. Calling = 0
  BY <1>1 DEF Calling
<1>3. CASE pc' = "reply" /\ call'.id = nextId + 1 /\ done' = done
  <2>1. Calling' = nextId + 1
    BY <1>3 DEF Calling, InCall
  <2>2. Service!Call
    BY <1>1, <1>2, <1>3, <2>1 DEF Service!Call, Calling
  <2> QED
    BY <2>2 DEF Service!Next
<1>4. CASE pc' = pc /\ done'.id = nextId + 1 /\ done'.waited = FALSE
  <2>1. Calling' = 0
    BY <1>1, <1>4 DEF Calling
  <2>2. Service!Post
    BY <1>1, <1>2, <1>4, <2>1 DEF Service!Post, Calling
  <2> QED
    BY <2>2 DEF Service!Next
<1> QED
  BY <1>3, <1>4, CallWriteFailsKinds, CallSentKinds

\* The server gets to the request after every earlier one it will ever execute.
LEMMA ServerStepImplements ==
  ASSUME TypeOK, ServiceInv, NEW code \in Statuses, ServerStep(code)
  PROVE  [Service!Next]_(Service!vars)
<1>1. /\ outbox[1].id \in 1..nextId
      /\ \A id \in 1..MaxCalls : outbox[1].id <= id => served[id] = "none"
      /\ served' = [served EXCEPT ![outbox[1].id] = code]
      /\ UNCHANGED <<pc, call, nextId, done>>
  BY TakenInTurn
<1>2. \A j \in outbox[1].id..nextId : served[j] = "none"
  <2>1. nextId \in 0..MaxCalls
    BY DEF TypeOK, AppType
  <2>2. \A j \in outbox[1].id..nextId : j \in 1..MaxCalls /\ outbox[1].id <= j
    BY <1>1, <2>1
  <2> QED
    BY <1>1, <2>2
<1>3. Calling' = Calling
  BY <1>1 DEF Calling
<1>4. Service!Execute
  BY <1>1, <1>2, <1>3 DEF Service!Execute, Calling
<1> QED
  BY <1>4 DEF Service!Next

LEMMA NextImplements ==
  ASSUME Comparable, TypeOK, Inv, ServiceInv, [Next]_vars
  PROVE  [Service!Next]_(Service!vars)
<1>1. Disciplined
  BY DEF Comparable
<1>2. ASSUME pc \notin InCall, pc' \notin InCall, UNCHANGED <<nextId, served, done>>
      PROVE  [Service!Next]_(Service!vars)
  BY <1>2 DEF Service!vars
<1>3. ASSUME UNCHANGED <<pc, call, nextId, served, done>>
      PROVE  [Service!Next]_(Service!vars)
  BY <1>3 DEF Service!vars
<1>4. CASE AppStep
  <2>1. CASE \E c \in Calls : \E arg \in Arguments(c) :
               CallWriteFails(c, arg) \/ CallSent(c, arg)
    BY <1>1, <2>1, CallingImplements
  <2>2. CASE \/ emq_connect \/ emq_disconnect \/ Restart \/ emq_noack_enable
             \/ emq_noack_disable \/ emq_process \/ (\E c \in Calls : CallRejected(c))
             \/ (\E stop \in BOOLEAN : CallbackReturns(stop))
    BY <1>2, <2>2, AsideKinds
  <2> QED
    BY <1>4, <2>1, <2>2 DEF AppStep
<1>5. CASE ProcessStep
  BY <1>2, <1>5, AsideKinds
<1>6. CASE ServerOrNetworkStep
  BY <1>3, <1>6, ServerStepImplements, NetworkKinds DEF ServerOrNetworkStep, Serve
<1>7. CASE UNCHANGED vars
  BY <1>3, <1>7 DEF vars, frameVars, appVars, serverVars
<1> QED
  BY <1>4, <1>5, <1>6, <1>7, CallStepImplements DEF Next

\* The commands of a disciplined application are remote calls: executed in the
\* order of the calls, each at most once, and truthfully reported.
THEOREM ImplementsServiceCorrect == ASSUME Comparable PROVE Spec => ImplementsService
<1>1. Init => Service!Init
  BY InitImplements
<1>2. TypeOK /\ Inv /\ ServiceInv /\ [Next]_vars => [Service!Next]_(Service!vars)
  BY NextImplements
<1> QED
  BY <1>1, <1>2, ServiceInvariant, PTL DEF Spec, ImplementsService, Service!Spec
=============================================================================
