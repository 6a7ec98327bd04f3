--------------------------- MODULE EmqClientProofs ---------------------------
(***************************************************************************)
(* Proofs about EmqClient for every value of its constants.                *)
(***************************************************************************)
EXTENDS EmqClient, SequenceTheorems, TLAPS

Word == [frame : Frames, i : Nat \ {0}]

USE ConstantsAssumption

(***************************************************************************)
(* Facts about the operators of the model.                                 *)
(***************************************************************************)

\* A command that changes the lists has a reply without a body and writes its
\* request whole.
LEMMA ListCommand ==
  ASSUME NEW c \in AllCalls, c.effect # "none"
  PROVE  c.body = "none" /\ c.write = "write"
<1> DEFINE P(d) == d.effect = "none" \/ (d.body = "none" /\ d.write = "write")
<1>1. \A api, req : P(Command(api, req))
  BY DEF Command
<1>2. \A api, req, header, body : P(Query(api, req, header, body))
  BY DEF Query, Command
<1>3. \A api, req, expire : P(Send(api, req, expire))
  BY DEF Send, Command
<1>4. \A api, req, effect : P(Subscribe(api, req, effect)) /\ P(Unsubscribe(api, req, effect))
  BY DEF Subscribe, Unsubscribe, Command
<1>5. P(emq_queue_confirm) /\ P(emq_channel_punsubscribe)
  BY DEF emq_queue_confirm, emq_channel_punsubscribe, Unsubscribe, Command
<1> HIDE DEF P
<1>6. P(emq_auth) /\ P(emq_ping) /\ P(emq_stat) /\ P(emq_save) /\ P(emq_flush)
      /\ P(emq_user_create) /\ P(emq_user_list) /\ P(emq_user_rename)
      /\ P(emq_user_set_perm) /\ P(emq_user_delete)
  BY <1>1, <1>2 DEF emq_auth, emq_ping, emq_stat, emq_save, emq_flush,
     emq_user_create, emq_user_list, emq_user_rename, emq_user_set_perm,
     emq_user_delete
<1>7. P(emq_queue_create) /\ P(emq_queue_declare) /\ P(emq_queue_exist)
      /\ P(emq_queue_list) /\ P(emq_queue_rename) /\ P(emq_queue_size)
      /\ P(emq_queue_push) /\ P(emq_queue_get) /\ P(emq_queue_pop)
      /\ P(emq_queue_subscribe) /\ P(emq_queue_unsubscribe)
      /\ P(emq_queue_purge) /\ P(emq_queue_delete)
  BY <1>1, <1>2, <1>3, <1>4 DEF emq_queue_create, emq_queue_declare,
     emq_queue_exist, emq_queue_list, emq_queue_rename, emq_queue_size,
     emq_queue_push, emq_queue_get, emq_queue_pop, emq_queue_subscribe,
     emq_queue_unsubscribe, emq_queue_purge, emq_queue_delete
<1>8. P(emq_route_create) /\ P(emq_route_exist) /\ P(emq_route_list)
      /\ P(emq_route_keys) /\ P(emq_route_rename) /\ P(emq_route_bind)
      /\ P(emq_route_unbind) /\ P(emq_route_push) /\ P(emq_route_delete)
  BY <1>1, <1>2, <1>3 DEF emq_route_create, emq_route_exist, emq_route_list,
     emq_route_keys, emq_route_rename, emq_route_bind, emq_route_unbind,
     emq_route_push, emq_route_delete
<1>9. P(emq_channel_create) /\ P(emq_channel_exist) /\ P(emq_channel_list)
      /\ P(emq_channel_rename) /\ P(emq_channel_publish)
      /\ P(emq_channel_subscribe) /\ P(emq_channel_psubscribe)
      /\ P(emq_channel_unsubscribe) /\ P(emq_channel_delete)
  BY <1>1, <1>2, <1>3, <1>4 DEF emq_channel_create, emq_channel_exist,
     emq_channel_list, emq_channel_rename, emq_channel_publish,
     emq_channel_subscribe, emq_channel_psubscribe, emq_channel_unsubscribe,
     emq_channel_delete
<1>10. P(c)
  BY <1>5, <1>6, <1>7, <1>8, <1>9 DEF AllCalls
<1> QED
  BY <1>10 DEF P

LEMMA SubscribeHasNoBody ==
  ASSUME NEW c \in AllCalls, Subscribes(c)
  PROVE  c.body = "none"
BY ListCommand DEF Subscribes

\* The words of a frame: as many as its header and body, numbered from 1.
LEMMA WordsType ==
  ASSUME NEW f \in Frames
  PROVE  /\ Words(f) \in Seq(Word)
         /\ Len(Words(f)) = HeaderWords + f.len
         /\ \A k \in 1..(HeaderWords + f.len) : Words(f)[k] = [frame |-> f, i |-> k]
<1>1. f.len \in Nat
  BY DEF Frames
<1>2. HeaderWords \in Nat
  OBVIOUS
<1>3. HeaderWords + f.len \in Nat
  BY <1>1, <1>2
<1>4. Words(f) \in [1..(HeaderWords + f.len) -> Word]
  BY <1>3 DEF Words, Word
<1> QED
  BY <1>3, <1>4 DEF Words

\* What is left of a stream after its first n words.
LEMMA RestType ==
  ASSUME NEW S, NEW s \in Seq(S), NEW n \in Nat, n <= Len(s)
  PROVE  /\ SubSeq(s, n + 1, Len(s)) \in Seq(S)
         /\ Len(SubSeq(s, n + 1, Len(s))) = Len(s) - n
         /\ \A k \in 1..(Len(s) - n) : SubSeq(s, n + 1, Len(s))[k] = s[n + k]
  BY SubSeqProperties, SMTT(30)

\* A part of a stream that was lost from position k on.
LEMMA PrefixType ==
  ASSUME NEW S, NEW s \in Seq(S), NEW n \in 0..Len(s)
  PROVE  /\ SubSeq(s, 1, n) \in Seq(S)
         /\ Len(SubSeq(s, 1, n)) = n
         /\ \A k \in 1..n : SubSeq(s, 1, n)[k] = s[k]
  BY SubSeqProperties, SMTT(30)

\* What a step adds to a stream.
LEMMA AppendType ==
  ASSUME NEW S, NEW s \in Seq(S), NEW e \in S
  PROVE  /\ Append(s, e) \in Seq(S)
         /\ Len(Append(s, e)) = Len(s) + 1
         /\ \A k \in 1..Len(s) : Append(s, e)[k] = s[k]
         /\ Append(s, e)[Len(s) + 1] = e
  BY AppendProperties

LEMMA ConcatType ==
  ASSUME NEW S, NEW s \in Seq(S), NEW t \in Seq(S)
  PROVE  /\ s \o t \in Seq(S)
         /\ Len(s \o t) = Len(s) + Len(t)
         /\ \A k \in 1..Len(s) : (s \o t)[k] = s[k]
         /\ \A k \in (Len(s) + 1)..(Len(s) + Len(t)) : (s \o t)[k] = t[k - Len(s)]
  BY ConcatProperties, SMTT(30)

LEMMA NoFrameType == NoFrame \in Frames
BY DEF NoFrame, Frame, Frames

LEMMA ExactLenType == ASSUME NEW c PROVE ExactLen(c) \in Nat
BY DEF ExactLen

LEMMA ReplyLensType == ASSUME NEW c, NEW code PROVE ReplyLens(c, code) \subseteq Nat
BY ExactLenType DEF ReplyLens

\* Replies and events are frames.
LEMMA ReplyType ==
  ASSUME NEW rq \in RequestFrames, NEW code \in Statuses,
         NEW len \in ReplyLens(rq.c, code)
  PROVE  Reply(rq, code, len) \in Frames
<1>1. len \in Nat /\ rq.id \in Nat /\ rq.c \in Calls
  BY ReplyLensType DEF RequestFrames
<1>2. rq.c.req.cmd \in {c.req.cmd : c \in Calls}
  BY <1>1
<1> QED
  BY <1>1, <1>2 DEF Reply, Frame, Frames

LEMMA EventFieldWordsType == ASSUME NEW cmd PROVE EventFieldWords(cmd) \in Nat \ {0}
BY DEF EventFieldWords

LEMMA EventType ==
  ASSUME NEW s \in Sub, NEW type \in protocol_event_type, NEW len \in Nat, NEW n \in Nat
  PROVE  Event(s, type, len, n) \in Frames
<1>1. s.via \in EventCmds
  BY DEF Sub, EventCmds
<1> QED
  BY <1>1 DEF Event, Frame, Frames

LEMMA HeaderType ==
  ASSUME inbox \in Seq(Word), Len(inbox) >= 1
  PROVE  Header \in Frames
<1>1. inbox[1] \in Word
  BY ElementOfSeq, 1 \in 1..Len(inbox)
<1> QED
  BY <1>1, NoFrameType DEF Header, Word

LEMMA GetErrorType == ASSUME NEW h PROVE emq_get_error(h) \in EMQ_ERROR
BY DEF emq_get_error, EMQ_ERROR

\* The subscriptions named by the arguments of a command.
LEMMA ArgumentsType ==
  ASSUME NEW c, NEW arg \in Arguments(c)
  PROVE  /\ arg \in Sub \cup {NoSub}
         /\ Subscribes(c) => arg \in Sub
BY DEF Arguments, Subscribes

LEMMA PingType ==
  NoSub \in Arguments(emq_ping) /\ emq_ping.body = "none" /\ ~Subscribes(emq_ping)
BY DEF Arguments, emq_ping, Command, Subscribes

\* The command being executed, if any.
LEMMA CallType ==
  ASSUME FrameType
  PROVE  /\ call.c \in Calls \cup {emq_ping} /\ call.id \in 0..MaxCalls
         /\ call.from \in {"idle", "callback"} /\ call.arg \in Arguments(call.c)
         /\ Subscribes(call.c) => call.id # 0
BY PingType DEF FrameType, NoCall

(***************************************************************************)
(* Type correctness.                                                       *)
(***************************************************************************)

\* A read, complete or not, leaves a stream.
LEMMA ReadType ==
  ASSUME StreamType, NEW n, (n \in Nat /\ ReadOk(n)) \/ ReadFails(n)
  PROVE  inbox' \in Seq(Word)
<1>1. inbox \in Seq(Word)
  BY DEF StreamType, Word
<1>2. CASE n \in Nat /\ ReadOk(n)
  BY <1>1, <1>2, RestType DEF ReadOk
<1>3. CASE ReadFails(n)
  <2>1. PICK k \in 0..Len(inbox) : inbox' = SubSeq(inbox, k + 1, Len(inbox))
    BY <1>3 DEF ReadFails
  <2> QED
    BY <1>1, <2>1, RestType
<1> QED
  BY <1>2, <1>3

\* A command returns.
LEMMA ReturnType ==
  ASSUME TypeOK, NEW c \in Calls \cup {emq_ping}, NEW id \in 0..MaxCalls,
         NEW waited \in BOOLEAN, NEW st \in {"OK", "ERR"}, NEW err \in EMQ_ERROR,
         Return(c, id, waited, st, err)
  PROVE  /\ status' \in {"OK", "ERR"} /\ error' \in EMQ_ERROR /\ trusted' \in BOOLEAN
         /\ done' \in [c : Calls \cup {emq_ping}, id : 0..MaxCalls, waited : BOOLEAN,
                       status : {"OK", "ERR"}, error : EMQ_ERROR]
<1>1. status' \in {"OK", "ERR"} /\ error' \in EMQ_ERROR
  BY DEF Return, SetResult
<1>2. trusted' \in BOOLEAN
  BY Zenon DEF Return, SetResult
<1>3. done' \in [c : Calls \cup {emq_ping}, id : 0..MaxCalls, waited : BOOLEAN,
                 status : {"OK", "ERR"}, error : EMQ_ERROR]
  BY DEF Return, Done
<1> QED
  BY <1>1, <1>2, <1>3

LEMMA CompleteType ==
  ASSUME TypeOK, NEW c \in Calls \cup {emq_ping}, NEW id \in 0..MaxCalls,
         Subscribes(c) => id # 0, NEW arg \in Arguments(c), NEW waited \in BOOLEAN,
         Complete(c, id, arg, waited)
  PROVE  /\ status' \in {"OK", "ERR"} /\ error' \in EMQ_ERROR /\ trusted' \in BOOLEAN
         /\ queue_subscriptions' \subseteq {e \in Entry : e.sub.via = "QUEUE_SUBSCRIBE"}
         /\ channel_subscriptions' \subseteq {e \in Entry : e.sub.via # "QUEUE_SUBSCRIBE"}
         /\ done' \in [c : Calls \cup {emq_ping}, id : 0..MaxCalls, waited : BOOLEAN,
                       status : {"OK", "ERR"}, error : EMQ_ERROR]
<1>1. \E st \in {"OK", "ERR"}, err \in EMQ_ERROR : Return(c, id, waited, st, err)
  BY DEF Complete, EMQ_ERROR
<1>2. Subscribes(c) => [sub |-> arg, id |-> id] \in Entry
  BY ArgumentsType DEF Entry
<1>3. /\ queue_subscriptions' \subseteq {e \in Entry : e.sub.via = "QUEUE_SUBSCRIBE"}
      /\ channel_subscriptions' \subseteq {e \in Entry : e.sub.via # "QUEUE_SUBSCRIBE"}
  BY <1>2 DEF Complete, Registered, Removed, Subscribes, TypeOK, ClientType
<1> QED
  BY <1>1, <1>3, ReturnType

LEMMA InitType == Init => TypeOK
<1> SUFFICES ASSUME Init PROVE TypeOK
  OBVIOUS
<1> USE DEF Init
<1>1. ClientType
  BY DEF ClientType, EMQ_ERROR, Pcs
<1>2. FrameType
  BY NoFrameType, PingType DEF FrameType, NoCall, NoCurrent
<1>3. StreamType
  BY DEF StreamType
<1>4. /\ nextId \in 0..MaxCalls /\ subs \subseteq Sub
      /\ sent \in 0..MaxEvents /\ delivered \in Nat
  OBVIOUS
<1>5. subscribed \in BOOLEAN /\ trusted \in BOOLEAN
  BY Zenon
<1>6. served \in [1..MaxCalls -> Statuses \cup {"none"}]
  OBVIOUS
<1>7. done \in [c : Calls \cup {emq_ping}, id : 0..MaxCalls, waited : BOOLEAN,
                status : {"OK", "ERR"}, error : EMQ_ERROR]
  BY DEF EMQ_ERROR
<1> QED
  BY <1>1, <1>2, <1>3, <1>4, <1>5, <1>6, <1>7 DEF TypeOK, AppType

\* Connections and noack.
LEMMA ConnectType ==
  ASSUME TypeOK, emq_connect \/ emq_disconnect \/ Restart
  PROVE  TypeOK'
<1>1. emq_client_init /\ NewStreams /\ UNCHANGED <<nextId, served, done>>
      /\ conn' \in {"down", "up", "broken"} /\ pc' = "idle"
  BY DEF emq_connect, emq_disconnect, Restart
<1>2. ClientType'
  BY <1>1 DEF emq_client_init, ClientType, EMQ_ERROR, Pcs
<1>3. FrameType'
  BY <1>1, NoFrameType, PingType DEF NewStreams, FrameType, NoCall, NoCurrent
<1>4. StreamType'
  BY <1>1 DEF NewStreams, StreamType
<1>5. subscribed' \in BOOLEAN /\ trusted' \in BOOLEAN
  BY <1>1, Zenon DEF NewStreams
<1>6. subs' = {} /\ sent' = 0 /\ delivered' = 0
  BY <1>1 DEF NewStreams
<1>7. AppType'
  BY <1>1, <1>5, <1>6 DEF TypeOK, AppType
<1> QED
  BY <1>2, <1>3, <1>4, <1>7 DEF TypeOK

LEMMA NoackType ==
  ASSUME TypeOK, emq_noack_enable \/ emq_noack_disable
  PROVE  TypeOK'
<1>1. /\ noack' \in BOOLEAN
      /\ UNCHANGED <<conn, pc, status, error, queue_subscriptions, channel_subscriptions,
                     frameVars, outbox, inbox, appVars, serverVars, delivered>>
  BY DEF emq_noack_enable, emq_noack_disable, SetNoack
<1>2. ClientType'
  BY <1>1 DEF TypeOK, ClientType
<1>3. FrameType'
  BY <1>1 DEF TypeOK, FrameType, frameVars
<1>4. StreamType'
  BY <1>1 DEF TypeOK, StreamType
<1>5. AppType'
  BY <1>1 DEF TypeOK, AppType, appVars, serverVars
<1> QED
  BY <1>2, <1>3, <1>4, <1>5 DEF TypeOK

LEMMA CallRejectedType ==
  ASSUME TypeOK, NEW c \in Calls, CallRejected(c)
  PROVE  TypeOK'
<1> USE DEF CallRejected, SetResult, TypeOK, frameVars, serverVars
<1>1. ClientType'
  BY DEF ClientType, EMQ_ERROR
<1>2. FrameType' /\ StreamType'
  BY DEF FrameType, StreamType
<1>3. trusted' \in BOOLEAN
  BY Zenon
<1>4. AppType'
  BY <1>3 DEF AppType
<1> QED
  BY <1>1, <1>2, <1>4

\* What a command appends to the outbound stream.
LEMMA RequestType ==
  ASSUME TypeOK, nextId < MaxCalls, NEW c \in Calls, NEW arg \in Arguments(c),
         NEW whole \in BOOLEAN
  PROVE  RequestFrame(c, arg, whole) \in RequestFrames /\ nextId + 1 \in 1..MaxCalls
<1>1. nextId + 1 \in 1..MaxCalls
  BY DEF TypeOK, AppType
<1>2. noack \in BOOLEAN /\ arg \in Sub \cup {NoSub}
  BY ArgumentsType DEF TypeOK, ClientType
<1> QED
  BY <1>1, <1>2 DEF RequestFrame, RequestFrames

LEMMA CallWriteFailsType ==
  ASSUME TypeOK, NEW c \in Calls, NEW arg \in Arguments(c), CallWriteFails(c, arg)
  PROVE  TypeOK'
<1> USE DEF TypeOK
<1>1. /\ nextId < MaxCalls /\ nextId' = nextId + 1
      /\ Return(c, nextId + 1, FALSE, "ERR", "WRITE")
      /\ outbox' \in {outbox, Append(outbox, RequestFrame(c, arg, FALSE))}
      /\ UNCHANGED <<conn, pc, noack, queue_subscriptions, channel_subscriptions,
                     call, hdr, current, inbox, subscribed, subs, sent, served,
                     delivered>>
  BY DEF CallWriteFails, Return, frameVars, serverVars
<1>2. nextId + 1 \in 1..MaxCalls /\ RequestFrame(c, arg, FALSE) \in RequestFrames
  BY <1>1, RequestType
<1>3. /\ status' \in {"OK", "ERR"} /\ error' \in EMQ_ERROR /\ trusted' \in BOOLEAN
      /\ done' \in [c : Calls \cup {emq_ping}, id : 0..MaxCalls, waited : BOOLEAN,
                    status : {"OK", "ERR"}, error : EMQ_ERROR]
  <2>1. nextId + 1 \in 0..MaxCalls /\ "WRITE" \in EMQ_ERROR /\ FALSE \in BOOLEAN
    BY <1>2 DEF EMQ_ERROR
  <2> QED
    BY <1>1, <2>1, ReturnType
<1>4. ClientType' /\ FrameType'
  BY <1>1, <1>3 DEF ClientType, FrameType
<1>5. StreamType'
  <2>1. outbox \in Seq(RequestFrames)
    BY DEF StreamType
  <2>2. Append(outbox, RequestFrame(c, arg, FALSE)) \in Seq(RequestFrames)
    BY <1>2, <2>1, AppendType
  <2> QED
    BY <1>1, <2>1, <2>2 DEF StreamType
<1>6. AppType'
  BY <1>1, <1>2, <1>3 DEF AppType
<1> QED
  BY <1>4, <1>5, <1>6

LEMMA CallSentType ==
  ASSUME TypeOK, NEW c \in Calls, NEW arg \in Arguments(c), CallSent(c, arg)
  PROVE  TypeOK'
<1>1. /\ nextId < MaxCalls /\ nextId' = nextId + 1
      /\ subscribed' = (subscribed \/ c.effect \in {"qsub", "csub"})
      /\ pc \in {"idle", "callback"}
      /\ UNCHANGED <<conn, noack, hdr, current, inbox, subs, sent, served, delivered>>
  BY DEF CallSent, MayCall, serverVars
<1>2. /\ nextId + 1 \in 1..MaxCalls
      /\ \A whole \in BOOLEAN : RequestFrame(c, arg, whole) \in RequestFrames
  BY <1>1, RequestType
<1>3. StreamType'
  <2>1. PICK whole \in BOOLEAN : outbox' = Append(outbox, RequestFrame(c, arg, whole))
    BY DEF CallSent
  <2>2. outbox' \in Seq(RequestFrames)
    BY <1>2, <2>1, AppendType DEF TypeOK, StreamType
  <2> QED
    BY <1>1, <2>2 DEF TypeOK, StreamType
<1>4. subscribed' \in BOOLEAN
  BY <1>1, Zenon
<1>5. CASE Waits(c)
  <2>1. /\ pc' = "reply" /\ error' = "NONE"
        /\ call' = [c |-> c, id |-> nextId + 1, arg |-> arg, from |-> pc]
        /\ UNCHANGED <<status, trusted, done, queue_subscriptions, channel_subscriptions>>
    BY <1>5 DEF CallSent
  <2>2. ClientType'
    BY <1>1, <2>1 DEF TypeOK, ClientType, Pcs, EMQ_ERROR
  <2>3. FrameType'
    BY <1>1, <1>2, <2>1, ArgumentsType DEF TypeOK, FrameType
  <2>4. AppType'
    BY <1>1, <1>2, <1>4, <2>1 DEF TypeOK, AppType
  <2> QED
    BY <1>3, <2>2, <2>3, <2>4 DEF TypeOK
<1>6. CASE ~Waits(c)
  <2>1. Complete(c, nextId + 1, arg, FALSE) /\ UNCHANGED <<pc, call>>
    BY <1>6 DEF CallSent
  <2>2. /\ status' \in {"OK", "ERR"} /\ error' \in EMQ_ERROR /\ trusted' \in BOOLEAN
        /\ queue_subscriptions' \subseteq {e \in Entry : e.sub.via = "QUEUE_SUBSCRIBE"}
        /\ channel_subscriptions' \subseteq {e \in Entry : e.sub.via # "QUEUE_SUBSCRIBE"}
        /\ done' \in [c : Calls \cup {emq_ping}, id : 0..MaxCalls, waited : BOOLEAN,
                      status : {"OK", "ERR"}, error : EMQ_ERROR]
    <3>1. nextId + 1 \in 0..MaxCalls /\ nextId + 1 # 0
      BY <1>2
    <3>2. c \in Calls \cup {emq_ping} /\ FALSE \in BOOLEAN
      BY Zenon
    <3> QED
      BY <2>1, <3>1, <3>2, CompleteType
  <2>3. ClientType' /\ FrameType'
    BY <1>1, <2>1, <2>2 DEF TypeOK, ClientType, FrameType
  <2>4. AppType'
    BY <1>1, <1>2, <1>4, <2>1, <2>2 DEF TypeOK, AppType
  <2> QED
    BY <1>3, <2>3, <2>4 DEF TypeOK
<1> QED
  BY <1>5, <1>6


\* What no step that reads a reply changes, and what every one of them does.
LEMMA ReadingType ==
  ASSUME TypeOK, ReadingUnchanged, inbox' \in Seq(Word), pc' \in Pcs,
         status' \in {"OK", "ERR"}, error' \in EMQ_ERROR, trusted' \in BOOLEAN,
         queue_subscriptions' \subseteq {e \in Entry : e.sub.via = "QUEUE_SUBSCRIBE"},
         channel_subscriptions' \subseteq {e \in Entry : e.sub.via # "QUEUE_SUBSCRIBE"},
         done' \in [c : Calls \cup {emq_ping}, id : 0..MaxCalls, waited : BOOLEAN,
                    status : {"OK", "ERR"}, error : EMQ_ERROR],
         call' \in {call, NoCall}, hdr' \in Frames
  PROVE  TypeOK'
<1>1. UNCHANGED <<conn, noack, current, outbox, nextId, subscribed, subs, sent, served, delivered>>
  BY DEF ReadingUnchanged, serverVars
<1>2. ClientType' /\ StreamType' /\ AppType'
  BY <1>1 DEF TypeOK, ClientType, StreamType, AppType, Word
<1>3. FrameType'
  BY <1>1, PingType DEF TypeOK, FrameType, NoCall
<1> QED
  BY <1>2, <1>3 DEF TypeOK

\* A command that fails, or succeeds without a change of the lists, returns.
LEMMA LeaveType ==
  ASSUME TypeOK, NEW st \in {"OK", "ERR"}, NEW err \in EMQ_ERROR,
         Leave, Return(call.c, call.id, TRUE, st, err),
         UNCHANGED <<queue_subscriptions, channel_subscriptions>>,
         ReadingUnchanged, inbox' \in Seq(Word)
  PROVE  TypeOK'
<1>1. call.c \in Calls \cup {emq_ping} /\ call.id \in 0..MaxCalls
      /\ call.from \in {"idle", "callback"} /\ TRUE \in BOOLEAN
  BY CallType DEF TypeOK
<1>2. /\ status' \in {"OK", "ERR"} /\ error' \in EMQ_ERROR /\ trusted' \in BOOLEAN
      /\ done' \in [c : Calls \cup {emq_ping}, id : 0..MaxCalls, waited : BOOLEAN,
                    status : {"OK", "ERR"}, error : EMQ_ERROR]
  BY <1>1, ReturnType
<1>3. pc' \in Pcs /\ call' \in {call, NoCall} /\ hdr' \in Frames
  BY <1>1, NoFrameType DEF Leave, Pcs
<1>4. /\ queue_subscriptions' \subseteq {e \in Entry : e.sub.via = "QUEUE_SUBSCRIBE"}
      /\ channel_subscriptions' \subseteq {e \in Entry : e.sub.via # "QUEUE_SUBSCRIBE"}
  BY DEF TypeOK, ClientType
<1> QED
  BY <1>2, <1>3, <1>4, ReadingType

\* A step that only moves on to the next part of the reply.
LEMMA AdvanceType ==
  ASSUME TypeOK, ReadingUnchanged, inbox' \in Seq(Word), pc' \in Pcs, hdr' \in Frames,
         UNCHANGED <<call, status, error, trusted, done, queue_subscriptions,
                     channel_subscriptions>>
  PROVE  TypeOK'
<1>1. /\ status' \in {"OK", "ERR"} /\ error' \in EMQ_ERROR /\ trusted' \in BOOLEAN
      /\ done' \in [c : Calls \cup {emq_ping}, id : 0..MaxCalls, waited : BOOLEAN,
                    status : {"OK", "ERR"}, error : EMQ_ERROR]
      /\ queue_subscriptions' \subseteq {e \in Entry : e.sub.via = "QUEUE_SUBSCRIBE"}
      /\ channel_subscriptions' \subseteq {e \in Entry : e.sub.via # "QUEUE_SUBSCRIBE"}
  BY DEF TypeOK, ClientType, AppType
<1> QED
  BY <1>1, ReadingType

\* Steps of a command after its request.
LEMMA CallStepType ==
  ASSUME TypeOK, CallStep
  PROVE  TypeOK'
<1> DEFINE InboxOK == inbox' \in Seq(Word)
<1>1. /\ StreamType /\ FirstRead(call.c) \in Nat \ {0} /\ hdr.len \in Nat
      /\ "READ" \in EMQ_ERROR /\ "RESPONSE" \in EMQ_ERROR /\ "ALLOC" \in EMQ_ERROR
      /\ "NONE" \in EMQ_ERROR
  <2>1. FirstRead(call.c) \in Nat \ {0}
    BY DEF FirstRead
  <2>2. StreamType /\ hdr.len \in Nat
    BY DEF TypeOK, FrameType, Frames
  <2>3. {"READ", "RESPONSE", "ALLOC", "NONE"} \subseteq EMQ_ERROR
    BY DEF EMQ_ERROR
  <2> QED
    BY <2>1, <2>2, <2>3
<1>2. inbox \in Seq(Word)
  BY <1>1 DEF StreamType, Word
<1>3. ASSUME ReplyReadFails PROVE TypeOK'
  <2>1. InboxOK
    BY <1>1, <1>3, ReadType DEF ReplyReadFails
  <2> QED
    BY <1>1, <1>3, <2>1, LeaveType DEF ReplyReadFails, Fail
<1>4. ASSUME ReplyRejected PROVE TypeOK'
  <2>1. InboxOK
    BY <1>1, <1>4, ReadType DEF ReplyRejected
  <2> QED
    BY <1>1, <1>4, <2>1, LeaveType DEF ReplyRejected, Fail
<1>5. ASSUME ReplyStatus PROVE TypeOK'
  <2>1. InboxOK
    BY <1>1, <1>5, ReadType DEF ReplyStatus
  <2> QED
    BY <1>1, <1>5, <2>1, LeaveType, GetErrorType DEF ReplyStatus, Fail
<1>6. ASSUME ReplySuccess PROVE TypeOK'
  <2>1. InboxOK /\ ReadingUnchanged
    BY <1>1, <1>6, ReadType DEF ReplySuccess
  <2>2. CASE Complete(call.c, call.id, call.arg, TRUE) /\ Leave
    <3>1. /\ call.c \in Calls \cup {emq_ping} /\ call.id \in 0..MaxCalls
          /\ call.from \in {"idle", "callback"} /\ call.arg \in Arguments(call.c)
          /\ Subscribes(call.c) => call.id # 0
      BY CallType DEF TypeOK
    <3>2. TRUE \in BOOLEAN
      BY Zenon
    <3>3. /\ status' \in {"OK", "ERR"} /\ error' \in EMQ_ERROR /\ trusted' \in BOOLEAN
          /\ queue_subscriptions' \subseteq {e \in Entry : e.sub.via = "QUEUE_SUBSCRIBE"}
          /\ channel_subscriptions' \subseteq {e \in Entry : e.sub.via # "QUEUE_SUBSCRIBE"}
          /\ done' \in [c : Calls \cup {emq_ping}, id : 0..MaxCalls, waited : BOOLEAN,
                        status : {"OK", "ERR"}, error : EMQ_ERROR]
      BY <2>2, <3>1, <3>2, CompleteType
    <3>4. pc' \in Pcs /\ call' \in {call, NoCall} /\ hdr' \in Frames
      BY <2>2, <3>1, NoFrameType DEF Leave, Pcs
    <3> QED
      BY <2>1, <3>3, <3>4, ReadingType
  <2>3. CASE /\ pc' = IF call.c.body = "message" THEN "tag" ELSE "body"
             /\ hdr' = Header
             /\ UNCHANGED <<call, status, error, trusted, done, queue_subscriptions,
                            channel_subscriptions>>
    <3>1. Len(inbox) >= 1
      <4>1. Len(inbox) \in Nat /\ Len(inbox) >= FirstRead(call.c)
        BY <1>2, <1>6 DEF ReplySuccess, ReadOk
      <4> QED
        BY <1>1, <4>1
    <3>2. pc' \in Pcs /\ hdr' \in Frames
      BY <1>2, <2>3, <3>1, HeaderType DEF Pcs
    <3> QED
      BY <2>1, <2>3, <3>2, AdvanceType
  <2> QED
    BY <1>6, <2>2, <2>3 DEF ReplySuccess
<1>7. ASSUME BodyRead PROVE TypeOK'
  <2>1. InboxOK
    BY <1>1, <1>7, ReadType DEF BodyRead
  <2> QED
    BY <1>1, <1>7, <2>1, LeaveType DEF BodyRead, Fail
<1>8. ASSUME BodyFails PROVE TypeOK'
  <2>1. InboxOK
    BY <1>1, <1>2, <1>8, ReadType DEF BodyFails
  <2> QED
    BY <1>1, <1>8, <2>1, LeaveType DEF BodyFails, Fail
<1>9. ASSUME TagRead PROVE TypeOK'
  <2>1. InboxOK
    BY <1>1, <1>9, ReadType DEF TagRead
  <2>2. hdr' \in Frames /\ pc' \in Pcs
    BY <1>9 DEF TagRead, TypeOK, FrameType, Pcs
  <2> QED
    BY <1>9, <2>1, <2>2, AdvanceType DEF TagRead, clientVars
<1>10. ASSUME TagFails PROVE TypeOK'
  <2>1. InboxOK
    BY <1>1, <1>10, ReadType DEF TagFails
  <2> QED
    BY <1>1, <1>10, <2>1, LeaveType DEF TagFails, Fail
<1>11. ASSUME MessageRead PROVE TypeOK'
  <2>1. InboxOK
    <3>1. hdr.len - TagWords \in Nat /\ ReadOk(hdr.len - TagWords)
      BY <1>1, <1>11 DEF MessageRead
    <3> QED
      BY <1>1, <3>1, ReadType
  <2> QED
    BY <1>1, <1>11, <2>1, LeaveType DEF MessageRead
<1>12. ASSUME MessageFails PROVE TypeOK'
  <2>1. InboxOK
    BY <1>1, <1>2, <1>12, ReadType DEF MessageFails
  <2>2. hdr' \in Frames /\ pc' \in Pcs
    BY <1>12 DEF MessageFails, TypeOK, FrameType, Pcs
  <2> QED
    BY <1>12, <2>1, <2>2, AdvanceType DEF MessageFails, clientVars
<1> QED
  BY <1>3, <1>4, <1>5, <1>6, <1>7, <1>8, <1>9, <1>10, <1>11, <1>12 DEF CallStep

\* What no step of emq_process changes, and what every one of them does.
LEMMA ProcessingType ==
  ASSUME TypeOK, ProcessUnchanged, inbox' \in Seq(Word), pc' \in Pcs,
         status' \in {"OK", "ERR"}, error' \in EMQ_ERROR, trusted' \in BOOLEAN,
         hdr' \in Frames, delivered' \in Nat,
         current' \in [entry : Entry \cup {NoCurrent.entry}, event : Frames]
  PROVE  TypeOK'
<1>1. UNCHANGED <<conn, noack, queue_subscriptions, channel_subscriptions, call,
                  outbox, nextId, subscribed, done, subs, sent, served>>
  BY DEF ProcessUnchanged, serverVars
<1>2. ClientType' /\ FrameType' /\ StreamType' /\ AppType'
  BY <1>1 DEF TypeOK, ClientType, FrameType, StreamType, AppType, Word
<1> QED
  BY <1>2 DEF TypeOK

LEMMA NoCurrentType == NoCurrent \in [entry : Entry \cup {NoCurrent.entry}, event : Frames]
BY NoFrameType DEF NoCurrent

LEMMA ProcessFailsType ==
  ASSUME TypeOK, NEW err \in EMQ_ERROR, ProcessFails(err), ProcessUnchanged,
         inbox' \in Seq(Word)
  PROVE  TypeOK'
<1>1. trusted' \in BOOLEAN
  BY Zenon DEF ProcessFails
<1>2. /\ pc' \in Pcs /\ status' \in {"OK", "ERR"} /\ error' \in EMQ_ERROR
      /\ hdr' \in Frames
      /\ current' \in [entry : Entry \cup {NoCurrent.entry}, event : Frames]
  BY NoFrameType, NoCurrentType DEF ProcessFails, Pcs
<1>3. delivered' \in Nat
  BY DEF ProcessFails, TypeOK, AppType
<1> QED
  BY <1>1, <1>2, <1>3, ProcessingType

\* A step of emq_process that goes on.
LEMMA ProcessGoesOnType ==
  ASSUME TypeOK, ProcessUnchanged, UNCHANGED <<status, error, trusted>>,
         inbox' \in Seq(Word), pc' \in Pcs, hdr' \in Frames, delivered' \in Nat,
         current' \in [entry : Entry \cup {NoCurrent.entry}, event : Frames]
  PROVE  TypeOK'
<1>1. status' \in {"OK", "ERR"} /\ error' \in EMQ_ERROR /\ trusted' \in BOOLEAN
  BY DEF TypeOK, ClientType, AppType
<1> QED
  BY <1>1, ProcessingType

LEMMA ProcessStepType ==
  ASSUME TypeOK, ProcessStep
  PROVE  TypeOK'
<1> DEFINE InboxOK == inbox' \in Seq(Word)
<1> DEFINE FW == EventFieldWords(hdr.cmd)
<1>1. StreamType /\ hdr.len \in Nat /\ FW \in Nat /\ HeaderWords \in Nat /\ FW # 0
  BY EventFieldWordsType DEF TypeOK, FrameType, Frames
<1> HIDE DEF FW
<1>2. hdr \in Frames /\ error \in EMQ_ERROR /\ delivered \in Nat
      /\ current \in [entry : Entry \cup {NoCurrent.entry}, event : Frames]
  BY DEF TypeOK, ClientType, FrameType, AppType
<1>3. {"READ", "ALLOC"} \subseteq EMQ_ERROR
  BY DEF EMQ_ERROR
<1>4. inbox \in Seq(Word)
  BY <1>1 DEF StreamType, Word
<1>5. ASSUME EventReadFails PROVE TypeOK'
  <2>1. InboxOK
    BY <1>1, <1>5, ReadType DEF EventReadFails
  <2> QED
    BY <1>3, <1>5, <2>1, ProcessFailsType DEF EventReadFails
<1>6. ASSUME EventRejected PROVE TypeOK'
  <2>1. InboxOK
    BY <1>1, <1>6, ReadType DEF EventRejected
  <2> QED
    BY <1>3, <1>6, <2>1, ProcessFailsType DEF EventRejected
<1>7. ASSUME EventHeader PROVE TypeOK'
  <2>1. InboxOK
    BY <1>1, <1>7, ReadType DEF EventHeader
  <2>2. Len(inbox) >= 1
    <3>1. Len(inbox) \in Nat /\ Len(inbox) >= HeaderWords
      BY <1>4, <1>7 DEF EventHeader, ReadOk
    <3> QED
      BY <3>1
  <2>3. pc' \in Pcs /\ hdr' \in Frames
    BY <1>4, <1>7, <2>2, HeaderType DEF EventHeader, Pcs
  <2> QED
    BY <1>2, <1>7, <2>1, <2>3, ProcessGoesOnType DEF EventHeader
<1>8. ASSUME EventFieldsFail PROVE TypeOK'
  <2>1. InboxOK
    BY <1>1, <1>8, ReadType DEF EventFieldsFail, FW
  <2> QED
    BY <1>3, <1>8, <2>1, ProcessFailsType DEF EventFieldsFail
<1>9. ASSUME EventNotFound PROVE TypeOK'
  <2>1. InboxOK
    BY <1>1, <1>9, ReadType DEF EventNotFound, FW
  <2> QED
    BY <1>2, <1>9, <2>1, ProcessFailsType DEF EventNotFound
<1>10. ASSUME EventFound PROVE TypeOK'
  <2>1. InboxOK
    BY <1>1, <1>10, ReadType DEF EventFound, FW
  <2>2. PICK e \in EventList :
          \/ Callback(e)
          \/ /\ pc' = "payload" /\ current' = [entry |-> e, event |-> hdr]
             /\ UNCHANGED <<delivered, hdr>>
    BY <1>10 DEF EventFound
  <2>3. e \in Entry
    BY DEF EventList, TypeOK, ClientType
  <2>4. pc' \in Pcs /\ hdr' \in Frames
        /\ current' \in [entry : Entry \cup {NoCurrent.entry}, event : Frames]
    BY <1>2, <2>2, <2>3, NoFrameType DEF Callback, Pcs
  <2>5. delivered' \in Nat
    BY <1>2, <2>2 DEF Callback
  <2> QED
    BY <1>10, <2>1, <2>4, <2>5, ProcessGoesOnType DEF EventFound
<1>11. ASSUME EventMessage PROVE TypeOK'
  <2>1. InboxOK
    <3>1. hdr.len - FW \in Nat /\ ReadOk(hdr.len - FW)
      BY <1>1, <1>11 DEF EventMessage, FW
    <3> QED
      BY <1>1, <3>1, ReadType
  <2>2. current.entry \in Entry \cup {NoCurrent.entry}
    BY <1>2
  <2>3. pc' \in Pcs /\ hdr' \in Frames
        /\ current' \in [entry : Entry \cup {NoCurrent.entry}, event : Frames]
    BY <1>2, <1>11, <2>2, NoFrameType DEF EventMessage, Callback, Pcs
  <2>4. delivered' \in Nat
    BY <1>2, <1>11 DEF EventMessage, Callback
  <2> QED
    BY <1>11, <2>1, <2>3, <2>4, ProcessGoesOnType DEF EventMessage
<1>12. ASSUME EventMessageFails PROVE TypeOK'
  <2>1. InboxOK
    BY <1>1, <1>4, <1>12, ReadType DEF EventMessageFails
  <2> QED
    BY <1>3, <1>12, <2>1, ProcessFailsType DEF EventMessageFails
<1> QED
  BY <1>5, <1>6, <1>7, <1>8, <1>9, <1>10, <1>11, <1>12 DEF ProcessStep

\* The head of the loop of emq_process, reached by a call and after a callback.
LEMMA LoopType ==
  ASSUME TypeOK, emq_process \/ \E stop \in BOOLEAN : CallbackReturns(stop)
  PROVE  TypeOK'
<1>1. /\ pc' \in {"idle", "event"} /\ status' \in {"OK", status}
      /\ error' \in {"NONE", error} /\ current' \in {current, NoCurrent}
      /\ UNCHANGED <<hdr, inbox, delivered, trusted>> /\ ProcessUnchanged
  BY DEF emq_process, CallbackReturns, LoopHead
<1>2. pc' \in Pcs /\ status' \in {"OK", "ERR"} /\ error' \in EMQ_ERROR
  BY <1>1 DEF TypeOK, ClientType, Pcs, EMQ_ERROR
<1>3. /\ current' \in [entry : Entry \cup {NoCurrent.entry}, event : Frames]
      /\ hdr' \in Frames
  BY <1>1, NoCurrentType DEF TypeOK, FrameType
<1>4. inbox' \in Seq(Word) /\ delivered' \in Nat /\ trusted' \in BOOLEAN
  BY <1>1 DEF TypeOK, StreamType, AppType, Word
<1> QED
  BY <1>1, <1>2, <1>3, <1>4, ProcessingType

\* The server and the network.
LEMMA ServerType ==
  ASSUME TypeOK, ServerOrNetworkStep
  PROVE  TypeOK'
<1>1. inbox \in Seq(Word) /\ outbox \in Seq(RequestFrames)
  BY DEF TypeOK, StreamType, Word
<1>2. ASSUME UNCHANGED <<pc, clientVars, frameVars, appVars, delivered>>,
             conn' \in {"down", "up", "broken"}, inbox' \in Seq(Word),
             outbox' \in Seq(RequestFrames), subs' \subseteq Sub, sent' \in 0..MaxEvents,
             served' \in [1..MaxCalls -> Statuses \cup {"none"}]
      PROVE  TypeOK'
  <2>1. UNCHANGED <<pc, status, error, noack, queue_subscriptions,
                    channel_subscriptions, call, hdr, current, subscribed, trusted,
                    done, nextId, delivered>>
    BY <1>2 DEF clientVars, frameVars, appVars
  <2>2. ClientType' /\ FrameType' /\ StreamType' /\ AppType'
    BY <1>2, <2>1 DEF TypeOK, ClientType, FrameType, StreamType, AppType, Word
  <2> QED
    BY <2>2 DEF TypeOK
<1>3. /\ conn \in {"down", "up", "broken"} /\ subs \subseteq Sub
      /\ sent \in 0..MaxEvents /\ served \in [1..MaxCalls -> Statuses \cup {"none"}]
  BY DEF TypeOK, ClientType, AppType
<1>4. ASSUME NEW code \in Statuses, ServerStep(code) PROVE TypeOK'
  <2> DEFINE rq == Head(outbox)
  <2>1. rq \in RequestFrames /\ Tail(outbox) \in Seq(RequestFrames)
    BY <1>1, <1>4, HeadTailProperties DEF ServerStep
  <2>2. PICK len \in ReplyLens(rq.c, code) :
          inbox' = IF Answers(rq) THEN inbox \o Words(Reply(rq, code, len)) ELSE inbox
    BY <1>4 DEF ServerStep
  <2>3. Words(Reply(rq, code, len)) \in Seq(Word)
    BY <2>1, ReplyType, WordsType
  <2>4. inbox' \in Seq(Word)
    BY <1>1, <2>2, <2>3, ConcatType
  <2>5. subs' \subseteq Sub
    <3>1. rq.c.effect \in {"qsub", "csub"} => rq.arg \in Sub
      BY <2>1, ArgumentsType DEF RequestFrames, Subscribes
    <3> QED
      BY <1>3, <1>4, <3>1 DEF ServerStep, SubsAfter
  <2>6. served' \in [1..MaxCalls -> Statuses \cup {"none"}]
    BY <1>3, <1>4, <2>1 DEF ServerStep, RequestFrames
  <2> QED
    BY <1>2, <1>3, <1>4, <2>1, <2>4, <2>5, <2>6 DEF ServerStep
<1>5. ASSUME NEW s \in Sub, NEW type \in protocol_event_type, SendEvent(s, type)
      PROVE  TypeOK'
  <2> DEFINE len == EventFieldWords(s.via) + (IF type = "MESSAGE" THEN MsgWords ELSE 0)
  <2>1. len \in Nat
    BY EventFieldWordsType
  <2>2. sent + 1 \in Nat /\ sent' \in 0..MaxEvents
    BY <1>3, <1>5 DEF SendEvent
  <2>3. Words(Event(s, type, len, sent + 1)) \in Seq(Word)
    BY <2>1, <2>2, EventType, WordsType
  <2>4. inbox' \in Seq(Word)
    BY <1>1, <1>5, <2>3, ConcatType DEF SendEvent
  <2> QED
    BY <1>1, <1>2, <1>3, <1>5, <2>2, <2>4 DEF SendEvent
<1>6. ASSUME ServerMisframe PROVE TypeOK'
  BY <1>1, <1>2, <1>3, <1>6 DEF ServerMisframe, Break, serverVars
<1>7. ASSUME Drop PROVE TypeOK'
  <2>1. inbox' \in Seq(Word)
    BY <1>1, <1>7, PrefixType DEF Drop
  <2> QED
    BY <1>2, <1>3, <1>7, <2>1 DEF Drop, Break, serverVars
<1> QED
  BY <1>4, <1>5, <1>6, <1>7 DEF ServerOrNetworkStep, Serve

LEMMA NextType ==
  ASSUME TypeOK, [Next]_vars
  PROVE  TypeOK'
<1>1. CASE AppStep
  BY <1>1, ConnectType, NoackType, LoopType, CallRejectedType, CallWriteFailsType,
     CallSentType DEF AppStep
<1>2. CASE UNCHANGED vars
  BY <1>2 DEF vars, clientVars, frameVars, appVars, serverVars, TypeOK, ClientType,
     FrameType, StreamType, AppType
<1> QED
  BY <1>1, <1>2, CallStepType, ProcessStepType, ServerType DEF Next

\* The variables of the client, the streams and the server always hold values
\* of their kinds: the library's lists hold only entries of subscribe calls of
\* their own kind, and every header it keeps was sent by the server.
THEOREM TypeCorrect == Spec => []TypeOK
<1>1. Init => TypeOK
  BY InitType
<1>2. TypeOK /\ [Next]_vars => TypeOK'
  BY NextType
<1> QED
  BY <1>1, <1>2, PTL DEF Spec
=============================================================================
