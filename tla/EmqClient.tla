----------------------------- MODULE EmqClient -----------------------------
(***************************************************************************)
(* One libemq client, the application that drives it, the two byte streams *)
(* of its socket and the EagleMQ server at the other end.                  *)
(*                                                                         *)
(* The library is sequential: a command writes a request and then blocks   *)
(* reading the reply; emq_process blocks reading events and calls the      *)
(* application back.  What makes it hard is the shared inbound stream: it  *)
(* carries replies and events, the client finds frame boundaries only by   *)
(* counting, and a read or write may stop in the middle of a frame.  So    *)
(* the inbound stream is a sequence of words (4 bytes on the wire) and a   *)
(* read takes a number of words, whatever frames they come from.           *)
(*                                                                         *)
(* The server is external: it is modelled from what the code of the client *)
(* expects of it.                                                          *)
(***************************************************************************)
EXTENDS EmqApi, Integers, FiniteSets

CONSTANTS
  Apis,        \* names of the functions the application may call
  Queues,      \* queue names
  Channels,    \* channel names
  Topics,      \* topics and patterns of channels
  Statuses,    \* reply statuses the server may answer with
  HeaderWords, \* words of a frame header
  TagWords,    \* words of the tag in front of a message
  NameWords,   \* words of the name in front of an event's body
  TopicWords,  \* words of a topic or a pattern in an event's body
  MsgWords,    \* words of a message
  StatWords,   \* words of the body of a successful reply to STAT
  ListLens,    \* lengths in words of list replies
  MaxCalls,    \* requests the application sends in a behaviour
  MaxEvents,   \* events the server sends on one connection
  Usage,       \* when the application issues commands that read a reply:
               \* "examples", "readme" or "any" (see MayRead)
  Reuse,       \* TRUE: the application keeps using a connection after an
               \* error that leaves the position in the stream unknown
  Signals,     \* TRUE: signals interrupt read and write
  ShortWrites, \* TRUE: writev may write a part of what it is given
  Oom          \* TRUE: malloc may fail

ASSUME ConstantsAssumption ==
  /\ Statuses \subseteq protocol_response_status
  /\ ListLens \subseteq Nat
  /\ HeaderWords \in Nat \ {0} /\ TagWords \in Nat \ {0} /\ NameWords \in Nat \ {0}
  /\ TopicWords \in Nat \ {0} /\ MsgWords \in Nat \ {0} /\ StatWords \in Nat \ {0}
  /\ MaxCalls \in Nat /\ MaxEvents \in Nat
  /\ Usage \in {"examples", "readme", "any"}
  /\ Reuse \in BOOLEAN /\ Signals \in BOOLEAN
  /\ ShortWrites \in BOOLEAN /\ Oom \in BOOLEAN

VARIABLES
  conn,         \* the socket: "down", "up", or "broken" (the peer is gone)
  pc,           \* where the thread of the application is
  status,       \* client->status
  error,        \* client->error
  noack,        \* client->noack
  queue_subscriptions, channel_subscriptions,
  call,         \* the command being executed
  hdr,          \* the last header read
  current,      \* the entry whose callback runs and the event it is given
  outbox,       \* requests written and not yet taken by the server
  inbox,        \* words sent by the server and not yet read
  nextId,       \* requests sent so far
  subs,         \* subscriptions the server holds for this connection
  sent,         \* events sent on this connection
  delivered,    \* events handed to a callback on this connection
  subscribed,   \* the application sent a subscribe on this connection
  trusted,      \* no call failed so that the stream position is unknown
  served,       \* what the server answered to each request
  done          \* the last command that ended after its request was sent

clientVars == <<status, error, noack, queue_subscriptions, channel_subscriptions>>
frameVars  == <<call, hdr, current>>
appVars    == <<subscribed, trusted, done, nextId>>
serverVars == <<subs, sent, served>>
vars == <<conn, pc, clientVars, frameVars, outbox, inbox, appVars, serverVars,
          delivered>>

Calls == {c \in AllCalls : c.api \in Apis}

(***************************************************************************)
(* Subscriptions.  `via' is the command the server tags its events with.   *)
(***************************************************************************)
Sub == [via : {"QUEUE_SUBSCRIBE"}, name : Queues, topic : {""}]
         \cup [via : {"CHANNEL_SUBSCRIBE", "CHANNEL_PSUBSCRIBE"},
               name : Channels, topic : Topics]
NoSub == [via |-> "", name |-> "", topic |-> ""]

Via(c) == IF c.req.cmd \in {"CHANNEL_PSUBSCRIBE", "CHANNEL_PUNSUBSCRIBE"}
          THEN "CHANNEL_PSUBSCRIBE"
          ELSE "CHANNEL_SUBSCRIBE"

\* The subscription a command names in its arguments.
Arguments(c) ==
  CASE c.effect \in {"qsub", "qunsub"} -> {s \in Sub : s.via = "QUEUE_SUBSCRIBE"}
    [] c.effect \in {"csub", "cunsub"} -> {s \in Sub : s.via = Via(c)}
    [] OTHER -> {NoSub}

\* A registered subscription.  emq_list_add_value inserts at the head, so the
\* lists are walked from the latest request to the earliest.
Entry == [sub : Sub, id : 1..MaxCalls]

Named(list, name) == {e \in list : e.sub.name = name}
IsFirstNamed(e, list, name) ==
  e \in Named(list, name) /\ \A f \in Named(list, name) : f.id <= e.id

(***************************************************************************)
(* Frames and the inbound stream.                                          *)
(***************************************************************************)
Frame(magic, cmd, code, len, id, sub) ==
  [magic |-> magic, cmd |-> cmd, code |-> code, len |-> len, id |-> id, sub |-> sub]
Reply(rq, code, len) == Frame("RES", rq.c.req.cmd, code, len, rq.id, NoSub)
Event(s, type, len, n) == Frame("EVENT", s.via, type, len, n, s)
NoFrame == Frame("", "", "", 0, 0, NoSub)
NoCurrent == [entry |-> [sub |-> NoSub, id |-> 0], event |-> NoFrame]
NoCall == [c |-> emq_ping, id |-> 0, arg |-> NoSub, from |-> "idle"]

Words(f) == [i \in 1..(HeaderWords + f.len) |-> [frame |-> f, i |-> i]]

\* Bytes that do not start a frame are not taken for a header: their magic
\* number is wrong.
Header == IF inbox[1].i = 1 THEN inbox[1].frame ELSE NoFrame

\* emq_client_read: all of n words, or -1 after some of them.
ReadOk(n) == Len(inbox) >= n /\ inbox' = SubSeq(inbox, n + 1, Len(inbox))
ReadFails(n) ==
  \E k \in 0..Len(inbox) :
    /\ k < n
    /\ Signals \/ (conn = "broken" /\ k = Len(inbox))
    /\ inbox' = SubSeq(inbox, k + 1, Len(inbox))

EventFieldWords(cmd) ==
  CASE cmd = "QUEUE_SUBSCRIBE"   -> NameWords
    [] cmd = "CHANNEL_SUBSCRIBE" -> NameWords + TopicWords
    [] OTHER                     -> NameWords + TopicWords + TopicWords

(***************************************************************************)
(* Connection: emq_tcp_connect, emq_unix_connect, emq_disconnect.          *)
(***************************************************************************)
emq_client_init ==
  /\ status' = "OK" /\ error' = "NONE" /\ noack' = FALSE
  /\ queue_subscriptions' = {} /\ channel_subscriptions' = {}

NewStreams ==
  /\ inbox' = <<>> /\ outbox' = <<>> /\ subs' = {}
  /\ sent' = 0 /\ delivered' = 0 /\ subscribed' = FALSE /\ trusted' = TRUE
  /\ call' = NoCall /\ hdr' = NoFrame /\ current' = NoCurrent

emq_connect ==
  /\ pc = "idle" /\ conn = "down"
  /\ conn' = "up"
  /\ emq_client_init /\ NewStreams
  /\ UNCHANGED <<pc, nextId, served, done>>

emq_disconnect ==
  /\ pc = "idle" /\ conn # "down"
  /\ conn' = "down"
  /\ emq_client_init /\ NewStreams
  /\ UNCHANGED <<pc, nextId, served, done>>

\* The process died; the application is started again.
Restart ==
  /\ pc = "crashed"
  /\ pc' = "idle" /\ conn' = "down"
  /\ emq_client_init /\ NewStreams
  /\ UNCHANGED <<nextId, served, done>>

SetNoack(b) ==
  /\ pc \in {"idle", "callback"} /\ conn # "down"
  /\ noack' = b
  /\ UNCHANGED <<conn, pc, status, error, queue_subscriptions,
                 channel_subscriptions, frameVars, outbox, inbox, appVars,
                 serverVars, delivered>>
emq_noack_enable == ~noack /\ SetNoack(TRUE)
emq_noack_disable == noack /\ SetNoack(FALSE)

(***************************************************************************)
(* Commands.                                                               *)
(***************************************************************************)
Waits(c) == c.reply = "always" \/ ~noack

\* When the application issues a command that reads a reply.
\*   "examples": before its first subscribe on the connection, as the
\*               programs of src/examples do;
\*   "readme":   while it has no subscription, which is what README says of
\*               noack mode;
\*   "any":      always.
MayRead ==
  CASE Usage = "examples" -> ~subscribed
    [] Usage = "readme"   -> queue_subscriptions = {} /\ channel_subscriptions = {}
    [] OTHER              -> TRUE

MayCall(c) ==
  /\ pc \in {"idle", "callback"} /\ conn # "down"
  /\ Reuse \/ trusted
  /\ Waits(c) => MayRead

\* Errors of a command after which the application cannot know what is left to
\* be read; a failure of emq_process always is one.
Desync == {"NONE", "ALLOC", "WRITE", "READ", "RESPONSE"}

SetResult(st, err) ==
  /\ status' = st /\ error' = err
  /\ trusted' = (trusted /\ ~(st = "ERR" /\ err \in Desync))

\* The arguments are refused: nothing is written.
CallRejected(c) ==
  /\ MayCall(c)
  /\ c.check # "none" \/ c.req.limits # <<>>
  /\ SetResult("ERR", "DATA")
  /\ UNCHANGED <<conn, pc, noack, queue_subscriptions, channel_subscriptions,
                 frameVars, outbox, inbox, subscribed, done, nextId, serverVars,
                 delivered>>

RequestFrame(c, arg, whole) ==
  [id |-> nextId + 1, c |-> c, noack |-> noack, arg |-> arg, whole |-> whole]

Done(c, id, waited, st, err) ==
  done' = [c |-> c, id |-> id, waited |-> waited, status |-> st, error |-> err]

\* The write fails, possibly after a part of the request.
CallWriteFails(c, arg) ==
  /\ MayCall(c) /\ nextId < MaxCalls
  /\ conn = "broken" \/ (Signals /\ c.write = "write")
  /\ \/ outbox' = outbox
     \/ conn = "up" /\ outbox' = Append(outbox, RequestFrame(c, arg, FALSE))
  /\ SetResult("ERR", "WRITE")
  /\ Done(c, nextId + 1, FALSE, "ERR", "WRITE")
  /\ nextId' = nextId + 1
  /\ UNCHANGED <<conn, pc, noack, queue_subscriptions, channel_subscriptions,
                 frameVars, inbox, subscribed, serverVars, delivered>>

\* What a command does once its request is accepted: change the lists and
\* return.  emq_*_subscription_create or emq_list_add_value may fail; only
\* the first is reported.
\* Mutant: the entry goes to the other list.
RegisteredInOtherList(e) ==
  \/ /\ e.sub.via # "QUEUE_SUBSCRIBE"
     /\ queue_subscriptions' = queue_subscriptions \cup {e}
     /\ UNCHANGED channel_subscriptions
  \/ /\ e.sub.via = "QUEUE_SUBSCRIBE"
     /\ channel_subscriptions' = channel_subscriptions \cup {e}
     /\ UNCHANGED queue_subscriptions

Registered(e) ==
  /\ \/ /\ e.sub.via = "QUEUE_SUBSCRIBE"
        /\ queue_subscriptions' = queue_subscriptions \cup {e}
        /\ UNCHANGED channel_subscriptions
     \/ /\ e.sub.via # "QUEUE_SUBSCRIBE"
        /\ channel_subscriptions' = channel_subscriptions \cup {e}
        /\ UNCHANGED queue_subscriptions

\* Mutant: every entry is deleted, whatever its name.
RemovedWithoutStrcmp(c, arg) ==
  \/ /\ c.effect = "qunsub" /\ queue_subscriptions' = {}
     /\ UNCHANGED channel_subscriptions
  \/ /\ c.effect = "cunsub" /\ channel_subscriptions' = {}
     /\ UNCHANGED queue_subscriptions

Removed(c, arg) ==
  \/ /\ c.effect = "qunsub"
     /\ queue_subscriptions' = queue_subscriptions \ Named(queue_subscriptions, arg.name)
     /\ UNCHANGED channel_subscriptions
  \/ /\ c.effect = "cunsub"
     /\ channel_subscriptions' = channel_subscriptions \ Named(channel_subscriptions, arg.name)
     /\ UNCHANGED queue_subscriptions

Return(c, id, waited, st, err) ==
  SetResult(st, err) /\ Done(c, id, waited, st, err)

Complete(c, id, arg, waited) ==
  \/ /\ c.effect \notin {"qsub", "csub"}
     /\ \/ Removed(c, arg)
        \/ c.effect = "none" /\ UNCHANGED <<queue_subscriptions, channel_subscriptions>>
     /\ Return(c, id, waited, "OK", "NONE")
  \/ /\ c.effect \in {"qsub", "csub"}
     /\ \/ Registered([sub |-> arg, id |-> id])
        \/ Oom /\ UNCHANGED <<queue_subscriptions, channel_subscriptions>>
     /\ Return(c, id, waited, "OK", "NONE")
  \/ /\ c.effect \in {"qsub", "csub"} /\ Oom
     /\ UNCHANGED <<queue_subscriptions, channel_subscriptions>>
     /\ Return(c, id, waited, "ERR", "ALLOC")

\* The request is written; writev may write a part of it and report success.
CallSent(c, arg) ==
  /\ MayCall(c) /\ nextId < MaxCalls
  /\ \E whole \in BOOLEAN :
       /\ ~whole => ShortWrites /\ c.write = "writev" /\ conn = "up"
       /\ outbox' = Append(outbox, RequestFrame(c, arg, whole))
  /\ nextId' = nextId + 1
  /\ subscribed' = (subscribed \/ c.effect \in {"qsub", "csub"})
  /\ \/ /\ Waits(c)
        /\ pc' = "reply" /\ error' = "NONE"
        /\ call' = [c |-> c, id |-> nextId + 1, arg |-> arg, from |-> pc]
        /\ UNCHANGED <<status, trusted, done, queue_subscriptions,
                       channel_subscriptions>>
     \/ /\ ~Waits(c)
        /\ Complete(c, nextId + 1, arg, FALSE)
        /\ UNCHANGED <<pc, call>>
  /\ UNCHANGED <<conn, noack, hdr, current, inbox, serverVars, delivered>>

(***************************************************************************)
(* Reading the reply.                                                      *)
(***************************************************************************)
\* The command returns to where it was called from.
Leave == pc' = call.from /\ call' = NoCall /\ hdr' = NoFrame

Fail(err) ==
  /\ Leave /\ Return(call.c, call.id, TRUE, "ERR", err)
  /\ UNCHANGED <<queue_subscriptions, channel_subscriptions>>

\* What no step of a command that waits for its reply changes.
ReadingUnchanged ==
  UNCHANGED <<conn, noack, current, outbox, nextId, subscribed, serverVars, delivered>>

\* Mutant: one word too many is asked for.
FirstReadOneMore(c) == HeaderWords + 1

\* emq_stat reads the header and the body with one call.
FirstRead(c) == HeaderWords + (IF c.body = "stat" THEN StatWords ELSE 0)

ExactLen(c) == CASE c.body = "stat" -> StatWords
                 [] c.body = "word" -> 1
                 [] OTHER           -> 0

HeaderAccepted(c, h) ==
  IF c.header = "exact"
  THEN emq_check_response_header(h, c.expect, ExactLen(c))
  ELSE emq_check_response_header_mini(h, c.expect)

ReplyReadFails ==
  /\ pc = "reply" /\ ReadFails(FirstRead(call.c))
  /\ Fail("READ") /\ ReadingUnchanged

ReplyRejected ==
  /\ pc = "reply" /\ ReadOk(FirstRead(call.c))
  /\ ~HeaderAccepted(call.c, Header)
  /\ Fail("RESPONSE") /\ ReadingUnchanged

\* Mutant: the error of the status is looked up in the wrong place.
ReplyStatusAlwaysAccess ==
  /\ pc = "reply" /\ ReadOk(FirstRead(call.c))
  /\ HeaderAccepted(call.c, Header)
  /\ ~emq_check_status(Header, "SUCCESS")
  /\ Fail("ACCESS") /\ ReadingUnchanged

ReplyStatus ==
  /\ pc = "reply" /\ ReadOk(FirstRead(call.c))
  /\ HeaderAccepted(call.c, Header)
  /\ ~emq_check_status(Header, "SUCCESS")
  /\ Fail(emq_get_error(Header)) /\ ReadingUnchanged

ReplySuccess ==
  /\ pc = "reply" /\ ReadOk(FirstRead(call.c))
  /\ HeaderAccepted(call.c, Header)
  /\ emq_check_status(Header, "SUCCESS")
  /\ \/ /\ call.c.body \in {"none", "stat"}
        /\ Complete(call.c, call.id, call.arg, TRUE) /\ Leave
     \/ /\ call.c.body \in {"word", "list", "message"}
        /\ pc' = IF call.c.body = "message" THEN "tag" ELSE "body"
        /\ hdr' = Header
        /\ UNCHANGED <<call, status, error, trusted, done, queue_subscriptions,
                       channel_subscriptions>>
  /\ ReadingUnchanged

\* Mutant: the last word of the body is not read.
BodyReadOneShort ==
  /\ pc = "body" /\ ReadOk(IF hdr.len > 0 THEN hdr.len - 1 ELSE 0)
  /\ Leave /\ Return(call.c, call.id, TRUE, "OK", "NONE")
  /\ UNCHANGED <<queue_subscriptions, channel_subscriptions>> /\ ReadingUnchanged

\* Body of a list or of one word.  A list is read into one buffer and then
\* copied into list nodes: malloc may fail before and after the read.
BodyRead ==
  /\ pc = "body" /\ ReadOk(hdr.len)
  /\ \/ Leave /\ Return(call.c, call.id, TRUE, "OK", "NONE")
        /\ UNCHANGED <<queue_subscriptions, channel_subscriptions>>
     \/ call.c.body = "list" /\ Oom /\ Fail("ALLOC")
  /\ ReadingUnchanged

BodyFails ==
  /\ pc = "body"
  /\ \/ ReadFails(hdr.len) /\ Fail("READ")
     \/ call.c.body = "list" /\ Oom /\ Fail("ALLOC") /\ UNCHANGED inbox
  /\ ReadingUnchanged

\* Mutant: the tag is read as 32 bits.
TagReadOneWord ==
  /\ pc = "tag" /\ ReadOk(1)
  /\ pc' = "message"
  /\ UNCHANGED <<call, hdr, clientVars, trusted, done>> /\ ReadingUnchanged

\* emq_read_message_tag: the tag.  A failure sets no error text.
TagRead ==
  /\ pc = "tag" /\ ReadOk(TagWords)
  /\ pc' = "message"
  /\ UNCHANGED <<call, hdr, clientVars, trusted, done>> /\ ReadingUnchanged

TagFails ==
  /\ pc = "tag" /\ ReadFails(TagWords)
  /\ Fail("NONE") /\ ReadingUnchanged

\* emq_read_message: the message.  Its size is computed as a size_t: if the
\* subtraction wraps, malloc fails.
MessageRead ==
  /\ pc = "message" /\ hdr.len >= TagWords /\ ReadOk(hdr.len - TagWords)
  /\ Leave /\ Return(call.c, call.id, TRUE, "OK", "NONE")
  /\ UNCHANGED <<queue_subscriptions, channel_subscriptions>> /\ ReadingUnchanged

\* emq_read_message returns NULL and emq_read_message_tag stores the tag
\* through it.
MessageFails ==
  /\ pc = "message"
  /\ \/ ReadFails(hdr.len - TagWords)
     \/ (Oom \/ hdr.len < TagWords) /\ UNCHANGED inbox
  /\ pc' = "crashed"
  /\ UNCHANGED <<call, hdr, clientVars, trusted, done>> /\ ReadingUnchanged

(***************************************************************************)
(* emq_process.                                                            *)
(***************************************************************************)
\* What no step of emq_process changes.
ProcessUnchanged ==
  UNCHANGED <<conn, noack, queue_subscriptions, channel_subscriptions, call,
              outbox, nextId, subscribed, done, serverVars>>

\* The head of the loop: stop when both lists are empty.
LoopHead ==
  \/ /\ queue_subscriptions = {} /\ channel_subscriptions = {}
     /\ pc' = "idle" /\ status' = "OK"
  \/ /\ queue_subscriptions # {} \/ channel_subscriptions # {}
     /\ pc' = "event" /\ UNCHANGED status

\* Mutant: a failed read does not end the loop.
ProcessFailsContinues(err) ==
  /\ pc' = "event" /\ status' = "ERR" /\ error' = err
  /\ trusted' = FALSE /\ hdr' = NoFrame /\ current' = NoCurrent
  /\ UNCHANGED delivered

ProcessFails(err) ==
  /\ pc' = "idle" /\ status' = "ERR" /\ error' = err
  /\ trusted' = FALSE /\ hdr' = NoFrame /\ current' = NoCurrent
  /\ UNCHANGED delivered

emq_process ==
  /\ pc = "idle" /\ conn # "down"
  /\ Reuse \/ trusted
  /\ error' = "NONE" /\ LoopHead
  /\ UNCHANGED <<hdr, current, inbox, delivered, trusted>> /\ ProcessUnchanged

EventReadFails ==
  /\ pc = "event" /\ ReadFails(HeaderWords)
  /\ ProcessFails("READ") /\ ProcessUnchanged

EventCmds == {"QUEUE_SUBSCRIBE", "CHANNEL_SUBSCRIBE", "CHANNEL_PSUBSCRIBE"}

EventAccepted(h) ==
  /\ emq_check_event_header(h, protocol_event_type)
  /\ h.cmd \in EventCmds

EventRejected ==
  /\ pc = "event" /\ ReadOk(HeaderWords) /\ ~EventAccepted(Header)
  /\ ProcessFails("READ") /\ ProcessUnchanged

EventHeader ==
  /\ pc = "event" /\ ReadOk(HeaderWords) /\ EventAccepted(Header)
  /\ hdr' = Header /\ pc' = "fields"
  /\ UNCHANGED <<status, error, trusted, current, delivered>> /\ ProcessUnchanged

EventFieldsFail ==
  /\ pc = "fields" /\ ReadFails(EventFieldWords(hdr.cmd))
  /\ ProcessFails("READ") /\ ProcessUnchanged

EventList == IF hdr.cmd = "QUEUE_SUBSCRIBE" THEN queue_subscriptions
                                            ELSE channel_subscriptions

\* Mutant: the event is skipped and the loop goes on.
EventNotFoundSkips ==
  /\ pc = "fields" /\ Named(EventList, hdr.sub.name) = {}
  /\ ReadOk(hdr.len) /\ pc' = "event"
  /\ UNCHANGED <<status, error, trusted, hdr, current, delivered>> /\ ProcessUnchanged

\* No entry has the name of the event: -1, no error text, the rest unread.
EventNotFound ==
  /\ pc = "fields" /\ ReadOk(EventFieldWords(hdr.cmd))
  /\ Named(EventList, hdr.sub.name) = {}
  /\ ProcessFails(error) /\ ProcessUnchanged

Callback(e) ==
  /\ pc' = "callback" /\ current' = [entry |-> e, event |-> hdr]
  /\ delivered' = delivered + 1 /\ hdr' = NoFrame

\* Mutant: the callback is not called for a notification.
EventFoundWithoutNotify ==
  /\ pc = "fields" /\ ReadOk(EventFieldWords(hdr.cmd))
  /\ \E e \in EventList :
       /\ IsFirstNamed(e, EventList, hdr.sub.name)
       /\ pc' = (IF hdr.code = "MESSAGE" THEN "payload" ELSE "event")
       /\ current' = [entry |-> e, event |-> hdr]
  /\ UNCHANGED <<status, error, trusted, delivered, hdr>> /\ ProcessUnchanged

\* A notification of a queue has no message; every other event has one.
EventFound ==
  /\ pc = "fields" /\ ReadOk(EventFieldWords(hdr.cmd))
  /\ \E e \in EventList :
       /\ IsFirstNamed(e, EventList, hdr.sub.name)
       /\ \/ /\ hdr.cmd = "QUEUE_SUBSCRIBE" /\ hdr.code = "NOTIFY"
             /\ Callback(e)
          \/ /\ hdr.cmd # "QUEUE_SUBSCRIBE" \/ hdr.code = "MESSAGE"
             /\ pc' = "payload"
             /\ current' = [entry |-> e, event |-> hdr]
             /\ UNCHANGED <<delivered, hdr>>
  /\ UNCHANGED <<status, error, trusted>> /\ ProcessUnchanged

\* Mutants: the size of the message is the size of the body; the size of a
\* pattern event is that of a topic event.
EventMessageWholeBody ==
  /\ pc = "payload" /\ ReadOk(hdr.len)
  /\ Callback(current.entry)
  /\ UNCHANGED <<status, error, trusted>> /\ ProcessUnchanged
EventMessageTopicSize ==
  /\ pc = "payload" /\ ReadOk(hdr.len - NameWords - TopicWords)
  /\ Callback(current.entry)
  /\ UNCHANGED <<status, error, trusted>> /\ ProcessUnchanged
EventMessage ==
  /\ pc = "payload" /\ hdr.len >= EventFieldWords(hdr.cmd)
  /\ ReadOk(hdr.len - EventFieldWords(hdr.cmd))
  /\ Callback(current.entry)
  /\ UNCHANGED <<status, error, trusted>> /\ ProcessUnchanged

EventMessageFails ==
  /\ pc = "payload"
  /\ \/ ReadFails(hdr.len - EventFieldWords(hdr.cmd)) /\ ProcessFails("READ")
     \/ Oom /\ UNCHANGED inbox /\ ProcessFails("ALLOC")
  /\ ProcessUnchanged

\* The callback returns.  Both kinds of event test queue_subscriptions.
CallbackReturns(stop) ==
  /\ pc = "callback"
  /\ \/ /\ stop /\ queue_subscriptions = {}
        /\ pc' = "idle" /\ status' = "OK"
     \/ /\ ~stop \/ queue_subscriptions # {}
        /\ LoopHead
  /\ current' = NoCurrent
  /\ UNCHANGED <<error, trusted, hdr, inbox, delivered>> /\ ProcessUnchanged

(***************************************************************************)
(* The server and the network (external).                                  *)
(***************************************************************************)
\* The server answers a request unless it carries noack and has a status for
\* its only result.
Answers(rq) == rq.c.reply = "always" \/ ~rq.noack

\* A reply that reports an error is a bare header.
ReplyLens(c, code) ==
  IF code # "SUCCESS" THEN {0}
  ELSE CASE c.body = "list"    -> ListLens
         [] c.body = "message" -> {TagWords + MsgWords}
         [] OTHER              -> {ExactLen(c)}

SubsAfter(rq, code) ==
  CASE code = "SUCCESS" /\ rq.c.effect \in {"qsub", "csub"}     -> subs \cup {rq.arg}
    [] code = "SUCCESS" /\ rq.c.effect \in {"qunsub", "cunsub"} -> subs \ {rq.arg}
    [] OTHER -> subs

ServerStep(code) ==
  /\ conn = "up" /\ outbox # <<>> /\ Head(outbox).whole
  /\ \E len \in ReplyLens(Head(outbox).c, code) :
       inbox' = IF Answers(Head(outbox))
                THEN inbox \o Words(Reply(Head(outbox), code, len))
                ELSE inbox
  /\ served' = [served EXCEPT ![Head(outbox).id] = code]
  /\ subs' = SubsAfter(Head(outbox), code)
  /\ outbox' = Tail(outbox)
  /\ UNCHANGED <<conn, pc, clientVars, frameVars, appVars, sent, delivered>>

SendEvent(s, type) ==
  /\ conn = "up" /\ s \in subs /\ sent < MaxEvents
  /\ type = "MESSAGE" \/ s.via = "QUEUE_SUBSCRIBE"
  /\ inbox' = inbox \o Words(Event(s, type,
                 EventFieldWords(s.via) + (IF type = "MESSAGE" THEN MsgWords ELSE 0),
                 sent + 1))
  /\ sent' = sent + 1
  /\ UNCHANGED <<conn, pc, clientVars, frameVars, outbox, appVars, subs, served,
                 delivered>>

Break ==
  /\ conn' = "broken" /\ outbox' = <<>>
  /\ UNCHANGED <<pc, clientVars, frameVars, appVars, serverVars, delivered>>

\* The rest of a cut request never comes; the server takes the next request
\* for it, loses the frame boundaries and closes the connection.
ServerMisframe ==
  /\ conn = "up" /\ Len(outbox) >= 2 /\ ~Head(outbox).whole
  /\ Break /\ UNCHANGED inbox

\* The connection is lost: what the server did not send yet never arrives.
Drop ==
  /\ conn = "up"
  /\ \E k \in 0..Len(inbox) : inbox' = SubSeq(inbox, 1, k)
  /\ Break

(***************************************************************************)
(* Specification.                                                          *)
(***************************************************************************)
Init ==
  /\ conn = "down" /\ pc = "idle"
  /\ status = "OK" /\ error = "NONE" /\ noack = FALSE
  /\ queue_subscriptions = {} /\ channel_subscriptions = {}
  /\ call = NoCall /\ hdr = NoFrame /\ current = NoCurrent
  /\ outbox = <<>> /\ inbox = <<>>
  /\ nextId = 0 /\ subs = {} /\ sent = 0 /\ delivered = 0
  /\ subscribed = FALSE /\ trusted = TRUE
  /\ served = [i \in 1..MaxCalls |-> "none"]
  /\ done = [c |-> emq_ping, id |-> 0, waited |-> FALSE, status |-> "OK",
             error |-> "NONE"]

\* Steps of a command after its request.
CallStep ==
  \/ ReplyReadFails \/ ReplyRejected \/ ReplyStatus \/ ReplySuccess
  \/ BodyRead \/ BodyFails
  \/ TagRead \/ TagFails \/ MessageRead \/ MessageFails

\* Steps of emq_process between two callbacks.
ProcessStep ==
  \/ EventReadFails \/ EventRejected \/ EventHeader
  \/ EventFieldsFail \/ EventNotFound \/ EventFound
  \/ EventMessage \/ EventMessageFails

\* Steps the application decides on.
AppStep ==
  \/ emq_connect \/ emq_disconnect \/ Restart
  \/ emq_noack_enable \/ emq_noack_disable
  \/ emq_process
  \/ \E c \in Calls : CallRejected(c)
  \/ \E c \in Calls : \E arg \in Arguments(c) : CallWriteFails(c, arg)
  \/ \E c \in Calls : \E arg \in Arguments(c) : CallSent(c, arg)
  \/ \E stop \in BOOLEAN : CallbackReturns(stop)

Serve == \E code \in Statuses : ServerStep(code)

ServerOrNetworkStep ==
  \/ Serve
  \/ \E s \in Sub, type \in protocol_event_type : SendEvent(s, type)
  \/ ServerMisframe
  \/ Drop

Next == AppStep \/ CallStep \/ ProcessStep \/ ServerOrNetworkStep

Spec == Init /\ [][Next]_vars

\* A thread blocked in read proceeds once its data (or the end of the stream)
\* is there, callbacks return, and the server gets to every request it has
\* received whole.
FairSpec ==
  /\ Spec
  /\ WF_vars(CallStep) /\ WF_vars(ProcessStep)
  /\ WF_vars(\E stop \in BOOLEAN : CallbackReturns(stop))
  /\ WF_vars(Serve)

(***************************************************************************)
(* Properties.                                                             *)
(***************************************************************************)
Pcs == {"idle", "reply", "body", "tag", "message", "event", "fields",
        "payload", "callback", "crashed"}
InCall == {"reply", "body", "tag", "message"}
InProcess == {"event", "fields", "payload", "callback"}

Frames == [magic : {"", "RES", "EVENT"},
           cmd : {c.req.cmd : c \in Calls} \cup EventCmds \cup {""},
           code : protocol_response_status \cup protocol_event_type \cup {""},
           len : Nat, id : Nat, sub : Sub \cup {NoSub}]
RequestFrames == {rq \in [id : 1..MaxCalls, c : Calls, noack : BOOLEAN,
                           arg : Sub \cup {NoSub}, whole : BOOLEAN] :
                    rq.arg \in Arguments(rq.c)}

ClientType ==
  /\ conn \in {"down", "up", "broken"} /\ pc \in Pcs
  /\ status \in {"OK", "ERR"} /\ error \in EMQ_ERROR /\ noack \in BOOLEAN
  /\ queue_subscriptions \subseteq {e \in Entry : e.sub.via = "QUEUE_SUBSCRIBE"}
  /\ channel_subscriptions \subseteq {e \in Entry : e.sub.via # "QUEUE_SUBSCRIBE"}

FrameType ==
  /\ call \in {NoCall} \cup [c : Calls, id : 1..MaxCalls, arg : Sub \cup {NoSub},
                            from : {"idle", "callback"}]
  /\ call.arg \in Arguments(call.c)
  /\ hdr \in Frames
  /\ current \in [entry : Entry \cup {NoCurrent.entry}, event : Frames]

StreamType ==
  /\ outbox \in Seq(RequestFrames)
  /\ inbox \in Seq([frame : Frames, i : Nat \ {0}])

AppType ==
  /\ nextId \in 0..MaxCalls /\ subs \subseteq Sub
  /\ sent \in 0..MaxEvents /\ delivered \in Nat
  /\ subscribed \in BOOLEAN /\ trusted \in BOOLEAN
  /\ served \in [1..MaxCalls -> Statuses \cup {"none"}]
  /\ done \in [c : Calls \cup {emq_ping}, id : 0..MaxCalls, waited : BOOLEAN,
               status : {"OK", "ERR"}, error : EMQ_ERROR]

\* Every variable holds a value of its kind: the client structure and what it
\* points to, the headers, the two streams and the state of the server.
TypeOK == ClientType /\ FrameType /\ StreamType /\ AppType

\* A command that read its reply and returned EMQ_STATUS_OK was executed with
\* success by the server: the reply it accepted is the one to its own request.
OkMeansServed ==
  done.status = "OK" /\ done.waited => served[done.id] = "SUCCESS"

\* A command that reports "Response error" or an error of the server was not
\* executed with success.
ErrorMeansNotServed ==
  done.status = "ERR" /\ done.waited /\ done.error \notin {"READ", "ALLOC", "NONE"}
    => served[done.id] # "SUCCESS"

\* While the application has no reason to distrust the connection, nothing of
\* a reply is left in the stream once its command has returned.
ReplyConsumed ==
  trusted /\ pc \notin InCall \cup {"crashed"} =>
    \A k \in 1..Len(inbox) : inbox[k].frame.magic # "RES"

\* emq_process and the commands look for a header only where one starts.
FrameAligned ==
  pc \in {"reply", "event"} /\ inbox # <<>> => inbox[1].i = 1

\* A command takes words of its own reply out of the stream, and no others.
OwnReplyOnly ==
  [][(pc \in InCall /\ pc' # pc) =>
       (\A k \in 1..(Len(inbox) - Len(inbox')) :
          inbox[k].frame.magic = "RES" /\ inbox[k].frame.id = call.id)]_vars

\* A disciplined application sees its commands as remote calls: executed in
\* the order of the calls, each at most once and, if the command waits for its
\* reply, with the result it returns.  A command counts as waiting while it
\* reads; what the client dies of in emq_queue_get ends the call.
Service == INSTANCE EmqService WITH
  issued <- nextId,
  calling <- IF pc \in InCall THEN call.id ELSE 0,
  served <- served,
  result <- done
ImplementsService == Service!Spec

\* Events reach the callbacks in the order sent, none skipped or repeated.
EventsInOrder == pc = "callback" => current.event.id = delivered

\* At rest, a queue the server sends events for is in the client's list, so
\* emq_process will find the callback.
Quiet == pc = "idle" /\ conn = "up" /\ trusted /\ outbox = <<>>
QueueListed ==
  Quiet => \A s \in subs : s.via = "QUEUE_SUBSCRIBE" =>
             Named(queue_subscriptions, s.name) # {}

\* The same for channels.
ChannelListed ==
  Quiet => \A s \in subs : s.via # "QUEUE_SUBSCRIBE" =>
             Named(channel_subscriptions, s.name) # {}

\* The process is never killed by the library's own use of a NULL message.
NeverCrashes == pc # "crashed"

\* A command returns.
CallReturns == pc \in InCall ~> pc \notin InCall

\* What a command can wait for in vain: the server waits for the rest of a
\* request that writev cut short, or emq_stat, which asks for header and body
\* with one read, got a refusal without a body.
CutRequest == outbox # <<>> /\ ~Head(outbox).whole
StatRefused ==
  /\ pc = "reply" /\ call.c = emq_stat
  /\ served[call.id] \notin {"none", "SUCCESS"} /\ Len(inbox) < HeaderWords + StatWords

\* A command returns, or it hangs for one of these two reasons.
OnlyKnownHangs == pc \in InCall ~> (pc \notin InCall \/ CutRequest \/ StatRefused)

\* emq_process ends once the connection is lost, whatever was left to read.
LossEndsProcess ==
  (conn = "broken" /\ pc \in InProcess) ~> (pc \in {"idle", "crashed"})

(***************************************************************************)
(* Why the properties of replies hold.  An application that issues its     *)
(* commands that read replies before it subscribes, and gives up a         *)
(* connection whose stream position it does not know, keeps ReplyInv.      *)
(***************************************************************************)
Disciplined == Usage = "examples" /\ ~Reuse

Subscribes(c) == c.effect \in {"qsub", "csub"}
WillSubscribe(rq) == rq.whole /\ Subscribes(rq.c)

\* Words that belong to the reply of the command being executed.
IsOwn(w) ==
  /\ w.frame.magic = "RES" /\ w.frame.id = call.id
  /\ w.frame.len \in ReplyLens(call.c, w.frame.code)

\* A request that will be answered is the last one written, its command waits
\* for it, nothing is in the stream and no event can come before the answer.
Pending ==
  trusted =>
    \A j \in 1..Len(outbox) : Answers(outbox[j]) =>
      /\ pc = "reply" /\ outbox[j].id = call.id /\ outbox[j].c = call.c
      /\ j = Len(outbox) /\ inbox = <<>> /\ subs = {}
      /\ \A i \in 1..(j - 1) : ~WillSubscribe(outbox[i])

\* While a command waits, the server has its request or has no request at all.
Waiting ==
  pc \in InCall =>
    /\ trusted
    /\ outbox # <<>> => Answers(outbox[Len(outbox)])
    /\ Subscribes(call.c) => pc = "reply" /\ subscribed

\* Nothing is subscribed before the first subscribe.
NotSubscribed ==
  ~subscribed => subs = {} /\ \A j \in 1..Len(outbox) : ~WillSubscribe(outbox[j])

\* Events follow the reply to a subscribe, never another reply.
EventsAfterReply ==
  pc \in InCall /\ conn = "up" /\ subs # {} =>
    Subscribes(call.c) /\ Len(inbox) >= HeaderWords

\* The stream between two commands.
StreamAtRest ==
  trusted /\ pc \notin InCall \cup {"crashed"} =>
    /\ \A k \in 1..Len(inbox) : inbox[k].frame.magic = "EVENT"
    /\ ~subscribed => inbox = <<>>

\* The stream during a command: first the reply, and after it only events of
\* the subscription just made.
StreamInCall ==
  pc \in InCall =>
    \A k \in 1..Len(inbox) :
      IF k <= HeaderWords \/ ~Subscribes(call.c)
      THEN IsOwn(inbox[k])
      ELSE inbox[k].frame.magic = "EVENT"

\* How much of the reply is left.
ReplyLeft ==
  /\ pc = "reply" /\ inbox # <<>> =>
       /\ inbox[1].i = 1
       /\ ~Subscribes(call.c) => Len(inbox) <= HeaderWords + inbox[1].frame.len
  /\ pc \in {"body", "tag"} => Len(inbox) <= hdr.len
  /\ pc = "message" => Len(inbox) + TagWords <= hdr.len
  /\ pc \in {"tag", "message"} => hdr.len = TagWords + MsgWords

\* What the reply says is what the server did, and stays so.
ReplyServed ==
  /\ pc = "reply" /\ inbox # <<>> => served[call.id] = inbox[1].frame.code
  /\ pc \in {"body", "tag", "message"} => outbox = <<>> /\ served[call.id] = "SUCCESS"
  /\ pc \in InCall => call.id \in 1..nextId
  /\ done.id <= nextId
  /\ done.status = "OK" /\ done.waited =>
       /\ done.id \in 1..MaxCalls
       /\ \A j \in 1..Len(outbox) : outbox[j].id # done.id

\* The inductive invariant behind OkMeansServed, ReplyConsumed and
\* OwnReplyOnly.
ReplyInv ==
  /\ Pending /\ Waiting /\ NotSubscribed /\ EventsAfterReply
  /\ StreamAtRest /\ StreamInCall /\ ReplyLeft /\ ReplyServed
=============================================================================
