--------------------------- MODULE EmqEventProofs ---------------------------
(***************************************************************************)
(* The events of EmqClient, for every value of the constants: the client   *)
(* looks for a header only where a frame starts (FrameAligned), hands the  *)
(* events to the callbacks in the order sent (EventsInOrder), and has an   *)
(* entry for every queue the server sends events for (QueueListed).        *)
(***************************************************************************)
EXTENDS EmqReplyProofs

USE ConstantsAssumption

(***************************************************************************)
(* The shape of the inbound stream.                                        *)
(***************************************************************************)

\* Words of a frame.
End(f) == HeaderWords + f.len

\* The number of the first event after frame f; a reply precedes them all.
NextEvent(f) == IF f.magic = "EVENT" THEN f.id + 1 ELSE 1

\* Word w starts the event that follows frame f.
Starts(w, f) == w.i = 1 /\ w.frame.magic = "EVENT" /\ w.frame.id = NextEvent(f)

\* The length of an event is the one emq_process takes it to have.
Formed(f) ==
  f.magic = "EVENT" =>
    /\ f.len = EventFieldWords(f.cmd) + (IF f.code = "MESSAGE" THEN MsgWords ELSE 0)
    /\ f.cmd # "QUEUE_SUBSCRIBE" => f.code = "MESSAGE"

Framed(s) ==
  \A k \in 1..Len(s) : s[k].i <= End(s[k].frame) /\ Formed(s[k].frame)

\* Counting from any word to a later one finds the words of the same frame and,
\* where the frame ends, the start of the next event.
Chained(s) ==
  \A k \in 1..Len(s) : \A l \in k..Len(s) :
    /\ s[k].i + (l - k) <= End(s[k].frame) =>
         s[l].frame = s[k].frame /\ s[l].i = s[k].i + (l - k)
    /\ s[k].i + (l - k) = End(s[k].frame) + 1 => Starts(s[l], s[k].frame)

\* The last word ends the last frame sent.
Ended(s) ==
  s[Len(s)].i = End(s[Len(s)].frame) /\ NextEvent(s[Len(s)].frame) = sent + 1

(***************************************************************************)
(* The invariant, on top of ReplyInv.                                      *)
(***************************************************************************)

\* The stream is, or will be, read by a client that knows its position in it:
\* a command, emq_process (which goes on after a command called from a callback
\* failed), or an application that has had no reason to give the connection up.
Live == pc \in InCall \cup InProcess \/ (trusted /\ pc # "crashed")

ListsSubscribed ==
  queue_subscriptions # {} \/ channel_subscriptions # {} => subscribed

NoEventsBefore == ~subscribed => sent = 0 /\ delivered = 0

Processing ==
  pc \in InProcess => subscribed /\ \A j \in 1..Len(outbox) : ~Answers(outbox[j])

Commanding ==
  pc \in InCall => /\ call.from = "idle" /\ delivered = 0
                   /\ ~Subscribes(call.c) => ~subscribed

StreamChained == Live => Framed(inbox) /\ Chained(inbox)

StreamEnded ==
  Live /\ conn = "up" =>
    IF inbox = <<>> THEN pc \notin {"fields", "payload"} /\ sent = delivered
                    ELSE Ended(inbox)

\* Where the client is in the stream.
StreamHead ==
  Live /\ inbox # <<>> =>
    /\ pc \in {"idle", "event", "callback"} =>
         inbox[1].i = 1 /\ inbox[1].frame.magic = "EVENT" /\ inbox[1].frame.id = delivered + 1
    /\ pc = "fields" => inbox[1].frame = hdr /\ inbox[1].i = HeaderWords + 1
    /\ pc = "payload" => /\ inbox[1].frame = hdr
                         /\ inbox[1].i = HeaderWords + EventFieldWords(hdr.cmd) + 1

HeaderRead ==
  pc \in {"fields", "payload"} =>
    /\ hdr.magic = "EVENT" /\ Formed(hdr) /\ hdr.id = delivered + 1
    /\ pc = "payload" => hdr.code = "MESSAGE"

EventInv ==
  /\ ListsSubscribed /\ NoEventsBefore /\ Processing /\ Commanding
  /\ StreamChained /\ StreamEnded /\ StreamHead /\ HeaderRead /\ EventsInOrder

(***************************************************************************)
(* Facts about streams.                                                    *)
(***************************************************************************)

\* The numbers of a word.
LEMMA WordType ==
  ASSUME NEW s \in Seq(Word), NEW k \in 1..Len(s)
  PROVE  /\ s[k] \in Word /\ s[k].frame \in Frames /\ s[k].i \in Nat \ {0}
         /\ s[k].frame.len \in Nat /\ s[k].frame.id \in Nat /\ End(s[k].frame) \in Nat
<1>1. s[k] \in Word
  OBVIOUS
<1>2. s[k].frame \in Frames /\ s[k].i \in Nat \ {0}
  BY <1>1 DEF Word
<1>3. s[k].frame.len \in Nat /\ s[k].frame.id \in Nat
  BY <1>2 DEF Frames
<1> QED
  BY <1>1, <1>2, <1>3 DEF End

\* The words that remain.
LEMMA RestWords ==
  ASSUME NEW s \in Seq(Word), NEW n \in 0..Len(s)
  PROVE  /\ Rest(s, n) \in Seq(Word) /\ Len(Rest(s, n)) = Len(s) - n
         /\ Len(s) \in Nat /\ n \in Nat /\ n <= Len(s)
         /\ \A k \in 1..Len(Rest(s, n)) : Rest(s, n)[k] = s[n + k] /\ n + k \in 1..Len(s)
<1> DEFINE t == Rest(s, n)
<1>1. Len(s) \in Nat /\ n \in Nat /\ n <= Len(s)
  OBVIOUS
<1>2. /\ t \in Seq(Word) /\ Len(t) = Len(s) - n
      /\ \A k \in 1..(Len(s) - n) : t[k] = s[n + k]
  BY <1>1, RestType DEF Rest
<1> HIDE DEF t
<1>3. \A k \in 1..(Len(s) - n) : n + k \in 1..Len(s)
  BY <1>1
<1> QED
  BY <1>1, <1>2, <1>3 DEF t

\* What remains of a stream, and what is left of one that is cut, is a stream.
LEMMA RestChained ==
  ASSUME NEW s \in Seq(Word), NEW n \in 0..Len(s), Framed(s), Chained(s)
  PROVE  Framed(Rest(s, n)) /\ Chained(Rest(s, n))
<1> DEFINE t == Rest(s, n)
<1>1. /\ t \in Seq(Word) /\ Len(t) = Len(s) - n /\ Len(s) \in Nat /\ n \in Nat
      /\ \A k \in 1..Len(t) : t[k] = s[n + k] /\ n + k \in 1..Len(s)
  BY RestWords
<1> HIDE DEF t
<1>2. Framed(t)
  BY <1>1 DEF Framed
<1>3. ASSUME NEW k \in 1..Len(t), NEW l \in k..Len(t)
      PROVE  /\ t[k].i + (l - k) <= End(t[k].frame) =>
                  t[l].frame = t[k].frame /\ t[l].i = t[k].i + (l - k)
             /\ t[k].i + (l - k) = End(t[k].frame) + 1 => Starts(t[l], t[k].frame)
  <2>1. /\ n + k \in 1..Len(s) /\ n + l \in (n + k)..Len(s) /\ t[k] = s[n + k]
        /\ t[l] = s[n + l] /\ (n + l) - (n + k) = l - k
    <3>1. l \in 1..Len(t)
      BY <1>1, <1>3
    <3>2. /\ t[k] = s[n + k] /\ n + k \in 1..Len(s)
          /\ t[l] = s[n + l] /\ n + l \in 1..Len(s)
      BY <1>1, <3>1
    <3>3. n + l \in (n + k)..Len(s) /\ (n + l) - (n + k) = l - k
      BY <1>1, <1>3, <3>2
    <3> QED
      BY <3>2, <3>3
  <2>2. /\ s[n + k].i + ((n + l) - (n + k)) <= End(s[n + k].frame) =>
             /\ s[n + l].frame = s[n + k].frame
             /\ s[n + l].i = s[n + k].i + ((n + l) - (n + k))
        /\ s[n + k].i + ((n + l) - (n + k)) = End(s[n + k].frame) + 1 =>
             Starts(s[n + l], s[n + k].frame)
    BY <2>1 DEF Chained
  <2> QED
    BY <2>1, <2>2
<1>4. Chained(t)
  BY <1>3 DEF Chained
<1> QED
  BY <1>2, <1>4 DEF t

LEMMA PrefixChained ==
  ASSUME NEW s \in Seq(Word), NEW n \in 0..Len(s), Framed(s), Chained(s)
  PROVE  Framed(SubSeq(s, 1, n)) /\ Chained(SubSeq(s, 1, n))
<1> DEFINE t == SubSeq(s, 1, n)
<1>1. /\ t \in Seq(Word) /\ Len(t) = n /\ Len(s) \in Nat /\ n \in Nat
      /\ \A k \in 1..Len(t) : t[k] = s[k] /\ k \in 1..Len(s)
  BY PrefixType
<1> HIDE DEF t
<1>2. Framed(t)
  BY <1>1 DEF Framed
<1>3. ASSUME NEW k \in 1..Len(t), NEW l \in k..Len(t)
      PROVE  /\ t[k].i + (l - k) <= End(t[k].frame) =>
                  t[l].frame = t[k].frame /\ t[l].i = t[k].i + (l - k)
             /\ t[k].i + (l - k) = End(t[k].frame) + 1 => Starts(t[l], t[k].frame)
  <2>1. k \in 1..Len(s) /\ l \in k..Len(s) /\ t[k] = s[k] /\ t[l] = s[l]
    BY <1>1, <1>3
  <2> QED
    BY <2>1 DEF Chained
<1>4. Chained(t)
  BY <1>3 DEF Chained
<1> QED
  BY <1>2, <1>4 DEF t

\* A frame is sent.
LEMMA FrameAppended ==
  ASSUME NEW s \in Seq(Word), NEW f \in Frames
  PROVE  /\ End(f) \in Nat /\ End(f) >= HeaderWords /\ Len(s) \in Nat
         /\ s \o Words(f) \in Seq(Word) /\ Len(s \o Words(f)) = Len(s) + End(f)
         /\ \A k \in 1..Len(s) : (s \o Words(f))[k] = s[k]
         /\ \A k \in (Len(s) + 1)..(Len(s) + End(f)) :
              (s \o Words(f))[k].frame = f /\ (s \o Words(f))[k].i = k - Len(s)
<1> DEFINE w == Words(f)
           e == End(f)
<1>1. f.len \in Nat
  BY DEF Frames
<1>2. e \in Nat /\ e = HeaderWords + f.len /\ e >= HeaderWords
  BY <1>1 DEF End
<1>3. w \in Seq(Word)
  BY WordsType
<1>4. \A k \in 1..e : w[k].frame = f /\ w[k].i = k
  <2> TAKE k \in 1..e
  <2>1. k \in 1..(HeaderWords + f.len)
    BY <1>2
  <2>2. w[k] = [frame |-> f, i |-> k]
    BY <2>1, WordsType
  <2> QED
    BY <2>2
<1>5. Len(w) = e
  BY <1>2, WordsType
<1> HIDE DEF w, e
<1>6. /\ s \o w \in Seq(Word) /\ Len(s \o w) = Len(s) + Len(w)
      /\ \A k \in 1..Len(s) : (s \o w)[k] = s[k]
      /\ \A k \in (Len(s) + 1)..(Len(s) + Len(w)) : (s \o w)[k] = w[k - Len(s)]
  BY <1>3, ConcatType
<1>7. Len(s) \in Nat
  OBVIOUS
<1>8. \A k \in (Len(s) + 1)..(Len(s) + e) : (s \o w)[k].frame = f /\ (s \o w)[k].i = k - Len(s)
  <2> TAKE k \in (Len(s) + 1)..(Len(s) + e)
  <2>1. k - Len(s) \in 1..e
    BY <1>2, <1>7
  <2> QED
    BY <1>4, <1>5, <1>6, <2>1
<1> QED
  BY <1>2, <1>5, <1>6, <1>7, <1>8 DEF w, e

\* A frame follows the end of a stream.
LEMMA AppendChained ==
  ASSUME NEW s \in Seq(Word), Framed(s), Chained(s), NEW f \in Frames, Formed(f),
         s # <<>> => /\ s[Len(s)].i = End(s[Len(s)].frame)
                     /\ f.magic = "EVENT" /\ f.id = NextEvent(s[Len(s)].frame)
  PROVE  /\ s \o Words(f) \in Seq(Word)
         /\ Framed(s \o Words(f)) /\ Chained(s \o Words(f))
         /\ Len(s \o Words(f)) = Len(s) + End(f)
         /\ \A k \in 1..Len(s) : (s \o Words(f))[k] = s[k]
         /\ \A k \in (Len(s) + 1)..(Len(s) + End(f)) :
              (s \o Words(f))[k].frame = f /\ (s \o Words(f))[k].i = k - Len(s)
<1> DEFINE t == s \o Words(f)
           n == Len(s)
           e == End(f)
<1>1. e \in Nat /\ n \in Nat
  BY FrameAppended
<1>3. /\ t \in Seq(Word) /\ Len(t) = n + e
      /\ \A k \in 1..n : t[k] = s[k]
  BY FrameAppended
<1>4. \A k \in (n + 1)..(n + e) : t[k].frame = f /\ t[k].i = k - n
  BY FrameAppended
<1>5. \A k \in 1..n : /\ s[k].i \in Nat \ {0} /\ End(s[k].frame) \in Nat
                      /\ s[k].i <= End(s[k].frame) /\ Formed(s[k].frame)
  BY WordType DEF Framed
<1>6. /\ s # <<>> => n \in 1..n
      /\ n # 0 => s # <<>>
  BY <1>1
<1>7. n # 0 => /\ s[n].i = End(s[n].frame) /\ f.magic = "EVENT"
               /\ f.id = NextEvent(s[n].frame)
  BY <1>6
<1> HIDE DEF t, n, e
<1>8. Framed(t)
  <2> SUFFICES ASSUME NEW k \in 1..Len(t)
               PROVE  t[k].i <= End(t[k].frame) /\ Formed(t[k].frame)
    BY DEF Framed
  <2>1. CASE k <= n
    <3>1. k \in 1..n
      BY <1>1, <2>1
    <3> QED
      BY <1>3, <1>5, <3>1
  <2>2. CASE k > n
    <3>1. k \in (n + 1)..(n + e)
      BY <1>1, <1>3, <2>2
    <3>2. t[k].frame = f /\ t[k].i = k - n
      BY <1>4, <3>1
    <3> QED
      BY <1>1, <3>1, <3>2 DEF e
  <2> QED
    BY <1>1, <2>1, <2>2
<1>9. ASSUME NEW k \in 1..Len(t), NEW l \in k..Len(t)
      PROVE  /\ t[k].i + (l - k) <= End(t[k].frame) =>
                  t[l].frame = t[k].frame /\ t[l].i = t[k].i + (l - k)
             /\ t[k].i + (l - k) = End(t[k].frame) + 1 => Starts(t[l], t[k].frame)
  <2>1. k \in Nat /\ l \in Nat /\ k <= l /\ l <= n + e
    BY <1>1, <1>3, <1>9
  <2>2. CASE l <= n
    <3>1. k \in 1..n /\ l \in k..n /\ t[k] = s[k] /\ t[l] = s[l]
      BY <1>1, <1>3, <2>1, <2>2
    <3> QED
      BY <3>1 DEF Chained, n
  <2>3. CASE k <= n /\ l > n
    <3> DEFINE a == s[k].i
               b == End(s[k].frame)
    <3>1. k \in 1..n /\ n \in k..n /\ t[k] = s[k] /\ n # 0
      BY <1>1, <1>3, <2>1, <2>3
    <3>2. t[l].frame = f /\ t[l].i = l - n
      <4>1. l \in (n + 1)..(n + e)
        BY <1>1, <2>1, <2>3
      <4> QED
        BY <1>4, <4>1
    <3>3. a \in Nat /\ b \in Nat
      BY <1>5, <3>1
    <3>4. a + (n - k) <= b => s[n].frame = s[k].frame /\ s[n].i = a + (n - k)
      BY <3>1 DEF Chained, n
    <3>5. a + (n - k) <= b => a + (n - k) = b
      BY <1>7, <3>1, <3>4
    <3> HIDE DEF a, b
    <3>6. a + (l - k) > b
      BY <1>1, <2>1, <2>3, <3>3, <3>5
    <3>7. a + (l - k) = b + 1 => l = n + 1 /\ a + (n - k) = b
      BY <1>1, <2>1, <2>3, <3>3, <3>5
    <3>8. a + (l - k) = b + 1 => Starts(t[l], s[k].frame)
      <4> SUFFICES ASSUME a + (l - k) = b + 1 PROVE Starts(t[l], s[k].frame)
        OBVIOUS
      <4>1. l - n = 1
        BY <1>1, <3>7
      <4>2. a + (n - k) <= b
        BY <3>3, <3>7
      <4>3. s[n].frame = s[k].frame
        BY <3>4, <4>2
      <4> QED
        BY <1>7, <3>1, <3>2, <4>1, <4>3 DEF Starts
    <3>9. ~(a + (l - k) <= b)
      BY <1>1, <2>1, <3>3, <3>6
    <3> QED
      BY <3>1, <3>8, <3>9 DEF a, b
  <2>4. CASE k > n
    <3>1. k \in (n + 1)..(n + e) /\ l \in (n + 1)..(n + e)
      BY <1>1, <2>1, <2>4
    <3>2. t[k].frame = f /\ t[k].i = k - n /\ t[l].frame = f /\ t[l].i = l - n
      BY <1>4, <3>1
    <3>3. (k - n) + (l - k) = l - n /\ l - n <= e /\ ~(l - n = e + 1)
      BY <1>1, <2>1
    <3> QED
      BY <3>2, <3>3 DEF e
  <2> QED
    BY <1>1, <2>1, <2>2, <2>3, <2>4
<1>10. Chained(t)
  BY <1>9 DEF Chained
<1> QED
  BY <1>3, <1>4, <1>8, <1>10 DEF t, n, e

\* The ends of the stream after a frame is sent.
LEMMA FollowedBy ==
  ASSUME NEW s \in Seq(Word), NEW f \in Frames, Formed(f),
         s # <<>> => /\ Framed(s) /\ Chained(s) /\ s[Len(s)].i = End(s[Len(s)].frame)
                     /\ f.magic = "EVENT" /\ f.id = NextEvent(s[Len(s)].frame)
  PROVE  /\ s \o Words(f) \in Seq(Word) /\ s \o Words(f) # <<>>
         /\ Framed(s \o Words(f)) /\ Chained(s \o Words(f))
         /\ (s \o Words(f))[Len(s \o Words(f))].i = End(f)
         /\ (s \o Words(f))[Len(s \o Words(f))].frame = f
         /\ s = <<>> => (s \o Words(f))[1].i = 1 /\ (s \o Words(f))[1].frame = f
         /\ s # <<>> => (s \o Words(f))[1] = s[1]
<1> DEFINE t == s \o Words(f)
<1>1. Framed(s) /\ Chained(s)
  <2>1. CASE s = <<>>
    <3>1. Len(s) = 0
      BY <2>1
    <3> QED
      BY <3>1 DEF Framed, Chained
  <2> QED
    BY <2>1
<1>2. t \in Seq(Word) /\ Framed(t) /\ Chained(t)
  <2>1. s # <<>> => /\ s[Len(s)].i = End(s[Len(s)].frame)
                    /\ f.magic = "EVENT" /\ f.id = NextEvent(s[Len(s)].frame)
    OBVIOUS
  <2> QED
    BY <1>1, <2>1, AppendChained
<1>3. /\ End(f) \in Nat /\ End(f) >= HeaderWords /\ Len(s) \in Nat
      /\ Len(t) = Len(s) + End(f)
      /\ \A k \in 1..Len(s) : t[k] = s[k]
      /\ \A k \in (Len(s) + 1)..(Len(s) + End(f)) : t[k].frame = f /\ t[k].i = k - Len(s)
  BY FrameAppended
<1>4. s = <<>> => Len(s) = 0
  OBVIOUS
<1>5. s # <<>> => 1 \in 1..Len(s)
  OBVIOUS
<1> HIDE DEF t
<1> DEFINE n == Len(s)
           e == End(f)
<1>6. e \in Nat \ {0} /\ n \in Nat /\ Len(t) = n + e
  BY <1>3
<1>7. t # <<>>
  BY <1>2, <1>6
<1> HIDE DEF n, e
<1>8. n + e \in (n + 1)..(n + e) /\ (n + e) - n = e /\ (n = 0 => 1 \in (n + 1)..(n + e) /\ 1 - n = 1)
  BY <1>6
<1>9. \A k \in (n + 1)..(n + e) : t[k].frame = f /\ t[k].i = k - n
  BY <1>3 DEF n, e
<1>10. t[n + e].frame = f /\ t[n + e].i = e /\ (n = 0 => t[1].frame = f /\ t[1].i = 1)
  BY <1>8, <1>9
<1> QED
  BY <1>2, <1>3, <1>4, <1>5, <1>6, <1>7, <1>10 DEF n, e, t

\* Reading n words from the front of a stream: into the frame, or to its end.
LEMMA FrontRead ==
  ASSUME NEW s \in Seq(Word), s # <<>>, Framed(s), Chained(s), NEW n \in 1..Len(s)
  PROVE  /\ Rest(s, n) \in Seq(Word) /\ Framed(Rest(s, n)) /\ Chained(Rest(s, n))
         /\ s[1].i + n <= End(s[1].frame) =>
              /\ Rest(s, n) # <<>> => /\ Rest(s, n)[1].frame = s[1].frame
                                      /\ Rest(s, n)[1].i = s[1].i + n
              /\ Ended(s) => Rest(s, n) # <<>>
         /\ s[1].i + n = End(s[1].frame) + 1 =>
              /\ Rest(s, n) # <<>> => Starts(Rest(s, n)[1], s[1].frame)
              /\ Rest(s, n) = <<>> /\ Ended(s) => NextEvent(s[1].frame) = sent + 1
         /\ Ended(s) /\ Rest(s, n) # <<>> => Ended(Rest(s, n))
<1> DEFINE t == Rest(s, n)
           a == s[1].i
           b == End(s[1].frame)
           m == Len(s)
<1>1. /\ t \in Seq(Word) /\ Len(t) = m - n /\ m \in Nat /\ n \in Nat /\ n <= m /\ 1 <= n
      /\ \A k \in 1..Len(t) : t[k] = s[n + k] /\ n + k \in 1..m
  <2>1. n \in 0..Len(s) /\ 1 <= n
    OBVIOUS
  <2> QED
    BY <2>1, RestWords
<1>2. Framed(t) /\ Chained(t)
  BY RestChained
<1>3. 1 \in 1..m /\ a \in Nat \ {0} /\ b \in Nat
  BY <1>1, WordType
<1>4. \A l \in 1..m : /\ a + (l - 1) <= b => s[l].frame = s[1].frame /\ s[l].i = a + (l - 1)
                      /\ a + (l - 1) = b + 1 => Starts(s[l], s[1].frame)
  BY <1>3 DEF Chained
<1>5. t # <<>> => t[1] = s[n + 1] /\ n + 1 \in 1..m /\ t[Len(t)] = s[m]
  <2> SUFFICES ASSUME t # <<>> PROVE t[1] = s[n + 1] /\ n + 1 \in 1..m /\ t[Len(t)] = s[m]
    OBVIOUS
  <2>1. 1 \in 1..Len(t) /\ Len(t) \in 1..Len(t)
    BY <1>1
  <2>2. n + Len(t) = m
    BY <1>1
  <2> QED
    BY <1>1, <2>1, <2>2
<1>6. t = <<>> => n = m
  BY <1>1
<1> HIDE DEF t, a, b, m
<1>7. ASSUME a + n <= b
      PROVE  /\ t # <<>> => t[1].frame = s[1].frame /\ t[1].i = a + n
             /\ Ended(s) => t # <<>>
  <2>1. (n + 1) - 1 = n
    BY <1>1
  <2>2. t # <<>> => t[1].frame = s[1].frame /\ t[1].i = a + n
    BY <1>4, <1>5, <1>7, <2>1
  <2>3. ASSUME Ended(s), t = <<>> PROVE FALSE
    <3>1. n \in 1..m /\ a + (n - 1) <= b /\ a + (n - 1) # b
      BY <1>1, <1>3, <1>7
    <3>2. s[m].frame = s[1].frame /\ s[m].i = a + (n - 1)
      BY <1>4, <1>6, <2>3, <3>1
    <3>3. s[m].i = End(s[m].frame)
      BY <2>3 DEF Ended, m
    <3> QED
      BY <3>1, <3>2, <3>3 DEF b
  <2> QED
    BY <2>2, <2>3
<1>8. ASSUME a + n = b + 1
      PROVE  /\ t # <<>> => Starts(t[1], s[1].frame)
             /\ t = <<>> /\ Ended(s) => NextEvent(s[1].frame) = sent + 1
  <2>1. (n + 1) - 1 = n
    BY <1>1
  <2>2. t # <<>> => Starts(t[1], s[1].frame)
    BY <1>4, <1>5, <1>8, <2>1
  <2>3. ASSUME Ended(s), t = <<>> PROVE NextEvent(s[1].frame) = sent + 1
    <3>1. n \in 1..m /\ a + (n - 1) <= b
      BY <1>1, <1>3, <1>8
    <3>2. s[m].frame = s[1].frame
      BY <1>4, <1>6, <2>3, <3>1
    <3> QED
      BY <2>3, <3>2 DEF Ended, m
  <2> QED
    BY <2>2, <2>3
<1>9. Ended(s) /\ t # <<>> => Ended(t)
  BY <1>5 DEF Ended, m
<1> QED
  BY <1>1, <1>2, <1>7, <1>8, <1>9 DEF t, a, b

(***************************************************************************)
(* Steps of the application.                                               *)
(***************************************************************************)

\* The stream is given up: nothing more is claimed of it.
LEMMA GivenUp ==
  ASSUME ~Live', pc' \in Pcs, ListsSubscribed', NoEventsBefore'
  PROVE  EventInv'
<1>1. pc' \notin InCall /\ pc' \notin InProcess
  BY DEF Live
<1>2. pc' \notin {"fields", "payload", "callback"}
  BY <1>1 DEF InProcess
<1>3. Processing' /\ Commanding'
  BY <1>1 DEF Processing, Commanding
<1>4. StreamChained' /\ StreamEnded' /\ StreamHead'
  BY DEF StreamChained, StreamEnded, StreamHead
<1>5. HeaderRead' /\ EventsInOrder'
  BY <1>2 DEF HeaderRead, EventsInOrder
<1> QED
  BY <1>3, <1>4, <1>5 DEF EventInv

\* A new connection, or none.
LEMMA ConnectEvents ==
  ASSUME emq_connect \/ emq_disconnect \/ Restart
  PROVE  EventInv'
<1>1. /\ pc' = "idle" /\ inbox' = <<>> /\ sent' = 0 /\ delivered' = 0
      /\ queue_subscriptions' = {} /\ channel_subscriptions' = {}
  BY DEF emq_connect, emq_disconnect, Restart, NewStreams, emq_client_init
<1>2. Len(inbox') = 0
  BY <1>1
<1>3. pc' \notin InCall /\ pc' \notin InProcess
  BY <1>1 DEF InCall, InProcess
<1>4. ListsSubscribed' /\ NoEventsBefore'
  BY <1>1 DEF ListsSubscribed, NoEventsBefore
<1>5. Processing' /\ Commanding'
  BY <1>3 DEF Processing, Commanding
<1>6. StreamChained'
  BY <1>2 DEF StreamChained, Framed, Chained
<1>7. StreamEnded' /\ StreamHead' /\ HeaderRead' /\ EventsInOrder'
  BY <1>1 DEF StreamEnded, StreamHead, HeaderRead, EventsInOrder
<1> QED
  BY <1>4, <1>5, <1>6, <1>7 DEF EventInv

\* The position of the client in the stream does not change: a command that does
\* not wait is called, or emq_process begins, goes on or ends.
LEMMA StillEvents ==
  ASSUME EventInv, pc \notin InCall,
         pc' = pc \/ (pc \in {"idle", "callback"} /\ pc' \in {"idle", "event"}),
         pc' = "event" => Live,
         UNCHANGED <<conn, hdr, inbox, sent, delivered>>,
         pc' = "callback" => current' = current,
         trusted' => trusted, subscribed => subscribed',
         ListsSubscribed', Processing'
  PROVE  EventInv'
<1>1. pc' \notin InCall
  BY DEF InCall
<1>2. Live' => Live
  BY <1>1 DEF Live, InProcess, InCall
<1>3. NoEventsBefore' /\ Commanding'
  BY <1>1 DEF EventInv, NoEventsBefore, Commanding
<1>4. StreamChained'
  BY <1>2 DEF EventInv, StreamChained, Framed, Chained
<1>5. StreamEnded'
  BY <1>2 DEF EventInv, StreamEnded, Ended
<1>6. StreamHead'
  BY <1>2 DEF EventInv, StreamHead
<1>7. HeaderRead' /\ EventsInOrder'
  BY DEF EventInv, HeaderRead, EventsInOrder
<1> QED
  BY <1>3, <1>4, <1>5, <1>6, <1>7 DEF EventInv

LEMMA SwitchEvents ==
  ASSUME EventInv, NEW c, emq_noack_enable \/ emq_noack_disable \/ CallRejected(c)
  PROVE  EventInv'
<1>1. pc \notin InCall /\ pc' = pc
      /\ UNCHANGED <<conn, hdr, inbox, sent, delivered, current, outbox, subscribed,
                     queue_subscriptions, channel_subscriptions>>
  BY DEF emq_noack_enable, emq_noack_disable, SetNoack, CallRejected, MayCall, InCall,
     frameVars, appVars, serverVars
<1>2. trusted' => trusted
  BY Zenon DEF emq_noack_enable, emq_noack_disable, SetNoack, CallRejected, SetResult, appVars
<1>3. ListsSubscribed' /\ Processing'
  BY <1>1 DEF EventInv, ListsSubscribed, Processing, Answers
<1>4. pc' # "event"
  BY DEF emq_noack_enable, emq_noack_disable, SetNoack, CallRejected, MayCall
<1> QED
  BY <1>1, <1>2, <1>3, <1>4, StillEvents

LEMMA LoopEvents ==
  ASSUME Disciplined, TypeOK, Inv, EventInv,
         emq_process \/ \E stop \in BOOLEAN : CallbackReturns(stop)
  PROVE  EventInv'
<1>1. /\ pc \in {"idle", "callback"} /\ pc' \in {"idle", "event"}
      /\ UNCHANGED <<conn, hdr, inbox, sent, delivered, outbox, subscribed,
                     queue_subscriptions, channel_subscriptions, trusted>>
      /\ pc' = "event" => queue_subscriptions # {} \/ channel_subscriptions # {}
      /\ pc = "idle" => Reuse \/ trusted
  BY DEF emq_process, CallbackReturns, LoopHead, ProcessUnchanged, serverVars
<1>2. pc = "idle" => trusted
  BY <1>1 DEF Disciplined
<1>3. Live
  BY <1>1, <1>2 DEF Live, InProcess
<1>4. ListsSubscribed'
  BY <1>1 DEF EventInv, ListsSubscribed
<1>5. pc' = "event" => subscribed
  BY <1>1 DEF EventInv, ListsSubscribed
<1>6. \A j \in 1..Len(outbox) : ~Answers(outbox[j])
  <2>1. CASE pc = "idle"
    BY <1>2, <2>1, NoAnswerAtRest DEF InCall
  <2>2. CASE pc = "callback"
    BY <2>2 DEF EventInv, Processing, InProcess
  <2> QED
    BY <1>1, <2>1, <2>2
<1>7. Processing'
  BY <1>1, <1>5, <1>6 DEF Processing, InProcess, Answers
<1>8. pc \notin InCall
  BY <1>1 DEF InCall
<1>9. pc' # "callback" /\ (trusted' => trusted) /\ (subscribed => subscribed')
  BY <1>1
<1> QED
  BY <1>1, <1>3, <1>4, <1>7, <1>8, <1>9, StillEvents

\* A subscribed application calls only commands that do not wait, and their
\* requests are not answered.
LEMMA UnansweredAppend ==
  ASSUME Disciplined, TypeOK, EventInv, NEW c \in Calls, NEW arg \in Arguments(c),
         NEW whole \in BOOLEAN, MayCall(c), nextId < MaxCalls, pc \in InProcess,
         outbox' = outbox \/ outbox' = Append(outbox, RequestFrame(c, arg, whole))
  PROVE  subscribed /\ \A j \in 1..Len(outbox') : ~Answers(outbox'[j])
<1>1. subscribed /\ \A j \in 1..Len(outbox) : ~Answers(outbox[j])
  BY DEF EventInv, Processing
<1>2. ~Waits(c)
  BY <1>1, Zenon DEF MayCall, MayRead, Disciplined
<1> DEFINE rq == RequestFrame(c, arg, whole)
<1>3. ~Answers(rq)
  BY <1>2 DEF RequestFrame, Answers, Waits
<1>4. outbox \in Seq(RequestFrames) /\ rq \in RequestFrames
  BY RequestType DEF TypeOK, StreamType
<1>5. outbox' = outbox \/ outbox' = Append(outbox, rq)
  OBVIOUS
<1> HIDE DEF rq
<1>6. CASE outbox' = outbox
  BY <1>1, <1>6
<1>7. CASE outbox' = Append(outbox, rq)
  <2>1. /\ Len(outbox') = Len(outbox) + 1 /\ Len(outbox) \in Nat
        /\ \A k \in 1..Len(outbox) : outbox'[k] = outbox[k]
        /\ outbox'[Len(outbox) + 1] = rq
    BY <1>4, <1>7, AppendType
  <2> QED
    BY <1>1, <1>3, <2>1
<1> QED
  BY <1>5, <1>6, <1>7

LEMMA CallWriteFailsEvents ==
  ASSUME Disciplined, TypeOK, Inv, EventInv, NEW c \in Calls, NEW arg \in Arguments(c),
         CallWriteFails(c, arg)
  PROVE  EventInv'
<1>1. /\ pc \in {"idle", "callback"} /\ pc' = pc /\ MayCall(c) /\ nextId < MaxCalls
      /\ UNCHANGED <<conn, hdr, inbox, sent, delivered, current, subscribed,
                     queue_subscriptions, channel_subscriptions>>
      /\ outbox' = outbox \/ outbox' = Append(outbox, RequestFrame(c, arg, FALSE))
  BY DEF CallWriteFails, MayCall, frameVars, serverVars
<1>2. trusted' => trusted
  BY Zenon DEF CallWriteFails, SetResult
<1>3. ListsSubscribed'
  BY <1>1 DEF EventInv, ListsSubscribed
<1>4. Processing'
  <2> SUFFICES ASSUME pc \in InProcess
               PROVE  subscribed /\ \A j \in 1..Len(outbox') : ~Answers(outbox'[j])
    BY <1>1 DEF Processing, Answers
  <2> QED
    BY <1>1, UnansweredAppend
<1>5. pc \notin InCall /\ pc' # "event"
  BY <1>1 DEF InCall
<1> QED
  BY <1>1, <1>2, <1>3, <1>4, <1>5, StillEvents

\* What completing a command does to the lists.
LEMMA CompleteLists ==
  ASSUME NEW c, NEW id, NEW arg, NEW waited, Complete(c, id, arg, waited), ~Subscribes(c)
  PROVE  /\ queue_subscriptions' \subseteq queue_subscriptions
         /\ channel_subscriptions' \subseteq channel_subscriptions
BY DEF Complete, Removed, Named, Subscribes

LEMMA CallSentEvents ==
  ASSUME Disciplined, TypeOK, Inv, EventInv, NEW c \in Calls, NEW arg \in Arguments(c),
         CallSent(c, arg)
  PROVE  EventInv'
<1>1. /\ pc \in {"idle", "callback"} /\ MayCall(c) /\ nextId < MaxCalls
      /\ UNCHANGED <<conn, hdr, inbox, sent, delivered, current>>
      /\ \E whole \in BOOLEAN : outbox' = Append(outbox, RequestFrame(c, arg, whole))
  BY DEF CallSent, MayCall, serverVars
<1>2. subscribed' = (subscribed \/ Subscribes(c))
  BY DEF CallSent, Subscribes
<1>3. pc \notin InCall /\ pc # "event"
  BY <1>1 DEF InCall
<1>4. CASE ~Waits(c)
  <2>1. pc' = pc /\ Complete(c, nextId + 1, arg, FALSE)
    BY <1>4 DEF CallSent
  <2>2. trusted' => trusted
    BY <2>1, CompleteDone
  <2>3. ListsSubscribed'
    <3>1. CASE Subscribes(c)
      BY <1>2, <3>1 DEF ListsSubscribed
    <3>2. CASE ~Subscribes(c)
      BY <1>2, <2>1, <3>2, CompleteLists DEF EventInv, ListsSubscribed
    <3> QED
      BY <3>1, <3>2
  <2>4. Processing'
    <3> SUFFICES ASSUME pc \in InProcess
                 PROVE  subscribed' /\ \A j \in 1..Len(outbox') : ~Answers(outbox'[j])
      BY <2>1 DEF Processing, Answers
    <3> QED
      BY <1>1, <1>2, UnansweredAppend
  <2>5. subscribed => subscribed'
    BY <1>2
  <2> QED
    BY <1>1, <1>3, <2>1, <2>2, <2>3, <2>4, <2>5, StillEvents
<1>5. CASE Waits(c)
  <2>1. /\ pc' = "reply" /\ UNCHANGED <<queue_subscriptions, channel_subscriptions>>
        /\ call' = [c |-> c, id |-> nextId + 1, arg |-> arg, from |-> pc]
    BY <1>5 DEF CallSent
  <2>2. trusted /\ ~subscribed
    BY <1>5, Zenon DEF CallSent, MayCall, MayRead, Disciplined
  <2>3. inbox = <<>> /\ Len(inbox) = 0
    BY <1>3, <1>1, <2>2 DEF Inv, ReplyInv, StreamAtRest, InCall
  <2>4. sent = 0 /\ delivered = 0 /\ queue_subscriptions = {} /\ channel_subscriptions = {}
    BY <2>2 DEF EventInv, NoEventsBefore, ListsSubscribed
  <2>5. pc = "idle"
    BY <1>1, <2>2 DEF EventInv, Processing, InProcess
  <2>6. ListsSubscribed' /\ NoEventsBefore' /\ Processing'
    BY <1>1, <2>1, <2>4 DEF ListsSubscribed, NoEventsBefore, Processing, InProcess
  <2>7. Commanding'
    <3>1. ~Subscribes(call'.c) => ~subscribed'
      BY <1>2, <2>1, <2>2
    <3>2. call'.from = "idle" /\ delivered' = 0
      BY <1>1, <2>1, <2>4, <2>5
    <3> QED
      BY <3>1, <3>2 DEF Commanding, Subscribes
  <2>8. StreamChained'
    BY <1>1, <2>3 DEF StreamChained, Framed, Chained
  <2>9. StreamEnded' /\ StreamHead' /\ HeaderRead' /\ EventsInOrder'
    BY <1>1, <2>1, <2>3, <2>4 DEF StreamEnded, StreamHead, HeaderRead, EventsInOrder
  <2> QED
    BY <2>6, <2>7, <2>8, <2>9 DEF EventInv
<1> QED
  BY <1>4, <1>5

(***************************************************************************)
(* Steps that read: emq_process and the end of a command.                  *)
(***************************************************************************)

\* The shape of the new stream, in terms of the new stream.
LEMMA NewShape ==
  /\ Framed(inbox)' <=> Framed(inbox')
  /\ Chained(inbox)' <=> Chained(inbox')
  /\ sent' = sent => (Ended(inbox)' <=> Ended(inbox'))
  /\ Formed(hdr)' <=> Formed(hdr')
BY DEF Framed, Chained, Ended, Formed, Starts, NextEvent, End, EventFieldWords

\* Reading n words from a stream the client knows its position in.
LEMMA LiveRead ==
  ASSUME TypeOK, EventInv, Live, NEW n \in Nat \ {0}, ReadOk(n), UNCHANGED <<conn, sent>>
  PROVE  /\ inbox # <<>> /\ inbox[1].frame \in Frames /\ Formed(inbox[1].frame)
         /\ Framed(inbox)' /\ Chained(inbox)'
         /\ inbox[1].i + n <= End(inbox[1].frame) =>
              /\ inbox' # <<>> => /\ inbox'[1].frame = inbox[1].frame
                                  /\ inbox'[1].i = inbox[1].i + n
              /\ conn' = "up" => inbox' # <<>>
         /\ inbox[1].i + n = End(inbox[1].frame) + 1 =>
              /\ inbox' # <<>> => Starts(inbox'[1], inbox[1].frame)
              /\ conn' = "up" /\ inbox' = <<>> => NextEvent(inbox[1].frame) = sent' + 1
         /\ conn' = "up" /\ inbox' # <<>> => Ended(inbox)'
<1>1. inbox \in Seq(Word) /\ n <= Len(inbox) /\ inbox' = Rest(inbox, n)
  BY DEF TypeOK, StreamType, Word, ReadOk, Rest
<1>2. inbox # <<>> /\ n \in 1..Len(inbox) /\ 1 \in 1..Len(inbox)
  BY <1>1
<1>3. Framed(inbox) /\ Chained(inbox) /\ (conn = "up" => Ended(inbox))
  BY <1>2 DEF EventInv, StreamChained, StreamEnded
<1>4. inbox[1].frame \in Frames /\ Formed(inbox[1].frame)
  BY <1>1, <1>2, <1>3, WordType DEF Framed
<1>5. /\ Framed(inbox') /\ Chained(inbox')
      /\ inbox[1].i + n <= End(inbox[1].frame) =>
           /\ inbox' # <<>> => /\ inbox'[1].frame = inbox[1].frame
                               /\ inbox'[1].i = inbox[1].i + n
           /\ Ended(inbox) => inbox' # <<>>
      /\ inbox[1].i + n = End(inbox[1].frame) + 1 =>
           /\ inbox' # <<>> => Starts(inbox'[1], inbox[1].frame)
           /\ inbox' = <<>> /\ Ended(inbox) => NextEvent(inbox[1].frame) = sent + 1
      /\ Ended(inbox) /\ inbox' # <<>> => Ended(inbox')
  BY <1>1, <1>2, <1>3, FrontRead
<1> QED
  BY <1>2, <1>3, <1>4, <1>5, NewShape

\* The parts of the invariant that emq_process leaves alone.
LEMMA ProcessFrame ==
  ASSUME EventInv, pc \in InProcess, pc' \in InProcess, ProcessUnchanged
  PROVE  ListsSubscribed' /\ NoEventsBefore' /\ Processing' /\ Commanding'
<1>1. UNCHANGED <<outbox, subscribed, queue_subscriptions, channel_subscriptions>>
  BY DEF ProcessUnchanged
<1>2. subscribed /\ pc' \notin InCall
  BY DEF EventInv, Processing, InProcess, InCall
<1> QED
  BY <1>1, <1>2 DEF EventInv, ListsSubscribed, NoEventsBefore, Processing, Commanding, Answers

LEMMA ProcessFailsEvents ==
  ASSUME EventInv, NEW err, ProcessFails(err), ProcessUnchanged
  PROVE  EventInv'
<1>1. pc' = "idle" /\ UNCHANGED <<sent, delivered, subscribed, queue_subscriptions,
                                  channel_subscriptions>>
  BY DEF ProcessFails, ProcessUnchanged, serverVars
<1>2. ~trusted'
  BY DEF ProcessFails
<1>3. ~Live'
  BY <1>1, <1>2 DEF Live, InCall, InProcess
<1>4. ListsSubscribed' /\ NoEventsBefore'
  BY <1>1 DEF EventInv, ListsSubscribed, NoEventsBefore
<1> QED
  BY <1>1, <1>3, <1>4, GivenUp DEF Pcs

\* A part of an event is read and some of it is left.
LEMMA PartRead ==
  ASSUME TypeOK, EventInv, pc \in InProcess, pc' \in {"fields", "payload"},
         NEW n \in Nat \ {0}, ReadOk(n), ProcessUnchanged, UNCHANGED delivered,
         NEW f, f = inbox[1].frame, hdr' = f,
         f.magic = "EVENT", f.id = delivered + 1, inbox[1].i + n <= End(f),
         pc' = "fields" => inbox[1].i + n = HeaderWords + 1,
         pc' = "payload" => /\ inbox[1].i + n = HeaderWords + EventFieldWords(f.cmd) + 1
                            /\ f.code = "MESSAGE"
  PROVE  EventInv'
<1>1. UNCHANGED <<conn, sent>> /\ Live /\ pc' \in InProcess
  BY DEF ProcessUnchanged, serverVars, Live, InProcess
<1>2. /\ Framed(inbox)' /\ Chained(inbox)' /\ Formed(f)
      /\ inbox' # <<>> => inbox'[1].frame = f /\ inbox'[1].i = inbox[1].i + n
      /\ conn' = "up" => inbox' # <<>> /\ Ended(inbox)'
  BY <1>1, LiveRead
<1>3. StreamChained' /\ StreamEnded'
  BY <1>2 DEF StreamChained, StreamEnded
<1>4. StreamHead'
  BY <1>2 DEF StreamHead, EventFieldWords
<1>5. HeaderRead'
  BY <1>2, NewShape DEF HeaderRead
<1>6. EventsInOrder'
  BY DEF EventsInOrder
<1> QED
  BY <1>1, <1>3, <1>4, <1>5, <1>6, ProcessFrame DEF EventInv

\* The last part of an event is read and the event is handed over.
LEMMA EventRead ==
  ASSUME TypeOK, EventInv, pc \in {"fields", "payload"}, NEW n \in Nat \ {0}, ReadOk(n),
         ProcessUnchanged, NEW e, Callback(e),
         inbox # <<>> => inbox[1].i + n = End(hdr) + 1
  PROVE  EventInv'
<1>1. /\ UNCHANGED <<conn, sent>> /\ Live /\ pc \in InProcess /\ pc' \in InProcess
      /\ pc' = "callback" /\ current' = [entry |-> e, event |-> hdr]
      /\ delivered' = delivered + 1
  BY DEF ProcessUnchanged, serverVars, Live, InProcess, Callback
<1>2. hdr.magic = "EVENT" /\ hdr.id = delivered + 1
  BY DEF EventInv, HeaderRead
<1>3. inbox # <<>>
  BY <1>1, LiveRead
<1>4. inbox[1].frame = hdr
  BY <1>1, <1>3 DEF EventInv, StreamHead
<1>5. /\ Framed(inbox)' /\ Chained(inbox)'
      /\ inbox' # <<>> => Starts(inbox'[1], hdr)
      /\ conn' = "up" /\ inbox' = <<>> => NextEvent(hdr) = sent' + 1
      /\ conn' = "up" /\ inbox' # <<>> => Ended(inbox)'
  BY <1>1, <1>3, <1>4, LiveRead
<1>6. NextEvent(hdr) = delivered' + 1
  BY <1>1, <1>2 DEF NextEvent
<1>7. sent' \in Nat /\ delivered' \in Nat
  BY <1>1 DEF TypeOK, AppType
<1>8. StreamChained'
  BY <1>5 DEF StreamChained
<1>9. StreamEnded'
  <2>1. conn' = "up" /\ inbox' = <<>> => sent' = delivered'
    BY <1>5, <1>6, <1>7
  <2> QED
    BY <1>1, <1>5, <2>1 DEF StreamEnded
<1>10. StreamHead'
  BY <1>1, <1>5, <1>6 DEF StreamHead, Starts
<1>11. HeaderRead' /\ EventsInOrder'
  BY <1>1, <1>2 DEF HeaderRead, EventsInOrder
<1> QED
  BY <1>1, <1>8, <1>9, <1>10, <1>11, ProcessFrame DEF EventInv

LEMMA EventHeaderEvents ==
  ASSUME TypeOK, EventInv, EventHeader
  PROVE  EventInv'
<1>1. /\ pc = "event" /\ pc' = "fields" /\ ReadOk(HeaderWords) /\ hdr' = Header
      /\ ProcessUnchanged /\ UNCHANGED delivered
  BY DEF EventHeader
<1>2. pc \in InProcess /\ Live /\ UNCHANGED <<conn, sent>>
  BY <1>1 DEF InProcess, Live, ProcessUnchanged, serverVars
<1> DEFINE f == inbox[1].frame
<1>3. inbox # <<>> /\ f \in Frames /\ Formed(f)
  BY <1>1, <1>2, LiveRead
<1>4. inbox[1].i = 1 /\ f.magic = "EVENT" /\ f.id = delivered + 1
  BY <1>1, <1>2, <1>3 DEF EventInv, StreamHead
<1>5. Header = f
  BY <1>4 DEF Header
<1>6. f.len \in Nat \ {0}
  BY <1>3, <1>4, EventFieldWordsType DEF Formed
<1>7. inbox[1].i + HeaderWords <= End(f) /\ inbox[1].i + HeaderWords = HeaderWords + 1
  BY <1>4, <1>6 DEF End
<1> QED
  BY <1>1, <1>2, <1>4, <1>5, <1>7, PartRead

LEMMA EventFoundEvents ==
  ASSUME TypeOK, EventInv, EventFound
  PROVE  EventInv'
<1> DEFINE n == EventFieldWords(hdr.cmd)
<1>1. pc = "fields" /\ ReadOk(n) /\ ProcessUnchanged /\ n \in Nat \ {0}
  BY EventFieldWordsType DEF EventFound
<1>2. pc \in InProcess /\ Live /\ UNCHANGED <<conn, sent>>
  BY <1>1 DEF InProcess, Live, ProcessUnchanged, serverVars
<1>3. hdr.magic = "EVENT" /\ Formed(hdr) /\ hdr.id = delivered + 1
  BY <1>1 DEF EventInv, HeaderRead
<1>4. inbox # <<>>
  BY <1>1, <1>2, LiveRead
<1>5. inbox[1].frame = hdr /\ inbox[1].i = HeaderWords + 1
  BY <1>1, <1>2, <1>4 DEF EventInv, StreamHead
<1>6. PICK e \in EventList :
        \/ /\ hdr.cmd = "QUEUE_SUBSCRIBE" /\ hdr.code = "NOTIFY" /\ Callback(e)
        \/ /\ hdr.cmd # "QUEUE_SUBSCRIBE" \/ hdr.code = "MESSAGE"
           /\ pc' = "payload" /\ UNCHANGED <<delivered, hdr>>
  BY DEF EventFound
<1>7. CASE hdr.code = "NOTIFY" /\ Callback(e)
  <2>1. hdr.len = n
    BY <1>1, <1>3, <1>7 DEF Formed
  <2>2. inbox[1].i + n = End(hdr) + 1
    <3> HIDE DEF n
    <3> QED
      BY <1>1, <1>5, <2>1 DEF End
  <2> QED
    BY <1>1, <1>7, <2>2, EventRead
<1>8. CASE /\ hdr.cmd # "QUEUE_SUBSCRIBE" \/ hdr.code = "MESSAGE"
           /\ pc' = "payload" /\ UNCHANGED <<delivered, hdr>>
  <2>1. hdr.code = "MESSAGE" /\ hdr.len = n + MsgWords
    BY <1>3, <1>8 DEF Formed
  <2>2. inbox[1].i + n <= End(hdr) /\ inbox[1].i + n = HeaderWords + n + 1
    <3> HIDE DEF n
    <3> QED
      BY <1>1, <1>5, <2>1 DEF End
  <2> QED
    BY <1>1, <1>2, <1>3, <1>5, <1>8, <2>1, <2>2, PartRead
<1> QED
  BY <1>6, <1>7, <1>8

LEMMA EventMessageEvents ==
  ASSUME TypeOK, EventInv, EventMessage
  PROVE  EventInv'
<1> DEFINE n == EventFieldWords(hdr.cmd)
<1>1. /\ pc = "payload" /\ ReadOk(hdr.len - n) /\ Callback(current.entry)
      /\ ProcessUnchanged /\ n \in Nat \ {0}
  BY EventFieldWordsType DEF EventMessage
<1>2. hdr.magic = "EVENT" /\ Formed(hdr) /\ hdr.code = "MESSAGE"
  BY <1>1 DEF EventInv, HeaderRead
<1>3. hdr.len = n + MsgWords
  BY <1>2 DEF Formed
<1>4. inbox # <<>> => inbox[1].i = HeaderWords + n + 1
  BY <1>1 DEF EventInv, StreamHead, Live, InProcess
<1> HIDE DEF n
<1>5. hdr.len - n \in Nat \ {0} /\ (inbox # <<>> => inbox[1].i + (hdr.len - n) = End(hdr) + 1)
  BY <1>1, <1>3, <1>4 DEF End
<1> QED
  BY <1>1, <1>5, EventRead

LEMMA ProcessEvents ==
  ASSUME TypeOK, EventInv, ProcessStep
  PROVE  EventInv'
<1>1. CASE EventReadFails \/ EventRejected \/ EventFieldsFail
  BY <1>1, ProcessFailsEvents DEF EventReadFails, EventRejected, EventFieldsFail
<1>2. CASE EventNotFound \/ EventMessageFails
  BY <1>2, ProcessFailsEvents DEF EventNotFound, EventMessageFails
<1> QED
  BY <1>1, <1>2, EventHeaderEvents, EventFoundEvents, EventMessageEvents DEF ProcessStep

(***************************************************************************)
(* Steps of a command that waits.                                          *)
(***************************************************************************)

\* A command returns, or gives up.
LEMMA ReturnEvents ==
  ASSUME Inv', EventInv, pc \in InCall, pc' = "idle",
         UNCHANGED <<conn, sent, delivered, subscribed>>, ListsSubscribed',
         trusted' => \/ inbox' = <<>> /\ sent = 0
                     \/ /\ Framed(inbox)' /\ Chained(inbox)'
                        /\ inbox' # <<>> => inbox'[1].i = 1 /\ inbox'[1].frame.magic = "EVENT"
                                            /\ inbox'[1].frame.id = 1
                        /\ conn' = "up" => IF inbox' = <<>> THEN sent = 0 ELSE Ended(inbox)'
  PROVE  EventInv'
<1>1. delivered = 0
  BY DEF EventInv, Commanding
<1>2. NoEventsBefore'
  BY DEF EventInv, NoEventsBefore
<1>3. CASE ~trusted'
  <2>1. ~Live'
    BY <1>3 DEF Live, InCall, InProcess
  <2> QED
    BY <1>2, <2>1, GivenUp DEF Pcs
<1>4. CASE trusted'
  <2>1. pc' \notin InCall /\ pc' \notin InProcess
    BY DEF InCall, InProcess
  <2>2. Processing' /\ Commanding'
    BY <2>1 DEF Processing, Commanding
  <2>3. StreamChained'
    <3>1. CASE inbox' = <<>>
      <4>1. Len(inbox') = 0
        BY <3>1
      <4> QED
        BY <4>1 DEF StreamChained, Framed, Chained
    <3>2. CASE Framed(inbox)' /\ Chained(inbox)'
      BY <3>2 DEF StreamChained
    <3> QED
      BY <1>4, <3>1, <3>2
  <2>4. StreamEnded' /\ StreamHead'
    BY <1>1, <1>4 DEF StreamEnded, StreamHead
  <2>5. HeaderRead' /\ EventsInOrder'
    BY DEF HeaderRead, EventsInOrder
  <2> QED
    BY <1>2, <2>2, <2>3, <2>4, <2>5 DEF EventInv
<1> QED
  BY <1>3, <1>4

\* A command that does not subscribe leaves an empty stream, for nothing has been
\* subscribed; the end of the reply to a subscribe is the start of the events.
LEMMA CallEnds ==
  ASSUME Disciplined, TypeOK, Inv, Inv', EventInv, pc \in InCall, pc' = call.from,
         ReadingUnchanged, ListsSubscribed',
         trusted' /\ Subscribes(call.c) => ReadOk(HeaderWords)
  PROVE  EventInv'
<1>1. UNCHANGED <<conn, sent, delivered, subscribed>>
  BY DEF ReadingUnchanged, serverVars
<1>2. pc' = "idle" /\ Live
  BY DEF EventInv, Commanding, Live
<1>3. CASE ~Subscribes(call.c)
  <2>1. ~subscribed /\ sent = 0
    BY <1>3 DEF EventInv, Commanding, NoEventsBefore
  <2>2. trusted' => inbox' = <<>>
    BY <1>1, <1>2, <2>1 DEF Inv, ReplyInv, StreamAtRest, InCall
  <2> QED
    BY <1>1, <1>2, <2>1, <2>2, ReturnEvents
<1>4. CASE Subscribes(call.c) /\ trusted'
  <2>1. ReadOk(HeaderWords) /\ HeaderWords \in Nat \ {0}
    BY <1>4
  <2>2. inbox # <<>>
    BY <1>1, <1>2, <2>1, LiveRead
  <2>3. pc = "reply"
    BY <1>4 DEF Inv, ReplyInv, Waiting
  <2>4. inbox[1].i = 1
    BY <2>2, <2>3 DEF Inv, ReplyInv, ReplyLeft
  <2>5. inbox[1].frame.magic = "RES" /\ inbox[1].frame.len = 0
    <3>1. inbox \in Seq(Word)
      BY DEF TypeOK, StreamType, Word
    <3>2. 1 \in 1..Len(inbox) /\ 1 <= HeaderWords
      BY <2>2, <3>1
    <3>3. IsOwn(inbox[1])
      BY <3>2 DEF Inv, ReplyInv, StreamInCall
    <3>4. call.c \in AllCalls
      BY CallType DEF TypeOK, Calls, AllCalls
    <3>5. call.c.body = "none"
      BY <1>4, <3>4, SubscribeHasNoBody
    <3> QED
      BY <3>3, <3>5, ReplyLength DEF IsOwn
  <2>6. inbox[1].i + HeaderWords = End(inbox[1].frame) + 1
    BY <2>4, <2>5 DEF End
  <2>7. NextEvent(inbox[1].frame) = 1
    BY <2>5 DEF NextEvent
  <2>8. /\ Framed(inbox)' /\ Chained(inbox)'
        /\ inbox' # <<>> => Starts(inbox'[1], inbox[1].frame)
        /\ conn' = "up" /\ inbox' = <<>> => NextEvent(inbox[1].frame) = sent' + 1
        /\ conn' = "up" /\ inbox' # <<>> => Ended(inbox)'
    BY <1>1, <1>2, <2>1, <2>6, LiveRead
  <2>9. inbox' # <<>> => inbox'[1].i = 1 /\ inbox'[1].frame.magic = "EVENT"
                         /\ inbox'[1].frame.id = 1
    BY <2>7, <2>8 DEF Starts
  <2>10. sent \in Nat
    BY DEF TypeOK, AppType
  <2>11. conn' = "up" => IF inbox' = <<>> THEN sent = 0 ELSE Ended(inbox)'
    BY <1>1, <2>7, <2>8, <2>10
  <2> QED
    BY <1>1, <1>2, <2>8, <2>9, <2>11, ReturnEvents
<1>5. CASE Subscribes(call.c) /\ ~trusted'
  BY <1>1, <1>2, <1>5, ReturnEvents
<1> QED
  BY <1>3, <1>4, <1>5

\* A command reads on.
LEMMA CallGoesOn ==
  ASSUME TypeOK, EventInv, pc \in InCall, pc' \in {"body", "tag", "message"},
         NEW n \in Nat \ {0}, ReadOk(n), ReadingUnchanged, ~Subscribes(call.c),
         UNCHANGED <<call, queue_subscriptions, channel_subscriptions>>
  PROVE  EventInv'
<1>1. UNCHANGED <<conn, sent, delivered, subscribed, outbox>>
  BY DEF ReadingUnchanged, serverVars
<1>2. Live /\ pc' \in InCall /\ pc' \notin InProcess
  BY DEF Live, InCall, InProcess
<1>3. /\ ~subscribed /\ call.from = "idle" /\ sent = 0 /\ delivered = 0
  BY DEF EventInv, Commanding, NoEventsBefore
<1>4. /\ Framed(inbox)' /\ Chained(inbox)'
      /\ conn' = "up" /\ inbox' # <<>> => Ended(inbox)'
  BY <1>1, <1>2, LiveRead
<1>5. ListsSubscribed' /\ NoEventsBefore'
  BY <1>1 DEF EventInv, ListsSubscribed, NoEventsBefore
<1>6. Processing' /\ Commanding'
  BY <1>1, <1>2, <1>3 DEF Processing, Commanding
<1>7. StreamChained' /\ StreamEnded'
  BY <1>1, <1>3, <1>4 DEF StreamChained, StreamEnded
<1>8. StreamHead' /\ HeaderRead' /\ EventsInOrder'
  BY DEF StreamHead, HeaderRead, EventsInOrder
<1> QED
  BY <1>5, <1>6, <1>7, <1>8 DEF EventInv

LEMMA FailEvents ==
  ASSUME Disciplined, TypeOK, Inv, Inv', EventInv, pc \in InCall, NEW err, Fail(err),
         ReadingUnchanged, trusted' /\ Subscribes(call.c) => ReadOk(HeaderWords)
  PROVE  EventInv'
<1>1. pc' = call.from /\ UNCHANGED <<queue_subscriptions, channel_subscriptions, subscribed>>
  BY DEF Fail, Leave, ReadingUnchanged
<1>2. ListsSubscribed'
  BY <1>1 DEF EventInv, ListsSubscribed
<1> QED
  BY <1>1, <1>2, CallEnds

LEMMA CallEvents ==
  ASSUME Disciplined, TypeOK, Inv, Inv', EventInv, CallStep
  PROVE  EventInv'
<1>1. ASSUME NEW err \in Desync, Fail(err) PROVE ~trusted'
  BY <1>1 DEF Fail, Return, SetResult
<1>2. CASE ReplyReadFails \/ ReplyRejected \/ BodyFails \/ TagFails
  <2>1. PICK err \in Desync : Fail(err)
    BY <1>2 DEF ReplyReadFails, ReplyRejected, BodyFails, TagFails, Desync
  <2>2. pc \in InCall /\ ReadingUnchanged
    BY <1>2 DEF ReplyReadFails, ReplyRejected, BodyFails, TagFails, InCall
  <2>3. ~trusted'
    BY <1>1, <2>1
  <2> QED
    BY <2>1, <2>2, <2>3, FailEvents
<1>3. Subscribes(call.c) => FirstRead(call.c) = HeaderWords /\ call.c.body = "none"
  <2>1. call.c \in AllCalls
    BY CallType DEF TypeOK, Calls, AllCalls
  <2> QED
    BY <2>1, SubscribeHasNoBody, FirstReadLength
<1>4. CASE ReplyStatus
  <2>1. /\ pc \in InCall /\ ReadingUnchanged /\ ReadOk(FirstRead(call.c))
        /\ Fail(emq_get_error(Header))
    BY <1>4 DEF ReplyStatus, InCall
  <2>2. Subscribes(call.c) => ReadOk(HeaderWords)
    BY <1>3, <2>1
  <2> QED
    BY <2>1, <2>2, FailEvents
<1>5. CASE ReplySuccess
  <2>1. pc = "reply" /\ pc \in InCall /\ ReadingUnchanged /\ ReadOk(FirstRead(call.c))
    BY <1>5 DEF ReplySuccess, InCall
  <2>2. CASE Complete(call.c, call.id, call.arg, TRUE) /\ Leave
    <3>1. pc' = call.from /\ subscribed' = subscribed
      BY <2>1, <2>2 DEF Leave, ReadingUnchanged
    <3>2. ListsSubscribed'
      <4>1. CASE Subscribes(call.c)
        BY <2>1, <3>1, <4>1 DEF Inv, ReplyInv, Waiting, ListsSubscribed
      <4>2. CASE ~Subscribes(call.c)
        BY <2>2, <3>1, <4>2, CompleteLists DEF EventInv, ListsSubscribed
      <4> QED
        BY <4>1, <4>2
    <3>3. Subscribes(call.c) => ReadOk(HeaderWords)
      BY <1>3, <2>1
    <3> QED
      BY <2>1, <3>1, <3>2, <3>3, CallEnds
  <2>3. CASE /\ call.c.body \in {"word", "list", "message"}
             /\ pc' = IF call.c.body = "message" THEN "tag" ELSE "body"
             /\ UNCHANGED <<call, queue_subscriptions, channel_subscriptions>>
    <3>1. pc' \in {"body", "tag", "message"} /\ ~Subscribes(call.c)
      BY <1>3, <2>3
    <3>2. FirstRead(call.c) \in Nat \ {0}
      BY FirstReadLength
    <3> QED
      BY <2>1, <2>3, <3>1, <3>2, CallGoesOn
  <2> QED
    BY <1>5, <2>2, <2>3 DEF ReplySuccess
<1>6. pc \in {"body", "tag", "message"} => ~Subscribes(call.c)
  BY DEF Inv, ReplyInv, Waiting, InCall
<1>7. ASSUME Leave, pc \in {"body", "message"}, ReadingUnchanged,
             UNCHANGED <<queue_subscriptions, channel_subscriptions>>
      PROVE  EventInv'
  <2>1. pc' = call.from /\ subscribed' = subscribed /\ pc \in InCall
    BY <1>7 DEF Leave, ReadingUnchanged, InCall
  <2>2. ListsSubscribed'
    BY <1>7, <2>1 DEF EventInv, ListsSubscribed
  <2> QED
    BY <1>6, <1>7, <2>1, <2>2, CallEnds
<1>8. CASE BodyRead
  <2>1. Leave /\ pc = "body" /\ ReadingUnchanged
        /\ UNCHANGED <<queue_subscriptions, channel_subscriptions>>
    BY <1>8 DEF BodyRead, Fail
  <2> QED
    BY <1>7, <2>1
<1>9. CASE MessageRead
  BY <1>7, <1>9 DEF MessageRead
<1>10. CASE TagRead
  <2>1. /\ pc = "tag" /\ pc' = "message" /\ ReadOk(TagWords) /\ ReadingUnchanged
        /\ UNCHANGED <<call, queue_subscriptions, channel_subscriptions>>
        /\ TagWords \in Nat \ {0}
    BY <1>10 DEF TagRead, clientVars
  <2> QED
    BY <1>6, <2>1, CallGoesOn DEF InCall
<1>11. CASE MessageFails
  <2>1. /\ pc' = "crashed"
        /\ UNCHANGED <<queue_subscriptions, channel_subscriptions, subscribed, sent, delivered>>
    BY <1>11 DEF MessageFails, ReadingUnchanged, clientVars, serverVars
  <2>2. ~Live' /\ pc' \in Pcs
    BY <2>1 DEF Live, InCall, InProcess, Pcs
  <2>3. ListsSubscribed' /\ NoEventsBefore'
    BY <2>1 DEF EventInv, ListsSubscribed, NoEventsBefore
  <2> QED
    BY <2>2, <2>3, GivenUp
<1> QED
  BY <1>2, <1>4, <1>5, <1>8, <1>9, <1>10, <1>11 DEF CallStep

(***************************************************************************)
(* Steps of the server and of the network.                                 *)
(***************************************************************************)

\* Neither the client nor the stream changes.
LEMMA ServedSilently ==
  ASSUME EventInv, inbox' = inbox,
         UNCHANGED <<conn, pc, call, hdr, current, sent, delivered, subscribed, trusted,
                     queue_subscriptions, channel_subscriptions>>,
         \A j \in 1..Len(outbox') : \E i \in 1..Len(outbox) : outbox'[j] = outbox[i]
  PROVE  EventInv'
<1>1. Live' <=> Live
  BY DEF Live
<1>2. Processing'
  BY DEF EventInv, Processing, Answers
<1>3. ListsSubscribed' /\ NoEventsBefore' /\ Commanding'
  BY DEF EventInv, ListsSubscribed, NoEventsBefore, Commanding, Subscribes
<1>4. StreamChained' /\ StreamEnded'
  BY <1>1 DEF EventInv, StreamChained, Framed, Chained, StreamEnded, Ended
<1>5. StreamHead' /\ HeaderRead' /\ EventsInOrder'
  BY <1>1 DEF EventInv, StreamHead, HeaderRead, EventsInOrder
<1> QED
  BY <1>2, <1>3, <1>4, <1>5 DEF EventInv

LEMMA ServerEvents ==
  ASSUME Disciplined, TypeOK, Inv, EventInv, NEW code \in Statuses, ServerStep(code)
  PROVE  EventInv'
<1>1. /\ conn = "up"
      /\ UNCHANGED <<conn, pc, call, hdr, current, sent, delivered, subscribed, trusted,
                     queue_subscriptions, channel_subscriptions>>
  BY DEF ServerStep, frameVars, appVars, clientVars
<1>2. \A j \in 1..Len(outbox') : \E i \in 1..Len(outbox) : outbox'[j] = outbox[i]
  BY Taken
<1>3. CASE ~Answers(outbox[1])
  <2>1. inbox' = inbox
    BY <1>3, Taken DEF ServerStep
  <2> QED
    BY <1>1, <1>2, <2>1, ServedSilently
<1>4. CASE Answers(outbox[1]) /\ ~Live
  <2>1. ~Live' /\ pc' \in Pcs
    BY <1>1, <1>4 DEF Live, TypeOK, ClientType
  <2>2. ListsSubscribed' /\ NoEventsBefore'
    BY <1>1 DEF EventInv, ListsSubscribed, NoEventsBefore
  <2> QED
    BY <2>1, <2>2, GivenUp
<1>5. CASE Answers(outbox[1]) /\ Live
  <2>1. pc \notin InProcess
    BY <1>5, Taken DEF EventInv, Processing
  <2>2. trusted
    BY <1>5, <2>1 DEF Live, Inv, ReplyInv, Waiting
  <2>3. /\ pc = "reply" /\ outbox[1].c = call.c /\ inbox = <<>>
    BY <1>5, <2>2, Taken DEF Inv, ReplyInv, Pending
  <2>4. delivered = 0 /\ sent = 0
    BY <1>1, <1>5, <2>3 DEF EventInv, Commanding, StreamEnded, InCall
  <2>5. PICK len \in ReplyLens(call.c, code) :
          inbox' = inbox \o Words(Reply(outbox[1], code, len))
    BY <1>5, <2>3, Taken DEF ServerStep
  <2> DEFINE f == Reply(outbox[1], code, len)
  <2>6. f \in Frames
    BY <2>3, <2>5, Taken, ReplyType
  <2>7. f.magic = "RES" /\ Formed(f) /\ NextEvent(f) = 1
    BY DEF Reply, Frame, Formed, NextEvent
  <2>8. inbox \in Seq(Word)
    BY DEF TypeOK, StreamType, Word
  <2>9. inbox' = inbox \o Words(f)
    BY <2>5
  <2> HIDE DEF f
  <2>10. /\ inbox' # <<>> /\ Framed(inbox') /\ Chained(inbox')
         /\ inbox'[Len(inbox')].i = End(f) /\ inbox'[Len(inbox')].frame = f
    <3>1. inbox # <<>> => /\ Framed(inbox) /\ Chained(inbox)
                          /\ inbox[Len(inbox)].i = End(inbox[Len(inbox)].frame)
                          /\ f.magic = "EVENT" /\ f.id = NextEvent(inbox[Len(inbox)].frame)
      BY <2>3
    <3>2. Formed(f)
      BY <2>7
    <3> QED
      BY <2>6, <2>8, <2>9, <3>1, <3>2, FollowedBy
  <2>11. Ended(inbox')
    BY <2>4, <2>7, <2>10 DEF Ended
  <2>12. ListsSubscribed' /\ NoEventsBefore' /\ Commanding'
    BY <1>1 DEF EventInv, ListsSubscribed, NoEventsBefore, Commanding, Subscribes
  <2>13. Processing'
    BY <1>1, <2>1 DEF Processing
  <2>14. StreamChained'
    BY <2>10, NewShape DEF StreamChained
  <2>15. StreamEnded'
    <3>1. Ended(inbox)'
      BY <1>1, <2>11, NewShape
    <3> QED
      BY <2>10, <3>1 DEF StreamEnded
  <2>16. StreamHead' /\ HeaderRead' /\ EventsInOrder'
    BY <1>1, <2>3 DEF StreamHead, HeaderRead, EventsInOrder
  <2> QED
    BY <2>12, <2>13, <2>14, <2>15, <2>16 DEF EventInv
<1> QED
  BY <1>3, <1>4, <1>5


\* The frame of an event.
LEMMA EventFormed ==
  ASSUME NEW s \in Sub, NEW type \in protocol_event_type, NEW n \in Nat,
         type = "MESSAGE" \/ s.via = "QUEUE_SUBSCRIBE",
         NEW f, f = Event(s, type, EventFieldWords(s.via)
                                   + (IF type = "MESSAGE" THEN MsgWords ELSE 0), n)
  PROVE  f \in Frames /\ Formed(f) /\ f.magic = "EVENT" /\ f.id = n /\ NextEvent(f) = n + 1
<1> DEFINE len == EventFieldWords(s.via) + (IF type = "MESSAGE" THEN MsgWords ELSE 0)
<1>1. len \in Nat
  BY EventFieldWordsType
<1>2. f = Event(s, type, len, n)
  OBVIOUS
<1>3. f \in Frames
  BY <1>1, <1>2, EventType
<1>4. f.magic = "EVENT" /\ f.id = n /\ f.cmd = s.via /\ f.code = type /\ f.len = len
  BY <1>2 DEF Event, Frame
<1>5. Formed(f)
  BY <1>4 DEF Formed
<1> QED
  BY <1>3, <1>4, <1>5 DEF NextEvent

LEMMA SendEventEvents ==
  ASSUME TypeOK, Inv, EventInv, NEW s \in Sub, NEW type \in protocol_event_type,
         SendEvent(s, type)
  PROVE  EventInv'
<1>1. /\ conn = "up" /\ subs # {} /\ sent' = sent + 1
      /\ type = "MESSAGE" \/ s.via = "QUEUE_SUBSCRIBE"
      /\ UNCHANGED <<conn, pc, call, hdr, current, outbox, delivered, subscribed, trusted,
                     queue_subscriptions, channel_subscriptions>>
  BY DEF SendEvent, frameVars, appVars, clientVars
<1>2. subscribed
  BY <1>1 DEF Inv, ReplyInv, NotSubscribed
<1>3. ListsSubscribed' /\ NoEventsBefore' /\ Processing' /\ Commanding'
  BY <1>1, <1>2 DEF EventInv, ListsSubscribed, NoEventsBefore, Processing, Commanding,
     Answers, Subscribes
<1>4. HeaderRead' /\ EventsInOrder'
  <2>1. Formed(hdr)' <=> Formed(hdr)
    BY <1>1, NewShape
  <2> QED
    BY <1>1, <2>1 DEF EventInv, HeaderRead, EventsInOrder
<1>5. CASE ~Live
  <2>1. ~Live' /\ pc' \in Pcs
    BY <1>1, <1>5 DEF Live, TypeOK, ClientType
  <2> QED
    BY <1>3, <2>1, GivenUp
<1>6. CASE Live
  <2> DEFINE f == Event(s, type, EventFieldWords(s.via)
                                 + (IF type = "MESSAGE" THEN MsgWords ELSE 0), sent + 1)
  <2>1. sent + 1 \in Nat
    BY DEF TypeOK, AppType
  <2>2. /\ f \in Frames /\ Formed(f) /\ f.magic = "EVENT" /\ f.id = sent + 1
        /\ NextEvent(f) = sent' + 1
    BY <1>1, <2>1, EventFormed
  <2>3. inbox' = inbox \o Words(f) /\ inbox \in Seq(Word)
    BY DEF SendEvent, TypeOK, StreamType, Word
  <2> HIDE DEF f
  <2>4. inbox # <<>> => Ended(inbox)
    BY <1>1, <1>6 DEF EventInv, StreamEnded
  <2>5. inbox # <<>> => /\ Framed(inbox) /\ Chained(inbox)
                        /\ inbox[Len(inbox)].i = End(inbox[Len(inbox)].frame)
                        /\ f.magic = "EVENT" /\ f.id = NextEvent(inbox[Len(inbox)].frame)
    BY <1>6, <2>2, <2>4 DEF EventInv, StreamChained, Ended
  <2>6. Formed(f) /\ f \in Frames
    BY <2>2
  <2>7. /\ inbox' # <<>> /\ Framed(inbox') /\ Chained(inbox')
        /\ inbox'[Len(inbox')].i = End(f) /\ inbox'[Len(inbox')].frame = f
        /\ inbox = <<>> => inbox'[1].i = 1 /\ inbox'[1].frame = f
        /\ inbox # <<>> => inbox'[1] = inbox[1]
    BY <2>3, <2>5, <2>6, FollowedBy
  <2>8. StreamChained'
    BY <2>7, NewShape DEF StreamChained
  <2>9. StreamEnded'
    <3>1. Ended(inbox)'
      BY <2>2, <2>7 DEF Ended, End, NextEvent
    <3> QED
      BY <2>7, <3>1 DEF StreamEnded
  <2>10. StreamHead'
    <3>1. CASE inbox = <<>>
      <4>1. pc \notin {"fields", "payload"} /\ sent = delivered
        BY <1>1, <1>6, <3>1 DEF EventInv, StreamEnded
      <4> QED
        BY <1>1, <2>2, <2>7, <3>1, <4>1 DEF StreamHead
    <3>2. CASE inbox # <<>>
      BY <1>1, <1>6, <2>7, <3>2 DEF EventInv, StreamHead, EventFieldWords
    <3> QED
      BY <3>1, <3>2
  <2> QED
    BY <1>3, <1>4, <2>8, <2>9, <2>10 DEF EventInv
<1> QED
  BY <1>5, <1>6

\* The connection breaks: what is left of the stream is the beginning of it.
LEMMA BreakEvents ==
  ASSUME TypeOK, EventInv, Break, NEW n \in 0..Len(inbox), inbox' = SubSeq(inbox, 1, n)
  PROVE  EventInv'
<1>1. /\ conn' = "broken" /\ outbox' = <<>>
      /\ UNCHANGED <<pc, call, hdr, current, sent, delivered, subscribed, trusted,
                     queue_subscriptions, channel_subscriptions>>
  BY DEF Break, frameVars, appVars, clientVars, serverVars
<1>2. inbox \in Seq(Word)
  BY DEF TypeOK, StreamType, Word
<1>3. inbox' # <<>> => inbox # <<>> /\ inbox'[1] = inbox[1]
  <2>1. inbox' \in Seq(Word) /\ Len(inbox') = n /\ \A k \in 1..n : inbox'[k] = inbox[k]
    BY <1>2, PrefixType
  <2> QED
    BY <1>2, <2>1
<1>4. Live' <=> Live
  BY <1>1 DEF Live
<1>5. Len(outbox') = 0
  BY <1>1
<1>6. ListsSubscribed' /\ NoEventsBefore' /\ Commanding' /\ Processing'
  BY <1>1, <1>5 DEF EventInv, ListsSubscribed, NoEventsBefore, Commanding, Processing, Subscribes
<1>7. StreamChained'
  <2> SUFFICES ASSUME Live PROVE Framed(inbox') /\ Chained(inbox')
    BY <1>4, NewShape DEF StreamChained
  <2>1. Framed(inbox) /\ Chained(inbox)
    BY DEF EventInv, StreamChained
  <2> QED
    BY <1>2, <2>1, PrefixChained
<1>8. StreamEnded'
  BY <1>1 DEF StreamEnded
<1>9. StreamHead'
  BY <1>1, <1>3, <1>4 DEF EventInv, StreamHead, EventFieldWords
<1>10. HeaderRead' /\ EventsInOrder'
  <2>1. Formed(hdr)' <=> Formed(hdr)
    BY <1>1, NewShape
  <2> QED
    BY <1>1, <2>1 DEF EventInv, HeaderRead, EventsInOrder
<1> QED
  BY <1>6, <1>7, <1>8, <1>9, <1>10 DEF EventInv

LEMMA NextEvents ==
  ASSUME Disciplined, TypeOK, Inv, EventInv, [Next]_vars
  PROVE  EventInv'
<1>1. CASE UNCHANGED vars
  <2>1. /\ inbox' = inbox /\ outbox' = outbox
        /\ UNCHANGED <<conn, pc, call, hdr, current, sent, delivered, subscribed, trusted,
                       queue_subscriptions, channel_subscriptions>>
    BY <1>1 DEF vars, clientVars, frameVars, appVars, serverVars
  <2> QED
    BY <2>1, ServedSilently
<1>2. CASE AppStep
  <2>1. CASE emq_connect \/ emq_disconnect \/ Restart
    BY <2>1, ConnectEvents
  <2>2. CASE emq_noack_enable \/ emq_noack_disable \/ \E c \in Calls : CallRejected(c)
    BY <2>2, SwitchEvents
  <2>3. CASE emq_process \/ \E stop \in BOOLEAN : CallbackReturns(stop)
    BY <2>3, LoopEvents
  <2>4. CASE \E c \in Calls : \E arg \in Arguments(c) : CallWriteFails(c, arg)
    BY <2>4, CallWriteFailsEvents
  <2>5. CASE \E c \in Calls : \E arg \in Arguments(c) : CallSent(c, arg)
    BY <2>5, CallSentEvents
  <2> QED
    BY <1>2, <2>1, <2>2, <2>3, <2>4, <2>5 DEF AppStep
<1>3. CASE ServerOrNetworkStep
  <2>1. inbox \in Seq(Word)
    BY DEF TypeOK, StreamType, Word
  <2>2. CASE ServerMisframe
    <3>1. Len(inbox) \in 0..Len(inbox) /\ inbox' = SubSeq(inbox, 1, Len(inbox)) /\ Break
      BY <2>1, <2>2 DEF ServerMisframe
    <3> QED
      BY <3>1, BreakEvents
  <2>3. CASE Drop
    BY <2>3, BreakEvents DEF Drop
  <2> QED
    BY <1>3, <2>2, <2>3, ServerEvents, SendEventEvents DEF ServerOrNetworkStep, Serve
<1>4. CASE CallStep
  BY <1>4, CallEvents, NextInv
<1>5. CASE ProcessStep
  BY <1>5, ProcessEvents
<1> QED
  BY <1>1, <1>2, <1>3, <1>4, <1>5 DEF Next

LEMMA InitEvents == Init => EventInv
<1> SUFFICES ASSUME Init PROVE EventInv
  OBVIOUS
<1>1. /\ pc = "idle" /\ conn = "down" /\ inbox = <<>> /\ sent = 0 /\ delivered = 0
      /\ queue_subscriptions = {} /\ channel_subscriptions = {}
  BY DEF Init
<1>2. Len(inbox) = 0
  BY <1>1
<1>3. ListsSubscribed /\ NoEventsBefore /\ Processing /\ Commanding
  BY <1>1 DEF ListsSubscribed, NoEventsBefore, Processing, Commanding, InProcess, InCall
<1>4. StreamChained
  BY <1>2 DEF StreamChained, Framed, Chained
<1>5. StreamEnded /\ StreamHead /\ HeaderRead /\ EventsInOrder
  BY <1>1 DEF StreamEnded, StreamHead, HeaderRead, EventsInOrder
<1> QED
  BY <1>3, <1>4, <1>5 DEF EventInv

(***************************************************************************)
(* Results.                                                                *)
(***************************************************************************)

\* The events of a disciplined application: every event is a whole frame, numbered
\* in the order sent, the reader knows where in the stream it is, and no command
\* reads a reply among events.
THEOREM EventInvariant ==
  ASSUME Disciplined PROVE Spec => [](TypeOK /\ Inv /\ EventInv)
<1>1. Init => TypeOK /\ Inv /\ EventInv
  BY InitType, InitInv, InitEvents
<1>2. TypeOK /\ Inv /\ EventInv /\ [Next]_vars => (TypeOK /\ Inv /\ EventInv)'
  BY NextType, NextInv, NextEvents
<1> QED
  BY <1>1, <1>2, PTL DEF Spec

\* emq_process and the commands of a disciplined application look for a header only
\* where a frame starts, however reads fail, events interleave with replies and
\* the connection is lost.
THEOREM FrameAlignedCorrect == ASSUME Disciplined PROVE Spec => []FrameAligned
<1>1. Inv /\ EventInv => FrameAligned
  <2> SUFFICES ASSUME Inv, EventInv, pc \in {"reply", "event"}, inbox # <<>>
               PROVE  inbox[1].i = 1
    BY DEF FrameAligned
  <2>1. CASE pc = "reply"
    BY <2>1 DEF Inv, ReplyInv, ReplyLeft
  <2>2. CASE pc = "event"
    BY <2>2 DEF EventInv, StreamHead, Live, InProcess
  <2> QED
    BY <2>1, <2>2
<1> QED
  BY <1>1, EventInvariant, PTL

\* The events of a disciplined application reach its callbacks in the order the
\* server sent them, none skipped or repeated.
THEOREM EventsInOrderCorrect == ASSUME Disciplined PROVE Spec => []EventsInOrder
<1>1. EventInv => EventsInOrder
  BY DEF EventInv
<1> QED
  BY <1>1, EventInvariant, PTL

(***************************************************************************)
(* The client's list of queues and the server's.  A queue that the server  *)
(* sends, or will send, events for and that is not in the list is named by *)
(* the subscribe being executed or by an unsubscribe the server will take. *)
(***************************************************************************)

\* Request rq will have effect e on queue q.
Requests(rq, e, q) == rq.whole /\ rq.c.effect = e /\ rq.arg.name = q

Subscribing(q) == pc \in InCall /\ call.c.effect = "qsub" /\ call.arg.name = q

\* Nothing that remains of queue q outlives the requests under way.
Cancelled(q) ==
  /\ \A j \in 1..Len(outbox) : Requests(outbox[j], "qsub", q) =>
       \E k \in (j + 1)..Len(outbox) : Requests(outbox[k], "qunsub", q)
  /\ (\E s \in subs : s.via = "QUEUE_SUBSCRIBE" /\ s.name = q) =>
       \E k \in 1..Len(outbox) : Requests(outbox[k], "qunsub", q)

ListInv ==
  trusted /\ conn = "up" =>
    \A q \in Queues :
      Named(queue_subscriptions, q) = {} /\ ~Subscribing(q) => Cancelled(q)

\* Memory does not run out and the server refuses no request.  Both are needed: a
\* subscribe whose list node cannot be allocated still returns EMQ_STATUS_OK, and
\* the refusal of an unsubscribe in noack mode is never read.
Granted == ~Oom /\ Statuses \subseteq {"SUCCESS"}

\* Nothing is claimed of a connection that is lost or given up.
LEMMA ListGivenUp ==
  ASSUME ~trusted' \/ conn' # "up"
  PROVE  ListInv'
BY DEF ListInv

\* Neither list nor the requests under way change.
LEMMA ListStill ==
  ASSUME ListInv, UNCHANGED <<queue_subscriptions, outbox, subs>>, trusted' => trusted,
         conn' = conn, \A q : Subscribing(q) => Subscribing(q)'
  PROVE  ListInv'
<1> SUFFICES ASSUME trusted', conn' = "up", NEW q \in Queues,
                    Named(queue_subscriptions', q) = {}, ~Subscribing(q)'
             PROVE  Cancelled(q)'
  BY DEF ListInv, Named
<1>1. Named(queue_subscriptions, q) = {} /\ ~Subscribing(q)
  BY DEF Named
<1>2. Cancelled(q)
  BY <1>1 DEF ListInv
<1> QED
  BY <1>2 DEF Cancelled, Requests

\* A request that does not subscribe to q, and one that unsubscribes from it.
LEMMA AppendCancelled ==
  ASSUME outbox \in Seq(RequestFrames), NEW rq \in RequestFrames, NEW q,
         outbox' = Append(outbox, rq), subs' = subs,
         (Cancelled(q) /\ ~Requests(rq, "qsub", q)) \/ Requests(rq, "qunsub", q)
  PROVE  Cancelled(q)'
<1> DEFINE n == Len(outbox)
<1>1. /\ n \in Nat /\ Len(outbox') = n + 1 /\ outbox'[n + 1] = rq
      /\ \A k \in 1..n : outbox'[k] = outbox[k]
  BY AppendType
<1> HIDE DEF n
<1>2. /\ Cancelled(q)' <=>
           /\ \A j \in 1..(n + 1) : Requests(outbox'[j], "qsub", q) =>
                \E k \in (j + 1)..(n + 1) : Requests(outbox'[k], "qunsub", q)
           /\ (\E s \in subs : s.via = "QUEUE_SUBSCRIBE" /\ s.name = q) =>
                \E k \in 1..(n + 1) : Requests(outbox'[k], "qunsub", q)
      /\ Cancelled(q) <=>
           /\ \A j \in 1..n : Requests(outbox[j], "qsub", q) =>
                \E k \in (j + 1)..n : Requests(outbox[k], "qunsub", q)
           /\ (\E s \in subs : s.via = "QUEUE_SUBSCRIBE" /\ s.name = q) =>
                \E k \in 1..n : Requests(outbox[k], "qunsub", q)
  BY <1>1 DEF Cancelled, Requests, n
<1>3. CASE Requests(rq, "qunsub", q)
  <2>1. ~Requests(rq, "qsub", q)
    BY <1>3 DEF Requests
  <2>2. \A j \in 1..(n + 1) : j # n + 1 => n + 1 \in (j + 1)..(n + 1)
    BY <1>1
  <2>3. n + 1 \in 1..(n + 1)
    BY <1>1
  <2> QED
    BY <1>1, <1>2, <1>3, <2>1, <2>2, <2>3
<1>4. CASE Cancelled(q) /\ ~Requests(rq, "qsub", q)
  <2>1. \A j \in 1..(n + 1) : j = n + 1 \/ j \in 1..n
    BY <1>1
  <2>2. \A j \in 1..n : \A k \in (j + 1)..n : k \in 1..n /\ k \in (j + 1)..(n + 1)
    BY <1>1
  <2>3. \A k \in 1..n : k \in 1..(n + 1)
    BY <1>1
  <2> QED
    BY <1>1, <1>2, <1>4, <2>1, <2>2, <2>3
<1> QED
  BY <1>3, <1>4

\* What completing a command does to the list of queues.
LEMMA CompleteQueues ==
  ASSUME ~Oom, NEW c, NEW id, NEW arg \in Arguments(c), NEW waited,
         Complete(c, id, arg, waited), NEW q, Named(queue_subscriptions', q) = {}
  PROVE  \/ Named(queue_subscriptions, q) = {} /\ ~(c.effect = "qsub" /\ arg.name = q)
         \/ c.effect = "qunsub" /\ arg.name = q
<1>1. CASE c.effect = "qsub"
  <2>1. arg.via = "QUEUE_SUBSCRIBE"
    BY <1>1 DEF Arguments
  <2> DEFINE e == [sub |-> arg, id |-> id]
  <2>2. queue_subscriptions' = queue_subscriptions \cup {e}
    BY <1>1, <2>1 DEF Complete, Registered
  <2>3. e.sub.name = arg.name
    OBVIOUS
  <2> HIDE DEF e
  <2> QED
    BY <2>2, <2>3 DEF Named
<1>2. CASE c.effect = "qunsub"
  <2>1. queue_subscriptions' = queue_subscriptions \ Named(queue_subscriptions, arg.name)
    BY <1>2 DEF Complete, Removed
  <2> QED
    BY <1>2, <2>1 DEF Named
<1>3. CASE c.effect \notin {"qsub", "qunsub"}
  <2>1. c.effect = "csub" => arg.via # "QUEUE_SUBSCRIBE"
    BY DEF Arguments, Via
  <2>2. queue_subscriptions' = queue_subscriptions
    BY <1>3, <2>1 DEF Complete, Registered, Removed
  <2> QED
    BY <1>3, <2>2 DEF Named
<1> QED
  BY <1>1, <1>2, <1>3

LEMMA CallSentList ==
  ASSUME Granted, TypeOK, ListInv, NEW c \in Calls, NEW arg \in Arguments(c),
         CallSent(c, arg)
  PROVE  ListInv'
<1> SUFFICES ASSUME trusted', conn' = "up", NEW q \in Queues,
                    Named(queue_subscriptions', q) = {}, ~Subscribing(q)'
             PROVE  Cancelled(q)'
  BY DEF ListInv, Named
<1>1. PICK whole \in BOOLEAN : /\ ~whole => c.write = "writev"
                               /\ outbox' = Append(outbox, RequestFrame(c, arg, whole))
  BY DEF CallSent
<1>2. /\ conn = "up" /\ subs' = subs /\ pc \in {"idle", "callback"} /\ nextId < MaxCalls
  BY DEF CallSent, MayCall, serverVars
<1>3. trusted
  <2>1. CASE Waits(c)
    BY <2>1 DEF CallSent
  <2>2. CASE ~Waits(c)
    BY <2>2, CompleteDone DEF CallSent
  <2> QED
    BY <2>1, <2>2
<1>4. Named(queue_subscriptions, q) = {} => Cancelled(q)
  BY <1>2, <1>3 DEF ListInv, Subscribing, InCall
<1> DEFINE rq == RequestFrame(c, arg, whole)
<1>5. outbox \in Seq(RequestFrames) /\ rq \in RequestFrames
  BY <1>2, RequestType DEF TypeOK, StreamType
<1>6. \A e : Requests(rq, e, q) <=> whole /\ c.effect = e /\ arg.name = q
  BY DEF Requests, RequestFrame
<1>7. (Cancelled(q) /\ ~Requests(rq, "qsub", q)) \/ Requests(rq, "qunsub", q)
  <2>1. CASE Waits(c)
    <3>1. /\ pc' = "reply" /\ queue_subscriptions' = queue_subscriptions
          /\ call' = [c |-> c, id |-> nextId + 1, arg |-> arg, from |-> pc]
      BY <2>1 DEF CallSent
    <3>2. ~(c.effect = "qsub" /\ arg.name = q)
      BY <3>1 DEF Subscribing, InCall
    <3> QED
      BY <1>4, <1>6, <3>1, <3>2
  <2>2. CASE ~Waits(c)
    <3>1. Complete(c, nextId + 1, arg, FALSE) /\ ~Oom
      BY <2>2 DEF CallSent, Granted
    <3>2. \/ Named(queue_subscriptions, q) = {} /\ ~(c.effect = "qsub" /\ arg.name = q)
          \/ c.effect = "qunsub" /\ arg.name = q
      BY <3>1, CompleteQueues
    <3>3. c.effect = "qunsub" => whole
      BY <1>1, ListCommand DEF Calls
    <3> QED
      BY <1>4, <1>6, <3>2, <3>3
  <2> QED
    BY <2>1, <2>2
<1> HIDE DEF rq
<1>8. outbox' = Append(outbox, rq)
  BY <1>1 DEF rq
<1> QED
  BY <1>2, <1>5, <1>7, <1>8, AppendCancelled

\* The reply to a command is a success.
LEMMA StatusList ==
  ASSUME Granted, TypeOK, Inv, ReplyStatus
  PROVE  ~trusted'
<1>1. /\ pc = "reply" /\ ReadOk(FirstRead(call.c)) /\ Header.code # "SUCCESS"
      /\ Fail(emq_get_error(Header))
  BY DEF ReplyStatus, emq_check_status
<1>2. served[call.id] = Header.code
  BY <1>1, ReplyRead
<1>3. call.id \in 1..MaxCalls
  BY <1>1, CallId DEF InCall
<1>4. served[call.id] \in Statuses \cup {"none"}
  BY <1>3 DEF TypeOK, AppType
<1>5. Header.code = "none"
  BY <1>1, <1>2, <1>4 DEF Granted
<1>6. emq_get_error(Header) = "NONE"
  BY <1>5 DEF emq_get_error
<1> QED
  BY <1>1, <1>6 DEF Fail, Return, SetResult, Desync

LEMMA CompleteList ==
  ASSUME Granted, TypeOK, Inv, EventInv, ListInv, pc \in InCall, ReadingUnchanged,
         Complete(call.c, call.id, call.arg, TRUE), Leave
  PROVE  ListInv'
<1> SUFFICES ASSUME trusted', conn' = "up", NEW q \in Queues,
                    Named(queue_subscriptions', q) = {}, ~Subscribing(q)'
             PROVE  Cancelled(q)'
  BY DEF ListInv, Named
<1>1. conn = "up" /\ UNCHANGED <<outbox, subs>> /\ trusted
  BY CompleteDone DEF ReadingUnchanged, serverVars
<1>2. \/ Named(queue_subscriptions, q) = {} /\ ~(call.c.effect = "qsub" /\ call.arg.name = q)
      \/ call.c.effect = "qunsub" /\ call.arg.name = q
  <2>1. call.arg \in Arguments(call.c) /\ ~Oom
    BY DEF TypeOK, FrameType, Granted
  <2> DEFINE c == call.c
             id == call.id
             arg == call.arg
  <2>2. /\ Complete(c, id, arg, TRUE) /\ Named(queue_subscriptions', q) = {}
        /\ arg \in Arguments(c)
    BY <2>1
  <2> HIDE DEF c, id, arg
  <2>3. \/ Named(queue_subscriptions, q) = {} /\ ~(c.effect = "qsub" /\ arg.name = q)
        \/ c.effect = "qunsub" /\ arg.name = q
    BY <2>1, <2>2, CompleteQueues
  <2> QED
    BY <2>3 DEF c, arg
<1>3. Cancelled(q)' <=> Cancelled(q)
  BY <1>1 DEF Cancelled, Requests
<1>4. CASE call.c.effect = "qunsub"
  <2>1. ~subscribed
    BY <1>4 DEF EventInv, Commanding, Subscribes
  <2>2. subs = {} /\ \A j \in 1..Len(outbox) : ~WillSubscribe(outbox[j])
    BY <2>1 DEF Inv, ReplyInv, NotSubscribed
  <2>3. Cancelled(q)
    BY <2>2 DEF Cancelled, Requests, WillSubscribe, Subscribes
  <2> QED
    BY <1>3, <2>3
<1>5. CASE call.c.effect # "qunsub"
  <2>1. ~Subscribing(q)
    BY <1>2, <1>5 DEF Subscribing
  <2> QED
    BY <1>1, <1>2, <1>3, <1>5, <2>1 DEF ListInv
<1> QED
  BY <1>4, <1>5

LEMMA CallList ==
  ASSUME Granted, TypeOK, Inv, EventInv, ListInv, CallStep
  PROVE  ListInv'
<1>1. ASSUME NEW err \in Desync, Fail(err) PROVE ~trusted'
  BY <1>1 DEF Fail, Return, SetResult
<1>2. CASE ReplyReadFails \/ ReplyRejected \/ BodyFails \/ TagFails
  <2>1. PICK err \in Desync : Fail(err)
    BY <1>2 DEF ReplyReadFails, ReplyRejected, BodyFails, TagFails, Desync
  <2> QED
    BY <1>1, <2>1, ListGivenUp
<1>3. CASE ReplyStatus
  BY <1>3, StatusList, ListGivenUp
<1>4. ASSUME ReadingUnchanged, queue_subscriptions' = queue_subscriptions,
             trusted' => trusted, \A q : Subscribing(q) => Subscribing(q)'
      PROVE  ListInv'
  BY <1>4, ListStill DEF ReadingUnchanged, serverVars
<1>5. CASE ReplySuccess
  <2>1. CASE Complete(call.c, call.id, call.arg, TRUE) /\ Leave
    BY <1>5, <2>1, CompleteList DEF ReplySuccess, InCall
  <2>2. CASE /\ pc' = IF call.c.body = "message" THEN "tag" ELSE "body"
             /\ UNCHANGED <<call, trusted, queue_subscriptions>>
    <3>1. \A q : Subscribing(q) => Subscribing(q)'
      BY <2>2 DEF Subscribing, InCall
    <3> QED
      BY <1>4, <1>5, <2>2, <3>1 DEF ReplySuccess
  <2> QED
    BY <1>5, <2>1, <2>2 DEF ReplySuccess
<1>6. pc \in {"body", "tag", "message"} => \A q : ~Subscribing(q)
  BY DEF Inv, ReplyInv, Waiting, Subscribing, Subscribes, InCall
<1>7. CASE BodyRead
  <2>1. CASE Return(call.c, call.id, TRUE, "OK", "NONE")
             /\ UNCHANGED <<queue_subscriptions, channel_subscriptions>>
    <3>1. trusted' => trusted
      BY <2>1, Zenon DEF Return, SetResult
    <3> QED
      BY <1>4, <1>6, <1>7, <2>1, <3>1 DEF BodyRead
  <2>2. CASE Fail("ALLOC")
    BY <1>1, <2>2, ListGivenUp DEF Desync
  <2> QED
    BY <1>7, <2>1, <2>2 DEF BodyRead
<1>8. CASE MessageRead
  <2>1. trusted' => trusted
    BY <1>8, Zenon DEF MessageRead, Return, SetResult
  <2> QED
    BY <1>4, <1>6, <1>8, <2>1 DEF MessageRead
<1>9. CASE TagRead \/ MessageFails
  BY <1>4, <1>6, <1>9 DEF TagRead, MessageFails, clientVars
<1> QED
  BY <1>2, <1>3, <1>5, <1>7, <1>8, <1>9 DEF CallStep

\* The server takes a request.
LEMMA ServerList ==
  ASSUME Granted, TypeOK, ListInv, NEW code \in Statuses, ServerStep(code)
  PROVE  ListInv'
<1> SUFFICES ASSUME trusted', conn' = "up", NEW q \in Queues,
                    Named(queue_subscriptions', q) = {}, ~Subscribing(q)'
             PROVE  Cancelled(q)'
  BY DEF ListInv, Named
<1>1. /\ UNCHANGED <<conn, pc, call, queue_subscriptions, trusted>>
      /\ subs' = SubsAfter(Head(outbox), "SUCCESS")
  BY DEF ServerStep, clientVars, frameVars, appVars, Granted
<1>2. Cancelled(q)
  BY <1>1 DEF ListInv, Named, Subscribing
<1> DEFINE rq == outbox[1]
           n == Len(outbox)
<1>3. /\ Head(outbox) = rq /\ n \in Nat \ {0} /\ rq \in RequestFrames /\ rq.whole
      /\ Len(outbox') = n - 1 /\ \A j \in 1..(n - 1) : outbox'[j] = outbox[j + 1]
  <2>1. outbox \in Seq(RequestFrames)
    BY DEF TypeOK, StreamType
  <2> QED
    BY <2>1, Taken
<1>4. rq.arg \in Arguments(rq.c)
  BY <1>3 DEF RequestFrames
<1>5. /\ \A j \in 1..n : Requests(outbox[j], "qsub", q) =>
           \E k \in (j + 1)..n : Requests(outbox[k], "qunsub", q)
      /\ (\E s \in subs : s.via = "QUEUE_SUBSCRIBE" /\ s.name = q) =>
           \E k \in 1..n : Requests(outbox[k], "qunsub", q)
  BY <1>2 DEF Cancelled
<1> HIDE DEF rq, n
<1>6. ASSUME NEW j \in 1..(n - 1), Requests(outbox'[j], "qsub", q)
      PROVE  \E k \in (j + 1)..(n - 1) : Requests(outbox'[k], "qunsub", q)
  <2>1. j + 1 \in 1..n /\ outbox'[j] = outbox[j + 1]
    BY <1>3
  <2>2. PICK k \in ((j + 1) + 1)..n : Requests(outbox[k], "qunsub", q)
    BY <1>5, <1>6, <2>1
  <2>3. k - 1 \in (j + 1)..(n - 1) /\ k - 1 \in 1..(n - 1) /\ (k - 1) + 1 = k
    BY <1>3
  <2>4. outbox'[k - 1] = outbox[k]
    BY <1>3, <2>3
  <2> QED
    BY <2>2, <2>3, <2>4
<1>7. ASSUME NEW s \in subs', s.via = "QUEUE_SUBSCRIBE", s.name = q
      PROVE  \E k \in 1..(n - 1) : Requests(outbox'[k], "qunsub", q)
  <2>1. ASSUME NEW k \in 2..n, Requests(outbox[k], "qunsub", q)
        PROVE  \E i \in 1..(n - 1) : Requests(outbox'[i], "qunsub", q)
    <3>1. k - 1 \in 1..(n - 1) /\ (k - 1) + 1 = k
      BY <1>3
    <3>2. outbox'[k - 1] = outbox[k]
      BY <1>3, <3>1
    <3> QED
      BY <2>1, <3>1, <3>2
  <2>2. CASE s \notin subs
    <3>1. rq.c.effect \in {"qsub", "csub"} /\ s = rq.arg
      BY <1>1, <1>3, <1>7, <2>2 DEF SubsAfter
    <3>2. rq.c.effect = "qsub"
      BY <1>4, <1>7, <3>1 DEF Arguments, Via
    <3>3. Requests(outbox[1], "qsub", q)
      BY <1>3, <1>7, <3>1, <3>2 DEF Requests, rq
    <3>4. \E k \in (1 + 1)..n : Requests(outbox[k], "qunsub", q)
      BY <1>3, <1>5, <3>3
    <3> QED
      BY <2>1, <3>4
  <2>3. CASE s \in subs
    <3>1. PICK k \in 1..n : Requests(outbox[k], "qunsub", q)
      BY <1>5, <1>7, <2>3
    <3>2. CASE k = 1
      <4>1. rq.c.effect = "qunsub" /\ rq.arg.name = q
        BY <3>1, <3>2 DEF Requests, rq
      <4>2. s # rq.arg
        BY <1>1, <1>3, <1>7, <4>1 DEF SubsAfter
      <4>3. s \in Sub /\ rq.arg \in Sub /\ rq.arg.via = "QUEUE_SUBSCRIBE"
        BY <1>4, <2>3, <4>1 DEF TypeOK, AppType, Arguments
      <4>4. s = [via |-> "QUEUE_SUBSCRIBE", name |-> q, topic |-> ""]
        BY <1>7, <4>3 DEF Sub
      <4>5. rq.arg = [via |-> "QUEUE_SUBSCRIBE", name |-> q, topic |-> ""]
        BY <4>1, <4>3 DEF Sub
      <4> QED
        BY <4>2, <4>4, <4>5
    <3>3. CASE k # 1
      <4>1. k \in 2..n
        BY <1>3, <3>3
      <4> QED
        BY <2>1, <3>1, <4>1
    <3> QED
      BY <3>2, <3>3
  <2> QED
    BY <2>2, <2>3
<1> QED
  BY <1>3, <1>6, <1>7 DEF Cancelled, Requests

LEMMA AppList ==
  ASSUME Granted, TypeOK, ListInv, AppStep
  PROVE  ListInv'
<1>1. CASE emq_connect \/ emq_disconnect \/ Restart
  <2>1. outbox' = <<>> /\ subs' = {}
    BY <1>1 DEF emq_connect, emq_disconnect, Restart, NewStreams
  <2>2. Len(outbox') = 0
    BY <2>1
  <2>3. \A q : Cancelled(q)'
    BY <2>1, <2>2 DEF Cancelled
  <2> QED
    BY <2>3 DEF ListInv
<1>2. ASSUME pc \in {"idle", "callback"}, trusted' => trusted,
             UNCHANGED <<queue_subscriptions, outbox, subs, conn>>
      PROVE  ListInv'
  BY <1>2, ListStill DEF Subscribing, InCall
<1>3. CASE emq_noack_enable \/ emq_noack_disable
  BY <1>2, <1>3 DEF emq_noack_enable, emq_noack_disable, SetNoack, appVars, serverVars
<1>4. CASE \E c \in Calls : CallRejected(c)
  <2>1. PICK c \in Calls : CallRejected(c)
    BY <1>4
  <2>2. trusted' => trusted
    BY <2>1, Zenon DEF CallRejected, SetResult
  <2> QED
    BY <1>2, <2>1, <2>2 DEF CallRejected, MayCall, serverVars
<1>5. CASE emq_process \/ \E stop \in BOOLEAN : CallbackReturns(stop)
  BY <1>2, <1>5 DEF emq_process, CallbackReturns, ProcessUnchanged, serverVars
<1>6. CASE \E c \in Calls : \E arg \in Arguments(c) : CallWriteFails(c, arg)
  <2>1. ~trusted'
    BY <1>6 DEF CallWriteFails, SetResult, Desync
  <2> QED
    BY <2>1, ListGivenUp
<1>7. CASE \E c \in Calls : \E arg \in Arguments(c) : CallSent(c, arg)
  BY <1>7, CallSentList
<1> QED
  BY <1>1, <1>3, <1>4, <1>5, <1>6, <1>7 DEF AppStep

LEMMA NextList ==
  ASSUME Granted, TypeOK, Inv, EventInv, ListInv, [Next]_vars
  PROVE  ListInv'
<1>1. CASE UNCHANGED vars
  <2>1. UNCHANGED <<conn, pc, call, queue_subscriptions, outbox, subs, trusted>>
    BY <1>1 DEF vars, clientVars, frameVars, appVars, serverVars
  <2>2. \A q : Subscribing(q) => Subscribing(q)'
    BY <2>1 DEF Subscribing
  <2> QED
    BY <2>1, <2>2, ListStill
<1>2. CASE ProcessStep
  <2>1. ProcessUnchanged /\ pc \in {"event", "fields", "payload"} /\ (trusted' => trusted)
    BY <1>2 DEF ProcessStep, EventReadFails, EventRejected, EventHeader, EventFieldsFail,
       EventNotFound, EventFound, EventMessage, EventMessageFails, ProcessFails
  <2>2. UNCHANGED <<conn, queue_subscriptions, outbox, subs>>
    BY <2>1 DEF ProcessUnchanged, serverVars
  <2>3. \A q : ~Subscribing(q)
    BY <2>1 DEF Subscribing, InCall
  <2> QED
    BY <2>1, <2>2, <2>3, ListStill
<1>3. CASE \E s \in Sub, type \in protocol_event_type : SendEvent(s, type)
  <2>1. UNCHANGED <<conn, pc, call, queue_subscriptions, outbox, subs, trusted>>
    BY <1>3 DEF SendEvent, clientVars, frameVars, appVars
  <2>2. \A q : Subscribing(q) => Subscribing(q)'
    BY <2>1 DEF Subscribing
  <2> QED
    BY <2>1, <2>2, ListStill
<1>4. CASE ServerMisframe \/ Drop
  <2>1. conn' # "up"
    BY <1>4 DEF ServerMisframe, Drop, Break
  <2> QED
    BY <2>1, ListGivenUp
<1>5. CASE Serve
  BY <1>5, ServerList DEF Serve
<1>6. CASE AppStep
  BY <1>6, AppList
<1>7. CASE CallStep
  BY <1>7, CallList
<1> QED
  BY <1>1, <1>2, <1>3, <1>4, <1>5, <1>6, <1>7 DEF Next, ServerOrNetworkStep

LEMMA InitList == Init => ListInv
BY DEF Init, ListInv

\* At rest, every queue the server sends events for is in the list of a disciplined
\* application, so emq_process finds a callback for each of its events: whatever
\* was subscribed to and unsubscribed from before, in noack mode or not, in
\* callbacks or outside, on this connection or an earlier one.
THEOREM QueueListedCorrect ==
  ASSUME Disciplined, Granted PROVE Spec => []QueueListed
<1>1. Init => ListInv
  BY InitList
<1>2. (TypeOK /\ Inv /\ EventInv) /\ ListInv /\ [Next]_vars => ListInv'
  BY NextList
<1>3. TypeOK /\ ListInv => QueueListed
  <2> SUFFICES ASSUME TypeOK, ListInv, Quiet, NEW s \in subs, s.via = "QUEUE_SUBSCRIBE",
                      Named(queue_subscriptions, s.name) = {}
               PROVE  FALSE
    BY DEF QueueListed
  <2>1. s.name \in Queues
    <3>1. s \in Sub
      BY DEF TypeOK, AppType
    <3> QED
      BY <3>1 DEF Sub
  <2>2. ~Subscribing(s.name) /\ trusted /\ conn = "up" /\ Len(outbox) = 0
    BY DEF Quiet, Subscribing, InCall
  <2>3. Cancelled(s.name)
    BY <2>1, <2>2 DEF ListInv
  <2> QED
    BY <2>2, <2>3 DEF Cancelled
<1> QED
  BY <1>1, <1>2, <1>3, EventInvariant, PTL DEF Spec
=============================================================================
