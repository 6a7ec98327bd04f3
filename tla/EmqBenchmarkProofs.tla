------------------------ MODULE EmqBenchmarkProofs ------------------------
(***************************************************************************)
(* The benchmark for any number of clients and messages: the shared data   *)
(* is there while a worker reads it, every worker pushes its share, only   *)
(* workers can copy a half-written address, and the size printed counts    *)
(* this run's pushes.                                                      *)
(***************************************************************************)
EXTENDS EmqBenchmark, FiniteSetTheorems, TLAPS

USE BenchmarkAssumption

(***************************************************************************)
(* The inductive invariant.                                                *)
(***************************************************************************)
Connecting == {"connect", "lookup", "copy", "socket", "auth"}
Mains == {"setup", "message", "threads", "join", "print", "cleanup", "end", "exit", "crashed"}
CleanupSteps == {"exist", "size", "delete"}
Steps == Connecting \cup CleanupSteps \cup {"none", "declare", "create", "push", "ended"}

Configs == [clients : 0..MaxClients, messages : 0..MaxMessages, noack : BOOLEAN,
            expiration : BOOLEAN, host : Hosts]

BenchType ==
  /\ config \in Configs
  /\ main \in Mains /\ step \in [Threads -> Steps] /\ next \in Nat \ {0}
  /\ i \in [Threads -> Nat]
  /\ addr \in [Threads -> {"none", "server", "wrong"}]
  /\ queue \in [exists : BOOLEAN, messages : SUBSET (Threads \X Nat)]
  /\ pending \subseteq Threads \X Nat /\ lost \subseteq Threads \X Nat
  /\ refused \subseteq Threads

\* Which threads are running, by the phase of main.
Phases ==
  /\ step[Main] \in Connecting \cup CleanupSteps \cup {"none", "ended"}
  /\ step[Main] \in Connecting \cup CleanupSteps => main \in {"setup", "cleanup"} \cup Over
  /\ \A t \in Threads : t # Main /\ step[t] # "none" => t <= config.clients
  /\ main \in {"setup", "message"} => \A t \in Threads : t # Main => step[t] = "none"
  /\ main = "threads" => \A t \in Threads : t # Main /\ step[t] # "none" => t < next
  /\ main = "join" => \A t \in Threads : t # Main /\ t < next => step[t] = "ended"
  /\ main \in {"print", "cleanup", "end"} =>
       \A t \in Threads : t # Main /\ t <= config.clients => step[t] = "ended"

\* The shared data.
Shared == ~used /\ (main \in {"threads", "join", "print"} => message_data = "allocated")

\* The resolver: a thread about to copy from a buffer that is not complete is
\* one of several workers.
Resolver ==
  /\ \A t \in Threads : step[t] \in {"lookup", "copy"} => config.host = "name"
  /\ \A t \in Threads : step[t] = "copy" /\ he # "address" => t # Main /\ config.clients > 1

\* The pushes of each worker.
Pushing ==
  \A t \in Threads : t # Main =>
    /\ step[t] \notin {"push", "ended"} => i[t] = 0
    /\ step[t] = "push" => i[t] <= Pushes
    /\ step[t] = "ended" /\ t \notin refused /\ main # "crashed" => i[t] = Pushes

\* The pushes the server knows or will know of: those the workers made, and
\* one that was reported to its worker as a failure.
Known == queue.messages \cup pending \cup lost

KnownWasMade ==
  \A p \in Known : p[1] # Main /\ p[2] >= 1 /\ (p[2] <= i[p[1]] \/ p[1] \in refused)
MadeIsKnown ==
  \A t \in Threads, k \in Nat : t # Main /\ 1 <= k /\ k <= i[t] => <<t, k>> \in Known

Counting == {"message", "threads", "join", "print", "cleanup"}

Accounted ==
  /\ ~config.noack => pending = {}
  /\ ~config.noack /\ ~config.expiration => lost = {}
  /\ main = "setup" => pending = {} /\ lost = {} /\ queue.messages \subseteq {Leftover}
  /\ main \in Counting => queue.exists /\ KnownWasMade /\ MadeIsKnown

\* What main printed stays what it was when it was read.
Sized ==
  main = "cleanup" /\ step[Main] = "delete" /\ refused = {} /\ config.clients > 0 =>
    /\ size <= Cardinality(Shares)
    /\ ~config.noack /\ ~config.expiration => size = Cardinality(Shares)

BenchInv ==
  /\ BenchType /\ Phases /\ Shared /\ Resolver /\ Pushing
  /\ Accounted /\ Sized /\ AddressRace

LEMMA QueueTypes ==
  /\ NoQueue \in [exists : BOOLEAN, messages : SUBSET (Threads \X Nat)]
  /\ NewQueue \in [exists : BOOLEAN, messages : SUBSET (Threads \X Nat)]
  /\ OldQueue \in [exists : BOOLEAN, messages : SUBSET (Threads \X Nat)]
  /\ NoQueue.messages = {} /\ NewQueue.messages = {} /\ OldQueue.messages = {Leftover}
  /\ NewQueue.exists
<1> DEFINE S == SUBSET (Threads \X Nat)
<1>1. {} \in S /\ {Leftover} \in S
  BY DEF Leftover, Threads, Main
<1> HIDE DEF S
<1>2. /\ NoQueue \in [exists : BOOLEAN, messages : S]
      /\ NewQueue \in [exists : BOOLEAN, messages : S]
      /\ OldQueue \in [exists : BOOLEAN, messages : S]
  BY <1>1 DEF NoQueue, NewQueue, OldQueue
<1>3. /\ NoQueue.messages = {} /\ NewQueue.messages = {} /\ OldQueue.messages = {Leftover}
      /\ NewQueue.exists
  BY DEF NoQueue, NewQueue, OldQueue
<1> QED
  BY <1>2, <1>3 DEF S

LEMMA InitBench == Init => BenchInv
<1> SUFFICES ASSUME Init PROVE BenchInv
  OBVIOUS
<1>1. /\ config \in Configs /\ main = "setup" /\ next = 1
      /\ step = [t \in Threads |-> IF t = Main THEN "connect" ELSE "none"]
      /\ i = [t \in Threads |-> 0] /\ pending = {} /\ lost = {}
      /\ addr = [t \in Threads |-> "none"] /\ refused = {} /\ used = FALSE
      /\ he = "empty" /\ queue \in {NoQueue, NewQueue, OldQueue}
  BY DEF Init, Configs
<1>2. Main \in Threads
  BY DEF Main, Threads
<1>3. /\ queue \in [exists : BOOLEAN, messages : SUBSET (Threads \X Nat)]
      /\ queue.messages \subseteq {Leftover}
  BY <1>1, QueueTypes
<1>4. BenchType
  BY <1>1, <1>3 DEF BenchType, Mains, Steps, Connecting
<1>5. Phases
  BY <1>1, <1>2 DEF Phases, Connecting
<1>6. Shared /\ Resolver
  BY <1>1, <1>2 DEF Shared, Resolver
<1>7. Pushing
  BY <1>1 DEF Pushing
<1>8. AddressRace /\ Sized
  BY <1>1 DEF AddressRace, Sized
<1>9. Accounted
  BY <1>1, <1>3 DEF Accounted, Counting
<1> QED
  BY <1>4, <1>5, <1>6, <1>7, <1>8, <1>9 DEF BenchInv

\* What truncated division leaves (the split of the messages over the workers).
LEMMA DivMod ==
  ASSUME NEW m \in Nat, NEW n \in Nat, n > 0
  PROVE  (m \div n) \in Nat /\ ((m \div n) * n) + (m % n) = m
OBVIOUS

(***************************************************************************)
(* Facts about every step of a thread.                                     *)
(***************************************************************************)
LEMMA MainThread == Main \in Threads /\ Main = 0 /\ Threads \subseteq Nat
BY DEF Main, Threads

\* A running thread that goes on, or ends, keeps the phases.
LEMMA PhasesThread ==
  ASSUME BenchInv, NEW t \in Threads, NEW w \in Steps \ {"none"}, main \notin Over,
         step[t] \notin {"none", "ended"}, step' = [step EXCEPT ![t] = w],
         t = Main => w \in Connecting \cup {"ended"},
         UNCHANGED <<config, next>>, main' = main \/ main' \in {"exit", "crashed"}
  PROVE  Phases' /\ step' \in [Threads -> Steps] /\ main' \in Mains
<1>1. /\ Phases /\ step \in [Threads -> Steps] /\ main \in Mains
  BY DEF BenchInv, BenchType
<1>2. step' \in [Threads -> Steps] /\ main' \in Mains
  BY <1>1 DEF Mains
<1>3. \A u \in Threads : step'[u] = IF u = t THEN w ELSE step[u]
  BY <1>1
<1>4. main' \in {"exit", "crashed"} \/ main' = main
  OBVIOUS
<1>5. (step[Main] \in Connecting \cup CleanupSteps \cup {"none", "ended"})'
  <2>1. step'[Main] = step[Main] \/ (t = Main /\ step'[Main] = w)
    BY <1>3, MainThread
  <2>2. step[Main] \in Connecting \cup CleanupSteps \cup {"none", "ended"}
    BY <1>1 DEF Phases
  <2>3. step'[Main] \in Connecting \cup CleanupSteps \cup {"none", "ended"}
    BY <2>1, <2>2
  <2> QED
    BY <2>3 DEF Main
<1>6. (step[Main] \in Connecting \cup CleanupSteps => main \in {"setup", "cleanup"} \cup Over)'
  <2>1. step'[Main] = step[Main] \/ t = Main
    BY <1>3, MainThread
  <2>2. /\ step[Main] \in Connecting \cup CleanupSteps \cup {"none", "ended"}
        /\ step[Main] \in Connecting \cup CleanupSteps => main \in {"setup", "cleanup"} \cup Over
    BY <1>1 DEF Phases
  <2>3. step'[Main] \in Connecting \cup CleanupSteps => main' \in {"setup", "cleanup"} \cup Over
    BY <1>4, <2>1, <2>2 DEF Over
  <2> QED
    BY <2>3 DEF Main, Over
<1>7. (\A u \in Threads : u # Main /\ step[u] # "none" => u <= config.clients)'
  BY <1>1, <1>3 DEF Phases
<1>8. t # Main => main \notin {"setup", "message", "print", "cleanup", "end"}
  BY <1>1 DEF Phases
<1>9. (main \in {"setup", "message"} => \A u \in Threads : u # Main => step[u] = "none")'
  BY <1>1, <1>3, <1>8 DEF Phases
<1>10. (main = "threads" => \A u \in Threads : u # Main /\ step[u] # "none" => u < next)'
  BY <1>1, <1>3 DEF Phases
<1>11. (main = "join" => \A u \in Threads : u # Main /\ u < next => step[u] = "ended")'
  BY <1>1, <1>3 DEF Phases
<1>12. (main \in {"print", "cleanup", "end"} =>
          \A u \in Threads : u # Main /\ u <= config.clients => step[u] = "ended")'
  BY <1>1, <1>3, <1>8 DEF Phases
<1> QED
  BY <1>2, <1>5, <1>6, <1>7, <1>9, <1>10, <1>11, <1>12 DEF Phases

\* Nothing the accounts depend on changes, or a thread has failed.
LEMMA ServerSame ==
  ASSUME BenchInv, UNCHANGED <<config, i, queue, pending, lost, size>>, refused \subseteq refused',
         main' \in Counting => main \in Counting, main' = "setup" => main = "setup",
         main' = "cleanup" /\ step'[Main] = "delete" => main = "cleanup" /\ step[Main] = "delete"
  PROVE  Accounted' /\ Sized'
<1>1. Accounted /\ Sized
  BY DEF BenchInv
<1>2. Known' = Known /\ Shares' = Shares
  BY DEF Known, Shares, Workers, Pushes
<1>3. KnownWasMade => KnownWasMade'
  BY <1>2 DEF KnownWasMade
<1>4. MadeIsKnown => MadeIsKnown'
  BY <1>2 DEF MadeIsKnown
<1>5. Accounted'
  BY <1>1, <1>3, <1>4 DEF Accounted
<1>6. Sized'
  BY <1>1, <1>2 DEF Sized
<1> QED
  BY <1>5, <1>6

\* The same for a thread that moves anywhere but to the deletion.
LEMMA ServerSameThread ==
  ASSUME BenchInv, NEW t \in Threads, NEW w, w # "delete", step' = [step EXCEPT ![t] = w],
         UNCHANGED <<config, i, queue, pending, lost, size>>, refused \subseteq refused',
         main' = main \/ main' \in {"exit", "crashed"}
  PROVE  Accounted' /\ Sized'
<1>1. step \in [Threads -> Steps]
  BY DEF BenchInv, BenchType
<1>2. step'[Main] = step[Main] \/ step'[Main] = w
  BY <1>1, MainThread
<1> QED
  BY <1>2, ServerSame DEF Counting

\* A thread that does not enter the resolver keeps the resolver's state.
LEMMA ResolverKept ==
  ASSUME BenchInv, NEW t \in Threads, NEW w, w \notin {"lookup", "copy"},
         step' = [step EXCEPT ![t] = w], UNCHANGED <<config, he>>
  PROVE  Resolver'
<1>1. step \in [Threads -> Steps] /\ Resolver
  BY DEF BenchInv, BenchType
<1>2. \A u \in Threads : step'[u] = IF u = t THEN w ELSE step[u]
  BY <1>1
<1> QED
  BY <1>1, <1>2 DEF Resolver

\* The pushes when a thread moves before its loop.
LEMMA PushingBefore ==
  ASSUME BenchInv, NEW t \in Threads, NEW w, w \notin {"push", "ended"},
         step[t] \notin {"push", "ended"}, step' = [step EXCEPT ![t] = w],
         UNCHANGED <<config, i>>, main' # "crashed" => main # "crashed",
         refused \subseteq refused'
  PROVE  Pushing'
<1>1. step \in [Threads -> Steps] /\ Pushing
  BY DEF BenchInv, BenchType
<1>2. \A u \in Threads : step'[u] = IF u = t THEN w ELSE step[u]
  BY <1>1
<1>3. Pushes' = Pushes
  BY DEF Pushes
<1> QED
  BY <1>1, <1>2, <1>3 DEF Pushing

\* The pushes when a thread ends with a failure.
LEMMA PushingFailed ==
  ASSUME BenchInv, NEW t \in Threads, step[t] \notin {"none", "ended"},
         step' = [step EXCEPT ![t] = "ended"],
         UNCHANGED <<config, i>>, main' # "crashed" => main # "crashed",
         refused \subseteq refused', t \in refused' \/ main' = "crashed"
  PROVE  Pushing'
<1>1. step \in [Threads -> Steps] /\ Pushing
  BY DEF BenchInv, BenchType
<1>2. \A u \in Threads : step'[u] = IF u = t THEN "ended" ELSE step[u]
  BY <1>1
<1>3. Pushes' = Pushes
  BY DEF Pushes
<1> QED
  BY <1>1, <1>2, <1>3 DEF Pushing

(***************************************************************************)
(* Connecting.                                                             *)
(***************************************************************************)
\* Only one thread connects while main does.
LEMMA MainAlone ==
  ASSUME BenchInv, main \notin Over, step[Main] \in Connecting, NEW t \in Threads, t # Main
  PROVE  step[t] \in {"none", "ended"}
<1>1. Phases /\ config \in Configs
  BY DEF BenchInv, BenchType
<1>2. main \in {"setup", "cleanup"}
  BY <1>1 DEF Phases
<1> QED
  BY <1>1, <1>2 DEF Phases

\* Two threads that connect at the same time are workers.
LEMMA TwoConnect ==
  ASSUME BenchInv, main \notin Over, NEW t \in Threads, NEW u \in Threads, t # u,
         step[t] \in Connecting, step[u] \in Connecting
  PROVE  t # Main /\ u # Main /\ config.clients > 1
<1>1. Phases /\ config.clients \in Nat
  BY DEF BenchInv, BenchType, Configs
<1>2. t # Main /\ u # Main
  BY MainAlone DEF Connecting
<1>3. t <= config.clients /\ u <= config.clients
  BY <1>1, <1>2 DEF Phases, Connecting, CleanupSteps
<1>4. t \in Nat /\ u \in Nat /\ Main = 0
  BY MainThread
<1> QED
  BY <1>1, <1>2, <1>3, <1>4

LEMMA ResolveBench ==
  ASSUME BenchInv, main \notin Over, NEW t \in Threads, Resolve(t)
  PROVE  BenchInv'
<1> DEFINE w == IF config.host = "name" THEN "lookup" ELSE "socket"
<1>1. /\ step[t] = "connect" /\ step' = [step EXCEPT ![t] = w]
      /\ UNCHANGED <<config, main, next, i, message_data, queue, pending, lost, size, used, refused>>
      /\ he' = (IF config.host = "name" THEN "partial" ELSE he)
      /\ addr' = (IF config.host = "name" THEN addr ELSE [addr EXCEPT ![t] = "server"])
  BY DEF Resolve, Goto, ConnectUnchanged, serverVars
<1>2. /\ BenchType /\ Phases /\ Shared /\ Resolver /\ Pushing /\ AddressRace
  BY DEF BenchInv
<1>3. w \in {"lookup", "socket"}
  OBVIOUS
<1>4. \A u \in Threads : step'[u] = IF u = t THEN w ELSE step[u]
  BY <1>1, <1>2 DEF BenchType
<1>5. w = "lookup" <=> config.host = "name"
  OBVIOUS
<1> HIDE DEF w
<1>6. Phases' /\ step' \in [Threads -> Steps] /\ main' \in Mains
  BY <1>1, <1>3, PhasesThread DEF Steps, Connecting
<1>7. BenchType'
  BY <1>1, <1>2, <1>6 DEF BenchType
<1>8. Resolver'
  <2>1. \A u \in Threads : step'[u] \in {"lookup", "copy"} => config.host = "name"
    BY <1>2, <1>3, <1>4, <1>5 DEF Resolver
  <2>2. ASSUME NEW u \in Threads, step'[u] = "copy", he' # "address"
        PROVE  u # Main /\ config.clients > 1
    <3>1. u # t /\ step[u] = "copy"
      BY <1>3, <1>4, <2>2
    <3> QED
      BY <1>1, <3>1, TwoConnect DEF Connecting
  <2> QED
    BY <1>1, <2>1, <2>2 DEF Resolver
<1>9. Pushing'
  BY <1>1, <1>3, PushingBefore
<1>10. Accounted' /\ Sized'
  BY <1>1, <1>3, ServerSameThread
<1>11. AddressRace'
  BY <1>1, <1>2 DEF AddressRace, BenchType
<1> QED
  BY <1>1, <1>2, <1>6, <1>7, <1>8, <1>9, <1>10, <1>11 DEF BenchInv, Shared

LEMMA GethostbynameBench ==
  ASSUME BenchInv, main \notin Over, NEW t \in Threads, gethostbyname(t)
  PROVE  BenchInv'
<1>1. /\ step[t] = "lookup" /\ step' = [step EXCEPT ![t] = "copy"] /\ he' = "address"
      /\ UNCHANGED <<config, main, next, i, message_data, queue, pending, lost, size, used,
                     refused, addr>>
  BY DEF gethostbyname, Goto, ConnectUnchanged, serverVars
<1>2. /\ BenchType /\ Phases /\ Shared /\ Resolver /\ Pushing /\ AddressRace
  BY DEF BenchInv
<1>3. \A u \in Threads : step'[u] = IF u = t THEN "copy" ELSE step[u]
  BY <1>1, <1>2 DEF BenchType
<1>4. Phases' /\ step' \in [Threads -> Steps] /\ main' \in Mains
  BY <1>1, PhasesThread DEF Steps, Connecting
<1>5. BenchType'
  BY <1>1, <1>2, <1>4 DEF BenchType
<1>6. Resolver'
  BY <1>1, <1>2, <1>3 DEF Resolver
<1>7. Pushing'
  BY <1>1, PushingBefore
<1>8. Accounted' /\ Sized'
  BY <1>1, ServerSameThread
<1>9. AddressRace'
  BY <1>1, <1>2 DEF AddressRace
<1> QED
  BY <1>1, <1>2, <1>4, <1>5, <1>6, <1>7, <1>8, <1>9 DEF BenchInv, Shared

\* What is copied from an incomplete buffer is copied by one of several workers.
LEMMA CopyAddressBench ==
  ASSUME BenchInv, main \notin Over, NEW t \in Threads, CopyAddress(t)
  PROVE  BenchInv'
<1> DEFINE a == IF he = "address" THEN "server" ELSE "wrong"
<1>1. /\ step[t] = "copy" /\ step' = [step EXCEPT ![t] = "socket"]
      /\ addr' = [addr EXCEPT ![t] = a]
      /\ UNCHANGED <<config, main, next, i, message_data, queue, pending, lost, size, used,
                     refused, he>>
  BY DEF CopyAddress, Goto, ConnectUnchanged, serverVars
<1>2. /\ BenchType /\ Phases /\ Shared /\ Resolver /\ Pushing /\ AddressRace
  BY DEF BenchInv
<1>3. a \in {"server", "wrong"} /\ (a = "wrong" => he # "address")
  OBVIOUS
<1> HIDE DEF a
<1>4. Phases' /\ step' \in [Threads -> Steps] /\ main' \in Mains
  BY <1>1, PhasesThread DEF Steps, Connecting
<1>5. BenchType'
  BY <1>1, <1>2, <1>3, <1>4 DEF BenchType
<1>6. Resolver'
  BY <1>1, ResolverKept
<1>7. Pushing'
  BY <1>1, PushingBefore
<1>8. Accounted' /\ Sized'
  BY <1>1, ServerSameThread
<1>9. a = "wrong" => t # Main /\ config.host = "name" /\ config.clients > 1
  BY <1>1, <1>2, <1>3 DEF Resolver
<1>10. AddressRace'
  BY <1>1, <1>2, <1>9 DEF AddressRace, BenchType
<1> QED
  BY <1>1, <1>2, <1>4, <1>5, <1>6, <1>7, <1>8, <1>10 DEF BenchInv, Shared

LEMMA ConnectedBench ==
  ASSUME BenchInv, main \notin Over, NEW t \in Threads, Connected(t)
  PROVE  BenchInv'
<1>1. /\ step[t] = "socket" /\ step' = [step EXCEPT ![t] = "auth"]
      /\ UNCHANGED <<config, main, next, i, message_data, queue, pending, lost, size, used,
                     refused, he, addr>>
  BY DEF Connected, Goto, ConnectUnchanged, serverVars
<1>2. /\ BenchType /\ Shared /\ AddressRace
  BY DEF BenchInv
<1>3. Phases' /\ step' \in [Threads -> Steps] /\ main' \in Mains
  BY <1>1, PhasesThread DEF Steps, Connecting
<1>4. BenchType'
  BY <1>1, <1>2, <1>3 DEF BenchType
<1>5. Resolver' /\ Pushing'
  BY <1>1, ResolverKept, PushingBefore
<1>6. Accounted' /\ Sized'
  BY <1>1, ServerSameThread
<1> QED
  BY <1>1, <1>2, <1>3, <1>4, <1>5, <1>6 DEF BenchInv, Shared, AddressRace

\* A connect that fails leaves the resolver's buffer alone, or fails in it.
LEMMA ConnectFailsBench ==
  ASSUME BenchInv, main \notin Over, NEW t \in Threads, ConnectFails(t),
         step[t] \in {"socket", "lookup"}, step[t] = "socket" => he' = he
  PROVE  BenchInv'
<1>1. /\ step' = [step EXCEPT ![t] = "ended"]
      /\ refused' = refused \cup {t} /\ (main' = main \/ main' = "exit")
      /\ UNCHANGED <<config, next, i, message_data, queue, pending, lost, size, used, addr>>
  BY DEF ConnectFails, Goto, Refused, serverVars
<1>2. /\ BenchType /\ Shared /\ Resolver /\ AddressRace
  BY DEF BenchInv
<1>3. Phases' /\ step' \in [Threads -> Steps] /\ main' \in Mains
  BY <1>1, PhasesThread DEF Steps, Connecting
<1>4. BenchType'
  BY <1>1, <1>2, <1>3 DEF BenchType
<1>5. Resolver'
  <2>1. CASE step[t] = "socket"
    BY <1>1, <2>1, ResolverKept
  <2>2. CASE step[t] = "lookup"
    <3>1. \A u \in Threads : step'[u] = IF u = t THEN "ended" ELSE step[u]
      BY <1>1, <1>2 DEF BenchType
    <3>2. \A u \in Threads : step'[u] = "copy" => u # Main /\ config.clients > 1
      BY <2>2, <3>1, TwoConnect DEF Connecting
    <3> QED
      BY <1>1, <1>2, <3>1, <3>2 DEF Resolver
  <2> QED
    BY <2>1, <2>2
<1>6. Pushing'
  BY <1>1, PushingFailed DEF Over
<1>7. Accounted' /\ Sized'
  BY <1>1, ServerSameThread
<1> QED
  BY <1>1, <1>2, <1>3, <1>4, <1>5, <1>6, <1>7 DEF BenchInv, Shared, AddressRace

(***************************************************************************)
(* The workers.                                                            *)
(***************************************************************************)
LEMMA RunningWorker ==
  ASSUME BenchInv, NEW t \in Threads, t # Main, step[t] # "none"
  PROVE  /\ t \in Workers /\ config.clients \in Nat /\ config.clients > 0
         /\ config.messages \in Nat /\ Pushes \in Nat
<1>1. config.clients \in Nat /\ config.messages \in Nat
  BY DEF BenchInv, BenchType, Configs
<1>2. t \in Nat /\ t # 0 /\ t <= config.clients
  BY MainThread DEF BenchInv, Phases
<1>3. t \in Workers /\ config.clients > 0
  BY <1>1, <1>2 DEF Workers
<1>4. Pushes \in Nat
  BY <1>1, <1>3, DivMod DEF Pushes
<1> QED
  BY <1>1, <1>3, <1>4

\* A worker that runs does so while main creates or joins threads.
LEMMA RunningPhase ==
  ASSUME BenchInv, NEW t \in Threads, t # Main, step[t] \notin {"none", "ended"}, main \notin Over
  PROVE  main \in {"threads", "join"} /\ message_data = "allocated"
<1>1. Phases /\ Shared /\ main \in Mains
  BY DEF BenchInv, BenchType
<1>2. main \in {"threads", "join"}
  BY <1>1 DEF Phases, Mains, Over
<1> QED
  BY <1>1, <1>2 DEF Shared

LEMMA WorkerSetupBench ==
  ASSUME BenchInv, main \notin Over, NEW t \in Threads, WorkerSetup(t)
  PROVE  BenchInv'
<1> DEFINE w == IF step[t] = "auth" THEN "declare" ELSE "create"
<1>1. /\ t # Main /\ step[t] \in {"auth", "declare"} /\ step' = [step EXCEPT ![t] = w]
      /\ (refused' = refused \/ refused' = refused \cup {t})
      /\ UNCHANGED <<config, main, next, i, message_data, queue, pending, lost, size, used, he, addr>>
  BY DEF WorkerSetup, WorkerUnchanged, Goto, Refused, serverVars
<1>2. /\ BenchType /\ Shared /\ AddressRace
  BY DEF BenchInv
<1>3. w \in {"declare", "create"}
  OBVIOUS
<1> HIDE DEF w
<1>4. Phases' /\ step' \in [Threads -> Steps] /\ main' \in Mains
  BY <1>1, <1>3, PhasesThread DEF Steps
<1>5. BenchType'
  BY <1>1, <1>2, <1>4 DEF BenchType
<1>6. Resolver'
  BY <1>1, <1>3, ResolverKept
<1>7. Pushing'
  BY <1>1, <1>3, PushingBefore
<1>8. Accounted' /\ Sized'
  BY <1>1, <1>3, ServerSameThread
<1> QED
  BY <1>1, <1>2, <1>4, <1>5, <1>6, <1>7, <1>8 DEF BenchInv, Shared, AddressRace

LEMMA WorkerMessageBench ==
  ASSUME BenchInv, main \notin Over, NEW t \in Threads, WorkerMessage(t)
  PROVE  BenchInv'
<1>1. /\ step[t] = "create"
      /\ \/ step' = [step EXCEPT ![t] = "push"] /\ main' = main
         \/ step' = [step EXCEPT ![t] = "ended"] /\ main' = "crashed"
      /\ UNCHANGED <<config, next, i, message_data, queue, pending, lost, size, used, he, addr,
                     refused>>
  BY DEF WorkerMessage, Goto, serverVars
<1>2. /\ BenchType /\ Phases /\ Shared /\ Pushing /\ AddressRace
  BY DEF BenchInv
<1>3. t # Main
  BY <1>1, <1>2 DEF Phases, Connecting, CleanupSteps
<1>4. Phases' /\ step' \in [Threads -> Steps] /\ main' \in Mains
  BY <1>1, <1>3, PhasesThread DEF Steps
<1>5. BenchType'
  BY <1>1, <1>2, <1>4 DEF BenchType
<1>6. Resolver'
  BY <1>1, ResolverKept
<1>7. Pushing'
  <2>1. CASE main' = "crashed" /\ step' = [step EXCEPT ![t] = "ended"]
    BY <1>1, <2>1, PushingFailed
  <2>2. CASE main' = main /\ step' = [step EXCEPT ![t] = "push"]
    <3>1. \A u \in Threads : step'[u] = IF u = t THEN "push" ELSE step[u]
      BY <1>2, <2>2 DEF BenchType
    <3>2. i[t] = 0 /\ Pushes' = Pushes /\ Pushes \in Nat
      BY <1>1, <1>2, <1>3, RunningWorker DEF Pushing, Pushes
    <3> QED
      BY <1>1, <1>2, <2>2, <3>1, <3>2 DEF Pushing
  <2> QED
    BY <1>1, <2>1, <2>2
<1>8. Accounted' /\ Sized'
  BY <1>1, ServerSameThread
<1> QED
  BY <1>1, <1>2, <1>4, <1>5, <1>6, <1>7, <1>8 DEF BenchInv, Shared, AddressRace

\* A push the server knows of, numbered next, whether it counts for the worker
\* or was reported as a failure.
LEMMA PushKnown ==
  ASSUME BenchInv, main \in Counting, NEW t \in Threads, t # Main,
         Known' = Known \/ Known' = Known \cup {<<t, i[t] + 1>>}, UNCHANGED main,
         \/ /\ Known' = Known \cup {<<t, i[t] + 1>>}
            /\ i' = [i EXCEPT ![t] = @ + 1] /\ UNCHANGED refused
         \/ i' = i /\ refused' = refused \cup {t}
  PROVE  KnownWasMade' /\ MadeIsKnown'
<1> DEFINE p == <<t, i[t] + 1>>
<1>1. /\ i \in [Threads -> Nat] /\ KnownWasMade /\ MadeIsKnown
      /\ Known \subseteq Threads \X Nat
  BY DEF BenchInv, BenchType, Accounted, Known
<1>2. p[1] = t /\ p[2] = i[t] + 1 /\ i[t] \in Nat
  BY <1>1
<1>3. \A u \in Threads : i'[u] \in Nat /\ i[u] \in Nat /\ i[u] <= i'[u] /\ (u # t => i'[u] = i[u])
  BY <1>1
<1>4. refused \subseteq refused' /\ Known \subseteq Known' /\ Known' \subseteq Known \cup {p}
  OBVIOUS
<1>5. p[2] <= i'[t] \/ t \in refused'
  BY <1>1, <1>2
<1> HIDE DEF p
<1>6. KnownWasMade'
  <2> SUFFICES ASSUME NEW q \in Known'
               PROVE  q[1] # Main /\ q[2] >= 1 /\ (q[2] <= i'[q[1]] \/ q[1] \in refused')
    BY DEF KnownWasMade
  <2>1. CASE q = p
    BY <1>2, <1>5, <2>1
  <2>2. CASE q \in Known
    <3>1. q[1] \in Threads /\ q[2] \in Nat
      BY <1>1, <2>2
    <3>2. q[1] # Main /\ q[2] >= 1 /\ (q[2] <= i[q[1]] \/ q[1] \in refused)
      BY <1>1, <2>2 DEF KnownWasMade
    <3> QED
      BY <1>3, <1>4, <3>1, <3>2
  <2> QED
    BY <1>4, <2>1, <2>2
<1>7. MadeIsKnown'
  <2> SUFFICES ASSUME NEW u \in Threads, NEW k \in Nat, u # Main, 1 <= k, k <= i'[u]
               PROVE  <<u, k>> \in Known'
    BY DEF MadeIsKnown
  <2>1. CASE k <= i[u]
    BY <1>1, <1>4, <2>1 DEF MadeIsKnown
  <2>2. CASE ~(k <= i[u])
    <3>1. u = t
      BY <1>3, <2>2
    <3>2. i' = [i EXCEPT ![t] = @ + 1] /\ Known' = Known \cup {p}
      BY <2>2 DEF p
    <3>3. k = i[t] + 1
      BY <1>1, <1>2, <2>2, <3>1, <3>2
    <3> QED
      BY <3>1, <3>2, <3>3 DEF p
  <2> QED
    BY <2>1, <2>2
<1> QED
  BY <1>6, <1>7

LEMMA WorkerPushBench ==
  ASSUME BenchInv, main \notin Over, NEW t \in Threads, WorkerPush(t)
  PROVE  BenchInv'
<1> DEFINE p == <<t, i[t] + 1>>
<1>1. /\ step[t] = "push" /\ i[t] < Pushes /\ used' = (used \/ message_data # "allocated")
      /\ UNCHANGED <<config, main, next, message_data, he, addr, lost, size>>
  BY DEF WorkerPush, WorkerUnchanged
<1>2. /\ BenchType /\ Phases /\ Shared /\ Resolver /\ Pushing /\ Accounted /\ AddressRace
  BY DEF BenchInv
<1>3. t # Main
  BY <1>1, <1>2 DEF Phases, Connecting, CleanupSteps
<1>4. t \in Workers /\ Pushes \in Nat /\ Pushes' = Pushes
  BY <1>1, <1>3, RunningWorker DEF Pushes
<1>5. main \in {"threads", "join"} /\ message_data = "allocated"
  BY <1>1, <1>3, RunningPhase
<1>6. Shared' /\ AddressRace'
  BY <1>1, <1>2, <1>5 DEF Shared, AddressRace
<1>7. p \in Threads \X Nat /\ i[t] \in Nat
  BY <1>2 DEF BenchType
<1>8. Sized'
  BY <1>1, <1>5 DEF Sized
<1>9. queue.exists /\ main \in Counting
  BY <1>2, <1>5 DEF Accounted, Counting
<1>10. CASE /\ i' = [i EXCEPT ![t] = @ + 1] /\ UNCHANGED <<step, refused>>
            /\ \/ config.noack /\ pending' = pending \cup {p} /\ UNCHANGED queue
               \/ /\ ~config.noack /\ queue' = [queue EXCEPT !.messages = @ \cup {p}]
                  /\ UNCHANGED pending
  <2>1. /\ queue' \in [exists : BOOLEAN, messages : SUBSET (Threads \X Nat)]
        /\ queue'.exists = queue.exists /\ pending' \subseteq Threads \X Nat
        /\ Known' = Known \cup {p}
    <3>1. queue.messages \subseteq Threads \X Nat /\ pending \subseteq Threads \X Nat
      BY <1>2 DEF BenchType
    <3> HIDE DEF p
    <3>2. CASE pending' = pending \cup {p} /\ UNCHANGED queue
      BY <1>1, <1>2, <1>7, <3>1, <3>2 DEF BenchType, Known
    <3>3. CASE queue' = [queue EXCEPT !.messages = @ \cup {p}] /\ UNCHANGED pending
      <4>1. queue'.messages = queue.messages \cup {p} /\ queue'.exists = queue.exists
        BY <1>2, <3>3 DEF BenchType
      <4> QED
        BY <1>1, <1>2, <1>7, <3>1, <3>3, <4>1 DEF BenchType, Known
    <3> QED
      BY <1>10, <3>2, <3>3
  <2>2. BenchType'
    BY <1>1, <1>2, <1>10, <2>1 DEF BenchType
  <2>3. Phases' /\ Resolver'
    BY <1>1, <1>2, <1>10 DEF Phases, Resolver
  <2>4. \A u \in Threads : i'[u] = IF u = t THEN i[t] + 1 ELSE i[u]
    BY <1>2, <1>10 DEF BenchType
  <2>5. Pushing'
    BY <1>1, <1>2, <1>4, <1>7, <1>10, <2>4 DEF Pushing
  <2>6. KnownWasMade' /\ MadeIsKnown'
    BY <1>1, <1>3, <1>9, <1>10, <2>1, PushKnown
  <2>7. Accounted'
    BY <1>1, <1>2, <1>5, <1>9, <1>10, <2>1, <2>6 DEF Accounted
  <2> QED
    BY <1>6, <1>8, <2>2, <2>3, <2>5, <2>7 DEF BenchInv
<1>11. CASE /\ step' = [step EXCEPT ![t] = "ended"] /\ refused' = refused \cup {t}
            /\ UNCHANGED queue \/ queue' = [queue EXCEPT !.messages = @ \cup {p}]
            /\ UNCHANGED <<i, pending>>
  <2>1. Phases' /\ step' \in [Threads -> Steps] /\ main' \in Mains
    BY <1>1, <1>3, <1>11, PhasesThread DEF Steps
  <2>2. /\ queue' \in [exists : BOOLEAN, messages : SUBSET (Threads \X Nat)]
        /\ queue'.exists = queue.exists
        /\ Known' = Known \/ Known' = Known \cup {p}
    <3> HIDE DEF p
    <3>1. CASE UNCHANGED queue
      BY <1>1, <1>2, <1>11, <3>1 DEF BenchType, Known
    <3>2. CASE queue' = [queue EXCEPT !.messages = @ \cup {p}]
      <4>1. queue'.messages = queue.messages \cup {p} /\ queue'.exists = queue.exists
        BY <1>2, <3>2 DEF BenchType
      <4> QED
        BY <1>1, <1>2, <1>7, <1>11, <3>2, <4>1 DEF BenchType, Known
    <3> QED
      BY <1>11, <3>1, <3>2
  <2>3. BenchType'
    BY <1>1, <1>2, <1>11, <2>1, <2>2 DEF BenchType
  <2>4. Resolver'
    BY <1>1, <1>11, ResolverKept
  <2>5. Pushing'
    BY <1>1, <1>11, PushingFailed DEF Over
  <2>6. KnownWasMade' /\ MadeIsKnown'
    BY <1>1, <1>3, <1>9, <1>11, <2>2, PushKnown
  <2>7. Accounted'
    BY <1>1, <1>2, <1>5, <1>9, <1>11, <2>2, <2>6 DEF Accounted
  <2> QED
    BY <1>6, <1>8, <2>1, <2>3, <2>4, <2>5, <2>7 DEF BenchInv
<1> QED
  BY <1>10, <1>11 DEF WorkerPush, Goto, Refused, Stored

LEMMA WorkerEndsBench ==
  ASSUME BenchInv, main \notin Over, NEW t \in Threads, WorkerEnds(t)
  PROVE  BenchInv'
<1>1. /\ step[t] = "push" /\ i[t] = Pushes /\ step' = [step EXCEPT ![t] = "ended"]
      /\ UNCHANGED <<config, main, next, i, message_data, queue, pending, lost, size, used, he,
                     addr, refused>>
  BY DEF WorkerEnds, WorkerUnchanged, Goto, serverVars
<1>2. /\ BenchType /\ Phases /\ Shared /\ Pushing /\ AddressRace
  BY DEF BenchInv
<1>3. t # Main
  BY <1>1, <1>2 DEF Phases, Connecting, CleanupSteps
<1>4. Phases' /\ step' \in [Threads -> Steps] /\ main' \in Mains
  BY <1>1, <1>3, PhasesThread DEF Steps
<1>5. BenchType'
  BY <1>1, <1>2, <1>4 DEF BenchType
<1>6. Resolver'
  BY <1>1, ResolverKept
<1>7. \A u \in Threads : step'[u] = IF u = t THEN "ended" ELSE step[u]
  BY <1>1, <1>2 DEF BenchType
<1>8. Pushes' = Pushes
  BY <1>1 DEF Pushes
<1>9. Pushing'
  BY <1>1, <1>2, <1>7, <1>8 DEF Pushing
<1>10. Accounted' /\ Sized'
  BY <1>1, ServerSameThread
<1> QED
  BY <1>1, <1>2, <1>4, <1>5, <1>6, <1>9, <1>10 DEF BenchInv, Shared, AddressRace

\* The server stores or drops a push it knows of.
LEMMA ServerMoves ==
  ASSUME BenchInv, Known' = Known, main # "setup",
         queue' \in [exists : BOOLEAN, messages : SUBSET (Threads \X Nat)],
         queue'.exists = queue.exists, pending' \subseteq pending,
         lost' \subseteq Threads \X Nat, lost' = lost \/ config.noack \/ config.expiration,
         UNCHANGED <<config, main, step, next, i, message_data, he, addr, size, refused, used>>
  PROVE  BenchInv'
<1>1. /\ BenchType /\ Phases /\ Shared /\ Resolver /\ Pushing /\ Accounted /\ Sized /\ AddressRace
  BY DEF BenchInv
<1>2. BenchType'
  BY <1>1 DEF BenchType
<1>3. Phases' /\ Resolver' /\ Shared' /\ AddressRace'
  BY <1>1 DEF Phases, Resolver, Shared, AddressRace
<1>4. Pushes' = Pushes /\ Shares' = Shares
  BY DEF Pushes, Shares, Workers
<1>5. Pushing' /\ Sized'
  BY <1>1, <1>4 DEF Pushing, Sized
<1>6. (KnownWasMade => KnownWasMade') /\ (MadeIsKnown => MadeIsKnown')
  BY DEF KnownWasMade, MadeIsKnown
<1>7. Accounted'
  BY <1>1, <1>6 DEF Accounted
<1> QED
  BY <1>2, <1>3, <1>5, <1>7 DEF BenchInv

LEMMA ExecuteBench ==
  ASSUME BenchInv, NEW p \in pending, Execute(p)
  PROVE  BenchInv'
<1>1. /\ pending' = pending \ {p}
      /\ UNCHANGED <<config, main, step, next, i, message_data, he, addr, size, refused, used>>
  BY DEF Execute
<1>2. BenchType /\ Accounted
  BY DEF BenchInv
<1>3. main # "setup" /\ config.noack /\ p \in Threads \X Nat
  BY <1>2 DEF Accounted, BenchType, Configs
<1>4. CASE queue' = [queue EXCEPT !.messages = @ \cup {p}] /\ UNCHANGED lost
  <2>1. queue'.messages = queue.messages \cup {p} /\ queue'.exists = queue.exists
    BY <1>2, <1>4 DEF BenchType
  <2>2. queue' \in [exists : BOOLEAN, messages : SUBSET (Threads \X Nat)]
    BY <1>2, <1>3, <1>4 DEF BenchType
  <2>3. Known' = Known
    BY <1>1, <1>4, <2>1 DEF Known
  <2> QED
    BY <1>1, <1>2, <1>3, <1>4, <2>1, <2>2, <2>3, ServerMoves DEF BenchType
<1>5. CASE lost' = lost \cup {p} /\ UNCHANGED queue
  <2>1. Known' = Known
    BY <1>1, <1>5 DEF Known
  <2> QED
    BY <1>1, <1>2, <1>3, <1>5, <2>1, ServerMoves DEF BenchType
<1> QED
  BY <1>4, <1>5 DEF Execute, Stored

LEMMA ExpireBench ==
  ASSUME BenchInv, NEW p \in queue.messages, Expire(p)
  PROVE  BenchInv'
<1>1. /\ config.expiration /\ p # Leftover
      /\ queue' = [queue EXCEPT !.messages = @ \ {p}] /\ lost' = lost \cup {p}
      /\ UNCHANGED <<config, main, step, next, i, message_data, he, addr, pending, size, refused, used>>
  BY DEF Expire
<1>2. BenchType /\ Accounted
  BY DEF BenchInv
<1>3. main # "setup" /\ p \in Threads \X Nat
  BY <1>1, <1>2 DEF Accounted, BenchType
<1>4. queue'.messages = queue.messages \ {p} /\ queue'.exists = queue.exists
  BY <1>1, <1>2 DEF BenchType
<1>5. queue' \in [exists : BOOLEAN, messages : SUBSET (Threads \X Nat)]
  BY <1>1, <1>2 DEF BenchType
<1>6. Known' = Known
  BY <1>1, <1>4 DEF Known
<1> QED
  BY <1>1, <1>2, <1>3, <1>4, <1>5, <1>6, ServerMoves DEF BenchType

(***************************************************************************)
(* The main thread.                                                        *)
(***************************************************************************)
\* What main's steps leave alone; its own step changes only outside the loop
\* of a worker.
LEMMA MainKeeps ==
  ASSUME BenchInv, main' # "crashed" => main # "crashed", NEW w \in Steps, w \notin {"lookup", "copy"},
         step' = [step EXCEPT ![Main] = w], MainUnchanged, refused \subseteq refused'
  PROVE  /\ \A t \in Threads : t # Main => step'[t] = step[t]
         /\ step'[Main] = w /\ step' \in [Threads -> Steps]
         /\ Resolver' /\ Pushing' /\ AddressRace' /\ ~used'
<1>1. /\ BenchType /\ Shared /\ Pushing /\ AddressRace
  BY DEF BenchInv
<1>2. UNCHANGED <<config, i, he, addr, used>>
  BY DEF MainUnchanged
<1>3. Resolver'
  BY <1>2, ResolverKept, MainThread
<1>4. /\ \A t \in Threads : t # Main => step'[t] = step[t]
      /\ step'[Main] = w /\ step' \in [Threads -> Steps]
  BY <1>1, MainThread DEF BenchType
<1>5. Pushes' = Pushes
  BY <1>2 DEF Pushes
<1>6. Pushing'
  BY <1>1, <1>2, <1>4, <1>5 DEF Pushing
<1>7. AddressRace'
  BY <1>1, <1>2 DEF AddressRace
<1> QED
  BY <1>1, <1>2, <1>3, <1>4, <1>6, <1>7 DEF Shared

LEMMA SetupServerBench ==
  ASSUME BenchInv, setup_server
  PROVE  BenchInv'
<1>1. /\ main = "setup" /\ step[Main] = "auth" /\ step' = [step EXCEPT ![Main] = "none"]
      /\ \/ main' = "message" /\ queue' = NewQueue
         \/ main' = "exit" /\ queue' \in {queue, NoQueue, NewQueue}
      /\ (refused' = refused \/ refused' = refused \cup {Main})
      /\ UNCHANGED <<next, message_data, size>> /\ MainUnchanged
  BY DEF setup_server, Goto, Refused
<1>2. BenchType /\ Phases /\ Pushing /\ Accounted
  BY DEF BenchInv
<1>3. refused \subseteq refused' /\ refused' \subseteq Threads
  BY <1>1, <1>2, MainThread DEF BenchType
<1>4. queue' \in [exists : BOOLEAN, messages : SUBSET (Threads \X Nat)]
  BY <1>1, <1>2, QueueTypes DEF BenchType
<1>5. /\ \A t \in Threads : t # Main => step'[t] = step[t]
      /\ step'[Main] = "none" /\ step' \in [Threads -> Steps]
      /\ Resolver' /\ Pushing' /\ AddressRace' /\ ~used'
  BY <1>1, <1>3, MainKeeps DEF Steps
<1>6. BenchType'
  BY <1>1, <1>2, <1>5, <1>3, <1>4 DEF BenchType, Mains, MainUnchanged
<1>7. Phases'
  BY <1>1, <1>2, <1>5 DEF Phases, MainUnchanged, Connecting, CleanupSteps
<1>8. Shared' /\ Sized'
  BY <1>1, <1>5 DEF Shared, Sized
<1>9. Accounted'
  <2>1. /\ pending = {} /\ lost = {} /\ pending' = {} /\ lost' = {} /\ UNCHANGED <<config, i>>
    BY <1>1, <1>2 DEF Accounted, MainUnchanged
  <2>2. ASSUME main' = "message" PROVE queue'.exists /\ KnownWasMade' /\ MadeIsKnown'
    <3>1. queue'.exists /\ queue'.messages = {}
      BY <1>1, <2>2 DEF NewQueue
    <3>2. Known' = {}
      BY <2>1, <3>1 DEF Known
    <3>3. KnownWasMade'
      BY <3>2 DEF KnownWasMade
    <3>4. \A t \in Threads : t # Main => i'[t] = 0
      BY <1>1, <1>2, <2>1 DEF Phases, Pushing
    <3>5. MadeIsKnown'
      BY <3>4 DEF MadeIsKnown
    <3> QED
      BY <3>1, <3>3, <3>5
  <2> QED
    BY <1>1, <2>1, <2>2 DEF Accounted, Counting
<1> QED
  BY <1>5, <1>6, <1>7, <1>8, <1>9 DEF BenchInv

LEMMA InitMessageBench ==
  ASSUME BenchInv, init_message
  PROVE  BenchInv'
<1>1. /\ main = "message"
      /\ \/ main' = "threads" /\ message_data' = "allocated"
         \/ main' = "exit" /\ UNCHANGED message_data
      /\ UNCHANGED <<step, next, queue, refused, config, i, he, addr, pending, lost, size, used>>
  BY DEF init_message, MainUnchanged
<1>2. /\ BenchType /\ Phases /\ Shared /\ Resolver /\ Pushing /\ AddressRace
  BY DEF BenchInv
<1>3. BenchType' /\ Resolver' /\ AddressRace'
  BY <1>1, <1>2 DEF BenchType, Resolver, AddressRace, Mains
<1>4. Phases'
  BY <1>1, <1>2 DEF Phases, Over
<1>5. Pushing'
  <2>1. Pushes' = Pushes
    BY <1>1 DEF Pushes
  <2> QED
    BY <1>1, <1>2, <2>1 DEF Pushing
<1>6. Accounted' /\ Sized'
  BY <1>1, ServerSame DEF Counting
<1>7. Shared'
  BY <1>1, <1>2 DEF Shared
<1> QED
  BY <1>3, <1>4, <1>5, <1>6, <1>7 DEF BenchInv

LEMMA InitThreadsBench ==
  ASSUME BenchInv, init_threads
  PROVE  BenchInv'
<1>1. /\ main = "threads"
      /\ UNCHANGED <<message_data, queue, refused, config, i, he, addr, pending, lost, size, used>>
  BY DEF init_threads, MainUnchanged
<1>2. /\ BenchType /\ Phases /\ Shared /\ Resolver /\ Pushing /\ AddressRace
  BY DEF BenchInv
<1>3. next \in Nat /\ next # 0 /\ config.clients \in 0..MaxClients
  BY <1>2 DEF BenchType, Configs
<1>4. CASE /\ next <= config.clients /\ step' = [step EXCEPT ![next] = "connect"]
           /\ next' = next + 1 /\ UNCHANGED main
  <2>1. next \in Threads /\ next # Main
    BY <1>3, <1>4 DEF Threads, Main
  <2>2. \A t \in Threads : step'[t] = IF t = next THEN "connect" ELSE step[t]
    BY <1>2, <1>4 DEF BenchType
  <2>3. step[next] = "none"
    BY <1>1, <1>2, <1>3, <2>1 DEF Phases
  <2>4. step' \in [Threads -> Steps] /\ next' \in Nat \ {0}
    <3>1. "connect" \in Steps /\ step \in [Threads -> Steps]
      BY <1>2 DEF BenchType, Steps, Connecting
    <3>2. step' \in [Threads -> Steps]
      BY <1>4, <3>1
    <3>3. next' \in Nat \ {0}
      BY <1>3, <1>4
    <3> QED
      BY <3>2, <3>3
  <2>5. BenchType'
    BY <1>1, <1>2, <1>4, <2>4 DEF BenchType
  <2>6. Phases'
    <3>1. \A t \in Threads : t # Main /\ step'[t] # "none" => t < next'
      <4> TAKE t \in Threads
      <4>1. t \in Nat
        BY MainThread
      <4>2. CASE t = next
        BY <1>3, <1>4, <4>2
      <4>3. CASE t # next
        BY <1>1, <1>2, <1>3, <1>4, <2>2, <4>1, <4>3 DEF Phases
      <4> QED
        BY <4>2, <4>3
    <3>2. step'[Main] = step[Main]
      BY <2>1, <2>2, MainThread
    <3> QED
      BY <1>1, <1>2, <1>4, <2>2, <3>1, <3>2 DEF Phases
  <2>7. Resolver'
    BY <1>1, <1>4, <2>1, <2>3, ResolverKept
  <2>8. Pushing'
    BY <1>1, <1>4, <2>1, <2>3, PushingBefore
  <2>9. Accounted' /\ Sized'
    BY <1>1, <1>4, ServerSame
  <2> QED
    BY <1>1, <1>2, <1>4, <2>5, <2>6, <2>7, <2>8, <2>9 DEF BenchInv, Shared, AddressRace
<1>5. CASE /\ UNCHANGED step /\ next' \in Nat \ {0}
           /\ ((main' = "join" /\ next' = 1) \/ main' = "exit")
  <2>1. BenchType' /\ Resolver' /\ AddressRace'
    BY <1>1, <1>2, <1>5 DEF BenchType, Resolver, AddressRace, Mains
  <2>2. \A t \in Threads : t # Main => ~(t < 1)
    BY MainThread
  <2>3. Phases'
    BY <1>1, <1>2, <1>5, <2>2 DEF Phases, Over
  <2>4. Pushes' = Pushes
    BY <1>1 DEF Pushes
  <2>5. Pushing'
    BY <1>1, <1>2, <1>5, <2>4 DEF Pushing
  <2>6. Accounted' /\ Sized'
    BY <1>1, <1>5, ServerSame DEF Counting
  <2>7. Shared'
    BY <1>1, <1>2, <1>5 DEF Shared
  <2> QED
    BY <2>1, <2>3, <2>5, <2>6, <2>7 DEF BenchInv
<1> QED
  BY <1>3, <1>4, <1>5 DEF init_threads, Goto

LEMMA ProcessThreadsBench ==
  ASSUME BenchInv, process_threads
  PROVE  BenchInv'
<1>1. /\ main = "join"
      /\ \/ next <= config.clients /\ step[next] = "ended" /\ next' = next + 1 /\ UNCHANGED main
         \/ next > config.clients /\ main' = "print" /\ UNCHANGED next
      /\ UNCHANGED <<step, message_data, queue, refused, config, i, he, addr, pending, lost,
                     size, used>>
  BY DEF process_threads, MainUnchanged
<1>2. /\ BenchType /\ Phases /\ Shared /\ Resolver /\ Pushing /\ AddressRace
  BY DEF BenchInv
<1>3. next \in Nat /\ next # 0 /\ config.clients \in Nat
  BY <1>2 DEF BenchType, Configs
<1>4. BenchType' /\ Resolver' /\ AddressRace'
  BY <1>1, <1>2, <1>3 DEF BenchType, Resolver, AddressRace, Mains
<1>5. \A t \in Threads : t # Main /\ t < next => step[t] = "ended"
  BY <1>1, <1>2 DEF Phases
<1>6. ASSUME main' = "join", NEW t \in Threads, t # Main, t < next' PROVE step[t] = "ended"
  <2>1. t \in Nat /\ step[next] = "ended" /\ next' = next + 1
    BY <1>1, <1>6, MainThread
  <2> QED
    BY <1>3, <1>5, <1>6, <2>1
<1>7. ASSUME main' = "print", NEW t \in Threads, t # Main, t <= config.clients
      PROVE  step[t] = "ended"
  <2>1. t \in Nat /\ next > config.clients
    BY <1>1, <1>7, MainThread
  <2> QED
    BY <1>3, <1>5, <1>7, <2>1
<1>8. Phases'
  BY <1>1, <1>2, <1>6, <1>7 DEF Phases, Over
<1>9. Pushing'
  <2>1. Pushes' = Pushes
    BY <1>1 DEF Pushes
  <2> QED
    BY <1>1, <1>2, <2>1 DEF Pushing
<1>10. Accounted' /\ Sized'
  BY <1>1, ServerSame DEF Counting
<1>11. Shared'
  BY <1>1, <1>2 DEF Shared
<1> QED
  BY <1>4, <1>8, <1>9, <1>10, <1>11 DEF BenchInv

LEMMA DestroyMessageBench ==
  ASSUME BenchInv, destroy_message
  PROVE  BenchInv'
<1>1. /\ main = "print" /\ main' = "cleanup" /\ step' = [step EXCEPT ![Main] = "connect"]
      /\ UNCHANGED <<next, queue, refused, size>> /\ MainUnchanged
  BY DEF destroy_message, Goto
<1>2. BenchType /\ Phases
  BY DEF BenchInv
<1>3. /\ \A t \in Threads : t # Main => step'[t] = step[t]
      /\ step'[Main] = "connect" /\ step' \in [Threads -> Steps]
      /\ Resolver' /\ Pushing' /\ AddressRace' /\ ~used'
  BY <1>1, MainKeeps DEF Steps, Connecting
<1>4. BenchType'
  BY <1>1, <1>2, <1>3 DEF BenchType, Mains, MainUnchanged
<1>5. Phases'
  BY <1>1, <1>2, <1>3 DEF Phases, MainUnchanged, Connecting
<1>6. Accounted' /\ Sized'
  BY <1>1, <1>3, ServerSame DEF Counting, MainUnchanged
<1>7. Shared'
  BY <1>1, <1>3 DEF Shared
<1> QED
  BY <1>3, <1>4, <1>5, <1>6, <1>7 DEF BenchInv

\* One request of cleanup_server.
LEMMA CleaningBench ==
  ASSUME BenchInv, NEW from \in CleanupSteps \cup {"auth"}, Cleaning(from),
         NEW w \in CleanupSteps \cup {"ended"}, step' = [step EXCEPT ![Main] = w],
         main' = main \/ main' = "end", refused' = refused \/ refused' = refused \cup {Main},
         queue' = queue \/ queue' = NoQueue, w \in CleanupSteps <=> main' = main
  PROVE  /\ BenchType' /\ Phases' /\ Shared' /\ Resolver' /\ Pushing' /\ AddressRace'
         /\ step'[Main] = w /\ UNCHANGED <<config, i, pending, lost>>
<1>1. /\ main = "cleanup" /\ step[Main] = from
      /\ UNCHANGED <<next, message_data>> /\ MainUnchanged
  BY DEF Cleaning
<1>2. BenchType /\ Phases
  BY DEF BenchInv
<1>3. refused \subseteq refused' /\ refused' \subseteq Threads
  BY <1>2, MainThread DEF BenchType
<1>4. w \in Steps /\ w \notin Connecting \cup {"none"}
  BY DEF Steps, Connecting, CleanupSteps
<1>5. /\ \A t \in Threads : t # Main => step'[t] = step[t]
      /\ step'[Main] = w /\ step' \in [Threads -> Steps]
      /\ Resolver' /\ Pushing' /\ AddressRace' /\ ~used'
  BY <1>1, <1>3, <1>4, MainKeeps DEF Connecting
<1>6. queue' \in [exists : BOOLEAN, messages : SUBSET (Threads \X Nat)]
  BY <1>2, QueueTypes DEF BenchType
<1>7. BenchType'
  BY <1>1, <1>2, <1>3, <1>5, <1>6 DEF BenchType, Mains, MainUnchanged
<1>8. Phases'
  BY <1>1, <1>2, <1>4, <1>5 DEF Phases, MainUnchanged
<1>9. Shared'
  BY <1>1, <1>5 DEF Shared
<1> QED
  BY <1>1, <1>5, <1>7, <1>8, <1>9 DEF MainUnchanged

\* Before the size is read and if nothing failed, the server knows exactly the
\* pushes of all the shares.
LEMMA AllKnown ==
  ASSUME BenchInv, main \in {"print", "cleanup"}, refused = {}, config.clients > 0
  PROVE  Known = Shares /\ IsFiniteSet(Shares)
<1> DEFINE c == config.clients
<1>1. /\ c \in Nat /\ c > 0 /\ c <= MaxClients /\ config.messages \in Nat
      /\ Known \subseteq Threads \X Nat /\ KnownWasMade /\ MadeIsKnown
  BY DEF BenchInv, BenchType, Configs, Accounted, Counting, Known
<1>2. Pushes \in Nat
  BY <1>1, DivMod DEF Pushes
<1>3. Workers = 1..c
  BY DEF Workers
<1> HIDE DEF c
<1>4. \A t \in Workers : t \in Threads /\ t # Main /\ t <= config.clients
  BY <1>1, <1>3 DEF Threads, Main, c
<1>5. \A t \in Workers : i[t] = Pushes
  BY <1>4 DEF BenchInv, Phases, Pushing
<1>6. ASSUME NEW p \in Known PROVE p \in Shares
  <2>1. p = <<p[1], p[2]>> /\ p[1] \in Threads /\ p[2] \in Nat
    BY <1>1
  <2>2. p[1] # Main /\ p[2] >= 1 /\ p[2] <= i[p[1]]
    BY <1>1 DEF KnownWasMade
  <2>3. step[p[1]] # "none"
    <3>1. BenchType /\ Pushing /\ Phases
      BY DEF BenchInv
    <3> QED
      BY <2>1, <2>2, <3>1 DEF Pushing
  <2>4. p[1] \in Workers
    BY <2>1, <2>2, <2>3, RunningWorker
  <2>5. p[2] \in 1..Pushes
    BY <1>2, <1>5, <2>1, <2>2, <2>4
  <2> QED
    BY <2>1, <2>4, <2>5 DEF Shares
<1>7. ASSUME NEW p \in Shares PROVE p \in Known
  <2>1. p = <<p[1], p[2]>> /\ p[1] \in Workers /\ p[2] \in 1..Pushes
    BY <1>7 DEF Shares
  <2>2. p[2] \in Nat /\ 1 <= p[2] /\ p[2] <= i[p[1]]
    BY <1>2, <1>5, <2>1
  <2> QED
    BY <1>1, <1>4, <2>1, <2>2 DEF MadeIsKnown
<1>8. IsFiniteSet(Workers)
  BY <1>1, <1>3, FS_Interval
<1>9. IsFiniteSet(1..Pushes)
  BY <1>2, FS_Interval
<1>10. IsFiniteSet(Shares)
  BY <1>8, <1>9, FS_Product DEF Shares
<1> QED
  BY <1>6, <1>7, <1>10

LEMMA CleanupAuthBench ==
  ASSUME BenchInv, CleanupAuth
  PROVE  BenchInv'
<1>1. /\ Cleaning("auth") /\ step' = [step EXCEPT ![Main] = "exist"]
      /\ (refused' = refused \/ refused' = refused \cup {Main}) /\ UNCHANGED <<main, queue, size>>
  BY DEF CleanupAuth, MayBeRefused, Goto, Refused
<1>2. /\ BenchType' /\ Phases' /\ Shared' /\ Resolver' /\ Pushing' /\ AddressRace'
      /\ step'[Main] = "exist" /\ UNCHANGED <<config, i, pending, lost>>
  BY <1>1, CleaningBench DEF CleanupSteps
<1>3. Accounted' /\ Sized'
  BY <1>1, <1>2, ServerSame
<1> QED
  BY <1>2, <1>3 DEF BenchInv

LEMMA CleanupExistBench ==
  ASSUME BenchInv, CleanupExist
  PROVE  BenchInv'
<1>1. /\ Cleaning("exist") /\ UNCHANGED <<queue, size>>
      /\ refused' = refused \/ refused' = refused \cup {Main}
      /\ \/ step' = [step EXCEPT ![Main] = "size"] /\ UNCHANGED main
         \/ step' = [step EXCEPT ![Main] = "ended"] /\ main' = "end"
  BY DEF CleanupExist, Goto, Refused
<1>2. main = "cleanup"
  BY <1>1 DEF Cleaning
<1>3. /\ BenchType' /\ Phases' /\ Shared' /\ Resolver' /\ Pushing' /\ AddressRace'
      /\ step'[Main] \in {"size", "ended"} /\ UNCHANGED <<config, i, pending, lost>>
  <2>1. CASE step' = [step EXCEPT ![Main] = "size"] /\ UNCHANGED main
    BY <1>1, <2>1, CleaningBench DEF CleanupSteps
  <2>2. CASE step' = [step EXCEPT ![Main] = "ended"] /\ main' = "end"
    BY <1>1, <1>2, <2>2, CleaningBench DEF CleanupSteps
  <2> QED
    BY <1>1, <2>1, <2>2
<1>4. Accounted' /\ Sized'
  BY <1>1, <1>2, <1>3, ServerSame DEF Counting
<1> QED
  BY <1>3, <1>4 DEF BenchInv

\* The queue holds some of the shares, and all of them if every push waited
\* for its reply and none expired.
LEMMA CleanupSizeBench ==
  ASSUME BenchInv, CleanupSize
  PROVE  BenchInv'
<1>1. /\ Cleaning("size") /\ step' = [step EXCEPT ![Main] = "delete"]
      /\ \/ size' = Cardinality(queue.messages) /\ refused' = refused
         \/ refused' = refused \cup {Main}
      /\ UNCHANGED <<main, queue>>
  BY DEF CleanupSize, Goto, Refused
<1>2. main = "cleanup" /\ Accounted
  BY <1>1 DEF Cleaning, BenchInv
<1>3. /\ BenchType' /\ Phases' /\ Shared' /\ Resolver' /\ Pushing' /\ AddressRace'
      /\ step'[Main] = "delete" /\ UNCHANGED <<config, i, pending, lost>>
  BY <1>1, CleaningBench DEF CleanupSteps
<1>4. Accounted'
  <2>1. Known' = Known
    BY <1>1, <1>3 DEF Known
  <2>2. KnownWasMade' /\ MadeIsKnown'
    BY <1>1, <1>2, <1>3, <2>1 DEF Accounted, Counting, KnownWasMade, MadeIsKnown
  <2> QED
    BY <1>1, <1>2, <1>3, <2>2 DEF Accounted
<1>5. Sized'
  <2> SUFFICES ASSUME refused' = {}, config.clients > 0
               PROVE  /\ size' <= Cardinality(Shares)
                      /\ ~config.noack /\ ~config.expiration => size' = Cardinality(Shares)
    <3>1. Shares' = Shares
      BY <1>3 DEF Shares, Workers, Pushes
    <3> QED
      BY <1>3, <3>1 DEF Sized
  <2>1. size' = Cardinality(queue.messages) /\ refused = {}
    BY <1>1
  <2>2. Known = Shares /\ IsFiniteSet(Shares)
    BY <1>2, <2>1, AllKnown
  <2>3. queue.messages \subseteq Shares
    BY <2>2 DEF Known
  <2>4. Cardinality(queue.messages) <= Cardinality(Shares)
    BY <2>2, <2>3, FS_Subset
  <2>5. ~config.noack /\ ~config.expiration => queue.messages = Shares
    BY <1>2, <2>2 DEF Accounted, Known
  <2> QED
    BY <2>1, <2>4, <2>5
<1> QED
  BY <1>3, <1>4, <1>5 DEF BenchInv

LEMMA CleanupDeleteBench ==
  ASSUME BenchInv, CleanupDelete
  PROVE  BenchInv'
<1>1. /\ Cleaning("delete") /\ step' = [step EXCEPT ![Main] = "ended"] /\ main' = "end"
      /\ queue' = queue \/ queue' = NoQueue
      /\ refused' = refused \/ refused' = refused \cup {Main}
  BY DEF CleanupDelete, MayBeRefused, Goto, Refused
<1>2. main = "cleanup" /\ Accounted
  BY <1>1 DEF Cleaning, BenchInv
<1>3. /\ BenchType' /\ Phases' /\ Shared' /\ Resolver' /\ Pushing' /\ AddressRace'
      /\ UNCHANGED <<config, i, pending, lost>>
  BY <1>1, <1>2, CleaningBench DEF CleanupSteps
<1>4. Accounted' /\ Sized'
  BY <1>1, <1>2, <1>3 DEF Accounted, Sized, Counting
<1> QED
  BY <1>3, <1>4 DEF BenchInv

(***************************************************************************)
(* The theorems.                                                           *)
(***************************************************************************)
LEMMA NextBench == BenchInv /\ [Next]_vars => BenchInv'
<1> SUFFICES ASSUME BenchInv, [Next]_vars PROVE BenchInv'
  OBVIOUS
<1>1. CASE UNCHANGED vars
  <2>1. UNCHANGED <<config, main, step, next, i, message_data, he, addr, queue, pending, lost,
                    size, refused, used>>
    BY <1>1 DEF vars, serverVars
  <2>2. Pushes' = Pushes
    BY <2>1 DEF Pushes
  <2>3. BenchType' /\ Phases' /\ Shared' /\ Resolver'
    BY <2>1 DEF BenchInv, BenchType, Phases, Shared, Resolver
  <2>4. Pushing' /\ AddressRace'
    BY <2>1, <2>2 DEF BenchInv, Pushing, AddressRace
  <2>5. Accounted' /\ Sized'
    BY <2>1, ServerSame
  <2> QED
    BY <2>3, <2>4, <2>5 DEF BenchInv
<1>2. CASE MainStep
  <2>1. CASE cleanup_server
    BY <2>1, CleanupAuthBench, CleanupExistBench, CleanupSizeBench, CleanupDeleteBench
       DEF cleanup_server
  <2> QED
    BY <1>2, <2>1, SetupServerBench, InitMessageBench, InitThreadsBench, ProcessThreadsBench,
       DestroyMessageBench DEF MainStep
<1>3. ASSUME NEW t \in Threads, ThreadStep(t) PROVE BenchInv'
  <2>1. main \notin Over
    BY <1>3 DEF ThreadStep
  <2>2. CASE Resolve(t) \/ gethostbyname(t) \/ CopyAddress(t) \/ Connected(t)
    BY <2>1, <2>2, ResolveBench, GethostbynameBench, CopyAddressBench, ConnectedBench
  <2>3. CASE LookupFails(t) \/ NotConnected(t)
    BY <2>1, <2>3, ConnectFailsBench DEF LookupFails, NotConnected
  <2>4. CASE WorkerSetup(t) \/ WorkerMessage(t) \/ WorkerPush(t) \/ WorkerEnds(t)
    BY <2>1, <2>4, WorkerSetupBench, WorkerMessageBench, WorkerPushBench, WorkerEndsBench
  <2> QED
    BY <1>3, <2>2, <2>3, <2>4 DEF ThreadStep
<1>4. ASSUME NEW p \in pending, Execute(p) PROVE BenchInv'
  BY <1>4, ExecuteBench
<1>5. ASSUME NEW p \in queue.messages, Expire(p) PROVE BenchInv'
  BY <1>5, ExpireBench
<1> QED
  BY <1>1, <1>2, <1>3, <1>4, <1>5 DEF Next

LEMMA BenchAlways == Spec => []BenchInv
BY InitBench, NextBench, PTL DEF Spec

\* For any number of clients: no worker reads message_data before main has
\* allocated it or after destroy_message has freed it.
THEOREM SharedDataAliveCorrect == Spec => []SharedDataAlive
<1>1. BenchInv => SharedDataAlive
  <2> SUFFICES ASSUME BenchInv PROVE SharedDataAlive
    OBVIOUS
  <2>1. ~used
    BY DEF BenchInv, Shared
  <2>2. \A t \in Threads \ {Main} : step[t] = "push" /\ main \notin Over => message_data = "allocated"
    BY RunningPhase
  <2> QED
    BY <2>1, <2>2 DEF SharedDataAlive
<1> QED
  BY <1>1, BenchAlways, PTL

\* A half-written address of the resolver reaches only a worker, and only when
\* two of them look the server's name up.
THEOREM AddressRaceCorrect == Spec => []AddressRace
<1>1. BenchInv => AddressRace
  BY DEF BenchInv
<1> QED
  BY <1>1, BenchAlways, PTL

\* When print_statistics runs, every worker that met no failure has made its
\* share of the pushes and, with acknowledgements and no expiration, the queue
\* holds them.
THEOREM SharesPushedCorrect == Spec => []SharesPushed
<1>1. BenchInv => SharesPushed
  <2> SUFFICES ASSUME BenchInv, main = "print", config.clients > 0, NEW t \in Workers \ refused
               PROVE  /\ i[t] = Pushes
                      /\ ~config.noack /\ ~config.expiration => Share(t) \subseteq queue.messages
    BY DEF SharesPushed
  <2>1. /\ config.clients \in Nat /\ config.clients <= MaxClients /\ config.messages \in Nat
        /\ Accounted /\ Phases /\ Pushing
    BY DEF BenchInv, BenchType, Configs
  <2>2. Pushes \in Nat
    BY <2>1, DivMod DEF Pushes
  <2>3. t \in Threads /\ t # Main /\ t <= config.clients
    BY <2>1 DEF Workers, Threads, Main
  <2>4. i[t] = Pushes
    BY <2>1, <2>3 DEF Phases, Pushing
  <2>5. ASSUME ~config.noack, ~config.expiration, NEW p \in Share(t) PROVE p \in queue.messages
    <3>1. p = <<t, p[2]>> /\ p[2] \in 1..Pushes
      BY <2>5 DEF Share
    <3>2. p[2] \in Nat /\ 1 <= p[2] /\ p[2] <= i[t]
      BY <2>2, <2>4, <3>1
    <3>3. p \in Known
      BY <2>1, <2>3, <3>1, <3>2 DEF Accounted, Counting, MadeIsKnown
    <3> QED
      BY <2>1, <2>5, <3>3 DEF Accounted, Known
  <2> QED
    BY <2>4, <2>5
<1> QED
  BY <1>1, BenchAlways, PTL

\* If nothing failed, the size cleanup_server prints before it deletes the queue
\* counts pushes of this run only, all of them with acknowledgements and no
\* expiration; any other is in the queue, on its way or dropped.
THEOREM SizeAccountedCorrect == Spec => []SizeAccounted
<1>1. BenchInv => SizeAccounted
  <2> SUFFICES ASSUME BenchInv, main = "cleanup", step[Main] = "delete", refused = {},
                      config.clients > 0
               PROVE  /\ size <= Cardinality(Shares)
                      /\ ~config.noack /\ ~config.expiration => size = Cardinality(Shares)
                      /\ queue.messages \cup pending \cup lost = Shares
    BY DEF SizeAccounted
  <2>1. Known = Shares
    BY AllKnown
  <2>2. Sized
    BY DEF BenchInv
  <2> QED
    BY <2>1, <2>2 DEF Known, Sized
<1> QED
  BY <1>1, BenchAlways, PTL
=============================================================================
