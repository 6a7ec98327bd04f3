---------------------------- MODULE EmqBenchmark ----------------------------
(***************************************************************************)
(* The program of benchmark.c: main sets the server up, starts one thread  *)
(* per client, joins them, prints, frees what they shared and cleans up.   *)
(* The threads share message_data and, through gethostbyname, the result   *)
(* buffer of the resolver; each has a client of its own.                   *)
(*                                                                         *)
(* A command with a reply is one step, as EmqService promises.  In noack   *)
(* mode a request is sent in one step and executed in another, or never.   *)
(***************************************************************************)
EXTENDS Integers, FiniteSets

CONSTANTS
  MaxClients,   \* the greatest -c
  MaxMessages,  \* the greatest -m
  Hosts,        \* how the server is given: by "name", or by "address", which
                \* stands for a UNIX socket too
  Oom,          \* TRUE: malloc may fail
  Refusals      \* TRUE: connections and commands may fail

ASSUME BenchmarkAssumption ==
  /\ MaxClients \in Nat /\ MaxMessages \in Nat
  /\ Hosts \subseteq {"name", "address"}
  /\ Oom \in BOOLEAN /\ Refusals \in BOOLEAN

VARIABLES
  config,        \* clients, messages, noack, host; expiration: the messages expire
  main,          \* where the main thread is
  step,          \* where each thread is in the function it executes
  next,          \* the thread init_threads creates or process_threads joins next
  i,             \* pushes made by each worker
  message_data,  \* "none", "allocated" or "freed"
  he,            \* the resolver's buffer: "empty", "partial" or "address"
  addr,          \* the address each thread connects to: "none", "server", "wrong"
  queue,         \* the server's queue: exists, messages; a message is the worker
                 \* that pushed it and the number of the push
  pending,       \* noack pushes on their way to the server
  lost,          \* pushes the server dropped: noack and refused, without a queue,
                 \* or expired
  size,          \* the size cleanup_server prints
  refused,       \* threads that had a failing connection or command
  used           \* message_data was read while it was not allocated

serverVars == <<queue, pending, lost>>

vars == <<config, main, step, next, i, message_data, he, addr, serverVars, size,
          refused, used>>

Main == 0
Threads == 0..MaxClients
Workers == 1..config.clients

\* What an earlier run that was interrupted left in the queue.
Leftover == <<Main, 1>>

NoQueue == [exists |-> FALSE, messages |-> {}]
NewQueue == [exists |-> TRUE, messages |-> {}]
OldQueue == [exists |-> TRUE, messages |-> {Leftover}]

Init ==
  /\ config \in [clients : 0..MaxClients, messages : 0..MaxMessages,
                 noack : BOOLEAN, expiration : BOOLEAN, host : Hosts]
  /\ main = "setup" /\ next = 1
  /\ step = [t \in Threads |-> IF t = Main THEN "connect" ELSE "none"]
  /\ i = [t \in Threads |-> 0]
  /\ message_data = "none" /\ he = "empty"
  /\ addr = [t \in Threads |-> "none"]
  /\ queue \in {NoQueue, NewQueue, OldQueue}
  /\ pending = {} /\ lost = {} /\ size = 0
  /\ refused = {} /\ used = FALSE

Goto(t, where) == step' = [step EXCEPT ![t] = where]
Refused(t) == refused' = refused \cup {t}

(***************************************************************************)
(* emq_tcp_connect, emq_unix_connect as a thread executes them.            *)
(***************************************************************************)
ConnectUnchanged ==
  UNCHANGED <<config, main, next, i, message_data, serverVars, size, used>>

\* A name that is no address is looked up; the resolver is entered by one
\* thread at a time and rewrites its buffer.
Resolve(t) ==
  /\ step[t] = "connect"
  /\ \/ /\ config.host = "name"
        /\ \A u \in Threads : step[u] # "lookup"
        /\ Goto(t, "lookup") /\ he' = "partial" /\ UNCHANGED addr
     \/ /\ config.host # "name"
        /\ Goto(t, "socket") /\ addr' = [addr EXCEPT ![t] = "server"] /\ UNCHANGED he
  /\ UNCHANGED refused /\ ConnectUnchanged

\* Mutant: the result of a failed lookup is used.
gethostbyname_unchecked(t) ==
  /\ step[t] = "lookup"
  /\ Goto(t, "copy") /\ he' \in {"address", "partial"}
  /\ UNCHANGED <<addr, refused>> /\ ConnectUnchanged

\* The buffer is complete.
gethostbyname(t) ==
  /\ step[t] = "lookup"
  /\ Goto(t, "copy") /\ he' = "address"
  /\ UNCHANGED <<addr, refused>> /\ ConnectUnchanged

\* emq_tcp_connect returns NULL: main exits, a worker says so and ends.
ConnectFails(t) ==
  /\ Goto(t, "ended") /\ Refused(t)
  /\ main' = IF t = Main THEN "exit" ELSE main
  /\ UNCHANGED <<config, next, i, message_data, addr, serverVars, size, used>>

\* The name cannot be resolved; nobody says what is in the buffer then.
LookupFails(t) ==
  /\ step[t] = "lookup" /\ Refusals
  /\ he' \in {"partial", "address"}
  /\ ConnectFails(t)

\* memcpy from the buffer of the resolver, which another thread may have
\* entered again.
CopyAddress(t) ==
  /\ step[t] = "copy"
  /\ Goto(t, "socket")
  /\ addr' = [addr EXCEPT ![t] = IF he = "address" THEN "server" ELSE "wrong"]
  /\ UNCHANGED <<he, refused>> /\ ConnectUnchanged

Connected(t) ==
  /\ step[t] = "socket" /\ addr[t] = "server"
  /\ Goto(t, "auth")
  /\ UNCHANGED <<he, addr, refused>> /\ ConnectUnchanged

NotConnected(t) ==
  /\ step[t] = "socket"
  /\ Refusals \/ addr[t] = "wrong"
  /\ ConnectFails(t) /\ UNCHANGED he

(***************************************************************************)
(* worker.                                                                 *)
(***************************************************************************)
WorkerUnchanged == UNCHANGED <<config, main, next, he, addr, size>>

\* msg in worker.
Pushes == config.messages \div config.clients

\* emq_auth and emq_queue_declare, whose results are not looked at.
WorkerSetup(t) ==
  /\ t # Main /\ step[t] \in {"auth", "declare"}
  /\ Goto(t, IF step[t] = "auth" THEN "declare" ELSE "create")
  /\ UNCHANGED refused \/ (Refusals /\ Refused(t))
  /\ UNCHANGED <<i, message_data, serverVars, used>> /\ WorkerUnchanged

\* emq_msg_create with zero copy, emq_msg_expire: a message that could not be
\* allocated is dereferenced and the program is gone.
WorkerMessage(t) ==
  /\ step[t] = "create"
  /\ \/ Goto(t, "push") /\ UNCHANGED main
     \/ Oom /\ main' = "crashed" /\ Goto(t, "ended")
  /\ UNCHANGED <<config, next, i, message_data, he, addr, serverVars, size, refused, used>>

\* A push that the server takes.
Stored(p) == queue' = [queue EXCEPT !.messages = @ \cup {p}]

\* emq_queue_push, reading the shared data.  After a failure, which may have
\* come after the server took the message, the worker returns.
WorkerPush(t) ==
  /\ step[t] = "push" /\ i[t] < Pushes
  /\ used' = (used \/ message_data # "allocated")
  /\ \/ /\ i' = [i EXCEPT ![t] = @ + 1]
        /\ \/ /\ config.noack /\ pending' = pending \cup {<<t, i[t] + 1>>}
              /\ UNCHANGED queue
           \/ /\ ~config.noack /\ queue.exists /\ Stored(<<t, i[t] + 1>>)
              /\ UNCHANGED pending
        /\ UNCHANGED <<step, refused>>
     \/ /\ Refusals \/ (~config.noack /\ ~queue.exists)
        /\ Goto(t, "ended") /\ Refused(t)
        /\ UNCHANGED queue \/ (queue.exists /\ Stored(<<t, i[t] + 1>>))
        /\ UNCHANGED <<i, pending>>
  /\ UNCHANGED <<message_data, lost>> /\ WorkerUnchanged

\* emq_msg_release, emq_disconnect, pthread_exit.
WorkerEnds(t) ==
  /\ step[t] = "push" /\ i[t] = Pushes
  /\ Goto(t, "ended")
  /\ UNCHANGED <<i, message_data, serverVars, refused, used>> /\ WorkerUnchanged

\* The server (external) gets to a noack push, connection by connection in the
\* order sent; it may refuse it, and nobody is told.
Execute(p) ==
  /\ \A q \in pending : q[1] = p[1] => p[2] <= q[2]
  /\ pending' = pending \ {p}
  /\ \/ queue.exists /\ Stored(p) /\ UNCHANGED lost
     \/ (Refusals \/ ~queue.exists) /\ lost' = lost \cup {p} /\ UNCHANGED queue
  /\ UNCHANGED <<config, main, step, next, i, message_data, he, addr, size, refused, used>>

\* The server drops a message whose time is over.
Expire(p) ==
  /\ config.expiration /\ p # Leftover
  /\ queue' = [queue EXCEPT !.messages = @ \ {p}] /\ lost' = lost \cup {p}
  /\ UNCHANGED <<config, main, step, next, i, message_data, he, addr, pending, size,
                 refused, used>>

(***************************************************************************)
(* main.                                                                   *)
(***************************************************************************)
MainUnchanged == UNCHANGED <<config, i, he, addr, pending, lost, used>>

\* Mutant: a queue that exists is used as it is.
setup_server_reuses ==
  /\ main = "setup" /\ step[Main] = "auth"
  /\ main' = "message" /\ queue' = IF queue.exists THEN queue ELSE NewQueue
  /\ Goto(Main, "none")
  /\ UNCHANGED <<next, message_data, refused, size>> /\ MainUnchanged

\* setup_server after the connect: emq_auth, and emq_queue_exist, whose error
\* looks like "no", emq_queue_delete, emq_queue_create.  One step: no other
\* thread runs and nothing is on its way to the server.
setup_server ==
  /\ main = "setup" /\ step[Main] = "auth"
  /\ \/ main' = "message" /\ queue' = NewQueue /\ UNCHANGED refused
     \/ /\ Refusals /\ main' = "exit" /\ Refused(Main)
        /\ queue' \in {queue, NoQueue, NewQueue}
  /\ Goto(Main, "none")
  /\ UNCHANGED <<next, message_data, size>> /\ MainUnchanged

init_message ==
  /\ main = "message"
  /\ \/ main' = "threads" /\ message_data' = "allocated"
     \/ Oom /\ main' = "exit" /\ UNCHANGED message_data
  /\ UNCHANGED <<step, next, queue, refused, size>> /\ MainUnchanged

\* Mutant: the last thread is not created.
init_threads_but_one ==
  /\ main = "threads"
  /\ \/ /\ next < config.clients
        /\ Goto(next, "connect") /\ next' = next + 1 /\ UNCHANGED main
     \/ /\ next >= config.clients
        /\ main' = "join" /\ next' = 1 /\ UNCHANGED step
  /\ UNCHANGED <<message_data, queue, refused, size>> /\ MainUnchanged

\* One thread after the other; if one cannot be created the others end with
\* the process.
init_threads ==
  /\ main = "threads"
  /\ \/ /\ next <= config.clients
        /\ Goto(next, "connect") /\ next' = next + 1 /\ UNCHANGED main
     \/ /\ next > config.clients
        /\ main' = "join" /\ next' = 1 /\ UNCHANGED step
     \/ Oom /\ main' = "exit" /\ UNCHANGED <<step, next>>
  /\ UNCHANGED <<message_data, queue, refused, size>> /\ MainUnchanged

\* Mutant: the shared data is freed with the first thread joined.
process_threads_frees ==
  /\ main = "join"
  /\ \/ /\ next <= config.clients /\ step[next] = "ended"
        /\ next' = next + 1 /\ message_data' = "freed" /\ UNCHANGED main
     \/ /\ next > config.clients
        /\ main' = "print" /\ UNCHANGED <<next, message_data>>
  /\ UNCHANGED <<step, queue, refused, size>> /\ MainUnchanged

\* Mutant: the last thread is not joined.
process_threads_but_one ==
  /\ main = "join"
  /\ \/ /\ next < config.clients /\ step[next] = "ended"
        /\ next' = next + 1 /\ UNCHANGED main
     \/ /\ next >= config.clients
        /\ main' = "print" /\ UNCHANGED next
  /\ UNCHANGED <<step, message_data, queue, refused, size>> /\ MainUnchanged

process_threads ==
  /\ main = "join"
  /\ \/ /\ next <= config.clients /\ step[next] = "ended"
        /\ next' = next + 1 /\ UNCHANGED main
     \/ /\ next > config.clients
        /\ main' = "print" /\ UNCHANGED next
  /\ UNCHANGED <<step, message_data, queue, refused, size>> /\ MainUnchanged

\* print_statistics, destroy_message, destroy_threads.
destroy_message ==
  /\ main = "print"
  /\ main' = "cleanup" /\ message_data' = "freed" /\ Goto(Main, "connect")
  /\ UNCHANGED <<next, queue, refused, size>> /\ MainUnchanged

(***************************************************************************)
(* cleanup_server after the connect: one request after the other on a      *)
(* connection of its own, while noack pushes may still arrive.             *)
(***************************************************************************)
Cleaning(where) ==
  /\ main = "cleanup" /\ step[Main] = where
  /\ UNCHANGED <<next, message_data>> /\ MainUnchanged

MayBeRefused == UNCHANGED refused \/ (Refusals /\ Refused(Main))

\* emq_auth, whose result is not looked at.
CleanupAuth ==
  /\ Cleaning("auth")
  /\ Goto(Main, "exist") /\ MayBeRefused
  /\ UNCHANGED <<main, queue, size>>

\* emq_queue_exist; an error looks like "no".
CleanupExist ==
  /\ Cleaning("exist")
  /\ \/ queue.exists /\ Goto(Main, "size") /\ UNCHANGED <<main, refused>>
     \/ /\ (~queue.exists /\ UNCHANGED refused) \/ (Refusals /\ Refused(Main))
        /\ Goto(Main, "ended") /\ main' = "end"
  /\ UNCHANGED <<queue, size>>

\* emq_queue_size and the printf, which prints an error as -1.
CleanupSize ==
  /\ Cleaning("size")
  /\ \/ size' = Cardinality(queue.messages) /\ UNCHANGED refused
     \/ size' = -1 /\ Refusals /\ Refused(Main)
  /\ Goto(Main, "delete")
  /\ UNCHANGED <<main, queue>>

\* emq_queue_delete, whose result is not looked at, and emq_disconnect.
CleanupDelete ==
  /\ Cleaning("delete")
  /\ \/ queue' = NoQueue /\ MayBeRefused
     \/ Refusals /\ Refused(Main) /\ UNCHANGED queue
  /\ Goto(Main, "ended") /\ main' = "end"
  /\ UNCHANGED size

cleanup_server == CleanupAuth \/ CleanupExist \/ CleanupSize \/ CleanupDelete

Over == {"end", "exit", "crashed"}

\* Steps of a thread; none is left once the process is gone.
ThreadStep(t) ==
  /\ main \notin Over
  /\ \/ Resolve(t) \/ gethostbyname(t) \/ LookupFails(t) \/ CopyAddress(t)
     \/ Connected(t) \/ NotConnected(t)
     \/ WorkerSetup(t) \/ WorkerMessage(t) \/ WorkerPush(t) \/ WorkerEnds(t)

MainStep ==
  \/ setup_server \/ init_message \/ init_threads \/ process_threads
  \/ destroy_message \/ cleanup_server

Next ==
  \/ MainStep
  \/ \E t \in Threads : ThreadStep(t)
  \/ \E p \in pending : Execute(p)
  \/ \E p \in queue.messages : Expire(p)

Spec == Init /\ [][Next]_vars

\* Every thread is scheduled, and a command gets its reply or fails.
FairSpec == Spec /\ WF_vars(MainStep) /\ \A t \in Threads : WF_vars(ThreadStep(t))

(***************************************************************************)
(* Properties.                                                             *)
(***************************************************************************)
\* No worker reads message_data before it is allocated or after it is freed.
SharedDataAlive ==
  /\ ~used
  /\ \A t \in Threads \ {Main} :
       step[t] = "push" /\ main \notin Over => message_data = "allocated"

\* Once the threads are joined, every worker that met no failure has made its
\* share of the pushes, whatever became of the others, and with
\* acknowledgements and no expiration they are all in the queue.  A share is
\* config.messages divided by config.clients, without the remainder: what
\* print_statistics calls completed can be more than all the shares.
Share(t) == {t} \X (1..Pushes)
SharesPushed ==
  main = "print" /\ config.clients > 0 =>
    \A t \in Workers \ refused :
      /\ i[t] = Pushes
      /\ ~config.noack /\ ~config.expiration => Share(t) \subseteq queue.messages

\* A thread copies a half-written address only if the server is given by name
\* and two workers look it up: main never resolves while a worker does.
AddressRace ==
  \A t \in Threads : addr[t] = "wrong" => t # Main /\ config.host = "name" /\ config.clients > 1

\* If nothing failed, the size cleanup_server prints counts pushes of this run
\* only and, with acknowledgements and no expiration, every one of them; else
\* a push it misses arrived between emq_queue_size and emq_queue_delete, is
\* still on its way or was dropped.
Shares == Workers \X (1..Pushes)
SizeAccounted ==
  main = "cleanup" /\ step[Main] = "delete" /\ refused = {} /\ config.clients > 0 =>
    /\ size <= Cardinality(Shares)
    /\ ~config.noack /\ ~config.expiration => size = Cardinality(Shares)
    /\ queue.messages \cup pending \cup lost = Shares

\* The program ends.
Ends == <>(main \in Over)
=============================================================================
