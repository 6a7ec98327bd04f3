# libemq in TLA+

libemq is the C client library of the EagleMQ message broker. This directory
holds TLA+ models of it, the TLC configurations that check them and TLAPS
proofs about them. `PROJECT.json` maps every definition to the lines it models.

## The system

| component | where | state | operations |
|---|---|---|---|
| client | `emq.c` | `emq_client`: status, error text, request buffer, noack, fd, two subscription lists | connect, disconnect, noack on and off, last error |
| commands | `emq.c` | none of their own | 43 functions: system, user, queue, route, channel |
| packet layer | `packet.c`, `protocol.h` | the request buffer and its length | 43 request builders, header and status checks, error mapping |
| event loop | `emq.c` | the lists, the position in the inbound stream | `emq_process`, `emq_queue_process`, `emq_channel_process`, callbacks |
| socket | `network.c` | fd | connect, `emq_client_read`, `_write`, `_writev` |
| lists | `emq.c` | doubly linked list | add at head, delete, iterate, release |
| messages | `emq.c` | data, size, tag, expire, zero copy | create, copy, expire, release |
| server | external | subscriptions of the connection | answers requests in order, sends events |
| programs | `examples/`, `benchmark.c` | one client per thread | the sequences of calls the library is meant for |

The library is sequential and blocking. A command clears the error text, checks
its arguments, builds the request in the client's buffer, writes it and, unless
noack mode makes the reply superfluous, reads the reply: header, check, status,
body. `emq_process` blocks reading events, finds the entry of the event by name
and calls the application, which may issue commands from the callback.

What is hard is that one inbound stream carries replies and events and that
nothing in a reply says which request it answers: the client knows what it
reads only by counting. Interleavings of server and client, reads and writes
that stop in the middle of a frame, lost connections, failing allocations and
the order in which the application calls the library all threaten the count.
A component is correct if

* commands: OK means the server executed the request with success, an error of
  the server means it did not, and the whole reply is taken from the stream;
* event loop: it reads headers where headers start and hands every event to a
  callback in order;
* lists: there is an entry for everything the server sends events for;
* packet layer: nothing overruns its array or the buffer, and the header says
  how much follows;
* socket: a call moves the next bytes of the stream in order and inside the
  buffer of its caller, however the kernel splits them, or reports that it did not;
* memory: what is freed is not used again, and what is lost is lost only where
  the code gives it up;
* benchmark: the threads never read the shared message while it is not there,
  each pushes its share, the size printed at the end counts the pushes of this
  run, and the program ends;
* all: commands return, and the loop ends when the connection does.

`PROJECT.json` lists the hazards, each at its line.

## Modules

* `EmqPacket`: statuses, error codes, header checks, `emq_get_error`, the
  structures of the requests (widths of their arrays) and the 43 builders
  (limits in their guards).
* `EmqApi` (extends it): one descriptor per command, recording where the
  function differs from the common skeleton: checks before the build, `write` or
  `writev`, whether the reply is read in noack mode, exact or mini header check,
  the command the reply is compared with, the body, the effect on the lists.
* `EmqClient` (extends `EmqApi`): the machine that executes those descriptors,
  the event loop, the application, the two streams and the server.
* `EmqRequest` (extends `EmqApi`): the request buffer in bytes.
* `EmqNetwork`: the loops of `emq_client_read`, `_write` and `_writev` over the
  system calls, a kernel that splits the stream and a peer that may go away.
* `EmqList`: the doubly linked list as operators on a heap of nodes.
  `EmqMemory` (extends it): everything libemq allocates for one client, its
  construction and release, subscriptions, callbacks, returned lists, messages.
* `EmqBenchmark`: `benchmark.c`, main and its worker threads.
* Abstract specifications: `EmqService` (a command is a remote call),
  `EmqTransfer` (a transfer is one step), `EmqEntries` (a list is a sequence of
  entries, an unsubscribe one step).
* Theorems: `EmqClientProofs` (types), `EmqReplyProofs` (replies; extends it),
  `EmqServiceProofs` (commands as remote calls) and `EmqEventProofs` (events and
  subscriptions; both extend `EmqReplyProofs`), `EmqRequestProofs` (requests),
  `EmqNetworkProofs` (transfers), `EmqMemoryProofs` (lists and ownership),
  `EmqBenchmarkProofs` (threads).
* `MCEmqClient`, `MCEmqRequest`, `MCEmqNetwork`, `MCEmqMemory`,
  `MCEmqBenchmark`: what TLC runs; the configurations give all constants their
  values.

How they fit together:

    EmqBenchmark    uses a command with a reply as the step EmqService promises
         |
    EmqService      implemented by EmqClient for disciplined applications
         |
    EmqClient       reads and writes as EmqTransfer promises (ReadOk, ReadFails),
      |      |      keeps entries as EmqEntries promises (IsFirstNamed)
      |      |
    EmqTransfer   EmqEntries
      |             |
    EmqNetwork    EmqMemory

The three implementations are stated with `INSTANCE ... WITH` and checked as
properties: `ImplementsService`, `ImplementsTransfer`, `ImplementsEntries`. In the
first, a command counts as calling while it reads. In the second, bytes the
kernel handed out count as taken when the function returns. In the third, an
unsubscribe counts as done when its loop starts, although it removes one node
at a time.

### EmqClient and the code

`pc` is where the thread of the application is: `idle`; in a command (`reply`,
`body`, `tag`, `message`: the `emq_client_read` it is blocked in); in
`emq_process` (`event`, `fields`, `payload`); in a `callback`; or `crashed`.
A command is `CallRejected`, `CallWriteFails`, or `CallSent` followed by the
`Reply*`, `Body*`, `Tag*` and `Message*` steps: one step per blocking call with
everything the function does until the next one. `status`, `error`, `noack` and
the two lists are the members of `emq_client`. A list is a set of entries
numbered by request; `emq_list_add_value` inserts at the head, so the first entry
found is the one with the greatest number (`IsFirstNamed`).

The inbound stream is a sequence of words, each knowing its frame and its place
in it; a read takes words, not frames. A word stands for some bytes, so that a
read can stop inside a header, a tag, a name or a message. Bytes from the middle
of a frame never pass for a header (`Header`): their magic number is wrong.
Outbound, a request is whole or cut.

Steps that are not libemq's are external: `ServerStep` (requests are executed
in order, a reply is sent unless the request carries noack and its result is
only a status), `SendEvent`, `Drop` (the connection is lost, with any suffix of
what was under way), `ServerMisframe` (the rest of a cut request never comes),
`Restart`. The writes of a client whose peer is gone fail with -1: the
application is assumed to ignore SIGPIPE. Events are never shorter than the
fields in front of their message.

Variables that exist only for the properties: `served` (what the server did
with each request), `done` (the last command that ended), `sent`, `delivered`,
`subscribed`, and `trusted`. `trusted` becomes false when a call fails in a way
that leaves the position in the stream unknown (a failed read or write, a
response that was not recognised, an allocation, any failure of
`emq_process`). A careful application then disconnects (`Reuse = FALSE`).

`Usage` says when the application issues commands that read a reply:
`"examples"` as the example programs do, before the first subscribe of a
connection and in noack mode after it; `"readme"` whenever it holds no
subscription; `"any"`.

### EmqRequest and the code

`Build` is a builder with the code around it: the guards on the strings,
`emq_set_header_request` with its conversions to `uint32_t`,
`emq_check_realloc_client_request`, `emq_set_client_request`, and what the
command hands to `write` or `writev`. Structures are packed (`#pragma pack`), so
sizes are sums.

### EmqNetwork and the code

`totlen`, `buf` and `count` are the variables of the functions; `buf` is the
distance the pointer has moved, kept apart from `totlen` because the code
advances both. Bytes are named by their position, so that a byte stored twice,
skipped or put in the wrong place shows. `memory` is the caller's buffer in a
read and what reached the stream in a write. The system calls are external:
they move between one byte and what was asked, wait, are interrupted, fail.
`emq_client_read` and `_write` give up on a signal; `_writev` tries again, but
returns a short count as it is.

### EmqMemory and the code

A block is a kind and a number that is never reused; `heap` is the set of those
allocated, sockets included. List nodes live in the lists (`next`, `prev`, `value`,
`alive`). `fault` becomes true when a step touches memory that is not allocated;
where the code would go on with it, the behaviour ends in `"undefined"`. Two
kinds of history explain what the properties exclude: `failed` (failures that
leave something behind) and `risky` (a callback that disconnects, or
unsubscribes with the very name it was given). Every allocation can fail where
the code tests it or fails to test it. The five functions that return lists
build them in the same way and share `Query*`; those that return one structure
have nothing beyond it to lose.

### EmqBenchmark and the code

`main` and `step` are the positions of the threads. A connect is four steps
because `gethostbyname` returns a buffer that all threads share: the lookup
that rewrites it, its return, the copy by `memcpy`, the connect. The resolver is
assumed to admit one thread at a time. `config` ranges over all values of `-c` and
`-m` up to the bounds, with and without `--noack`. In noack mode a push is sent in
one step and executed in another (`Execute`), connection by connection in the
order sent, or refused silently; with an expiration time the server may drop a
message at any moment (`Expire`). A message is its worker and the number of its
push, so that a message of an earlier run (`Leftover`), one lost and one counted
twice can be told apart. The requests of `cleanup_server` are steps of their own,
because pushes can arrive between them; those of `setup_server` are one step,
because no other thread runs yet and nothing is under way. A lookup that fails
(`LookupFails`) leaves the buffer in either state.

`print_statistics` prints `config.messages` as the requests completed
(`benchmark.c:250`), and the usage text promises that many "for all connections"
(`benchmark.c:280`). The model shows that this is not so: each worker pushes
`config.messages / config.clients` messages (`Pushes`), so that 5 messages on 2
clients make 4 pushes although nothing fails, and fewer when a worker fails. What
holds is `SharesPushed`, which speaks of the shares and not of the number printed.

## Runs

Runs that pass:

| run | shows |
|---|---|
| `session` | one queue; the nine shapes of command (status, structure, word, list, tagged message, push, confirm, subscribe, unsubscribe), success, an error with a text and one without; signals, short writes, failing allocations, lost connections. `OkMeansServed`, `ErrorMeansNotServed`, `ReplyConsumed`, `OwnReplyOnly`: replies are matched with their commands and read to the end. `FrameAligned`, `EventsInOrder`: events are read frame by frame and delivered in order. `ReplyInv`: the inductive invariant behind the first group. `ImplementsService`: requests are executed in the order of the calls, at most once, and a command returns what the server did with its own request or that it cannot tell. |
| `events` | two queues and a channel with topic and pattern events, whose bodies differ in layout: `QueueListed`, the client has an entry for every queue the server sends events for; events of a removed entry end the loop instead of being skipped (`EventsInOrder`, `FrameAligned`). |
| `progress` | `OnlyKnownHangs` and `LossEndsProcess`, with fairness, for an application that issues commands in any order and keeps using the connection after errors: the client may misread the stream (`EventRejected` happens here and in no disciplined run), and still hangs for two reasons only, a request cut short by `writev` and an `emq_stat` that was refused. |
| `request` | `FieldsFit`, `Announced`, `NeverReallocated` for all builders on lengths around their limits. |
| `network` | `InBuffer`, the kernel is never asked for more than the rest of the buffer; `ImplementsTransfer`; `CallEnds`, calls return however the stream is split, interrupted or ended. |
| `memory` | every allocation and every step of a connect can fail, callbacks have both habits. `ListsWellFormed`: the lists stay chains, also between two deletions. `NoDangling`: what the application or the client refers to is allocated. `FreedNeverTouched`: the exceptions are `emq_client_init` after a list could not be allocated, and the two habits of callbacks. `LeaksExplained`: what nobody refers to any more was given up at one of four places. `ImplementsEntries`. |
| `benchmark` | `SharedDataAlive`: the shared message is there while a worker may read it. `SharesPushed`: when the threads are joined, every worker without a failure has pushed its share, whatever became of the others. `AddressRace`: only workers, and only two that look up a name, can copy a half-written address. `SizeAccounted`: the size `cleanup_server` prints counts the pushes of this run, and those it misses arrived after it was read, are under way or were dropped. With fairness, `Ends`. |

Runs in which TLC finds the property violated, because code and documentation
disagree (`findings` in `PROJECT.json` quotes both):

| run | what happens |
|---|---|
| `punsubscribe` | `emq_channel_punsubscribe` compares the reply with the command of `emq_channel_unsubscribe`: with replies enabled it always fails, after the server has executed it. |
| `unsubscribe_topic` | `emq_channel_unsubscribe` removes the entries of all topics of the channel; the events of the others then end `emq_process`. |
| `get_crash` | `emq_read_message_tag` writes through the NULL of `emq_read_message`. |
| `late_event` | an event sent before the server saw the last unsubscribe is read as the reply to the next command. |
| `short_writev` | `writev` falls short and both sides wait. |

Seen while modelling and kept in the model, without a run of their own:

* events of a channel go to its latest callback whatever the topic;
* `emq_stat` reads header and body of its reply with one call (`emq.c:629`): when
  the server refuses it with a bare header the call waits for the body, where
  `src/README.md:413` promises `EMQ_STATUS_ERR`. `OnlyKnownHangs` names this as an
  exception (`StatRefused`) and does not hold without it;
* a failing list node loses an entry although subscribe returns OK;
* statuses ERROR and ERROR_VALUE leave an empty error text;
* a read interrupted by a signal leaves the reply in the stream, and an
  application that goes on takes it for the reply to its next command of the
  same kind;
* `emq_client_init` frees the client when a list cannot be allocated and goes on
  with it; when the request buffer cannot be allocated the lists are lost, and
  so is the socket whose option cannot be set;
* `emq_msg_copy` leaves `zero_copy` of the copy unset, so that its data may never
  be freed;
* a callback that calls `emq_disconnect`, or unsubscribes with the name pointer it
  was given, makes libemq read freed memory;
* threads of one program that connect by host name can copy a half-written
  address; the benchmark does this with two clients or more;
* the benchmark prints the number of messages asked for, although the division
  by the number of clients drops a remainder, a worker that fails stops early
  and noack pushes may not be executed yet.

### Bounds

* Client: a header is two words and a tag two, so reads stop inside them; names,
  topics and messages are one word. `MaxCalls` is 3 (2 with fairness): a command
  that disturbs the stream, one that suffers from it and a subscribe between
  them. `MaxEvents` is 2: an event and one that it delays or misaligns. One
  queue is enough where names do not matter; `events` has two, so that one entry
  is removed while another stays. Three statuses stand for success and the two
  kinds of refusal, with and without an error text. `ListLens` has the empty list
  and one of two words.
* `request`: `uint32_t` is scaled to 4096 values because TLC's integers have 32
  bits; the structures keep their sizes and the string lengths surround 32 and 64.
* `network`: transfers of 0, 1, 3 and 4 bytes: nothing, one piece, and up to four
  pieces; the send buffer of 2 is smaller than a transfer, so that a write waits
  for the peer in the middle; 5 bytes from the peer, so that a second read
  starts inside what is left; 3 calls and 2 signals.
* `memory`: three nodes and `MaxMade` 3, so that a node is deleted at the head, in
  the middle and at the tail; two names, so that an unsubscribe deletes some and
  keeps others; two connects, so that a failed one precedes one that works. Nodes
  are interchangeable (symmetry).
* `benchmark`: two clients, so that they race in the resolver, one fails while
  the other goes on and one is joined while the other still pushes; five
  messages, so that each pushes twice and the division leaves a remainder.

### Fairness

`FairSpec` assumes weak fairness of the steps of a command, of the steps of
`emq_process` between callbacks (a thread blocked in `read` goes on once the data
or the end of the stream is there), of the return of callbacks, and of the
server for requests it has received whole. Nothing is assumed about new calls,
events or the network. Not every command returns, so `progress` checks that it
returns or hangs for one of two reasons: the server waits for the rest of a
request cut short by `writev` (`CutRequest`; `short_writev` is the run that shows
it), or `emq_stat` waits for the body of a refusal that has none (`StatRefused`).

`FairSpec` of `EmqNetwork` assumes that a system call that can return does
(`Proceeds`) and that a peer that has not reset the connection drains what it
was sent (`PeerDrains`); nothing about what the peer sends. That of
`EmqBenchmark` assumes that every thread is scheduled (`MainStep`, each
`ThreadStep`), a command with a reply being one step that returns. That
leaves out a worker hung by a short `writev`; `OnlyKnownHangs` shows that the
commands of the benchmark have no other reason to hang, for it does not call
`emq_stat`.

### Mutants

Definitions whose comment starts with "Mutant" are slips the code could have
had, each refuting one property of one run (`mutants` in `PROJECT.json`). They are
not used by the specifications.

## Proofs

All proofs are checked by TLAPS (SMT, Zenon, LS4). They hold for every value of
the constants that satisfies the named assumptions.

* `TypeCorrect` (`EmqClientProofs`): `Spec => []TypeOK`, from
  `ConstantsAssumption` (sizes are positive, statuses are those of the protocol,
  flags are Boolean). `TypeOK` is inductive as it stands because it says that the
  argument of a pending request is one its command can have: without that the
  lists and the server's subscriptions could not be typed. One lemma per action
  or family of actions; lemmas about reads, appended frames and the shape of
  replies and events are stated once.
* `OkMeansServedCorrect`, `ReplyConsumedCorrect`, `OwnReplyOnlyCorrect`,
  `ReplyInvCorrect` (`EmqReplyProofs`): for applications with `Disciplined`, that
  is: replies are read only before the first subscribe of a connection, and a
  connection is given up after an error that leaves its position unknown. The
  server reports errors with bare headers, as in every run. Signals, short writes, failing
  allocations and lost connections are all allowed. None of the three properties
  is inductive: that a returned `OK` is the server's needs the reply in front of
  the stream to be the command's own, which needs that no event can precede it,
  which needs that the server held no subscription when the request was written,
  which needs that no earlier unanswered subscribe is still on its way. `ReplyInv`
  says all this: `Pending` (the request that will be answered is the last one, and
  stream and subscriptions are empty until then), `Waiting`, `NotSubscribed`,
  `EventsAfterReply`, `StreamAtRest`, `StreamInCall`, `ReplyLeft` (how many words
  of the reply are unread at each point) and `ReplyServed` (the reply says what
  the server did, and no later request can change it). The proof has one lemma
  per family of steps: steps outside commands (`RestStep`), returns
  (`ReturnStep`), reads inside a reply, requests with and without a reply, the
  server taking a request at rest, before or as the awaited one, events, breaks.
  The run `late_event` shows that the discipline is needed.
* `ErrorMeansNotServedCorrect`, `ImplementsServiceCorrect` (`EmqServiceProofs`): for
  disciplined applications that do not call `emq_channel_punsubscribe`
  (`Comparable`); the run `punsubscribe` shows why. `ServiceInv`, on top of
  `ReplyInv`: requests are numbered in the order written (`RequestsNumbered`), the
  server has not got to one it has still to take nor to a later one
  (`ServedInTurn`), the reply carries the command of its request (`OwnCommand`), and
  a refusal the application was told of is one the server made and cannot change
  any more (`RefusalServed`). `ChecksOwnReply` goes through the commands and shows
  that the header check of each accepts the reply the server sends to it. Every
  step then maps to a call, a post, an execution, a return, an abort of
  `EmqService`, or a stutter.
* `FrameAlignedCorrect`, `EventsInOrderCorrect` (`EmqEventProofs`): for disciplined
  applications and any layout of frames. That the next header is found by
  counting needs to know the whole stream behind it, so `EventInv` describes the
  stream by a property of pairs of words, which reads, cuts and appended frames
  preserve without induction: counting from any word to a later one finds the
  words of the same frame and, right behind it, the first word of the next event
  in number (`Chained`). With it go the end of the stream (`StreamEnded`: it ends
  with the last event sent), its front (`StreamHead`, `HeaderRead`: where
  `emq_process` stands in the frame, and that this frame is the event after the
  last one delivered), and that commands which read replies run before anything
  is subscribed (`Commanding`, `Processing`, `NoEventsBefore`). A stream whose
  position the application has lost is claimed nothing of (`Live`).
* `QueueListedCorrect` (`EmqEventProofs`): for disciplined applications, if memory
  does not run out and the server refuses nothing (`Granted`). Both are needed: a
  subscribe that loses its list node returns OK, and nobody reads the refusal of
  an unsubscribe in noack mode. The lists agree only at rest; `ListInv` says what
  holds in between: a queue missing in the client's list is being subscribed to,
  or every subscribe of it under way is followed by an unsubscribe under way, and
  so is the server's subscription.
* `RequestAnnounced`, `RequestFieldsFit`, `RequestNeverReallocated`,
  `RequestTypeCorrect` (`EmqRequestProofs`): from `RequestAssumption` (4096 and 2^32
  satisfy it). `EveryRequestFits` goes through the 43 commands and shows that the
  limits in `packet.c` are the widths in `protocol.h`; `BodySize` bounds the
  structures; `RequestInv` is the inductive invariant.
* `NetInvCorrect`, `InBufferCorrect`, `TransferImplemented` (`EmqNetworkProofs`): from
  `NetworkAssumption` (sizes are natural numbers, the send buffer is not empty).
  `NetInv` says that pointer and total agree and that the bytes moved so far are
  the next ones of the stream in order; without it neither the bound of the next
  call nor the contents of the buffer at the return are known. `ReadReturns`,
  `WriteReturns` and `WritevReturns` map a return to the abstract call,
  `TransferStep` every other step to a stutter, an arrival or a loss.
* `ListsWellFormedCorrect` (`EmqMemoryProofs`): for any set of nodes, names and any
  bounds. `AddSound` and `DeleteSound` exhibit, for an arbitrary list, the sequence of
  nodes after an insertion at the head and after a deletion at any place, and
  check every link against it; `Sound` adds the types of the links. `ListsInv` adds
  that a loop runs over one of the client's own lists. A node is deleted only if
  it is still in the list (`LoopIsSafe`); where it is not, the behaviour ends.
* `NoDanglingCorrect`, `FreedNeverTouchedCorrect`, `LeaksExplainedCorrect`
  (`EmqMemoryProofs`): what is reachable is defined by a walk along the lists, a
  recursive function. That the walk meets exactly the nodes allocated is shown
  without an induction theorem: a set of numbers has a least element (`LeastNat`,
  from the well-foundedness of the naturals), so a first position at which walk
  and sequence differ would exist, and the recursion refutes it. `MemInv` then
  accounts for every block in both directions: what is in use is allocated
  (`Live`), what is allocated is in use or was left behind at a named place
  (`Accounted`); entries have numbers of their own (`Numbered`), so that freeing one
  does not free another; an iterator points into its list (`LoopState`).
* `SharedDataAliveCorrect`, `SharesPushedCorrect`, `AddressRaceCorrect`,
  `SizeAccountedCorrect` (`EmqBenchmarkProofs`): from `BenchmarkAssumption`, for any
  number of clients and messages. `BenchInv` says which threads can run in each
  phase of main (`Phases`), that the shared data is there in the phases in which
  workers run (`Shared`), when the resolver's buffer is incomplete (`Resolver`) and
  how far each worker has come (`Pushing`). What is in the queue, under way and lost
  is equated with what the workers have pushed, message by message and in both
  directions (`Accounted`: `KnownWasMade`, `MadeIsKnown`); a push that failed may be
  known to the server all the same. With it the printed size is the cardinality
  of a subset of the shares when it is read, and of all of them with
  acknowledgements; that it stays true while the queue changes is `Sized`.

The inductive invariants `ServiceInv`, `EventInv`, `ListInv`, `MemInv` and `BenchInv` were
checked by TLC on the constants of the runs before they were proved.

Only model-checked:

* `ImplementsEntries`: the abstract lists are filtered with `SelectSeq`, for which
  the library has no theorems; the facts about filtering a sequence from which
  one node is deleted have to be stated and proved first;
* `OnlyKnownHangs`, `LossEndsProcess`, `CallEnds` and `Ends`: liveness under fairness
  is out of the prover's reach.

## Not modelled

* The contents of replies (versions, counters, names) and the layout of the
  structures they are copied into; the wording of errors.
* `emq_msg_expire` and the accessors, which assign or read one member.
* Of the programs in `examples/`, everything but the order of their calls
  (`Usage`); `simple.c` calls each function once and prints.
* Options of the benchmark's command line, its clock and the arithmetic of its
  statistics.
* SIGPIPE, which ends an application that does not ignore it; truncation of UNIX
  paths; transfers of 2^31 bytes and more.
* Two threads sharing one client: the library offers no locking and the programs
  use one client per thread.

## Plan

1. Done: `EmqPacket`, `EmqApi`, `EmqClient`, `EmqRequest`, the runs above, type
   correctness and the request buffer.
2. Done: `ReplyInv` for disciplined applications and from it `OkMeansServed`,
   `ReplyConsumed` and `OwnReplyOnly`.
3. Done: `EmqList`, `EmqMemory` (list, ownership of messages and entries,
   construction and its failures) against `EmqEntries`; `EmqNetwork` against
   `EmqTransfer`; `EmqClient` against `EmqService`; `EmqBenchmark`; the proofs for
   `EmqNetwork` and for the lists.
4. Done: the proofs of every safety property of the runs but one: replies and
   refusals, `ImplementsService`, events and subscriptions, ownership of memory,
   the benchmark.
5. Next: facts about `SelectSeq` on the sequences of `EmqList`, and `ImplementsEntries`
   from them and `MemInv`.
