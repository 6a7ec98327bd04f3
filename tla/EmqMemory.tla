----------------------------- MODULE EmqMemory -----------------------------
(***************************************************************************)
(* The memory of one client: who allocates, who frees, and what is still   *)
(* referred to.  The client structure and its socket, the two subscription *)
(* lists with their entries, the lists that commands like emq_user_list    *)
(* return, and messages.                                                   *)
(*                                                                         *)
(* A block is <<kind, number>>; `heap' holds the blocks that are allocated *)
(* (a socket counts as one), the nodes of a list are in the list itself.   *)
(* Numbers are not reused, so a pointer to a freed block never looks       *)
(* valid.  A step that touches a block that is not allocated is undefined: *)
(* `fault' records it and nothing is said about what follows.              *)
(*                                                                         *)
(* Streams, frames and replies are in EmqClient: here a command that fails *)
(* before it allocates anything is no step.                                *)
(***************************************************************************)
EXTENDS EmqList

CONSTANTS
  Names,        \* names of queues and channels
  MaxConnects,  \* connections opened in a behaviour
  MaxMade,      \* entries, list objects and messages allocated in a behaviour
  Habits        \* what callbacks do: "own_name": unsubscribe with the name
                \* they were given, "disconnect": emq_disconnect

ASSUME MemoryAssumption ==
  /\ MaxConnects \in Nat /\ MaxMade \in Nat
  /\ Habits \subseteq {"own_name", "disconnect"}

VARIABLES
  pc,        \* "idle", in a loop ("unsub", "find", "payload", "objects"),
             \* "callback", or "undefined"
  heap,
  client,    \* number of the client the application holds, or 0
  connects,  \* clients constructed so far
  lists,     \* the lists of the client and the one a command returns
  result,    \* the application holds a returned list
  made,      \* entries, objects and messages allocated so far
  loop,      \* the loop over a list: list, iterator, name, whose name, caller
  held,      \* the entry whose callback runs
  msgs,      \* messages
  failed,    \* failures so far that leave something behind
  risky,     \* habits exercised so far
  fault      \* freed memory was touched

vars == <<pc, heap, client, connects, lists, result, made, loop, held, msgs,
          failed, risky, fault>>

Subscriptions == {"queue", "channel"}
Lists == Subscriptions \cup {"result"}

NoLoop == [list |-> "queue", next |-> NULL, name |-> NULL, own |-> 0, from |-> "idle"]
NoMsg == [state |-> "none", zero_copy |-> FALSE, data |-> <<"none", 0>>, copy |-> FALSE]

\* Blocks.
ClientBlock == <<"client", client>>
ListBlock(l) == <<l, client>>
ValueBlock(v) == <<"value", v.id>>
ValuesOf(l, nodes) == {ValueBlock(lists[l].value[n]) : n \in nodes}
AppData == <<"appdata", 0>>

\* Failures that leave memory, or a client, in a state of its own.
Lasting == {"request", "queue", "channel", "setsockopt", "node"}
Fails(what) == failed' = failed \cup (what \cap Lasting)

\* The step touches these blocks.
Touches(blocks) == fault' = (fault \/ ~(blocks \subseteq heap))

\* The library goes on with memory it has freed.
GoesUndefined ==
  /\ fault' = TRUE /\ pc' = "undefined"
  /\ lists' = [l \in Lists |-> emq_list_init] /\ held' = NULL /\ loop' = NoLoop
  /\ UNCHANGED <<heap, client, connects, result, made, msgs, failed, risky>>

(***************************************************************************)
(* Construction and connection: emq_client_init, emq_tcp_connect,          *)
(* emq_unix_connect and the functions of network.c under them.             *)
(***************************************************************************)
ClientParts(k) ==
  {<<"client", k>>, <<"request", k>>, <<"queue", k>>, <<"channel", k>>, <<"socket", k>>}

MayConnect == pc = "idle" /\ client = 0 /\ connects < MaxConnects

\* The structure or the request buffer cannot be allocated: NULL.  The lists
\* are allocated before the buffer is tested, and are not freed.
ConnectNoMemory(f) ==
  /\ MayConnect
  /\ f = {"client"} \/ ("request" \in f /\ f \subseteq {"request", "queue", "channel"})
  /\ heap' = heap \cup {<<l, connects + 1>> : l \in {m \in Subscriptions : f \cap {m, "client"} = {}}}
  /\ Fails(f)
  /\ connects' = connects + 1
  /\ UNCHANGED <<pc, client, lists, result, made, loop, held, msgs, risky, fault>>

\* A list cannot be allocated: the client is freed, and used in the next line.
ConnectNoList(f) ==
  /\ MayConnect /\ f \subseteq Subscriptions /\ f # {}
  /\ Fails(f)
  /\ fault' = TRUE /\ pc' = "undefined"
  /\ connects' = connects + 1
  /\ UNCHANGED <<heap, client, lists, result, made, loop, held, msgs, risky>>

NetworkSteps == {"socket", "setsockopt", "resolve", "connect", "nodelay"}

\* Mutant: the socket is not closed after a failed connect.
ConnectRefusedOpen(step) ==
  /\ MayConnect /\ step \in NetworkSteps
  /\ heap' = IF step \in {"setsockopt", "connect"} THEN heap \cup {<<"socket", connects + 1>>} ELSE heap
  /\ Fails({step})
  /\ connects' = connects + 1
  /\ UNCHANGED <<pc, client, lists, result, made, loop, held, msgs, risky, fault>>

\* A step of the connection fails and the client is released.  The socket is
\* closed, except by net_create_socket when setsockopt fails.
ConnectRefused(step) ==
  /\ MayConnect /\ step \in NetworkSteps
  /\ heap' = IF step = "setsockopt" THEN heap \cup {<<"socket", connects + 1>>} ELSE heap
  /\ Fails({step})
  /\ connects' = connects + 1
  /\ UNCHANGED <<pc, client, lists, result, made, loop, held, msgs, risky, fault>>

Connect ==
  /\ MayConnect
  /\ heap' = heap \cup ClientParts(connects + 1)
  /\ client' = connects + 1 /\ connects' = connects + 1
  /\ lists' = [lists EXCEPT !["queue"] = emq_list_init, !["channel"] = emq_list_init]
  /\ UNCHANGED <<pc, result, made, loop, held, msgs, failed, risky, fault>>

\* What emq_list_release frees besides the nodes: the values, with the
\* handler of the list, and the list.
Released(l) == ValuesOf(l, Walked(lists[l])) \cup {ListBlock(l)}

\* emq_client_disconnect and emq_client_release.  From a callback this is a
\* habit: emq_process still holds the client.
emq_disconnect ==
  /\ client # 0
  /\ \/ pc = "idle" /\ UNCHANGED risky
     \/ /\ pc = "callback" /\ "disconnect" \in Habits
        /\ risky' = risky \cup {"disconnect"}
  /\ heap' = heap \ (ClientParts(client) \cup Released("queue") \cup Released("channel"))
  /\ lists' = [lists EXCEPT !["queue"] = emq_list_init, !["channel"] = emq_list_init]
  /\ client' = 0
  /\ UNCHANGED <<pc, connects, result, made, loop, held, msgs, failed, fault>>

(***************************************************************************)
(* Subscriptions.                                                          *)
(***************************************************************************)
InApplication == pc \in {"idle", "callback"} /\ client # 0

\* emq_*_subscription_create and emq_list_add_value after the request was
\* accepted.  The result of emq_list_add_value is not looked at.
Subscribe(l, name) ==
  /\ InApplication /\ made < MaxMade
  /\ made' = made + 1
  /\ \/ /\ \E n \in Node \ lists[l].alive :
             lists' = [lists EXCEPT ![l] =
                         emq_list_add_value(@, n, [id |-> made + 1, name |-> name])]
        /\ heap' = heap \cup {<<"value", made + 1>>}
        /\ UNCHANGED failed
     \/ /\ heap' = heap \cup {<<"value", made + 1>>}
        /\ Fails({"node"})
        /\ UNCHANGED lists
     \/ /\ Fails({"value"})
        /\ UNCHANGED <<heap, lists>>
  /\ UNCHANGED <<pc, client, connects, result, loop, held, msgs, risky, fault>>

\* An unsubscribe reaches its loop.  `own' is the entry its name argument
\* points into, 0 if the name is the application's.
Unsubscribe(l, name, own) ==
  /\ InApplication
  /\ \/ own = 0 /\ UNCHANGED risky
     \/ /\ pc = "callback" /\ "own_name" \in Habits
        /\ own = held.id /\ name = held.name /\ own # 0
        /\ risky' = risky \cup {"own_name"}
  /\ pc' = "unsub"
  /\ loop' = [list |-> l, next |-> emq_list_rewind(lists[l]), name |-> name,
              own |-> own, from |-> pc]
  /\ UNCHANGED <<heap, client, connects, lists, result, made, held, msgs, failed, fault>>

Looped == lists[loop.list]

\* The node the loop is at and what it compares are allocated.
LoopIsSafe ==
  /\ loop.next \in Looped.alive
  /\ {ClientBlock, ListBlock(loop.list), ValueBlock(Looped.value[loop.next])} \subseteq heap
  /\ loop.own # 0 => <<"value", loop.own>> \in heap

LoopUndefined ==
  /\ pc \in {"unsub", "find"} /\ loop.next # NULL
  /\ ~LoopIsSafe /\ GoesUndefined

UnsubscribeEnd ==
  /\ pc = "unsub" /\ loop.next = NULL
  /\ pc' = loop.from /\ loop' = NoLoop
  /\ UNCHANGED <<heap, client, connects, lists, result, made, held, msgs, failed, risky, fault>>

\* Mutant: the iterator leaves the node after the node is deleted.
UnsubscribeNodeStays ==
  /\ pc = "unsub" /\ loop.next # NULL /\ LoopIsSafe
  /\ \/ /\ Looped.value[loop.next].name = loop.name
        /\ lists' = [lists EXCEPT ![loop.list] = emq_list_delete_node(@, loop.next)]
        /\ heap' = heap \ {ValueBlock(Looped.value[loop.next])}
        /\ UNCHANGED loop
     \/ /\ Looped.value[loop.next].name # loop.name
        /\ loop' = [loop EXCEPT !.next = emq_list_next(Looped, @)]
        /\ UNCHANGED <<lists, heap>>
  /\ UNCHANGED <<pc, client, connects, result, made, held, msgs, failed, risky, fault>>

\* The iterator has left the node before the node is deleted.
UnsubscribeNode ==
  /\ pc = "unsub" /\ loop.next # NULL /\ LoopIsSafe
  /\ \/ /\ Looped.value[loop.next].name = loop.name
        /\ lists' = [lists EXCEPT ![loop.list] = emq_list_delete_node(@, loop.next)]
        /\ heap' = heap \ {ValueBlock(Looped.value[loop.next])}
     \/ /\ Looped.value[loop.next].name # loop.name
        /\ UNCHANGED <<lists, heap>>
  /\ loop' = [loop EXCEPT !.next = emq_list_next(Looped, @)]
  /\ UNCHANGED <<pc, client, connects, result, made, held, msgs, failed, risky, fault>>

(***************************************************************************)
(* Events: emq_process, emq_queue_process, emq_channel_process.            *)
(***************************************************************************)
\* emq_process runs while a list is not empty and reads an event.
Event(l, name) ==
  /\ pc = "idle" /\ client # 0
  /\ \E m \in Subscriptions : lists[m].length # 0
  /\ pc' = "find"
  /\ loop' = [NoLoop EXCEPT !.list = l, !.next = emq_list_rewind(lists[l]), !.name = name]
  /\ UNCHANGED <<heap, client, connects, lists, result, made, held, msgs, failed, risky, fault>>

FindEnd ==
  /\ pc = "find" /\ loop.next = NULL
  /\ pc' = "idle" /\ loop' = NoLoop
  /\ UNCHANGED <<heap, client, connects, lists, result, made, held, msgs, failed, risky, fault>>

\* Mutant: the search goes on past a match to the last one.
FindNodeLast ==
  /\ pc = "find" /\ loop.next # NULL /\ LoopIsSafe
  /\ \/ /\ Looped.value[loop.next].name = loop.name
        /\ \A v \in {Looped.value[n] : n \in Looped.alive} :
             v.name = loop.name => Looped.value[loop.next].id <= v.id
        /\ pc' = "payload" /\ held' = Looped.value[loop.next]
        /\ loop' = [loop EXCEPT !.next = NULL]
     \/ /\ loop' = [loop EXCEPT !.next = emq_list_next(Looped, @)]
        /\ UNCHANGED <<pc, held>>
  /\ UNCHANGED <<heap, client, connects, lists, result, made, msgs, failed, risky, fault>>

FindNode ==
  /\ pc = "find" /\ loop.next # NULL /\ LoopIsSafe
  /\ \/ /\ Looped.value[loop.next].name = loop.name
        /\ pc' = "payload" /\ held' = Looped.value[loop.next]
        /\ loop' = [loop EXCEPT !.next = NULL]
     \/ /\ Looped.value[loop.next].name # loop.name
        /\ loop' = [loop EXCEPT !.next = emq_list_next(Looped, @)]
        /\ UNCHANGED <<pc, held>>
  /\ UNCHANGED <<heap, client, connects, lists, result, made, msgs, failed, risky, fault>>

\* A new message, whose data block carries its number unless it is given.
Room == made < MaxMade
NewMsg == made + 1
Message(zero_copy, data, copy) ==
  [state |-> "held", zero_copy |-> zero_copy, data |-> data, copy |-> copy]

\* emq_read_message succeeds.
ReadMessage ==
  /\ Room /\ made' = made + 1
  /\ heap' = heap \cup {<<"msg", NewMsg>>, <<"data", NewMsg>>}
  /\ msgs' = [msgs EXCEPT ![NewMsg] = Message(FALSE, <<"data", NewMsg>>, FALSE)]

\* The entry is found.  A notification of a queue carries no message;
\* emq_read_message frees what it allocated when it fails.
EventPayload ==
  /\ pc = "payload"
  /\ \/ loop.list = "queue" /\ pc' = "callback" /\ UNCHANGED <<heap, msgs, made, held, loop>>
     \/ ReadMessage /\ pc' = "callback" /\ UNCHANGED <<held, loop>>
     \/ pc' = "idle" /\ held' = NULL /\ loop' = NoLoop /\ UNCHANGED <<heap, msgs, made>>
  /\ UNCHANGED <<client, connects, lists, result, failed, risky, fault>>

\* The callback returns; emq_process looks at the lists of the client again.
ClientIsSafe == {ClientBlock, ListBlock("queue")} \subseteq heap
CallbackReturns ==
  /\ pc = "callback" /\ ClientIsSafe
  /\ pc' = "idle" /\ held' = NULL /\ loop' = NoLoop
  /\ UNCHANGED <<heap, client, connects, lists, result, made, msgs, failed, risky, fault>>
CallbackReturnsUndefined == pc = "callback" /\ ~ClientIsSafe /\ GoesUndefined

(***************************************************************************)
(* Lists a command returns: emq_user_list, emq_queue_list, emq_route_list, *)
(* emq_route_keys, emq_channel_list.                                       *)
(***************************************************************************)
\* The body was read into a buffer and the list allocated.  Such commands read
\* a reply, so they are issued outside callbacks (MayRead in EmqClient).
Query ==
  /\ pc = "idle" /\ client # 0 /\ ~result
  /\ pc' = "objects"
  /\ heap' = heap \cup {<<"buffer", 0>>, <<"result", 0>>}
  /\ UNCHANGED <<client, connects, lists, result, made, loop, held, msgs, failed, risky, fault>>

\* One object of the reply; a failing list node is not noticed.
QueryObject ==
  /\ pc = "objects" /\ made < MaxMade
  /\ made' = made + 1
  /\ heap' = heap \cup {<<"value", made + 1>>}
  /\ \/ /\ \E n \in Node \ lists["result"].alive :
             lists' = [lists EXCEPT !["result"] =
                         emq_list_add_value(@, n, [id |-> made + 1, name |-> NULL])]
        /\ UNCHANGED failed
     \/ Fails({"node"}) /\ UNCHANGED lists
  /\ UNCHANGED <<pc, client, connects, result, loop, held, msgs, risky, fault>>

ResultReleased == ValuesOf("result", Walked(lists["result"])) \cup {<<"result", 0>>}

\* An object cannot be allocated: list and buffer are released.
QueryNoObject ==
  /\ pc = "objects"
  /\ heap' = heap \ (ResultReleased \cup {<<"buffer", 0>>})
  /\ lists' = [lists EXCEPT !["result"] = emq_list_init]
  /\ Fails({"value"})
  /\ pc' = "idle"
  /\ UNCHANGED <<client, connects, result, made, loop, held, msgs, risky, fault>>

QueryEnd ==
  /\ pc = "objects"
  /\ heap' = heap \ {<<"buffer", 0>>}
  /\ result' = TRUE /\ pc' = "idle"
  /\ UNCHANGED <<client, connects, lists, made, loop, held, msgs, failed, risky, fault>>

\* The application is done with the list.
emq_list_release ==
  /\ pc \in {"idle", "callback"} /\ result
  /\ heap' = heap \ ResultReleased
  /\ lists' = [lists EXCEPT !["result"] = emq_list_init]
  /\ result' = FALSE
  /\ UNCHANGED <<pc, client, connects, made, loop, held, msgs, failed, risky, fault>>

(***************************************************************************)
(* Messages of the application.                                            *)
(***************************************************************************)
MsgStep == pc \in {"idle", "callback"} /\
  UNCHANGED <<pc, client, connects, lists, result, loop, held, failed, risky>>

\* With zero copy the message refers to the data of the application, without
\* it owns a copy.
emq_msg_create(zero_copy) ==
  /\ MsgStep /\ Room /\ made' = made + 1
  /\ LET data == IF zero_copy THEN AppData ELSE <<"data", NewMsg>>
     IN /\ heap' = heap \cup {<<"msg", NewMsg>>, data}
        /\ msgs' = [msgs EXCEPT ![NewMsg] = Message(zero_copy, data, FALSE)]
  /\ UNCHANGED fault

\* The copy owns its data whatever the original does.  Its zero_copy is not
\* set: it holds what the memory held before.
emq_msg_copy(i) ==
  /\ MsgStep /\ Room /\ made' = made + 1 /\ msgs[i].state = "held"
  /\ Touches({<<"msg", i>>, msgs[i].data})
  /\ heap' = heap \cup {<<"msg", NewMsg>>, <<"data", NewMsg>>}
  /\ \E garbage \in BOOLEAN :
       msgs' = [msgs EXCEPT ![NewMsg] = Message(garbage, <<"data", NewMsg>>, TRUE)]

\* Mutant: the data is freed whatever zero_copy says.
emq_msg_release_always(i) ==
  /\ MsgStep /\ UNCHANGED made /\ msgs[i].state = "held"
  /\ Touches({<<"msg", i>>})
  /\ heap' = heap \ {<<"msg", i>>, msgs[i].data}
  /\ msgs' = [msgs EXCEPT ![i].state = "released"]

emq_msg_release(i) ==
  /\ MsgStep /\ UNCHANGED made /\ msgs[i].state = "held"
  /\ Touches({<<"msg", i>>} \cup (IF msgs[i].zero_copy THEN {} ELSE {msgs[i].data}))
  /\ heap' = heap \ ({<<"msg", i>>} \cup (IF msgs[i].zero_copy THEN {} ELSE {msgs[i].data}))
  /\ msgs' = [msgs EXCEPT ![i].state = "released"]

(***************************************************************************)
(* Specification.                                                          *)
(***************************************************************************)
Init ==
  /\ pc = "idle" /\ heap = {AppData} /\ client = 0 /\ connects = 0
  /\ lists = [l \in Lists |-> emq_list_init] /\ result = FALSE /\ made = 0
  /\ loop = NoLoop /\ held = NULL
  /\ msgs = [i \in 1..MaxMade |-> NoMsg]
  /\ failed = {} /\ risky = {} /\ fault = FALSE

Next ==
  \/ \E f \in SUBSET {"client", "request", "queue", "channel"} :
       ConnectNoMemory(f) \/ ConnectNoList(f)
  \/ \E step \in NetworkSteps : ConnectRefused(step)
  \/ Connect \/ emq_disconnect
  \/ \E l \in Subscriptions, name \in Names :
       \/ Subscribe(l, name)
       \/ \E own \in 0..MaxMade : Unsubscribe(l, name, own)
       \/ Event(l, name)
  \/ UnsubscribeEnd \/ UnsubscribeNode \/ FindEnd \/ FindNode \/ LoopUndefined
  \/ EventPayload \/ CallbackReturns \/ CallbackReturnsUndefined
  \/ Query \/ QueryObject \/ QueryNoObject \/ QueryEnd \/ emq_list_release
  \/ \E zero_copy \in BOOLEAN : emq_msg_create(zero_copy)
  \/ \E i \in 1..MaxMade : emq_msg_copy(i) \/ emq_msg_release(i)

Spec == Init /\ [][Next]_vars

(***************************************************************************)
(* Properties.                                                             *)
(***************************************************************************)
\* What the application can reach: its data, the client with its lists and
\* their entries, its messages, the list it was returned.
Reached ==
  {AppData}
    \cup (IF client = 0 THEN {} ELSE
            ClientParts(client) \cup (UNION {ValuesOf(l, lists[l].alive) : l \in Subscriptions}))
    \cup (UNION {{<<"msg", i>>, msgs[i].data} : i \in {j \in 1..MaxMade : msgs[j].state = "held"}})
    \cup (IF ~result /\ pc # "objects" THEN {} ELSE
            {<<"result", 0>>} \cup ValuesOf("result", lists["result"].alive))
    \cup (IF pc = "objects" THEN {<<"buffer", 0>>} ELSE {})

\* Every list is a chain of exactly `length' allocated nodes from head to
\* tail, the same forwards and backwards, also between two deletions of an
\* unsubscribe.
ListsWellFormed == \A l \in Lists : WellFormed(lists[l])

\* Nothing the application or the client refers to has been freed.
NoDangling == pc # "undefined" => Reached \subseteq heap

\* Freed memory is touched only after the allocation of a list failed in
\* emq_client_init, or by a callback that disconnects or unsubscribes with the
\* name it was given: deleting while iterating, subscribing and unsubscribing
\* from callbacks and releasing messages there are safe.
FreedNeverTouched ==
  fault => failed \cap Subscriptions # {} \/ risky # {}

\* Memory nothing refers to any more is a list of a client whose request buffer
\* could not be allocated, a socket without its option, an entry or object
\* whose list node could not be allocated, or the data of a copied message.
LeaksExplained ==
  pc # "undefined" =>
    \A b \in heap \ Reached :
      \/ b[1] \in Subscriptions /\ "request" \in failed
      \/ b[1] = "socket" /\ "setsockopt" \in failed
      \/ b[1] = "value" /\ "node" \in failed
      \/ b[1] = "data" /\ msgs[b[2]].copy

\* The entries as the rest of the client sees them: an unsubscribe has
\* removed them all when its loop starts.
SeenEntries(l) ==
  LET Kept(e) == pc = "unsub" /\ loop.list = l => e.name # loop.name
  IN SelectSeq(Values(lists[l]), Kept)

\* The linked lists implement the sequences of entries of EmqEntries.
Entries == INSTANCE EmqEntries WITH
  Lists <- Subscriptions,
  entries <- [l \in Subscriptions |-> SeenEntries(l)],
  chosen <- held
ImplementsEntries == Entries!Spec
=============================================================================
