------------------------------ MODULE EmqList ------------------------------
(***************************************************************************)
(* The doubly linked list of emq.c: emq_list, emq_list_node and            *)
(* emq_list_iterator.  A list is a value that holds the structure and the  *)
(* memory of its nodes: `alive' are the nodes allocated, next, prev and    *)
(* value their members.  An operation is a function from lists to lists;   *)
(* EmqMemory says which memory it touches and frees.                       *)
(***************************************************************************)
EXTENDS Naturals, Sequences

CONSTANTS
  Node,  \* addresses of list nodes
  NULL   \* the null pointer

ASSUME NodeAssumption == NULL \notin Node

emq_list_init ==
  [head |-> NULL, tail |-> NULL, length |-> 0, alive |-> {},
   next  |-> [n \in Node |-> NULL],
   prev  |-> [n \in Node |-> NULL],
   value |-> [n \in Node |-> NULL]]

\* Mutant: the old head does not learn its new neighbour.
emq_list_add_value_one_way(l, n, v) ==
  [head   |-> n,
   tail   |-> IF l.length = 0 THEN n ELSE l.tail,
   length |-> l.length + 1,
   alive  |-> l.alive \cup {n},
   next   |-> [l.next EXCEPT ![n] = IF l.length = 0 THEN NULL ELSE l.head],
   prev   |-> [l.prev EXCEPT ![n] = NULL],
   value  |-> [l.value EXCEPT ![n] = v]]

\* A value goes to the head; n is the node malloc returned.
emq_list_add_value(l, n, v) ==
  [head   |-> n,
   tail   |-> IF l.length = 0 THEN n ELSE l.tail,
   length |-> l.length + 1,
   alive  |-> l.alive \cup {n},
   next   |-> [l.next EXCEPT ![n] = IF l.length = 0 THEN NULL ELSE l.head],
   prev   |-> [m \in Node |-> IF m = n THEN NULL
                              ELSE IF l.length # 0 /\ m = l.head THEN n
                              ELSE l.prev[m]],
   value  |-> [l.value EXCEPT ![n] = v]]

\* The node is taken out and freed; what it held is left unspecified.
emq_list_delete_node(l, n) ==
  [head   |-> IF l.prev[n] # NULL THEN l.head ELSE l.next[n],
   tail   |-> IF l.next[n] # NULL THEN l.tail ELSE l.prev[n],
   length |-> l.length - 1,
   alive  |-> l.alive \ {n},
   next   |-> [m \in Node |-> IF m = n THEN NULL
                              ELSE IF m = l.prev[n] THEN l.next[n] ELSE l.next[m]],
   prev   |-> [m \in Node |-> IF m = n THEN NULL
                              ELSE IF m = l.next[n] THEN l.prev[n] ELSE l.prev[m]],
   value  |-> [l.value EXCEPT ![n] = NULL]]

\* The nodes met from the head on, as emq_list_next and emq_list_release meet
\* them; NULL behind the last.
Walk(l) ==
  LET node[k \in Nat] == IF k = 0 THEN l.head
                         ELSE IF node[k - 1] = NULL THEN NULL
                         ELSE l.next[node[k - 1]]
  IN node

\* emq_list_release walks `length' nodes; these it frees.
Walked(l) == LET node == Walk(l) IN {node[k] : k \in 0..(l.length - 1)}

\* An iterator is the node it will return next.
emq_list_rewind(l) == l.head
emq_list_next(l, iter) == IF iter # NULL THEN l.next[iter] ELSE NULL

(***************************************************************************)
(* What a list stands for.  s is the sequence of its nodes.                *)
(***************************************************************************)
Represents(l, s) ==
  /\ l.alive = {s[i] : i \in 1..l.length}
  /\ \A i, j \in 1..l.length : s[i] = s[j] => i = j
  /\ l.head = IF l.length = 0 THEN NULL ELSE s[1]
  /\ l.tail = IF l.length = 0 THEN NULL ELSE s[l.length]
  /\ \A i \in 1..l.length :
       /\ l.next[s[i]] = IF i = l.length THEN NULL ELSE s[i + 1]
       /\ l.prev[s[i]] = IF i = 1 THEN NULL ELSE s[i - 1]

WellFormed(l) == \E s \in [1..l.length -> l.alive] : Represents(l, s)

\* The values from head to tail.
Values(l) == LET node == Walk(l) IN [i \in 1..l.length |-> l.value[node[i - 1]]]
=============================================================================
