----------------------------- MODULE EmqEntries -----------------------------
(***************************************************************************)
(* What the subscription lists of a client promise: two sequences of       *)
(* entries, the latest first.  A subscribe puts an entry in front, an      *)
(* unsubscribe removes every entry of the name in one step, an event goes  *)
(* to the first entry of its name.  EmqClient is built on this; EmqMemory  *)
(* shows that the linked lists implement it.                               *)
(***************************************************************************)
EXTENDS Naturals, Sequences, SequencesExt

CONSTANTS Lists, Names, NULL

VARIABLES
  entries,  \* the entries of each list
  chosen    \* the entry an event was given to, while its callback runs

vars == <<entries, chosen>>

Of(seq, name) == SelectSeq(seq, LAMBDA e : e.name = name)
Without(seq, name) == SelectSeq(seq, LAMBDA e : e.name # name)

Init == entries = [l \in Lists |-> <<>>] /\ chosen = NULL

\* An entry is never added twice, so ids tell entries apart.
Subscribe ==
  \E l \in Lists, name \in Names :
    /\ Len(entries'[l]) > 0 /\ Head(entries'[l]).name = name
    /\ \A m \in Lists : \A e \in Range(entries[m]) : e.id < Head(entries'[l]).id
    /\ entries' = [entries EXCEPT ![l] = <<Head(entries'[l])>> \o @]
    /\ UNCHANGED chosen

Unsubscribe ==
  \E l \in Lists, name \in Names :
    /\ entries' = [entries EXCEPT ![l] = Without(@, name)]
    /\ UNCHANGED chosen

Deliver ==
  \E l \in Lists, name \in Names :
    /\ chosen = NULL /\ Of(entries[l], name) # <<>>
    /\ chosen' = Head(Of(entries[l], name))
    /\ UNCHANGED entries

Return == chosen' = NULL /\ UNCHANGED entries

\* The client is released, or the program is gone.
Clear ==
  /\ entries' = [l \in Lists |-> <<>>]
  /\ chosen' \in {chosen, NULL}

Next == Subscribe \/ Unsubscribe \/ Deliver \/ Return \/ Clear

Spec == Init /\ [][Next]_vars
=============================================================================
