----------------------------- MODULE EmqService -----------------------------
(***************************************************************************)
(* What the commands of libemq promise: a remote call to a server that     *)
(* executes requests in the order of the calls, each at most once.  A      *)
(* command that waits for its reply returns what the server did with its   *)
(* own request, or that it does not know; one that does not wait returns   *)
(* at once and is executed later or never.                                 *)
(*                                                                         *)
(* No stream, no frames, no connection: EmqClient is shown to implement    *)
(* this for disciplined applications.                                      *)
(***************************************************************************)
EXTENDS EmqPacket

CONSTANTS MaxCalls, Statuses

VARIABLES
  issued,   \* requests numbered so far
  calling,  \* the request whose command waits for its reply, or 0
  served,   \* what the server did with each request
  result    \* the last command that returned

vars == <<issued, calling, served, result>>

\* Errors of a command that waited and cannot tell what became of its request.
Unknown == {"READ", "ALLOC"}

\* What a command that waited may return, given what the server did.
Truthful(r) ==
  /\ r.status = "OK" => served[r.id] = "SUCCESS"
  /\ r.status = "ERR" /\ r.error = "RESPONSE" =>
       served[r.id] \notin {"none", "SUCCESS"}
  /\ r.status = "ERR" /\ r.error \notin Unknown \cup {"RESPONSE", "NONE"} =>
       emq_get_error([code |-> served[r.id]]) = r.error
  /\ r.status = "ERR" /\ r.error = "NONE" =>
       r.c.body = "message" \/ served[r.id] \in {"ERROR", "ERROR_VALUE"}

Init ==
  /\ issued = 0 /\ calling = 0
  /\ served = [i \in 1..MaxCalls |-> "none"]
  /\ result.id = 0

\* A command that waits for its reply is called.
Call ==
  /\ calling = 0 /\ issued < MaxCalls
  /\ issued' = issued + 1 /\ calling' = issued + 1
  /\ UNCHANGED <<served, result>>

\* A command that does not wait, or whose request could not be written.
Post ==
  /\ calling = 0 /\ issued < MaxCalls
  /\ issued' = issued + 1
  /\ result'.id = issued + 1 /\ ~result'.waited
  /\ UNCHANGED <<calling, served>>

\* The server gets to a request: after every earlier one it will ever execute.
Execute ==
  \E id \in 1..issued, code \in Statuses :
    /\ \A j \in id..issued : served[j] = "none"
    /\ served' = [served EXCEPT ![id] = code]
    /\ UNCHANGED <<issued, calling, result>>

Return ==
  /\ calling # 0 /\ calling' = 0
  /\ result'.id = calling /\ result'.waited /\ Truthful(result')
  /\ UNCHANGED <<issued, served>>

\* The program dies in a call and is started again.
Abort ==
  /\ calling # 0 /\ calling' = 0
  /\ UNCHANGED <<issued, served, result>>

Next == Call \/ Post \/ Execute \/ Return \/ Abort

Spec == Init /\ [][Next]_vars
=============================================================================
