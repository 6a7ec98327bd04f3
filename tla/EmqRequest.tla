----------------------------- MODULE EmqRequest -----------------------------
(***************************************************************************)
(* The request buffer of a client: how packet.c fills it and what emq.c    *)
(* hands to the socket, with the sizes in bytes.                           *)
(*                                                                         *)
(* The buffer client->request is allocated once and used by every command; *)
(* client->pos is the length of the request in it.  The three commands     *)
(* that send a message give writev the buffer and the message, and the     *)
(* header must announce the sum.                                           *)
(***************************************************************************)
EXTENDS EmqApi, Integers

CONSTANTS
  EMQ_DEFAULT_REQUEST_SIZE, \* bytes allocated by emq_client_init
  EMQ_MAX_REQUEST_SIZE,     \* limit of emq_check_realloc_client_request
  EMQ_MAX_MSG_SIZE,         \* the largest message of the documentation
  U32,                      \* number of values of a uint32_t
  StrLens,                  \* string lengths the application passes
  MsgSizes                  \* message sizes the application passes

sizeof_header == 8
sizeof_expire == 4

\* No structure has more than three character arrays.
Total(w) == (IF Len(w) >= 1 THEN w[1] ELSE 0) + (IF Len(w) >= 2 THEN w[2] ELSE 0)
              + (IF Len(w) >= 3 THEN w[3] ELSE 0)
sizeof_body(c) == c.req.body.integers + Total(c.req.body.strings)

\* The first allocation holds every request (a header and a structure of at most
\* 172 bytes), and the documented maximum leaves room in bodylen for the largest structure and the
\* expire time, as 2^31 - 1 does in 2^32.
ASSUME RequestAssumption ==
  /\ {EMQ_DEFAULT_REQUEST_SIZE, EMQ_MAX_REQUEST_SIZE, EMQ_MAX_MSG_SIZE, U32}
       \subseteq Nat
  /\ StrLens \subseteq Nat /\ MsgSizes \subseteq Nat
  /\ EMQ_DEFAULT_REQUEST_SIZE >= 180 /\ EMQ_MAX_MSG_SIZE + 176 < U32

VARIABLES
  noack,  \* client->noack
  size,   \* client->size
  pos,    \* client->pos
  fields, \* per string copied: bytes copied and width of the array
  msg,    \* size of the message of the last command, 0 if it has none
  header, \* header in the buffer
  given   \* bytes handed to write or writev

vars == <<noack, size, pos, fields, msg, header, given>>

Init ==
  /\ noack = 0 /\ size = EMQ_DEFAULT_REQUEST_SIZE /\ pos = 0
  /\ fields = <<>> /\ msg = 0 /\ given = 0
  /\ header = [cmd |-> "", noack |-> 0, bodylen |-> 0]

strlenz(n) == n + 1

\* Mutant: the terminating zero is not counted.
StringsAcceptedNoZero(c, lens) ==
  \A i \in 1..Len(c.req.limits) : lens[i] <= c.req.limits[i]

\* The guards of the builders, on the lengths of their string arguments.
StringsAccepted(c, lens) ==
  \A i \in 1..Len(c.req.limits) : strlenz(lens[i]) <= c.req.limits[i]

\* What follows the structure: the third parameter of the message builders.
appended(c, m) == IF c.req.message THEN (IF c.expire THEN sizeof_expire ELSE 0) + m ELSE 0

\* Mutant: bodylen does not count the expire time.
emq_set_header_request_no_expire(c, m) ==
  header' = [cmd |-> c.req.cmd, noack |-> noack,
             bodylen |-> (sizeof_body(c) + (IF c.req.message THEN m ELSE 0)) % U32]

\* emq_set_header_request, with the conversions to uint32_t of the size passed
\* to the builder and of bodylen.
emq_set_header_request(c, m) ==
  header' = [cmd |-> c.req.cmd, noack |-> noack,
             bodylen |-> (sizeof_body(c) + (appended(c, m) % U32)) % U32]

\* Mutant: the comparison is reversed.
emq_check_realloc_reversed(n) ==
  IF size > n THEN n <= EMQ_MAX_REQUEST_SIZE /\ size' = n ELSE size' = size

\* A realloc that returns NULL has no branch: it could never be taken
\* (NeverReallocated).
emq_check_realloc_client_request(n) ==
  IF size < n THEN n <= EMQ_MAX_REQUEST_SIZE /\ size' = n ELSE size' = size

emq_set_client_request(n) == pos' = n

Build(c, lens, m) ==
  /\ c.check = "message" => m >= 1
  /\ StringsAccepted(c, lens)
  /\ fields' = [i \in 1..Len(lens) |->
                  [copied |-> strlenz(lens[i]), width |-> c.req.body.strings[i]]]
  /\ emq_set_header_request(c, m)
  /\ emq_check_realloc_client_request(sizeof_header + sizeof_body(c))
  /\ emq_set_client_request(sizeof_header + sizeof_body(c))
  /\ msg' = (IF c.req.message THEN m ELSE 0)
  /\ given' = pos' + appended(c, m)
  /\ UNCHANGED noack

\* Mutant: the flag counts.
emq_noack_enable_counts ==
  noack' = noack + 1 /\ noack < 3 /\ UNCHANGED <<size, pos, fields, msg, header, given>>

emq_noack_enable == noack' = 1 /\ UNCHANGED <<size, pos, fields, msg, header, given>>
emq_noack_disable == noack' = 0 /\ UNCHANGED <<size, pos, fields, msg, header, given>>

Next ==
  \/ \E c \in AllCalls : \E lens \in [1..Len(c.req.limits) -> StrLens] :
       \E m \in (IF c.req.message THEN MsgSizes ELSE {0}) : Build(c, lens, m)
  \/ emq_noack_enable \/ emq_noack_disable

Spec == Init /\ [][Next]_vars

\* The sizes are numbers and the header is one the builders can leave.
TypeOK ==
  /\ noack \in {0, 1} /\ size \in Nat /\ pos \in Nat /\ msg \in Nat /\ given \in Nat
  /\ header.noack \in {0, 1} /\ header.bodylen \in 0..(U32 - 1)

\* Every string, with its terminating zero, fits the array it is copied to:
\* the limits in packet.c agree with the structures of protocol.h.
FieldsFit == \A i \in DOMAIN fields : fields[i].copied <= fields[i].width

\* What is handed to the socket is as long as its header announces, for every
\* message up to the documented maximum: the server finds the next request.
Announced ==
  given > 0 /\ msg <= EMQ_MAX_MSG_SIZE => given = sizeof_header + header.bodylen

\* The buffer holds the request, and the allocation made by emq_client_init is
\* enough: emq_check_realloc_client_request never reallocates, so its error
\* path, which loses the buffer, is never taken.
NeverReallocated == pos <= size /\ size = EMQ_DEFAULT_REQUEST_SIZE
=============================================================================
