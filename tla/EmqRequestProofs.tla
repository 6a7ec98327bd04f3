-------------------------- MODULE EmqRequestProofs --------------------------
(***************************************************************************)
(* Proofs about EmqRequest: for all string lengths, message sizes and      *)
(* buffer sizes that satisfy RequestAssumption.                            *)
(***************************************************************************)
EXTENDS EmqRequest, TLAPS

\* The arrays of the request structures, and a request whose guards allow
\* exactly what its arrays hold.
Shapes == {<<>>, <<32>>, <<64>>, <<32, 32>>, <<64, 64>>, <<64, 32>>, <<64, 64, 32>>}
Fits(r) == /\ r.limits = r.body.strings
           /\ r.body.strings \in Shapes
           /\ r.body.integers \in 0..12
           /\ r.message \in BOOLEAN

\* A command keeps the request it is built from.
LEMMA Requests ==
  /\ \A api, req : Command(api, req).req = req
  /\ \A api, req, hd, body : Query(api, req, hd, body).req = req
  /\ \A api, req, effect : Subscribe(api, req, effect).req = req
  /\ \A api, req, effect : Unsubscribe(api, req, effect).req = req
  /\ emq_queue_push.req = emq_queue_push_request
  /\ emq_route_push.req = emq_route_push_request
  /\ emq_channel_publish.req = emq_channel_publish_request
  /\ emq_queue_confirm.req = emq_queue_confirm_request
  /\ emq_channel_punsubscribe.req = emq_channel_punsubscribe_request
BY DEF Command, Query, Send, Subscribe, Unsubscribe, emq_queue_push,
       emq_route_push, emq_channel_publish, emq_queue_confirm, emq_channel_punsubscribe

\* The limits in packet.c are the widths of the arrays in protocol.h.
LEMMA EveryRequestFits == \A c \in AllCalls : Fits(c.req)
<1>1. \A cmd : \A s \in Shapes : \A n \in {0, 1, 4, 8, 12} :
        Fits(Request(cmd, s, Struct(s, n))) /\ Fits(MessageRequest(cmd, s, Struct(s, n)))
  BY DEF Fits, Request, MessageRequest, Struct
<1>2. /\ <<>> \in Shapes /\ <<32>> \in Shapes /\ <<64>> \in Shapes /\ <<32, 32>> \in Shapes
      /\ <<64, 64>> \in Shapes /\ <<64, 32>> \in Shapes /\ <<64, 64, 32>> \in Shapes
  BY DEF Shapes
<1>3. /\ Fits(emq_auth.req) /\ Fits(emq_ping.req) /\ Fits(emq_stat.req)
      /\ Fits(emq_save.req) /\ Fits(emq_flush.req)
  <2>1. /\ system_request_body.AUTH = Struct(<<32, 32>>, 0)
        /\ system_request_body.PING = NoBody /\ system_request_body.STAT = NoBody
        /\ system_request_body.SAVE = Struct(<<>>, 1)
        /\ system_request_body.FLUSH = Struct(<<>>, 4)
    BY DEF system_request_body
  <2>2. /\ Fits(emq_auth_request) /\ Fits(emq_ping_request)
        /\ Fits(emq_stat_request) /\ Fits(emq_save_request)
        /\ Fits(emq_flush_request)
    BY <1>1, <1>2, <2>1 DEF emq_auth_request, emq_ping_request, emq_stat_request, emq_save_request,
       emq_flush_request, NoBody
  <2>3. /\ emq_auth.req = emq_auth_request
        /\ emq_ping.req = emq_ping_request
        /\ emq_stat.req = emq_stat_request
        /\ emq_save.req = emq_save_request
        /\ emq_flush.req = emq_flush_request
    BY Requests DEF emq_auth, emq_ping, emq_stat, emq_save, emq_flush
  <2> QED
    BY <2>2, <2>3
<1>4. /\ Fits(emq_user_create.req) /\ Fits(emq_user_list.req)
      /\ Fits(emq_user_rename.req) /\ Fits(emq_user_set_perm.req)
      /\ Fits(emq_user_delete.req)
  <2>1. /\ user_request_body.USER_CREATE = Struct(<<32, 32>>, 8)
        /\ user_request_body.USER_LIST = NoBody
        /\ user_request_body.USER_RENAME = Struct(<<32, 32>>, 0)
        /\ user_request_body.USER_SET_PERM = Struct(<<32>>, 8)
        /\ user_request_body.USER_DELETE = Struct(<<32>>, 0)
    BY DEF user_request_body
  <2>2. /\ Fits(emq_user_create_request) /\ Fits(emq_user_list_request)
        /\ Fits(emq_user_rename_request) /\ Fits(emq_user_set_perm_request)
        /\ Fits(emq_user_delete_request)
    BY <1>1, <1>2, <2>1 DEF emq_user_create_request, emq_user_list_request, emq_user_rename_request,
       emq_user_set_perm_request, emq_user_delete_request, NoBody
  <2>3. /\ emq_user_create.req = emq_user_create_request
        /\ emq_user_list.req = emq_user_list_request
        /\ emq_user_rename.req = emq_user_rename_request
        /\ emq_user_set_perm.req = emq_user_set_perm_request
        /\ emq_user_delete.req = emq_user_delete_request
    BY Requests DEF emq_user_create, emq_user_list, emq_user_rename, emq_user_set_perm,
       emq_user_delete
  <2> QED
    BY <2>2, <2>3
<1>5. /\ Fits(emq_queue_create.req) /\ Fits(emq_queue_declare.req)
      /\ Fits(emq_queue_exist.req) /\ Fits(emq_queue_list.req)
      /\ Fits(emq_queue_rename.req) /\ Fits(emq_queue_size.req)
      /\ Fits(emq_queue_push.req) /\ Fits(emq_queue_get.req)
      /\ Fits(emq_queue_pop.req) /\ Fits(emq_queue_confirm.req)
      /\ Fits(emq_queue_subscribe.req) /\ Fits(emq_queue_unsubscribe.req)
      /\ Fits(emq_queue_purge.req) /\ Fits(emq_queue_delete.req)
  <2>1. /\ queue_request_body.QUEUE_CREATE = Struct(<<64>>, 12)
        /\ queue_request_body.QUEUE_DECLARE = Struct(<<64>>, 0)
        /\ queue_request_body.QUEUE_EXIST = Struct(<<64>>, 0)
        /\ queue_request_body.QUEUE_LIST = NoBody
        /\ queue_request_body.QUEUE_RENAME = Struct(<<64, 64>>, 0)
        /\ queue_request_body.QUEUE_SIZE = Struct(<<64>>, 0)
        /\ queue_request_body.QUEUE_PUSH = Struct(<<64>>, 0)
        /\ queue_request_body.QUEUE_GET = Struct(<<64>>, 0)
        /\ queue_request_body.QUEUE_POP = Struct(<<64>>, 4)
        /\ queue_request_body.QUEUE_CONFIRM = Struct(<<64>>, 8)
        /\ queue_request_body.QUEUE_SUBSCRIBE = Struct(<<64>>, 4)
        /\ queue_request_body.QUEUE_UNSUBSCRIBE = Struct(<<64>>, 0)
        /\ queue_request_body.QUEUE_PURGE = Struct(<<64>>, 0)
        /\ queue_request_body.QUEUE_DELETE = Struct(<<64>>, 0)
    BY DEF queue_request_body
  <2>2. /\ Fits(emq_queue_create_request) /\ Fits(emq_queue_declare_request)
        /\ Fits(emq_queue_exist_request) /\ Fits(emq_queue_list_request)
        /\ Fits(emq_queue_rename_request) /\ Fits(emq_queue_size_request)
        /\ Fits(emq_queue_push_request) /\ Fits(emq_queue_get_request)
        /\ Fits(emq_queue_pop_request) /\ Fits(emq_queue_confirm_request)
        /\ Fits(emq_queue_subscribe_request) /\ Fits(emq_queue_unsubscribe_request)
        /\ Fits(emq_queue_purge_request) /\ Fits(emq_queue_delete_request)
    BY <1>1, <1>2, <2>1 DEF emq_queue_create_request, emq_queue_declare_request, emq_queue_exist_request,
       emq_queue_list_request, emq_queue_rename_request, emq_queue_size_request,
       emq_queue_push_request, emq_queue_get_request, emq_queue_pop_request,
       emq_queue_confirm_request, emq_queue_subscribe_request,
       emq_queue_unsubscribe_request, emq_queue_purge_request,
       emq_queue_delete_request, NoBody
  <2>3. /\ emq_queue_create.req = emq_queue_create_request
        /\ emq_queue_declare.req = emq_queue_declare_request
        /\ emq_queue_exist.req = emq_queue_exist_request
        /\ emq_queue_list.req = emq_queue_list_request
        /\ emq_queue_rename.req = emq_queue_rename_request
        /\ emq_queue_size.req = emq_queue_size_request
        /\ emq_queue_push.req = emq_queue_push_request
        /\ emq_queue_get.req = emq_queue_get_request
        /\ emq_queue_pop.req = emq_queue_pop_request
        /\ emq_queue_push.req = emq_queue_push_request
  /\ emq_route_push.req = emq_route_push_request
  /\ emq_channel_publish.req = emq_channel_publish_request
  /\ emq_queue_confirm.req = emq_queue_confirm_request
        /\ emq_queue_subscribe.req = emq_queue_subscribe_request
        /\ emq_queue_unsubscribe.req = emq_queue_unsubscribe_request
        /\ emq_queue_purge.req = emq_queue_purge_request
        /\ emq_queue_delete.req = emq_queue_delete_request
    BY Requests DEF emq_queue_create, emq_queue_declare, emq_queue_exist, emq_queue_list,
       emq_queue_rename, emq_queue_size, emq_queue_get,
       emq_queue_pop, emq_queue_subscribe, emq_queue_unsubscribe, emq_queue_purge,
       emq_queue_delete
  <2> QED
    BY <2>2, <2>3
<1>6. /\ Fits(emq_route_create.req) /\ Fits(emq_route_exist.req)
      /\ Fits(emq_route_list.req) /\ Fits(emq_route_keys.req)
      /\ Fits(emq_route_rename.req) /\ Fits(emq_route_bind.req)
      /\ Fits(emq_route_unbind.req) /\ Fits(emq_route_push.req)
      /\ Fits(emq_route_delete.req)
  <2>1. /\ route_request_body.ROUTE_CREATE = Struct(<<64>>, 4)
        /\ route_request_body.ROUTE_EXIST = Struct(<<64>>, 0)
        /\ route_request_body.ROUTE_LIST = NoBody
        /\ route_request_body.ROUTE_KEYS = Struct(<<64>>, 0)
        /\ route_request_body.ROUTE_RENAME = Struct(<<64, 64>>, 0)
        /\ route_request_body.ROUTE_BIND = Struct(<<64, 64, 32>>, 0)
        /\ route_request_body.ROUTE_UNBIND = Struct(<<64, 64, 32>>, 0)
        /\ route_request_body.ROUTE_PUSH = Struct(<<64, 32>>, 0)
        /\ route_request_body.ROUTE_DELETE = Struct(<<64>>, 0)
    BY DEF route_request_body
  <2>2. /\ Fits(emq_route_create_request) /\ Fits(emq_route_exist_request)
        /\ Fits(emq_route_list_request) /\ Fits(emq_route_keys_request)
        /\ Fits(emq_route_rename_request) /\ Fits(emq_route_bind_request)
        /\ Fits(emq_route_unbind_request) /\ Fits(emq_route_push_request)
        /\ Fits(emq_route_delete_request)
    BY <1>1, <1>2, <2>1 DEF emq_route_create_request, emq_route_exist_request, emq_route_list_request,
       emq_route_keys_request, emq_route_rename_request, emq_route_bind_request,
       emq_route_unbind_request, emq_route_push_request, emq_route_delete_request,
       NoBody
  <2>3. /\ emq_route_create.req = emq_route_create_request
        /\ emq_route_exist.req = emq_route_exist_request
        /\ emq_route_list.req = emq_route_list_request
        /\ emq_route_keys.req = emq_route_keys_request
        /\ emq_route_rename.req = emq_route_rename_request
        /\ emq_route_bind.req = emq_route_bind_request
        /\ emq_route_unbind.req = emq_route_unbind_request
        /\ emq_route_push.req = emq_route_push_request
        /\ emq_route_delete.req = emq_route_delete_request
    BY Requests DEF emq_route_create, emq_route_exist, emq_route_list, emq_route_keys,
       emq_route_rename, emq_route_bind, emq_route_unbind, emq_route_delete
  <2> QED
    BY <2>2, <2>3
<1>7. /\ Fits(emq_channel_create.req) /\ Fits(emq_channel_exist.req)
      /\ Fits(emq_channel_list.req) /\ Fits(emq_channel_rename.req)
      /\ Fits(emq_channel_publish.req) /\ Fits(emq_channel_subscribe.req)
      /\ Fits(emq_channel_psubscribe.req) /\ Fits(emq_channel_unsubscribe.req)
      /\ Fits(emq_channel_punsubscribe.req) /\ Fits(emq_channel_delete.req)
  <2>1. /\ channel_request_body.CHANNEL_CREATE = Struct(<<64>>, 4)
        /\ channel_request_body.CHANNEL_EXIST = Struct(<<64>>, 0)
        /\ channel_request_body.CHANNEL_LIST = NoBody
        /\ channel_request_body.CHANNEL_RENAME = Struct(<<64, 64>>, 0)
        /\ channel_request_body.CHANNEL_PUBLISH = Struct(<<64, 32>>, 0)
        /\ channel_request_body.CHANNEL_SUBSCRIBE = Struct(<<64, 32>>, 0)
        /\ channel_request_body.CHANNEL_PSUBSCRIBE = Struct(<<64, 32>>, 0)
        /\ channel_request_body.CHANNEL_UNSUBSCRIBE = Struct(<<64, 32>>, 0)
        /\ channel_request_body.CHANNEL_PUNSUBSCRIBE = Struct(<<64, 32>>, 0)
        /\ channel_request_body.CHANNEL_DELETE = Struct(<<64>>, 0)
    BY DEF channel_request_body
  <2>2. /\ Fits(emq_channel_create_request) /\ Fits(emq_channel_exist_request)
        /\ Fits(emq_channel_list_request) /\ Fits(emq_channel_rename_request)
        /\ Fits(emq_channel_publish_request) /\ Fits(emq_channel_subscribe_request)
        /\ Fits(emq_channel_psubscribe_request)
        /\ Fits(emq_channel_unsubscribe_request)
        /\ Fits(emq_channel_punsubscribe_request)
        /\ Fits(emq_channel_delete_request)
    BY <1>1, <1>2, <2>1 DEF emq_channel_create_request, emq_channel_exist_request,
       emq_channel_list_request, emq_channel_rename_request,
       emq_channel_publish_request, emq_channel_subscribe_request,
       emq_channel_psubscribe_request, emq_channel_unsubscribe_request,
       emq_channel_punsubscribe_request, emq_channel_delete_request, NoBody
  <2>3. /\ emq_channel_create.req = emq_channel_create_request
        /\ emq_channel_exist.req = emq_channel_exist_request
        /\ emq_channel_list.req = emq_channel_list_request
        /\ emq_channel_rename.req = emq_channel_rename_request
        /\ emq_channel_publish.req = emq_channel_publish_request
        /\ emq_channel_subscribe.req = emq_channel_subscribe_request
        /\ emq_channel_psubscribe.req = emq_channel_psubscribe_request
        /\ emq_channel_unsubscribe.req = emq_channel_unsubscribe_request
        /\ emq_channel_punsubscribe.req = emq_channel_punsubscribe_request
        /\ emq_channel_delete.req = emq_channel_delete_request
    BY Requests DEF emq_channel_create, emq_channel_exist, emq_channel_list, emq_channel_rename,
       emq_channel_subscribe, emq_channel_psubscribe,
       emq_channel_unsubscribe, emq_channel_delete
  <2> QED
    BY <2>2, <2>3
<1> QED
  BY <1>3, <1>4, <1>5, <1>6, <1>7 DEF AllCalls

\* No structure has more than 172 bytes.
LEMMA BodySize == ASSUME NEW c \in AllCalls PROVE sizeof_body(c) \in 0..172
<1>1. Fits(c.req)
  BY EveryRequestFits
<1>2. /\ Total(<<>>) = 0 /\ Total(<<32>>) = 32 /\ Total(<<64>>) = 64
      /\ Total(<<32, 32>>) = 64 /\ Total(<<64, 64>>) = 128 /\ Total(<<64, 32>>) = 96
      /\ Total(<<64, 64, 32>>) = 160
  BY DEF Total
<1>3. \A w \in Shapes : Total(w) \in 0..160
  <2>1. \A w \in Shapes : \/ w = <<>> \/ w = <<32>> \/ w = <<64>> \/ w = <<32, 32>>
                          \/ w = <<64, 64>> \/ w = <<64, 32>> \/ w = <<64, 64, 32>>
    BY DEF Shapes
  <2>2. TAKE w \in Shapes
  <2>3. CASE w = <<>>
    BY <1>2, <2>3
  <2>4. CASE w = <<32>>
    BY <1>2, <2>4
  <2>5. CASE w = <<64>>
    BY <1>2, <2>5
  <2>6. CASE w = <<32, 32>>
    BY <1>2, <2>6
  <2>7. CASE w = <<64, 64>>
    BY <1>2, <2>7
  <2>8. CASE w = <<64, 32>>
    BY <1>2, <2>8
  <2>9. CASE w = <<64, 64, 32>>
    BY <1>2, <2>9
  <2> QED
    BY <2>1, <2>3, <2>4, <2>5, <2>6, <2>7, <2>8, <2>9
<1>4. Total(c.req.body.strings) \in 0..160
  BY <1>1, <1>3 DEF Fits
<1>5. c.req.body.integers \in 0..12
  BY <1>1 DEF Fits
<1> QED
  BY <1>4, <1>5 DEF sizeof_body

LEMMA Sizes ==
  /\ EMQ_DEFAULT_REQUEST_SIZE \in Nat /\ EMQ_MAX_MSG_SIZE \in Nat /\ U32 \in Nat
  /\ EMQ_DEFAULT_REQUEST_SIZE >= 180 /\ EMQ_MAX_MSG_SIZE + 176 < U32
BY RequestAssumption

LEMMA SmallMod == ASSUME NEW a \in Nat, NEW b \in Nat, a < b PROVE a % b = a
OBVIOUS

\* A structure b fits the buffer; b and an appended message a fit in bodylen.
LEMMA BufferFits ==
  ASSUME NEW b \in 0..172
  PROVE  sizeof_header + b \in 0..EMQ_DEFAULT_REQUEST_SIZE
BY Sizes DEF sizeof_header

LEMMA BodylenFits ==
  ASSUME NEW b \in 0..172, NEW a \in 0..(EMQ_MAX_MSG_SIZE + 4)
  PROVE  /\ (b + (a % U32)) % U32 = b + a
         /\ (sizeof_header + b) + a = sizeof_header + (b + a)
<1>1. a \in Nat /\ a < U32 /\ b + a \in Nat /\ b + a < U32
  BY Sizes
<1>2. a % U32 = a /\ (b + a) % U32 = b + a
  BY <1>1, Sizes, SmallMod
<1> QED
  BY <1>1, <1>2 DEF sizeof_header

\* The inductive invariant.
RequestInv ==
  /\ size = EMQ_DEFAULT_REQUEST_SIZE /\ pos \in 0..size
  /\ FieldsFit /\ Announced

LEMMA BuildInv ==
  ASSUME RequestInv, NEW c \in AllCalls, NEW lens \in [1..Len(c.req.limits) -> StrLens],
         NEW m \in Nat, Build(c, lens, m)
  PROVE  RequestInv'
<1>1. sizeof_body(c) \in 0..172
  BY BodySize
<1>2. size' = EMQ_DEFAULT_REQUEST_SIZE /\ pos' = sizeof_header + sizeof_body(c)
      /\ pos' \in 0..size'
  <2>1. /\ size = EMQ_DEFAULT_REQUEST_SIZE
        /\ emq_check_realloc_client_request(sizeof_header + sizeof_body(c))
        /\ pos' = sizeof_header + sizeof_body(c)
    BY DEF Build, emq_set_client_request, RequestInv
  <2>2. sizeof_header + sizeof_body(c) \in 0..EMQ_DEFAULT_REQUEST_SIZE
    BY <1>1, BufferFits
  <2>3. size' = size
    BY <2>1, <2>2, Sizes DEF emq_check_realloc_client_request
  <2> QED
    BY <2>1, <2>2, <2>3
<1>3. FieldsFit'
  <2>1. fields' = [i \in 1..Len(lens) |->
                     [copied |-> strlenz(lens[i]), width |-> c.req.body.strings[i]]]
    BY DEF Build
  <2>2. \A i \in 1..Len(c.req.limits) : strlenz(lens[i]) <= c.req.limits[i]
    BY DEF Build, StringsAccepted
  <2>3. c.req.limits = c.req.body.strings /\ Len(c.req.limits) \in Nat
    <3>1. c.req.limits = c.req.body.strings /\ c.req.limits \in Shapes
      BY EveryRequestFits DEF Fits
    <3>2. \A w \in Shapes : Len(w) \in Nat
      BY DEF Shapes
    <3> QED
      BY <3>1, <3>2
  <2>4. Len(lens) = Len(c.req.limits)
    BY <2>3
  <2>5. SUFFICES ASSUME NEW i \in 1..Len(lens)
                 PROVE  fields'[i].copied <= fields'[i].width
    BY <2>1 DEF FieldsFit
  <2> QED
    BY <2>1, <2>2, <2>3, <2>4, <2>5
<1>4. Announced'
  <2> SUFFICES ASSUME msg' <= EMQ_MAX_MSG_SIZE
               PROVE  given' = sizeof_header + header'.bodylen
    BY DEF Announced
  <2>1. m \in Nat /\ (c.req.message => m <= EMQ_MAX_MSG_SIZE)
    BY RequestAssumption DEF Build
  <2>2. appended(c, m) \in 0..(EMQ_MAX_MSG_SIZE + 4)
    BY <2>1, Sizes DEF appended, sizeof_expire
  <2>3. header'.bodylen = (sizeof_body(c) + (appended(c, m) % U32)) % U32
    BY DEF Build, emq_set_header_request
  <2>4. header'.bodylen = sizeof_body(c) + appended(c, m)
    BY <1>1, <2>2, <2>3, BodylenFits
  <2>5. given' = (sizeof_header + sizeof_body(c)) + appended(c, m)
    BY <1>2 DEF Build
  <2>6. given' = sizeof_header + (sizeof_body(c) + appended(c, m))
    BY <1>1, <2>2, <2>5, BodylenFits
  <2> QED
    BY <2>4, <2>6
<1> QED
  BY <1>2, <1>3, <1>4 DEF RequestInv

LEMMA RequestInvariant == Spec => []RequestInv
<1>1. Init => RequestInv
  <2>1. SUFFICES ASSUME Init PROVE RequestInv
    OBVIOUS
  <2>2. size = EMQ_DEFAULT_REQUEST_SIZE /\ pos = 0 /\ fields = <<>> /\ given = 0
    BY <2>1 DEF Init
  <2>3. pos \in 0..size
    BY <2>2, Sizes
  <2>4. FieldsFit
    BY <2>2 DEF FieldsFit
  <2>5. Announced
    BY <2>2 DEF Announced
  <2> QED
    BY <2>2, <2>3, <2>4, <2>5 DEF RequestInv
<1>2. ASSUME RequestInv, [Next]_vars PROVE RequestInv'
  <2>1. CASE emq_noack_enable \/ emq_noack_disable \/ UNCHANGED vars
    BY <1>2, <2>1 DEF RequestInv, FieldsFit, Announced, emq_noack_enable,
       emq_noack_disable, vars
  <2> QED
    <3>1. \A c : (IF c.req.message THEN MsgSizes ELSE {0}) \subseteq Nat
      BY RequestAssumption
    <3> QED
      BY <1>2, <2>1, <3>1, BuildInv DEF Next
<1> QED
  BY <1>1, <1>2, PTL DEF Spec

\* For every message up to EMQ_MAX_MSG_SIZE, what a command hands to the socket
\* is as long as the bodylen its builder wrote: no conversion to uint32_t loses
\* anything and the server finds the next request where it starts.
THEOREM RequestAnnounced == Spec => []Announced
BY RequestInvariant, PTL DEF RequestInv

\* No string overruns the array a builder copies it to.
THEOREM RequestFieldsFit == Spec => []FieldsFit
BY RequestInvariant, PTL DEF RequestInv

\* The buffer of emq_client_init is never too small, so the error path of
\* emq_check_realloc_client_request is dead code.
THEOREM RequestNeverReallocated == Spec => []NeverReallocated
<1>1. RequestInv => NeverReallocated
  BY RequestAssumption DEF RequestInv, NeverReallocated
<1> QED
  BY <1>1, RequestInvariant, PTL

\* A builder leaves sizes that are numbers, and a bodylen of 32 bits however
\* large the message is.
LEMMA BuildType ==
  ASSUME TypeOK, NEW c \in AllCalls, NEW lens, NEW m \in Nat, Build(c, lens, m)
  PROVE  TypeOK'
<1>1. sizeof_body(c) \in Nat /\ sizeof_header + sizeof_body(c) \in Nat
  BY BodySize DEF sizeof_header
<1>2. appended(c, m) \in Nat
  BY DEF appended, sizeof_expire
<1>3. size' \in Nat /\ pos' = sizeof_header + sizeof_body(c)
  BY <1>1 DEF Build, emq_check_realloc_client_request, emq_set_client_request, TypeOK
<1>4. msg' \in Nat /\ given' = pos' + appended(c, m) /\ noack' = noack
  BY DEF Build
<1>5. header'.noack = noack
      /\ header'.bodylen = (sizeof_body(c) + (appended(c, m) % U32)) % U32
  BY DEF Build, emq_set_header_request
<1>6. header'.bodylen \in 0..(U32 - 1)
  <2>1. U32 \in Nat /\ U32 > 0
    BY Sizes
  <2>2. appended(c, m) % U32 \in Nat
    BY <1>2, <2>1
  <2> QED
    BY <1>1, <1>5, <2>1, <2>2
<1> QED
  BY <1>1, <1>2, <1>3, <1>4, <1>5, <1>6 DEF TypeOK

\* The sizes of the request buffer stay numbers and the header one the builders
\* can leave: noack is a flag and bodylen a uint32_t.
THEOREM RequestTypeCorrect == Spec => []TypeOK
<1>1. Init => TypeOK
  <2> SUFFICES ASSUME Init PROVE TypeOK
    OBVIOUS
  <2>1. noack = 0 /\ size = EMQ_DEFAULT_REQUEST_SIZE /\ pos = 0 /\ msg = 0 /\ given = 0
        /\ header.noack = 0 /\ header.bodylen = 0
    BY DEF Init
  <2> QED
    BY <2>1, Sizes DEF TypeOK
<1>2. ASSUME TypeOK, [Next]_vars PROVE TypeOK'
  <2>1. CASE emq_noack_enable \/ emq_noack_disable \/ UNCHANGED vars
    BY <1>2, <2>1 DEF TypeOK, emq_noack_enable, emq_noack_disable, vars
  <2> QED
    <3>1. \A c : (IF c.req.message THEN MsgSizes ELSE {0}) \subseteq Nat
      BY RequestAssumption
    <3> QED
      BY <1>2, <2>1, <3>1, BuildType DEF Next
<1> QED
  BY <1>1, <1>2, PTL DEF Spec
=============================================================================
