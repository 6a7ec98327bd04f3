----------------------------- MODULE EmqPacket -----------------------------
(***************************************************************************)
(* The wire format of libemq (protocol.h) and the packet layer (packet.c). *)
(*                                                                         *)
(* A frame is a fixed header followed by `len' units of body.  Requests,   *)
(* replies and events have headers of the same size and layout: magic,     *)
(* cmd, one byte that is noack in a request, status in a reply and type in *)
(* an event (`code' below), and bodylen (`len').                           *)
(***************************************************************************)
EXTENDS Naturals, Sequences

(***************************************************************************)
(* Reply statuses, event types and the library's error codes.              *)
(***************************************************************************)
protocol_response_status ==
  {"SUCCESS", "ERROR", "ERROR_PACKET", "ERROR_COMMAND", "ERROR_ACCESS",
   "ERROR_MEMORY", "ERROR_VALUE", "ERROR_NOT_DECLARED", "ERROR_NOT_FOUND",
   "ERROR_NO_DATA"}

protocol_event_type == {"NOTIFY", "MESSAGE"}

\* Index into emq_error_array; "NONE" is the empty text.
EMQ_ERROR ==
  {"NONE", "ALLOC", "DATA", "WRITE", "READ", "RESPONSE", "PACKET", "COMMAND",
   "ACCESS", "MEMORY", "NOT_DECLARED", "NOT_FOUND", "NO_DATA"}

(***************************************************************************)
(* Header checks.  h is a header [magic, cmd, code, len].                  *)
(***************************************************************************)
emq_check_response_header(h, cmd, len) ==
  h.magic = "RES" /\ h.cmd = cmd /\ h.len = len

emq_check_response_header_mini(h, cmd) ==
  h.magic = "RES" /\ h.cmd = cmd

emq_check_event_header(h, types) ==
  h.magic = "EVENT" /\ h.code \in types

\* Mutant: the status is not looked at.
emq_check_status_dropped(h, status) == TRUE

emq_check_status(h, status) == h.code = status

\* The statuses the switch names; every other one falls to `default'.
emq_get_error(h) ==
  CASE h.code = "ERROR_PACKET"       -> "PACKET"
    [] h.code = "ERROR_COMMAND"      -> "COMMAND"
    [] h.code = "ERROR_ACCESS"       -> "ACCESS"
    [] h.code = "ERROR_MEMORY"       -> "MEMORY"
    [] h.code = "ERROR_NOT_DECLARED" -> "NOT_DECLARED"
    [] h.code = "ERROR_NOT_FOUND"    -> "NOT_FOUND"
    [] h.code = "ERROR_NO_DATA"      -> "NO_DATA"
    [] OTHER                         -> "NONE"

(***************************************************************************)
(* Body structures of the requests: the widths in bytes of the character   *)
(* arrays, in order, and the bytes of the integer members.                 *)
(***************************************************************************)
Struct(strings, integers) == [strings |-> strings, integers |-> integers]
NoBody == Struct(<<>>, 0)

system_request_body ==
  [AUTH |-> Struct(<<32, 32>>, 0), PING |-> NoBody, STAT |-> NoBody,
   SAVE |-> Struct(<<>>, 1),       FLUSH |-> Struct(<<>>, 4)]

user_request_body ==
  [USER_CREATE   |-> Struct(<<32, 32>>, 8), USER_LIST     |-> NoBody,
   USER_RENAME   |-> Struct(<<32, 32>>, 0), USER_SET_PERM |-> Struct(<<32>>, 8),
   USER_DELETE   |-> Struct(<<32>>, 0)]

queue_request_body ==
  [QUEUE_CREATE    |-> Struct(<<64>>, 12),    QUEUE_DECLARE     |-> Struct(<<64>>, 0),
   QUEUE_EXIST     |-> Struct(<<64>>, 0),     QUEUE_LIST        |-> NoBody,
   QUEUE_RENAME    |-> Struct(<<64, 64>>, 0), QUEUE_SIZE        |-> Struct(<<64>>, 0),
   QUEUE_PUSH      |-> Struct(<<64>>, 0),     QUEUE_GET         |-> Struct(<<64>>, 0),
   QUEUE_POP       |-> Struct(<<64>>, 4),     QUEUE_CONFIRM     |-> Struct(<<64>>, 8),
   QUEUE_SUBSCRIBE |-> Struct(<<64>>, 4),     QUEUE_UNSUBSCRIBE |-> Struct(<<64>>, 0),
   QUEUE_PURGE     |-> Struct(<<64>>, 0),     QUEUE_DELETE      |-> Struct(<<64>>, 0)]

route_request_body ==
  [ROUTE_CREATE |-> Struct(<<64>>, 4),         ROUTE_EXIST  |-> Struct(<<64>>, 0),
   ROUTE_LIST   |-> NoBody,                    ROUTE_KEYS   |-> Struct(<<64>>, 0),
   ROUTE_RENAME |-> Struct(<<64, 64>>, 0),     ROUTE_BIND   |-> Struct(<<64, 64, 32>>, 0),
   ROUTE_UNBIND |-> Struct(<<64, 64, 32>>, 0), ROUTE_PUSH   |-> Struct(<<64, 32>>, 0),
   ROUTE_DELETE |-> Struct(<<64>>, 0)]

channel_request_body ==
  [CHANNEL_CREATE      |-> Struct(<<64>>, 4),
   CHANNEL_EXIST       |-> Struct(<<64>>, 0),
   CHANNEL_LIST        |-> NoBody,
   CHANNEL_RENAME      |-> Struct(<<64, 64>>, 0),
   CHANNEL_PUBLISH     |-> Struct(<<64, 32>>, 0),
   CHANNEL_SUBSCRIBE   |-> Struct(<<64, 32>>, 0),
   CHANNEL_PSUBSCRIBE  |-> Struct(<<64, 32>>, 0),
   CHANNEL_UNSUBSCRIBE |-> Struct(<<64, 32>>, 0),
   CHANNEL_PUNSUBSCRIBE |-> Struct(<<64, 32>>, 0),
   CHANNEL_DELETE      |-> Struct(<<64>>, 0)]

(***************************************************************************)
(* The request builders emq_<command>_request.  Each refuses a string      *)
(* argument whose strlen + 1 exceeds the limit written in its guard        *)
(* (`limits', one per string argument), zeroes the structure, fills the    *)
(* header and the members and copies the structure into client->request.   *)
(* `message' marks the three whose bodylen also counts a message that the  *)
(* caller appends.                                                         *)
(***************************************************************************)
Request(cmd, limits, body) ==
  [cmd |-> cmd, limits |-> limits, body |-> body, message |-> FALSE]
MessageRequest(cmd, limits, body) ==
  [Request(cmd, limits, body) EXCEPT !.message = TRUE]

emq_auth_request  == Request("AUTH", <<32, 32>>, system_request_body.AUTH)
emq_ping_request  == Request("PING", <<>>, system_request_body.PING)
emq_stat_request  == Request("STAT", <<>>, system_request_body.STAT)
emq_save_request  == Request("SAVE", <<>>, system_request_body.SAVE)
emq_flush_request == Request("FLUSH", <<>>, system_request_body.FLUSH)

emq_user_create_request   == Request("USER_CREATE", <<32, 32>>, user_request_body.USER_CREATE)
emq_user_list_request     == Request("USER_LIST", <<>>, user_request_body.USER_LIST)
emq_user_rename_request   == Request("USER_RENAME", <<32, 32>>, user_request_body.USER_RENAME)
emq_user_set_perm_request == Request("USER_SET_PERM", <<32>>, user_request_body.USER_SET_PERM)
emq_user_delete_request   == Request("USER_DELETE", <<32>>, user_request_body.USER_DELETE)

emq_queue_create_request  == Request("QUEUE_CREATE", <<64>>, queue_request_body.QUEUE_CREATE)
emq_queue_declare_request == Request("QUEUE_DECLARE", <<64>>, queue_request_body.QUEUE_DECLARE)
emq_queue_exist_request   == Request("QUEUE_EXIST", <<64>>, queue_request_body.QUEUE_EXIST)
emq_queue_list_request    == Request("QUEUE_LIST", <<>>, queue_request_body.QUEUE_LIST)
emq_queue_rename_request  == Request("QUEUE_RENAME", <<64, 64>>, queue_request_body.QUEUE_RENAME)
emq_queue_size_request    == Request("QUEUE_SIZE", <<64>>, queue_request_body.QUEUE_SIZE)
emq_queue_push_request    == MessageRequest("QUEUE_PUSH", <<64>>, queue_request_body.QUEUE_PUSH)
emq_queue_get_request     == Request("QUEUE_GET", <<64>>, queue_request_body.QUEUE_GET)
emq_queue_pop_request     == Request("QUEUE_POP", <<64>>, queue_request_body.QUEUE_POP)
emq_queue_confirm_request == Request("QUEUE_CONFIRM", <<64>>, queue_request_body.QUEUE_CONFIRM)
emq_queue_subscribe_request ==
  Request("QUEUE_SUBSCRIBE", <<64>>, queue_request_body.QUEUE_SUBSCRIBE)
emq_queue_unsubscribe_request ==
  Request("QUEUE_UNSUBSCRIBE", <<64>>, queue_request_body.QUEUE_UNSUBSCRIBE)
emq_queue_purge_request   == Request("QUEUE_PURGE", <<64>>, queue_request_body.QUEUE_PURGE)
emq_queue_delete_request  == Request("QUEUE_DELETE", <<64>>, queue_request_body.QUEUE_DELETE)

emq_route_create_request == Request("ROUTE_CREATE", <<64>>, route_request_body.ROUTE_CREATE)
emq_route_exist_request  == Request("ROUTE_EXIST", <<64>>, route_request_body.ROUTE_EXIST)
emq_route_list_request   == Request("ROUTE_LIST", <<>>, route_request_body.ROUTE_LIST)
emq_route_keys_request   == Request("ROUTE_KEYS", <<64>>, route_request_body.ROUTE_KEYS)
emq_route_rename_request == Request("ROUTE_RENAME", <<64, 64>>, route_request_body.ROUTE_RENAME)
emq_route_bind_request   == Request("ROUTE_BIND", <<64, 64, 32>>, route_request_body.ROUTE_BIND)
emq_route_unbind_request == Request("ROUTE_UNBIND", <<64, 64, 32>>, route_request_body.ROUTE_UNBIND)
emq_route_push_request   == MessageRequest("ROUTE_PUSH", <<64, 32>>, route_request_body.ROUTE_PUSH)
emq_route_delete_request == Request("ROUTE_DELETE", <<64>>, route_request_body.ROUTE_DELETE)

emq_channel_create_request == Request("CHANNEL_CREATE", <<64>>, channel_request_body.CHANNEL_CREATE)
emq_channel_exist_request  == Request("CHANNEL_EXIST", <<64>>, channel_request_body.CHANNEL_EXIST)
emq_channel_list_request   == Request("CHANNEL_LIST", <<>>, channel_request_body.CHANNEL_LIST)
emq_channel_rename_request ==
  Request("CHANNEL_RENAME", <<64, 64>>, channel_request_body.CHANNEL_RENAME)
emq_channel_publish_request ==
  MessageRequest("CHANNEL_PUBLISH", <<64, 32>>, channel_request_body.CHANNEL_PUBLISH)
emq_channel_subscribe_request ==
  Request("CHANNEL_SUBSCRIBE", <<64, 32>>, channel_request_body.CHANNEL_SUBSCRIBE)
emq_channel_psubscribe_request ==
  Request("CHANNEL_PSUBSCRIBE", <<64, 32>>, channel_request_body.CHANNEL_PSUBSCRIBE)
emq_channel_unsubscribe_request ==
  Request("CHANNEL_UNSUBSCRIBE", <<64, 32>>, channel_request_body.CHANNEL_UNSUBSCRIBE)
emq_channel_punsubscribe_request ==
  Request("CHANNEL_PUNSUBSCRIBE", <<64, 32>>, channel_request_body.CHANNEL_PUNSUBSCRIBE)
emq_channel_delete_request == Request("CHANNEL_DELETE", <<64>>, channel_request_body.CHANNEL_DELETE)
=============================================================================
