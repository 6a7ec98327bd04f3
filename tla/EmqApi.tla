------------------------------- MODULE EmqApi -------------------------------
(***************************************************************************)
(* The commands of emq.c.  Every public function that talks to the server  *)
(* has the same skeleton: clear the error text; check the arguments; build *)
(* the request; write it; read a reply header; check it; check its status; *)
(* read the rest of the reply; update the client's subscription lists.     *)
(* Where the functions differ is recorded in one descriptor per function:  *)
(*                                                                         *)
(*   api     the function                                                  *)
(*   req     the request builder it calls                                  *)
(*   check   what is checked before the request is built: "none",          *)
(*           "message" (msg->size >= 1) or "callback" (not NULL)           *)
(*   write   "write" (emq_client_write, which loops until the whole buffer *)
(*           is out) or "writev" (emq_client_writev, a single call)        *)
(*   expire  TRUE if msg->expire is sent in front of the message           *)
(*   reply   "acked" if the reply is read only when noack is off,          *)
(*           "always" if it is read in both modes                          *)
(*   header  "exact" if the reply's bodylen is compared with a constant    *)
(*           (emq_check_response_header), "mini" if it is not              *)
(*   expect  the command the reply's header is compared with               *)
(*   body    what a successful reply carries after its header: "none",     *)
(*           "word" (one uint32), "stat" (read together with the header),  *)
(*           "list" or "message"                                           *)
(*   effect  the change of the subscription lists made after the reply:    *)
(*           "none", "qsub", "qunsub", "csub" or "cunsub"                  *)
(***************************************************************************)
EXTENDS EmqPacket

Command(api, req) ==
  [api |-> api, req |-> req, check |-> "none", write |-> "write",
   expire |-> FALSE, reply |-> "acked", header |-> "exact", expect |-> req.cmd,
   body |-> "none", effect |-> "none"]

\* A command whose result is data: the reply is read whatever noack says.
Query(api, req, header, body) ==
  [Command(api, req) EXCEPT !.reply = "always", !.header = header, !.body = body]

\* A command that sends a message with writev.
Send(api, req, expire) ==
  [Command(api, req) EXCEPT !.check = "message", !.write = "writev", !.expire = expire]

Subscribe(api, req, effect) ==
  [Command(api, req) EXCEPT !.check = "callback", !.effect = effect]

Unsubscribe(api, req, effect) == [Command(api, req) EXCEPT !.effect = effect]

\* System commands
emq_auth == Command("emq_auth", emq_auth_request)
\* Mutant: the reply is compared with another command.
emq_ping_wrong_cmd == [Command("emq_ping", emq_ping_request) EXCEPT !.expect = "STAT"]
emq_ping == Command("emq_ping", emq_ping_request)
emq_stat == Query("emq_stat", emq_stat_request, "exact", "stat")
emq_save == Command("emq_save", emq_save_request)
emq_flush == Command("emq_flush", emq_flush_request)

\* User commands
emq_user_create == Command("emq_user_create", emq_user_create_request)
emq_user_list == Query("emq_user_list", emq_user_list_request, "mini", "list")
emq_user_rename == Command("emq_user_rename", emq_user_rename_request)
emq_user_set_perm == Command("emq_user_set_perm", emq_user_set_perm_request)
emq_user_delete == Command("emq_user_delete", emq_user_delete_request)

\* Queue commands
emq_queue_create == Command("emq_queue_create", emq_queue_create_request)
emq_queue_declare == Command("emq_queue_declare", emq_queue_declare_request)
emq_queue_exist == Query("emq_queue_exist", emq_queue_exist_request, "exact", "word")
emq_queue_list == Query("emq_queue_list", emq_queue_list_request, "mini", "list")
emq_queue_rename == Command("emq_queue_rename", emq_queue_rename_request)
emq_queue_size == Query("emq_queue_size", emq_queue_size_request, "exact", "word")
emq_queue_push == Send("emq_queue_push", emq_queue_push_request, TRUE)
emq_queue_get == Query("emq_queue_get", emq_queue_get_request, "mini", "message")
emq_queue_pop == Query("emq_queue_pop", emq_queue_pop_request, "mini", "message")
emq_queue_confirm ==
  [Command("emq_queue_confirm", emq_queue_confirm_request) EXCEPT !.header = "mini"]
emq_queue_subscribe ==
  Subscribe("emq_queue_subscribe", emq_queue_subscribe_request, "qsub")
emq_queue_unsubscribe ==
  Unsubscribe("emq_queue_unsubscribe", emq_queue_unsubscribe_request, "qunsub")
emq_queue_purge == Command("emq_queue_purge", emq_queue_purge_request)
emq_queue_delete == Command("emq_queue_delete", emq_queue_delete_request)

\* Route commands
emq_route_create == Command("emq_route_create", emq_route_create_request)
emq_route_exist == Query("emq_route_exist", emq_route_exist_request, "exact", "word")
emq_route_list == Query("emq_route_list", emq_route_list_request, "mini", "list")
emq_route_keys == Query("emq_route_keys", emq_route_keys_request, "mini", "list")
emq_route_rename == Command("emq_route_rename", emq_route_rename_request)
emq_route_bind == Command("emq_route_bind", emq_route_bind_request)
emq_route_unbind == Command("emq_route_unbind", emq_route_unbind_request)
emq_route_push == Send("emq_route_push", emq_route_push_request, TRUE)
emq_route_delete == Command("emq_route_delete", emq_route_delete_request)

\* Channel commands
emq_channel_create == Command("emq_channel_create", emq_channel_create_request)
emq_channel_exist ==
  Query("emq_channel_exist", emq_channel_exist_request, "exact", "word")
emq_channel_list == Query("emq_channel_list", emq_channel_list_request, "mini", "list")
emq_channel_rename == Command("emq_channel_rename", emq_channel_rename_request)
emq_channel_publish == Send("emq_channel_publish", emq_channel_publish_request, FALSE)
emq_channel_subscribe ==
  Subscribe("emq_channel_subscribe", emq_channel_subscribe_request, "csub")
emq_channel_psubscribe ==
  Subscribe("emq_channel_psubscribe", emq_channel_psubscribe_request, "csub")
emq_channel_unsubscribe ==
  Unsubscribe("emq_channel_unsubscribe", emq_channel_unsubscribe_request, "cunsub")
\* The reply is compared with the command of emq_channel_unsubscribe.
emq_channel_punsubscribe ==
  [Unsubscribe("emq_channel_punsubscribe", emq_channel_punsubscribe_request, "cunsub")
     EXCEPT !.expect = "CHANNEL_UNSUBSCRIBE"]
emq_channel_delete == Command("emq_channel_delete", emq_channel_delete_request)

AllCalls ==
  {emq_auth, emq_ping, emq_stat, emq_save, emq_flush, emq_user_create,
   emq_user_list, emq_user_rename, emq_user_set_perm, emq_user_delete,
   emq_queue_create, emq_queue_declare, emq_queue_exist, emq_queue_list,
   emq_queue_rename, emq_queue_size, emq_queue_push, emq_queue_get,
   emq_queue_pop, emq_queue_confirm, emq_queue_subscribe,
   emq_queue_unsubscribe, emq_queue_purge, emq_queue_delete, emq_route_create,
   emq_route_exist, emq_route_list, emq_route_keys, emq_route_rename,
   emq_route_bind, emq_route_unbind, emq_route_push, emq_route_delete,
   emq_channel_create, emq_channel_exist, emq_channel_list,
   emq_channel_rename, emq_channel_publish, emq_channel_subscribe,
   emq_channel_psubscribe, emq_channel_unsubscribe, emq_channel_punsubscribe,
   emq_channel_delete}
=============================================================================
