\* The application keeps to what the examples do and stops using a connection
\* after an error that leaves the stream position unknown.  Signals interrupt
\* reads and writes, writev falls short, malloc fails, the connection is lost.
SPECIFICATION Spec
CONSTANTS
  Apis = {"emq_ping", "emq_stat", "emq_queue_exist", "emq_queue_list", "emq_queue_get", "emq_queue_push", "emq_queue_confirm", "emq_queue_subscribe", "emq_queue_unsubscribe"}
  Queues = {q1}
  Channels = {}
  Topics = {}
  Statuses = {"SUCCESS", "ERROR_ACCESS", "ERROR"}
  HeaderWords = 2
  TagWords = 2
  NameWords = 1
  TopicWords = 1
  MsgWords = 1
  StatWords = 1
  ListLens = {0, 2}
  MaxCalls = 3
  MaxEvents = 2
  Usage = "examples"
  Reuse = FALSE
  Signals = TRUE
  ShortWrites = TRUE
  Oom = TRUE
INVARIANTS
  TypeOK
  OkMeansServed
  ErrorMeansNotServed
  ReplyConsumed
  ReplyInv
  FrameAligned
  EventsInOrder
PROPERTIES
  OwnReplyOnly
  ImplementsService
