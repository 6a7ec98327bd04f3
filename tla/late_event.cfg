\* Commands that read a reply once the lists are empty again, as README allows:
\* an event still in the stream is taken for the reply.
SPECIFICATION Spec
CONSTANTS
  Apis = {"emq_ping", "emq_queue_subscribe", "emq_queue_unsubscribe"}
  Queues = {q1}
  Channels = {}
  Topics = {}
  Statuses = {"SUCCESS", "ERROR_ACCESS"}
  HeaderWords = 2
  TagWords = 2
  NameWords = 1
  TopicWords = 1
  MsgWords = 1
  StatWords = 1
  ListLens = {0, 2}
  MaxCalls = 3
  MaxEvents = 2
  Usage = "readme"
  Reuse = FALSE
  Signals = FALSE
  ShortWrites = FALSE
  Oom = FALSE
INVARIANTS
  ErrorMeansNotServed
