\* emq_queue_get when the message cannot be read or allocated.
SPECIFICATION Spec
CONSTANTS
  Apis = {"emq_queue_get"}
  Queues = {}
  Channels = {}
  Topics = {}
  Statuses = {"SUCCESS", "ERROR_ACCESS"}
  HeaderWords = 2
  TagWords = 2
  NameWords = 1
  TopicWords = 1
  MsgWords = 1
  StatWords = 1
  ListLens = {0, 2}
  MaxCalls = 3
  MaxEvents = 2
  Usage = "examples"
  Reuse = FALSE
  Signals = TRUE
  ShortWrites = FALSE
  Oom = FALSE
INVARIANTS
  NeverCrashes
