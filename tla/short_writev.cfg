\* writev writes a part of the request and the command waits for a reply.
SPECIFICATION FairSpec
CONSTANTS
  Apis = {"emq_queue_push"}
  Queues = {}
  Channels = {}
  Topics = {}
  Statuses = {"SUCCESS", "ERROR_ACCESS"}
  HeaderWords = 2
  TagWords = 2
  NameWords = 1
  TopicWords = 1
  MsgWords = 1
  StatWords = 1
  ListLens = {0, 2}
  MaxCalls = 2
  MaxEvents = 2
  Usage = "examples"
  Reuse = FALSE
  Signals = FALSE
  ShortWrites = TRUE
  Oom = FALSE
PROPERTIES
  CallReturns
