\* Commands return and a lost connection ends emq_process, whatever the order of
\* the calls: replies are read between events and the connection is used on
\* after errors.
SPECIFICATION FairSpec
CONSTANTS
  Apis = {"emq_stat", "emq_queue_get", "emq_queue_list", "emq_queue_push", "emq_queue_subscribe", "emq_queue_unsubscribe"}
  Queues = {q1}
  Channels = {}
  Topics = {}
  Statuses = {"SUCCESS", "ERROR_ACCESS"}
  HeaderWords = 2
  TagWords = 2
  NameWords = 1
  TopicWords = 1
  MsgWords = 1
  StatWords = 1
  ListLens = {0, 2}
  MaxCalls = 2
  MaxEvents = 2
  Usage = "any"
  Reuse = TRUE
  Signals = FALSE
  ShortWrites = TRUE
  Oom = FALSE
PROPERTIES
  OnlyKnownHangs
  LossEndsProcess
