\* emq_channel_punsubscribe with replies read: the server executes it, the client
\* reports a response error.
SPECIFICATION Spec
CONSTANTS
  Apis = {"emq_channel_psubscribe", "emq_channel_punsubscribe"}
  Queues = {}
  Channels = {c1}
  Topics = {t1}
  Statuses = {"SUCCESS", "ERROR_ACCESS"}
  HeaderWords = 2
  TagWords = 2
  NameWords = 1
  TopicWords = 1
  MsgWords = 1
  StatWords = 1
  ListLens = {0, 2}
  MaxCalls = 2
  MaxEvents = 2
  Usage = "any"
  Reuse = FALSE
  Signals = FALSE
  ShortWrites = FALSE
  Oom = FALSE
INVARIANTS
  ErrorMeansNotServed
