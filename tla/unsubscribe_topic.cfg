\* Two topics of one channel: leaving one of them removes the entries of both.
SPECIFICATION Spec
CONSTANTS
  Apis = {"emq_channel_subscribe", "emq_channel_unsubscribe"}
  Queues = {}
  Channels = {c1}
  Topics = {t1, t2}
  Statuses = {"SUCCESS", "ERROR_ACCESS"}
  HeaderWords = 2
  TagWords = 2
  NameWords = 1
  TopicWords = 1
  MsgWords = 1
  StatWords = 1
  ListLens = {0, 2}
  MaxCalls = 3
  MaxEvents = 2
  Usage = "any"
  Reuse = FALSE
  Signals = FALSE
  ShortWrites = FALSE
  Oom = FALSE
INVARIANTS
  ChannelListed
