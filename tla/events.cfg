\* Two queues and a channel, topic and pattern events, no failing allocation: the
\* client's list against the server's subscriptions, the layouts of the three
\* kinds of event, and the order of the events of all subscriptions.
SPECIFICATION Spec
CONSTANTS
  Apis = {"emq_queue_subscribe", "emq_queue_unsubscribe", "emq_channel_subscribe", "emq_channel_psubscribe", "emq_channel_unsubscribe", "emq_channel_punsubscribe"}
  Queues = {q1, q2}
  Channels = {c1}
  Topics = {t1}
  Statuses = {"SUCCESS"}
  HeaderWords = 2
  TagWords = 2
  NameWords = 1
  TopicWords = 1
  MsgWords = 1
  StatWords = 1
  ListLens = {0, 2}
  MaxCalls = 3
  MaxEvents = 2
  Usage = "examples"
  Reuse = FALSE
  Signals = TRUE
  ShortWrites = FALSE
  Oom = FALSE
INVARIANTS
  QueueListed
  EventsInOrder
  FrameAligned
