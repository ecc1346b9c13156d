\* Three listeners, two messages, one loss of the connection.
SPECIFICATION BusSpec
CONSTANTS
  l1 = l1
  l2 = l2
  p1 = p1
  channel = channel
  other = other
  pattern = pattern
  Listeners = {l1, l2, p1}
  Topics = {channel, pattern}
  TopicOf <- MCTopicOf
  Channels = {channel}
  Matches <- MCMatches
  MaxMessages = 2
  MaxDrops = 1
  MaxPending = 1
SYMMETRY Symmetry
INVARIANTS
  StartedInOrder
  FailuresReported
\* Every message is handled and every listener detached in the end.
CHECK_DEADLOCK FALSE
