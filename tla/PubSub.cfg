\* Two calls on a channel and one on a pattern, every failure included:
\* the bookkeeping holds, calls and hook settle where commands are timed or the
\* server comes back, and callers see the contract.
SPECIFICATION FairSpec
CONSTANTS
  c1 = c1
  c2 = c2
  p1 = p1
  channel = channel
  pattern = pattern
  Calls = {c1, c2, p1}
  Targets = {channel, pattern}
  TargetOf <- MCTargetOf
  NoRef = NoRef
  Cleanup = Cleanup
  RetryGivesUp = TRUE
INVARIANTS
  CountIsHolders
  RegisteredWhileHeld
  ServedWhileHeld
  FailedEntryGone
  OneSubscribeInFlight
  ReleasedOnServer
  NoSubscriberLeft
PROPERTIES
  SubscriberSettles
  ImplementsContract
CHECK_DEADLOCK FALSE
