SPECIFICATION Spec
CONSTANTS
  s1 = s1
  s2 = s2
  w1 = w1
  w2 = w2
  p1 = p1
  p2 = p2
  Sessions = {s1, s2}
  NoSession = NoSession
  Windows = {w1, w2}
  NoWindow = NoWindow
  Procs = {p1, p2}
  BootSession <- Boots
  MaxCalls = 3
  MaxSeconds = 2
  MaxFaults = 0
INVARIANT ChannelFollowsWindow
CHECK_DEADLOCK FALSE
