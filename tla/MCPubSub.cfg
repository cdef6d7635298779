SPECIFICATION Spec
CONSTANTS
  Client = {p, s, t, u}
  Channel = {news}
  Fd = {1, 2, 3}
  MAX_BATCH = 2
  MaxPubs = 2
  MaxSubs = 3
  NoFd = NoFd
  Nobody = Nobody
SYMMETRY ClientSymmetry
CHECK_DEADLOCK FALSE
INVARIANTS SubscribersAreOpen NoCircularWait
PROPERTIES ReachesSubscribers
