SPECIFICATION FairSpec
CONSTANTS
  root = root  mid = mid  leaf = leaf  s1 = s1  s2 = s2  ann = ann  bob = bob
  NoBroker = NoBroker  NoBlind = NoBlind  NoChild = NoChild
  Brokers = {root, mid, leaf}
  Parent <- ChainParent
  Home <- TreeHome
  Services = {s1, s2}
  Clients = {ann, bob}
  BrakeScope = "both"
  BrakeLimit = 9
  BrakeWindowSec = 1
  RequireHe = FALSE
  TTL_SECONDS = 2
  CLEANUP_INTERVAL_SEC = 1
  EPOLL_TIMEOUT_SEC = 1
  MAX_PUB_CACHE = 2
  Subscriptions <- LeafSubscriptions
  Publications <- PlainPublicationsAtL
  Beats = {}
  Polled = {}
  Killable = {leaf}
  ParentFirst = TRUE
  MaxSubs = 2
  MaxPubs = 1
  MaxBeats = 0
  MaxTime = 0
  MaxCrashes = 1
  MaxLosses = 0
INVARIANTS InterestRelayed
PROPERTIES InterestArrives PublicationsReachRoot
CHECK_DEADLOCK FALSE
