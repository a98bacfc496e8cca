SPECIFICATION Spec
CONSTANTS
  root = root  s1 = s1  s2 = s2  ann = ann  bob = bob
  NoBroker = NoBroker  NoBlind = NoBlind  NoChild = NoChild
  Brokers = {root}
  Parent <- NoParent
  Home <- HomeAt
  Services = {s1}
  Clients = {ann, bob}
  BrakeScope = "both"
  BrakeLimit = 9
  BrakeWindowSec = 1
  RequireHe = FALSE
  TTL_SECONDS = 2
  CLEANUP_INTERVAL_SEC = 1
  EPOLL_TIMEOUT_SEC = 1
  MAX_PUB_CACHE = 2
  Subscriptions <- BlindSubscriptions
  Publications = {}
  Beats <- Beat
  Polled = {}
  Killable = {}
  ParentFirst = TRUE
  MaxSubs = 1
  MaxPubs = 0
  MaxBeats = 1
  MaxTime = 7
  MaxCrashes = 0
  MaxLosses = 0
PROPERTIES SilentBeforeExpiry
CHECK_DEADLOCK FALSE
