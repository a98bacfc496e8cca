SPECIFICATION Spec
CONSTANTS
  root = root  mid = mid  leaf = leaf  s1 = s1  s2 = s2  ann = ann  bob = bob
  NoBroker = NoBroker  NoBlind = NoBlind  NoChild = NoChild
  Brokers = {root, leaf}
  Parent <- FanParent
  Home <- TreeHome
  Services = {s1}
  Clients = {ann, bob}
  BrakeScope = "both"
  BrakeLimit = 9
  BrakeWindowSec = 1
  RequireHe = TRUE
  TTL_SECONDS = 2
  CLEANUP_INTERVAL_SEC = 1
  EPOLL_TIMEOUT_SEC = 1
  MAX_PUB_CACHE = 2
  Subscriptions <- FaultSubscriptions
  Publications <- FaultPublications
  Beats = {}
  Polled = {}
  Killable = {root, leaf}
  ParentFirst = FALSE
  MaxSubs = 2
  MaxPubs = 2
  MaxBeats = 0
  MaxTime = 0
  MaxCrashes = 2
  MaxLosses = 1
INVARIANTS StrictlyNearer HandledOnce ActiveChildrenKnown NeverFiledInPlain InterestSurvivesChild LoadersAgree
CHECK_DEADLOCK FALSE
