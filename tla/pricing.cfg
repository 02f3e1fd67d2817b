SPECIFICATION LiveSpec
CONSTANTS
  x = x  z = z  none = none
  OutsideFeeds <- mcX
  CustomFeed = z
  NoFeed = none
  FeedPrices = {0, 2, 4, 5}
  FeedAges = {0}
  ConsensusParams <- mcConsensus
  MAX_SOURCES = 3
  MAX_OUTLIER_BPS = 5
  ORACLE_BPS = 10
  TWAP_WEIGHT = 2
  TWAP_MAX_AGE = 1
  SourceChoices <- mcSources
  Gains <- mcGains
  ReportedPrices = {17, 19, 21}
  PID_SCALE = 4
  INTEGRAL_MAX = 3
  COOLDOWN = 1
  BoundChoices = {TRUE, FALSE}
  Loops = {"consensus", "controller"}
INVARIANTS MajorityPriceWins SourcesSound
PROPERTY FeeFollowsPeg
