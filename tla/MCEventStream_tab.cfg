SPECIFICATION FairSpec
CONSTANTS
  Profiles = {p, q}
  All = All
  Subscribers = {t1}
  HistoryLimit = 2
  SubscriberBuffer = 2
  MaxSeq = 4
  MaxEvents = 2
  MaxEra = 2
INVARIANTS
  TypeOK
  OnlyFullBuffersLose
PROPERTIES
  StreamAscends
  FeedSpec
  TabsCatchUp
