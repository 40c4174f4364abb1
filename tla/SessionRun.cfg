CONSTANTS
  Driver = {home, other}
  Home = home
  EventCapacity = 2
  ControlQueue = 2
  HistoryCap = 5
  MaxEvents = 2
  None = None
SPECIFICATION FairSpec
INVARIANTS RelayFollowed
PROPERTIES ReportsAsPromised  TakenOverEnds PunchAnswered ChangeAnnounced
CHECK_DEADLOCK FALSE
