SPECIFICATION Spec
CONSTANTS
  MaxBuffer = 4
  BatchSize = 2
  MaxEvents = 6
  Prices = {5, 10}
  Lag = 0
  MaxTime = 6
  Minute = 2
  Day = 1
  DailyEvery = 2
  EventsKeep = 5
  BarsKeep = 5
  FillPrice = 10
  Orders <- MCOrders
  Slack = 1
  Threshold = 4
  Around = 1
  Ahead = 2
  Grace = 1
  Tentative = 4
  MaxFills = 1
  Plans <- PromotionPlans
  NoSleeve = NoSleeve
  Capital = 100
  Equities = {60, 130}
  Replays <- MCReplays
  Month = 3
  ReplaySignals = 30
  ReplayDrawdown = 30
  LogDays = 2
  LogSignals = 1
  RateTolerance = 30
  SignalDays = 2
  MaxImplausible = 5
  MinFilled = 60
  FullDrawdown = 20
  FullRemaining = 80
  MaxSignals = 1
  MaxReplays = 1
  MaxSnapshots = 3
INVARIANT DaysAreServed
CHECK_DEADLOCK FALSE
