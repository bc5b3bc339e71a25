SPECIFICATION MCSpec
CONSTANTS
  m1 = m1
  m2 = m2
  w1 = w1
  NoMarket = NoMarket
  Markets <- MCMarkets
  Assets <- MCAssets
  MarketOf <- MCMarketOf
  Wallets = {w1}
  Kinds <- MCKinds
  Tops <- MCTops
  PrintPrices = {1}
  MinLegs = 2
  MaxSum = 6
  MinSpread = 2
  Low = 1
  High = 5
  Adverse = 1
  Spike = 50
  Cooldown = 2
  Window = 0
  Keep = 1
  Horizon = 2
  EndTime <- MCEndTime
  Weather = {m1, m2}
  Liquid = {m1, m2}
  MaxTime = 3
  MaxRecent = 2
  MaxEntries = 3
  MaxRestarts = 1
  PageLimit = 2
  TopN = 2
  MaxPolls = 2
  Venues = {"polymarket_activity", "news_rss", "reddit"}
  PageSize = 2
  SeenMax = 2
  MaxItems = 3
  MaxFetches = 3
  Deployments <- MCDeployments
  TradeOf <- MCTradeOf
INVARIANT MetaReachesStrategies
CHECK_DEADLOCK FALSE
