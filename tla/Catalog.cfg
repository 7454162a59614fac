\* All short links; answers with up to two variants and three offers.
SPECIFICATION CatalogSpec
CONSTANTS
  Links <- MCLinks
  Words <- MCWords
  Skus <- MCSkus
  Codes = {1, 2, 3}
  NoCode = 0
  RawOffers <- MCRawOffers
  NoAmount <- MCNoAmount
  Answered <- MCAnswered
  MaxVariants = 2
  MaxOffers = 3
  MaxSafe = 200
  MaxPrice = 150
  MaxLength = 9
CHECK_DEADLOCK FALSE
INVARIANTS
  LeaderIsCheapest
  LeaderIgnoresOrder
  LeaderReachesFirst
  ShownPriceIsRead
  ListIsComplete
  MonitoringFindsTheSame
