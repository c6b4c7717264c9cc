\* One payment whose second event is left for the sweeper.
SPECIFICATION FairSpec
CONSTANTS
  Transactions <- OneTx
  References <- OneRef
  TxOf <- OneTxOf
  Amounts <- MCAmounts
  Currencies <- MCCurrencies
  Fold <- MCFold
  Expected <- MCExpected
  EventIds <- OneEvent
  EventRef <- OneAboutOne
  NoOne = NoOne
  Reported <- SameReported
  Payments <- RightOnly
  MaxVersion = 2
  Handlers = {h1}
  Sweepers = {s1}
  Gateways <- MCGateways
  GatewayOf <- AllPaystack
  EventGateway <- AllEventsPaystack
  Filters <- NoFilter
  AnyGateway = AnyGateway
  Limit = 1
  SweepAfter = 1
  AbandonAfter = 2
  RunTicks = 1
  HostTargets <- NoTargets
  MaxCrashes = 0
PROPERTIES
  LeftEventsAreRetried
