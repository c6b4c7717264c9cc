\* One payment with two attempts and an event about the older one; one request and one run, both fair.
SPECIFICATION FairSpec
CONSTANTS
  Transactions <- OneTx
  References <- TwoRefs
  TxOf <- SameTx
  Amounts <- MCAmounts
  Currencies <- MCCurrencies
  Fold <- MCFold
  Expected <- MCExpected
  EventIds <- OneEvent
  EventRef <- OneAboutOne
  NoOne = NoOne
  Reported <- SameReported
  Payments <- RightOnly
  MaxVersion = 1
  Handlers = {h1}
  Sweepers = {s1}
  Gateways <- MCGateways
  GatewayOf <- AllPaystack
  EventGateway <- AllEventsPaystack
  Filters <- NoFilter
  AnyGateway = AnyGateway
  Limit = 1
  SweepAfter = 1
  AbandonAfter = 2
  RunTicks = 1
  HostTargets <- NoTargets
  MaxCrashes = 1
INVARIANTS
  PaidAttemptIsCredited
PROPERTIES
  NewsReachesLedger
  PaymentsAreDecided
  EventsAreClosed
