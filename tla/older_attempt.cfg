\* One payment with two attempts; the older one is paid.
SPECIFICATION Spec
CONSTANTS
  Transactions <- OneTx
  References <- TwoRefs
  TxOf <- SameTx
  Amounts <- MCAmounts
  Currencies <- MCCurrencies
  Fold <- MCFold
  Expected <- MCExpected
  EventIds <- NoEvents
  EventRef <- NoEventRef
  NoOne = NoOne
  Reported <- SameReported
  Payments <- RightOnly
  MaxVersion = 1
  Handlers = {}
  Sweepers = {s1}
  Gateways <- MCGateways
  GatewayOf <- AllPaystack
  EventGateway <- AllEventsPaystack
  Filters <- NoFilter
  AnyGateway = AnyGateway
  Limit = 1
  SweepAfter = 1
  AbandonAfter = 2
  RunTicks = 1
  HostTargets <- NoTargets
  MaxCrashes = 0
PROPERTIES
  PaidIsNotWrittenOff
