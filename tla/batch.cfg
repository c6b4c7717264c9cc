\* Two payments at two gateways; runs with and without --gateway and a batch of one.
SPECIFICATION Spec
CONSTANTS
  Transactions <- TwoTx
  References <- TwoRefs
  TxOf <- OwnTx
  Amounts <- MCAmounts
  Currencies <- MCCurrencies
  Fold <- MCFold
  Expected <- MCExpected
  EventIds <- TwoEvents
  EventRef <- SecondHasNone
  NoOne = NoOne
  Reported <- ForeignReported
  Payments <- RightOnly
  MaxVersion = 1
  Handlers = {h1}
  Sweepers = {s1}
  Gateways <- MCGateways
  GatewayOf <- Split
  EventGateway <- AllEventsPaystack
  Filters <- AnyFilter
  AnyGateway = AnyGateway
  Limit = 1
  SweepAfter = 1
  AbandonAfter = 2
  RunTicks = 1
  HostTargets <- NoTargets
  MaxCrashes = 0
INVARIANTS
  AttemptsAgree
  CreditedOnlyIfPaid
PROPERTIES
  BatchIsAQueue
