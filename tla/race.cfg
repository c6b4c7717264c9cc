\* One payment, two webhook requests and one sweeper run: every race on one row.
SPECIFICATION Spec
CONSTANTS
  Transactions <- OneTx
  References <- OneRef
  TxOf <- OneTxOf
  Amounts <- MCAmounts
  Currencies <- MCCurrencies
  Fold <- MCFold
  Expected <- MCExpected
  EventIds <- OneEvent
  EventRef <- OneAboutOne
  NoOne = NoOne
  Reported <- SameReported
  Payments <- RightOrShort
  MaxVersion = 2
  Handlers = {h1, h2}
  Sweepers = {s1}
  Gateways <- MCGateways
  GatewayOf <- AllPaystack
  EventGateway <- AllEventsPaystack
  Filters <- NoFilter
  AnyGateway = AnyGateway
  Limit = 1
  SweepAfter = 1
  AbandonAfter = 2
  RunTicks = 1
  HostTargets <- ReviewAndExpiry
  MaxCrashes = 1
SYMMETRY HandlerSymmetry
INVARIANTS
  TypeOK
  AttemptsAgree
  CreditedIsReconciled
  DecisionsAreSound
  NewsInOrder
  VerdictsAreGrounded
  LocksAreInUse
PROPERTIES
  TerminalIsFinal
  FlagsAreKept
  NewsIsNotUsedUp
  AbandonedOnlyWhenQuiet
  CommitsExhaust
  KeepsPromise
  KeepsEvents
