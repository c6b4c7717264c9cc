\* A dry run and two runs over one payment: every row, every answer.
SPECIFICATION ItemSpec
CONSTANTS
  Transactions <- OneTx
  References <- TwoRefs
  TxOf <- SameTx
  Amounts <- MCAmounts
  Currencies <- MCCurrencies
  Fold <- MCFold
  Expected <- MCExpected
  EventIds <- TwoEvents
  EventRef <- OneEach
  NoOne = NoOne
  ReportedRefs <- AnyRef
INVARIANTS
  RaisesNothing
PROPERTIES
  SecondTimeChangesNothing
  OnlyOpenPaymentsMove
  OpenPaymentsPredicted
CHECK_DEADLOCK FALSE
