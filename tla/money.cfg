\* One amount, out to a gateway, back and refunded, through calls that may fail.
SPECIFICATION RefundSpec
CONSTANTS
  Transactions <- MCTransactions
  References <- NoAttempts
  TxOf <- NoTxOf
  Amounts <- MoneyAmounts
  Currencies <- MoneyCurrencies
  Fold <- MoneyFold
  Expected <- MoneyExpected
  EventIds <- NoAttempts
  EventRef <- NoEventRef
  NoOne = NoOne
  One = 1000
  Prices <- MCPrices
  StatusWords <- MCWords
  Slips <- MCSlips
  Portions <- MCPortions
  Numeric <- MCNumeric
  HttpStatuses <- MCHttpStatuses
  Codes <- MCCodes
  NoCode = "none"
  Folded <- MCFolded
  TERMINAL_GATEWAY_CODES <- MCTerminal
  RETRYABLE_GATEWAY_CODES <- MCRetryable
INVARIANTS
  AskedIsStored
  CreditedToTheGrain
  PaidInFullIsCredited
  AskedIsPriced
  PaysBackTheWanted
  ResultIsTrue
  DataMeansAccepted
  RefusalsAreFinal
  OutagesAreRetryable
CHECK_DEADLOCK FALSE
