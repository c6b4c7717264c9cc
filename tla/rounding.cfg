\* A price with more decimals than its currency.
SPECIFICATION RefundSpec
CONSTANTS
  Transactions <- MCTransactions
  References <- NoAttempts
  TxOf <- NoTxOf
  Amounts <- MoneyAmounts
  Currencies <- MoneyCurrencies
  Fold <- MoneyFold
  Expected <- MoneyExpected
  EventIds <- NoAttempts
  EventRef <- NoEventRef
  NoOne = NoOne
  One = 1000
  Prices <- MCPrices
  StatusWords <- MCWords
  Slips <- MCSlips
  Portions <- MCPortions
  Numeric <- MCNumeric
  HttpStatuses <- MCHttpStatuses
  Codes <- MCCodes
  NoCode = "none"
  Folded <- MCFolded
  TERMINAL_GATEWAY_CODES <- MCTerminal
  RETRYABLE_GATEWAY_CODES <- MCRetryable
INVARIANTS
  ConversionRefusesToRound
CHECK_DEADLOCK FALSE
