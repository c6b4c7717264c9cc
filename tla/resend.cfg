\* A transport failure after the gateway has acted.
SPECIFICATION CallSpec
CONSTANTS
  HttpStatuses <- MCHttpStatuses
  Codes <- MCCodes
  NoCode = "none"
  Folded <- MCFolded
  TERMINAL_GATEWAY_CODES <- MCTerminal
  RETRYABLE_GATEWAY_CODES <- MCRetryable
INVARIANTS
  RetryableTransportIsUnprocessed
CHECK_DEADLOCK FALSE
