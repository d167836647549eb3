SPECIFICATION FairSpec
CONSTANTS
  Exchanges <- MCExchanges
  Unusable <- MCUnusable
  Breaks = TRUE
INVARIANTS TypeOK TakesWhatWasSent InStep
PROPERTIES CallReturns
CHECK_DEADLOCK FALSE
