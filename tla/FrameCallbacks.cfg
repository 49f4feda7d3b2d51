CONSTANTS
  Tickers = {t1, t2}
  None = None
  MaxCallbacks = 4
  Generations = 3
  Times = 2
  CancelDue = FALSE
SPECIFICATION TickersSpec
INVARIANTS AssertionsHold OncePerFrame OneCallbackEach TickingIsScheduled
PROPERTIES KeepsTicking
