SPECIFICATION LiveSpec
CONSTANTS
  c1 = c1
  c2 = c2
  c3 = c3
  None = None
  Calls <- MCCalls
CHECK_DEADLOCK FALSE
INVARIANTS AnswersAreFresh DeadlineIsOwn OneRetry
PROPERTY EveryCallReturns
