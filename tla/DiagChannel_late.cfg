SPECIFICATION Spec
CONSTANTS
  Threads = {t1}
  Descriptors = {f1, f2}
  Closed = closed
  Polls = 2
  RxCap = 4
  MaxCalls = 2
  MaxLogs = 0
INVARIANT AnswersRequest
