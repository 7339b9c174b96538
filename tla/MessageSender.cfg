SPECIFICATION FairSpec
CONSTANTS
  Call = {c1, c2, c3}
  StreamReuseTries = 1
  None = None
INVARIANTS AnswersAreOwn ServedOnce StreamsAreKept
CHECK_DEADLOCK FALSE
