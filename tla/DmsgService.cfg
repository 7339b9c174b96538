SPECIFICATION CustomSpec
CONSTANTS
  ListenMsg <- Listens
  MaxCalls = 3
  Pid = {"p1"}
  App = {"h1"}
  Request = {"r1"}
INVARIANTS CrashHasCause HeldIsOpen AnswersComeHome SuccessIsHandled
CHECK_DEADLOCK FALSE
