SPECIFICATION ConnectionSpec
CONSTANTS
  Caller <- Threads
  MaxCalls <- Few
  MaxBody = 1
  MaxFaults = 1
  s1 = s1
  s2 = s2
  Subscriber <- Clients
INVARIANTS
  AnswersBelong
  FailsOncePerFault
  SubscribersReached
PROPERTIES
  ShutdownEnds
CHECK_DEADLOCK FALSE
