\* Channels unbuffered, and buffered with one and two places; three operations
\* on a shared array that holds two values.
SPECIFICATION LiveEach
CONSTANTS
  main = main
  r1 = r1
  r2 = r2
  msg1 = msg1
  msg2 = msg2
  msg3 = msg3
  NoMsg = NoMsg
  Free = Free
  Null = Null
  Undef = Undef
  Bad = Bad
  Threads <- MainAndTwo
  Cancellable <- TwoRoutines
  Routines <- TwoRoutines
  Messages <- ThreeValues
  Capacities = {0, 1, 2}
  MaxSize = 2
  FirstCapacity = 1
  MaxCalls = 3
CHECK_DEADLOCK FALSE
INVARIANT
  SpliceExact
PROPERTIES
  ImplementsContract
  NobodyStranded
  ImplementsShared
  CallsReturn
