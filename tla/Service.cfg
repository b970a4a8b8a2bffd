SPECIFICATION Spec
CONSTANTS
  Client = {c1, c2}
  Worker = {w1}
  MaxQueue = 1
  MaxConnections = 2
  MaxLinks = 2
  MaxCallers = 1
  MaxCalls = 1
  RawClient = {c2}
  MaxRaw = 1
INVARIANT TypeOK
INVARIANT RegisteredIsServed
INVARIANT NothingLeftOpen
INVARIANT AcceptedIsHandled
PROPERTY ShutdownCompletes
PROPERTY RunReturns
PROPERTY CallsReturn
