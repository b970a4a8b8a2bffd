SPECIFICATION Spec
CONSTANTS
  Client = {c1, c2}
  Worker = {w1, w2}
  MaxQueue = 1
  MaxOperations = 2
  MaxIds = 2
INVARIANT TypeOK
INVARIANT CancelIsHonoured
INVARIANT NoJobLeftBehind
INVARIANT OneJobPerOperation
PROPERTY EveryOperationSettles
PROPERTY WaitersReturn
PROPERTY ShutdownCompletes
