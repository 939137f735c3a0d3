CONSTANTS
  J = 2
  MaxStarts = 2
  MaxEvents = 2
  Clients = {c1}
SPECIFICATION FairSpec
INVARIANTS TypeOK ClientsTerminate StreamInOrder SerialPerLifecycle
PROPERTIES VerdictStands Served RunningSettles
CHECK_DEADLOCK FALSE
