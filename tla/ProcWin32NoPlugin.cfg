SPECIFICATION Spec
CONSTANTS
  u1 = u1
  u2 = u2
  u3 = u3
  Users <- AllUsers
  Creators <- OneCreator
  PipeCapacity = 1
  Faults = {"plugin"}
CHECK_DEADLOCK FALSE
PROPERTIES
  SocketsReleased
