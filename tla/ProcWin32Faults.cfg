SPECIFICATION Spec
CONSTANTS
  u1 = u1
  u2 = u2
  u3 = u3
  Users <- AllUsers
  Creators <- OneCreator
  PipeCapacity = 1
  Faults = {"create", "dup", "plugin", "thread", "open", "nofree", "timeout"}
CHECK_DEADLOCK FALSE
INVARIANTS
  TypeOK
  ProcFreedAfterJoin
  OwnerIsCreator
  FreedOnlyAfterEof
PROPERTIES
  StopEndsProc
  HandOverEnds
