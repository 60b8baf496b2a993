SPECIFICATION Spec
CONSTANTS
  p1 = p1
  p2 = p2
  p3 = p3
  u1 = u1
  u2 = u2
  u3 = u3
  Procs <- OneProc
  Users = {u1, u2, u3}
  Creator <- OneProcCreator
  ProcOf <- OneProcOf
  MaxFd = 1
INVARIANTS
  OwnDescriptors
PROPERTIES
  ImplementsFdChannel
