SPECIFICATION Spec
CONSTANTS
  p1 = p1
  p2 = p2
  p3 = p3
  u1 = u1
  u2 = u2
  u3 = u3
  Procs <- ThreeProcs
  Users = {u1, u2, u3}
  Creator <- ThreeProcsCreator
  ProcOf <- OneUserEachOf
  MaxFd = 5
INVARIANTS
  OwnDescriptors
PROPERTIES
  ImplementsFdChannel
