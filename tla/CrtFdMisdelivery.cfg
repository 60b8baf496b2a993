SPECIFICATION Spec
CONSTANTS
  p1 = p1
  p2 = p2
  p3 = p3
  u1 = u1
  u2 = u2
  u3 = u3
  Procs <- TwoProcs
  Users = {u1, u2, u3}
  Creator <- TwoProcsCreator
  ProcOf <- TwoProcsOf
  MaxFd = 3
INVARIANTS
  ServedByOwnProc
