\* Patterns and names long enough for two stars to go back at once; two threads
\* created in one or two blocks; three threads at one mutex.  The parts stop when
\* there is nothing left to call, hence no deadlock check.
CONSTANTS
  Symbol <- MCSymbol
  Patterns <- MCPatterns
  Strings <- MCStrings
  MaxPattern = 4
  MaxString = 3
  Client = {x, y}
  Block = {b1, b2}
  NoBlock = NoBlock
  NoClient = NoClient
  IntHalf = 2
  Thread = {t1, t2, t3}
  MaxDepth = 2
  Guids <- MCGuids
  Var = {u, v}
  Buffer = {s1, s2}
SPECIFICATION Spec
INVARIANTS
  FnmatchTypeOK MatchAgrees RecursionBounded
  OneOwnerEach RunsItsOwn JoinTellsResult
  CodesTellTheTruth
  ComparesGuids TextTellsGuid
PROPERTIES FnmatchReturns CallsReturn
CHECK_DEADLOCK FALSE
