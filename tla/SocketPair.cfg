\* Two connections; five handles are one more than a connection can hold, so
\* both compete for them and take over what the other has closed.
\* The system stops when every connection has ended, hence no deadlock check.
CONSTANTS
  Conn = {c1, c2}
  Handles = {1, 2, 3, 4, 5}
  IntSize = 16
  SocketSize = 256
  LowestFirst = TRUE
SPECIFICATION SocketSpec
INVARIANTS SocketTypeOK NothingLeaks PairBelongsTogether NotCutOff
PROPERTIES ClosedByItsOwn EofArrives
CHECK_DEADLOCK FALSE
