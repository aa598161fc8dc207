SPECIFICATION Spec
CONSTANTS
  Runs = {r1, r2}
  Keys = {k1}
  Peers = {p, q}
  Here = Here
  Windows = {w}
  Contents = {a, b}
  Positions <- TwoFiles
  MaxCopies = 2
  MaxChanges = 1
  MaxLosses = 1
INVARIANTS AcceptedRefsExist AtMostOneLostPerFailure
SYMMETRY Symmetry
CHECK_DEADLOCK FALSE
