SPECIFICATION Spec
CONSTANTS
  None = None
  Docs = {d1, d2}
  First = d1
  Txs = {t1, t2, t3}
  MaxFaults = 3
SYMMETRY Symmetry
INVARIANTS NothingLost AllOrNothing
CHECK_DEADLOCK FALSE
