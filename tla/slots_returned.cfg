CONSTANTS
  c1 = c1
  c2 = c2
  c3 = c3
  c4 = c4
  e1 = e1
  mA = mA
  mB = mB
  NoModel = NoModel
  Requests = {c1, c2, e1}
  Embeddings = {e1}
  Models = {mA}
  Limits = {1, 2}
  MaxLost = 1
SPECIFICATION Spec
INVARIANT SlotsReturned
