CONSTANTS
  t1 = t1
  t2 = t2
  r1 = r1
  r2 = r2
  r3 = r3
  Terminal = {t1, t2}
  Request = {r1, r2, r3}
  Key <- NoKeys
  CardUser = {}
  WebUser = {e1}
  Handler = {h1, h2}
  Client = {w1}
  None = None
  MaxNow = 5
  MaxCorrections = 2
  MaxSkew = 1
  Tolerance = 1
SPECIFICATION Spec
CONSTRAINT DistinctTimes
SYMMETRY Symmetry
INVARIANTS
  ChainIsLinear
  LegalSequence
CHECK_DEADLOCK FALSE
