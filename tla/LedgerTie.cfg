CONSTANTS
  t1 = t1
  t2 = t2
  r1 = r1
  r2 = r2
  r3 = r3
  Terminal = {t1, t2}
  Request = {r1, r2, r3}
  Key <- ThreeKeys
  CardUser = {e1}
  WebUser = {}
  Handler = {h1}
  Client = {w1}
  None = None
  MaxNow = 3
  MaxCorrections = 0
  MaxSkew = 0
  Tolerance = 0
SPECIFICATION Spec
SYMMETRY Symmetry
INVARIANTS
  LegalSequence
CHECK_DEADLOCK FALSE
