CONSTANTS
  t1 = t1
  t2 = t2
  r1 = r1
  r2 = r2
  r3 = r3
  Terminal = {t1, t2}
  Request = {r1, r2, r3}
  Key <- TwoKeys
  CardUser = {e1}
  WebUser = {}
  Handler = {h1, h2}
  Client = {w1}
  None = None
  MaxNow = 4
  MaxCorrections = 0
  MaxSkew = 1
  Tolerance = 1
SPECIFICATION Spec
CONSTRAINT DistinctTimes
SYMMETRY Symmetry
INVARIANTS
  TypeOK
  ExactlyOnce
  AnswersHold
  ChainIsLinear
  LegalSequence
PROPERTIES
  ImplementsRegister
CHECK_DEADLOCK FALSE
