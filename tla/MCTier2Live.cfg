CONSTANTS
  f1 = f1
  f2 = f2
  m1 = m1
  m2 = m2
  m3 = m3
  resp = resp
  FrontEnds = {f1, f2}
  BE = BE
  Msgs = {m1, m2, resp}
  Response = resp
  None = None
  MaxDrops = 0
SPECIFICATION FairSpec
PROPERTIES
  RequestsAnswered
