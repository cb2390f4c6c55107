CONSTANTS
  f1 = f1
  f2 = f2
  m1 = m1
  m2 = m2
  m3 = m3
  resp = resp
  FrontEnds = {f1, f2}
  BE = BE
  Msgs = {m1, m2, m3, resp}
  Response = resp
  None = None
  MaxDrops = 1
SPECIFICATION Spec
SYMMETRY Sym
INVARIANTS
  OneOwner
  LimboIsTransfer
  MarkedIsOwned
  HandOverPending
  PipesCarryTheirOwn
  PopsTheAwaited
  AnswerOwed
PROPERTIES
  DeletedByRequester
  RepliesWithAnswer
  ImplementsService
