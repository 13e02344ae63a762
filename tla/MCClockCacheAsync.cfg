SPECIFICATION Spec
CONSTANTS
  Thread = {t0, t1}
  Entry = {e0, e1}
  Page = {p0, p1}
  None = None
  t0 = t0
  t1 = t1
  e0 = e0
  e1 = e1
  p0 = p0
  p1 = p1
  RcWidth = 2
  SlotOf <- OwnSlot
  Extents = {}
  AsyncThread = {t1}
  Calls = {"get"}
SYMMETRY EntrySymmetry
INVARIANT GetReturnsItsPage
