CONSTANTS
  o1 = o1
  o2 = o2
  o3 = o3
  NULL = NULL
  NoNumber = NoNumber
  Obj <- MCObj
  Payloads = {5, 7}
SPECIFICATION Spec
SYMMETRY MCSymmetry
 
INVARIANT InteropStructsHoldNoReferences
