CONSTANTS
  o1 = o1
  o2 = o2
  o3 = o3
  s1 = s1
  s2 = s2
  NULL = NULL
  hoge = hoge
  Obj <- MCObj
  Slots <- MCSlots
  MaxDepth = 2
  LoopCount = 2
  CalleeWork = 3
SPECIFICATION Spec
SYMMETRY MCSymmetry
INVARIANT TypeOK
INVARIANT PrintfReadsLiveString
