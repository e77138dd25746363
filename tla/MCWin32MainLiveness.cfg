CONSTANTS
  o1 = o1
  o2 = o2
  o3 = o3
  s1 = s1
  s2 = s2
  NULL = NULL
  hoge = hoge
  Obj <- MCObj2
  Slots <- MCSlots
  MaxDepth = 1
  LoopCount = 2
  CalleeWork = 3
SPECIFICATION Spec
PROPERTY GarbageEventuallyReclaimed
