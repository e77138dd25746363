CONSTANTS
  o1 = o1
  o2 = o2
  o3 = o3
  s1 = s1
  s2 = s2
  NULL = NULL
  Obj <- MCObj
  Slots <- MCSlots
  MaxDepth = 2
SPECIFICATION Spec
INVARIANT TypeOK
 
PROPERTY CollectorImplementsGCAbstract
PROPERTY AllocationCompletes
