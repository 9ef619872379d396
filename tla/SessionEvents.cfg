SPECIFICATION Spec
CONSTANTS
  Root = Root
  Child = {c}
  MaxItem = 1
  MaxNative = 5
  MaxBatch = 3
INVARIANTS  ChildrenCompleteWithRoot
CHECK_DEADLOCK FALSE
