SPECIFICATION Spec
CONSTANT N = 4
INVARIANTS
  CyclesFound
  ChainExact
  TopologicalWhenClosed
  ChainAgrees
CHECK_DEADLOCK FALSE
