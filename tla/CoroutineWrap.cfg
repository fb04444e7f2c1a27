SPECIFICATION Spec
CONSTANTS
  Main = main
  NoThread = nil
  HostThreads = {h}
  LuaThreads = {a}
  MaxDepth = 2
  Uses = {"main", "wrap"}
INVARIANTS RunningIsCurrent
CHECK_DEADLOCK FALSE
