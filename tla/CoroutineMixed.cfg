SPECIFICATION Spec
CONSTANTS
  Main = main
  NoThread = nil
  HostThreads = {h}
  LuaThreads = {}
  MaxDepth = 4
  Uses = {"meta", "pcall", "mixed"}
INVARIANTS ResultReadWhereReturned
CHECK_DEADLOCK FALSE
