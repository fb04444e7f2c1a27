SPECIFICATION Spec
CONSTANTS
  Main = main
  NoThread = nil
  HostThreads = {h}
  LuaThreads = {}
  MaxDepth = 4
  Uses = {"meta", "nested"}
INVARIANTS OpcodeFinishedOnce
CHECK_DEADLOCK FALSE
