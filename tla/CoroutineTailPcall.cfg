SPECIFICATION Spec
CONSTANTS
  Main = main
  NoThread = nil
  HostThreads = {h}
  LuaThreads = {}
  MaxDepth = 4
  Uses = {"pcall", "tailpcall"}
PROPERTIES YieldKeepsPcalls
CHECK_DEADLOCK FALSE
