SPECIFICATION Spec
CONSTANTS
  Main = main
  NoThread = nil
  HostThreads = {h}
  LuaThreads = {}
  MaxDepth = 5
  Uses = {"pcall", "gopcall"}
INVARIANTS OnlyLuaInterpreted
CHECK_DEADLOCK FALSE
