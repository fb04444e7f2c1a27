SPECIFICATION Spec
CONSTANTS
  Main = main
  NoThread = nil
  HostThreads = {h}
  LuaThreads = {a}
  MaxDepth = 4
  Uses = {"pcall", "meta", "wrap", "tail"}
INVARIANTS PcallIsArmed TypeOK DeadHasNoWork OnlyLuaInterpreted SuspendedCanResume OpcodeFinishedOnce
CHECK_DEADLOCK FALSE
