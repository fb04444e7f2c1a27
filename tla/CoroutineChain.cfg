SPECIFICATION FairSpec
CONSTANTS
  Main = main
  NoThread = nil
  HostThreads = {h}
  LuaThreads = {a, b}
  MaxDepth = 2
  Uses = {"main", "tail", "meta"}
INVARIANTS ParentIsResumer RunningIsCurrent
PROPERTIES RefinesChain SystemYieldReachesHost
