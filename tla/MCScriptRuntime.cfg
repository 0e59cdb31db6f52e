SPECIFICATION Spec
CONSTANTS
  Characters <- MCCharacters
  Separator = "sep"
  Nul = "nul"
  Hooks <- MCHooks
  Failures <- MCFailures
  NoSignature = NoSignature
  Threads = {t1, t2}
  NoThread = NoThread
  ModuleNames <- MCModuleNames
  ScriptNames <- MCScriptNames
  NotUtf8Names <- MCNotUtf8Names
  Paths <- MCPaths
  EmptyPath = ""
  Directories <- MCDirectories
  Unencodable = {"latin1"}
  Provides <- MCProvides
  NoObject = NoObject
  Liberties = {}
  MaxBindings = 2
  MaxDepth = 3
  MaxRuns = 2
  MaxStreak = 1
INVARIANTS
  TypeOK
  LifecycleInv
  StoppedHoldsNothing
  LoadedModulesAreLive
  SearchPathsInEffect
  ConfiguredWhenRunning
  CountersAreOfThisRun
PROPERTIES
  InitializeIsAtomic
SYMMETRY ThreadSymmetry
CHECK_DEADLOCK FALSE
