SPECIFICATION Spec
CONSTANTS
  Characters <- MCCharacters
  Separator = "sep"
  Nul = "nul"
  Hooks <- MCHooks
  Failures <- MCFailures
  NoSignature = NoSignature
  Threads = {t1, t2}
  NoThread = NoThread
  ModuleNames <- MCModuleNames
  ScriptNames <- MCScriptNames
  NotUtf8Names <- MCNotUtf8Names
  Paths <- MCPaths
  EmptyPath = ""
  Directories <- MCDirectories
  Unencodable = {}
  Provides <- MCProvides
  NoObject = NoObject
  Liberties = {"name clash"}
  MaxBindings = 2
  MaxDepth = 2
  MaxRuns = 2
  MaxStreak = 1
INVARIANT
  LoadedModulesAreLive
SYMMETRY ThreadSymmetry
CHECK_DEADLOCK FALSE
