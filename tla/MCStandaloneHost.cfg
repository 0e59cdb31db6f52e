SPECIFICATION HostSpec
CONSTANTS
  Characters <- MCCharacters
  Separator = "sep"
  Nul = "nul"
  Hooks <- MCHooks
  Failures <- MCFailures
  NoSignature = NoSignature
  Threads = {main}
  NoThread = NoThread
  ModuleNames <- MCModuleNames
  ScriptNames <- MCScriptNames
  NotUtf8Names <- MCNotUtf8Names
  Paths <- MCPaths
  EmptyPath = ""
  Directories <- MCDirectories
  Unencodable <- MCUnencodable
  Provides <- MCProvides
  NoObject = NoObject
  Liberties <- MCLiberties
  MaxBindings = 2
  MaxDepth = 3
  MaxRuns = 2
  MaxStreak = 3
  Main = main
  HostName <- MCHostName
  GameName <- MCGameName
  FunctionName <- MCFunctionName
  FrameCount = 3
INVARIANTS
  HostTypeOK
  LocalsOutlivePython
  FailureToldOnce
  FramesAndStatusAgree
PROPERTIES
  UsesRuntimeAsShown
  NeverGoesBack
  MainReturns
