SPECIFICATION Spec
CONSTANTS
  Characters <- MCCharacters
  Separator = "sep"
  Nul = "nul"
  Hooks <- MCHooks
  Failures <- MCOneFailure
  NoSignature = NoSignature
  Threads = {t1, t2}
  NoThread = NoThread
  ModuleNames <- MCFewNames
  ScriptNames <- MCScriptNames
  NotUtf8Names <- MCNotUtf8Names
  Paths <- MCOneDirectory
  EmptyPath = ""
  Directories <- MCOneDirectory
  Unencodable = {}
  Provides <- MCOneProvides
  NoObject = NoObject
  Liberties = {"name clash", "load while finalizing", "load while importing",
               "foreign exception", "edited sys.modules"}
  MaxBindings = 2
  MaxDepth = 2
  MaxRuns = 1
  MaxStreak = 1
INVARIANTS
  NoFrameOutlivesInterpreter
PROPERTIES
  BindingsFrozenWhileApplied
  ForeignThreadsChangeNothing
  InitializeLeavesAnOwner
SYMMETRY ThreadSymmetry
CHECK_DEADLOCK FALSE
