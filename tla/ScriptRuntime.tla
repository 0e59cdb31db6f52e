--------------------------- MODULE ScriptRuntime ---------------------------
(***************************************************************************)
(* One mais::ScriptRuntime (sources/ScriptRuntime.cpp): its lifecycle,     *)
(* the modules its host binds, the modules it loads, the hooks it calls    *)
(* and the thread that owns its interpreter.                               *)
(*                                                                         *)
(* The public functions are not one step each: initialize() runs the       *)
(* host's binding callbacks, loadModule() runs a module body, call() runs  *)
(* a hook and shutdown() runs exit handlers, and every one of those can    *)
(* call the runtime again.  stack holds the C++ frames that wait for such  *)
(* code; the code in between is a step.  returned is an observation        *)
(* variable: the call that last entered or left the runtime.               *)
(*                                                                         *)
(* The specification explores what host and scripts may do.  Liberties     *)
(* names what they do beyond the usage the repository shows; with the      *)
(* empty set the runtime keeps its promises, and each member is one way to *)
(* break one of them.                                                      *)
(***************************************************************************)
EXTENDS FailureRecords

CONSTANTS
  Threads, NoThread,   \* threads of the host; std::thread::id()
  ModuleNames,         \* the names the host and the scripts use
  ScriptNames,         \* those a search path can provide
  Nul,                 \* the character that ends a C string
  NotUtf8Names,        \* the C strings Python cannot decode
  Paths,               \* what the host passes to addSearchPath()
  EmptyPath,           \* the empty string
  Directories,         \* the paths that are existing directories
  Unencodable,         \* the directories whose name is not UTF-8
  Provides,            \* per directory, the script modules found in it
  NoObject,            \* no entry in a module table
  Liberties,           \* see above
  MaxBindings,         \* bound: queued bindings
  MaxDepth,            \* bound: nested frames
  MaxRuns,             \* bound: interpreters started
  MaxStreak            \* bound: consecutive failures of one hook

AllLiberties ==
  {"name clash", "load while finalizing", "load while importing",
   "shutdown in callback", "foreign exception", "edited sys.modules"}

ASSUME ThreadsAssumption == NoThread \notin Threads

(* std::string::c_str(): Python is handed a name up to its first NUL, the  *)
(* runtime's own table is keyed by all of it.                              *)
CString(n) ==
  LET cut == {i \in 1..Len(n) : n[i] = Nul}
  IN IF cut = {}
       THEN n
       ELSE SubSeq(n, 1, (CHOOSE i \in cut : \A j \in cut : i =< j) - 1)

Importable == {CString(n) : n \in ModuleNames}

Decodable(n) == CString(n) \notin NotUtf8Names

ASSUME NamesAssumption ==
  /\ ModuleNames \subseteq Names \ {<<>>}
  /\ ScriptNames \subseteq ModuleNames
  /\ \A n \in ScriptNames : CString(n) = n /\ Decodable(n)
  /\ \A h \in Hooks : h.module \in ModuleNames

(* ErrorCode, as far as the runtime reports it. *)
ErrorCodes ==
  {"NotInitialized", "AlreadyInitialized", "InterpreterFailure",
   "InvalidArgument", "ScriptNotFound", "ModuleNotFound", "FunctionNotFound",
   "TypeMismatch", "InvocationFailed", "WrongThread"}

ASSUME CodesAssumption == \A e \in Failures : e.code \in ErrorCodes

(* How a call of the runtime is seen to leave it, or to enter code that    *)
(* may call it again.                                                      *)
Codes == ErrorCodes \cup {"Ok", "entered", "exception"}

Operations ==
  {"none", "registerModule", "initialize", "shutdown", "destroy",
   "addSearchPath", "loadModule", "call"}

ASSUME PathsAssumption ==
  /\ EmptyPath \notin Paths
  /\ Directories \subseteq Paths
  /\ Unencodable \subseteq Directories
  /\ Provides \in [Directories -> SUBSET ScriptNames]

ASSUME BoundsAssumption ==
  /\ {MaxBindings, MaxDepth, MaxRuns, MaxStreak} \subseteq Nat
  /\ Liberties \subseteq AllLiberties

(* A Python module object: the interpreter it lives in and who made it, a  *)
(* script (0) or the binding at an index.  Two scripts imported under the same *)
(* name in the same interpreter are not told apart.                        *)
Object == [run : Nat, origin : Nat]

ASSUME NoObjectAssumption == NoObject \notin Object

FromScript == 0

VARIABLES
  running,          \* Impl::running
  ownerThread,      \* Impl::ownerThread
  interpreter,      \* what resetting Impl::interpreter leads to
  bindings,         \* Impl::bindings
  searchPaths,      \* Impl::searchPaths
  modules,          \* Impl::modules
  tracebackModule,  \* Impl::tracebackModule is set
  failureRecords,   \* Impl::failureRecords
  sysModules,       \* Python's sys.modules
  sysPath,          \* Python's sys.path, the entries the runtime added
  otherPython,      \* an interpreter someone else started in the process
  stack,            \* frames waiting for host or script code
  stackThread,      \* the thread those frames are on
  run,              \* history: interpreters started so far
  returned          \* observation: the call that last entered or left

lifecycle == <<running, ownerThread, interpreter, run>>
setup     == <<bindings, searchPaths>>
tables    == <<modules, tracebackModule, failureRecords>>
python    == <<sysModules, sysPath, otherPython>>
frames    == <<stack, stackThread>>

state == <<lifecycle, setup, tables, python, frames>>
vars  == <<state, returned>>

NoModules == [n \in ModuleNames |-> NoObject]

NoSysModules == [n \in Importable |-> NoObject]

Frame ==
  [kind : {"binding"}, index : Nat \ {0}]
    \cup [kind : {"import"}, name : ModuleNames]
    \cup [kind : {"invoke"}, hook : Hooks]
    \cup [kind : {"finalize"}, op : {"initialize", "shutdown", "destroy"},
          code : Codes]

Returned == [op : Operations, thread : Threads \cup {NoThread}, code : Codes]

Init ==
  /\ running = FALSE /\ ownerThread = NoThread /\ interpreter = "none"
  /\ bindings = <<>> /\ searchPaths = <<>>
  /\ modules = NoModules /\ tracebackModule = FALSE
  /\ failureRecords = NoRecords
  /\ sysModules = NoSysModules /\ sysPath = <<>> /\ otherPython = FALSE
  /\ stack = <<>> /\ stackThread = NoThread
  /\ run = 0
  /\ \E t \in Threads :
       returned = [op |-> "none", thread |-> t, code |-> "Ok"]

-----------------------------------------------------------------------------

(* Shared pieces. *)

Return(op, t, code) == returned' = [op |-> op, thread |-> t, code |-> code]

(* An early return that changes nothing. *)
Refused(op, t, code) == Return(op, t, code) /\ UNCHANGED state

(* Faulty variants, here and below, are named for the mistake they make;   *)
(* the properties are checked to notice them.                              *)
OwnsInterpreter_NotChecked(t) == TRUE

(* The thread that called initialize() is the one asking. *)
OwnsInterpreter(t) == t = ownerThread

(* Who can call the runtime: anyone when no call is in progress, the code  *)
(* the topmost frame waits for, and other threads while the runtime runs   *)
(* (they are promised a refusal).                                          *)
MayCall(t) ==
  \/ stack = <<>>
  \/ t = stackThread
  \/ running /\ t # ownerThread

Top == stack[Len(stack)]

Waiting(kind) == stack # <<>> /\ Top.kind = kind

Below == SubSeq(stack, 1, Len(stack) - 1)

OnStack(kind) == \E i \in 1..Len(stack) : stack[i].kind = kind

Push(frame, t) ==
  /\ Len(stack) < MaxDepth
  /\ stack' = Append(stack, frame)
  /\ stackThread' = t

Pop ==
  /\ stack' = Below
  /\ stackThread' = IF Below = <<>> THEN NoThread ELSE stackThread

Reversed_SameOrder(s) == s

Reversed(s) == [i \in 1..Len(s) |-> s[Len(s) + 1 - i]]

(* classifyPythonError(): what a raised exception is reported as. *)
RaisedCodes ==
  {"ModuleNotFound", "FunctionNotFound", "TypeMismatch", "InvocationFailed"}

-----------------------------------------------------------------------------

ClearTables_KeepsModules ==
  failureRecords' = NoRecords /\ tracebackModule' = FALSE /\ UNCHANGED modules

ClearTables_KeepsRecords ==
  modules' = NoModules /\ tracebackModule' = FALSE /\ UNCHANGED failureRecords

(* What stop() drops before the interpreter goes. *)
ClearTables ==
  /\ failureRecords' = NoRecords
  /\ modules' = NoModules
  /\ tracebackModule' = FALSE

(* stop(), up to the point where finalization runs exit handlers: the      *)
(* tables are emptied first.  A stop() inside those handlers finds no      *)
(* interpreter left to reset and runs to its end.                          *)
Stop(op, t, code, waiting) ==
  /\ ClearTables
  /\ \/ /\ interpreter = "live"
        /\ interpreter' = "finalizing"
        /\ stack' = Append(waiting, [kind |-> "finalize", op |-> op,
                                     code |-> code])
        /\ stackThread' = t
        /\ Return(op, t, "entered")
        /\ UNCHANGED <<running, ownerThread>>
     \/ /\ interpreter # "live"
        /\ running' = FALSE
        /\ ownerThread' = NoThread
        /\ Return(op, t, code)
        /\ UNCHANGED <<interpreter, frames>>

(* The end of stop(): the interpreter is gone. *)
FinalizeEnds ==
  /\ Waiting("finalize")
  /\ interpreter' = "none"
  /\ sysModules' = NoSysModules
  /\ sysPath' = <<>>
  /\ running' = FALSE
  /\ ownerThread' = NoThread
  /\ IF Top.op = "destroy"
       THEN bindings' = <<>> /\ searchPaths' = <<>>
       ELSE UNCHANGED setup
  /\ Pop
  /\ Return(Top.op, stackThread, Top.code)
  /\ UNCHANGED <<tables, otherPython, run>>

-----------------------------------------------------------------------------

(* BindingRegistry::add(): a name may be there already. *)
RegistryAdd(n) ==
  /\ n # <<>>
  /\ Len(bindings) < MaxBindings
  /\ bindings' = Append(bindings, n)

RegisterModule_WhileRunning(t, n) ==
  /\ MayCall(t)
  /\ RegistryAdd(n)
  /\ Return("registerModule", t, "Ok")
  /\ UNCHANGED <<lifecycle, searchPaths, tables, python, frames>>

(* registerModule(); an empty callback is refused like an empty name. *)
RegisterModule(t, n) ==
  /\ MayCall(t)
  /\ \/ running /\ Refused("registerModule", t, "AlreadyInitialized")
     \/ ~running /\ n = <<>> /\ Refused("registerModule", t, "InvalidArgument")
     \/ /\ ~running
        /\ \/ "name clash" \in Liberties
           \/ /\ CString(n) \notin ScriptNames
              /\ \A i \in 1..Len(bindings) : CString(bindings[i]) # CString(n)
        /\ RegistryAdd(n)
        /\ Return("registerModule", t, "Ok")
        /\ UNCHANGED <<lifecycle, searchPaths, tables, python, frames>>

(* Py_IsInitialized(), which holds until the exit handlers have run. *)
PyIsInitialized == interpreter # "none" \/ otherPython

BindingObject(k, i) == [run |-> k, origin |-> i]

(* applyBinding(), up to the host's callback, once PyModule_New has taken  *)
(* the name: the module is importable before it is populated.              *)
EnterBinding(k, i, waiting, t) ==
  /\ sysModules' =
       [sysModules EXCEPT ![CString(bindings[i])] = BindingObject(k, i)]
  /\ stack' = Append(waiting, [kind |-> "binding", index |-> i])
  /\ stackThread' = t

(* A run starts from zero. *)
FreshCounters == failureRecords' = NoRecords

StartInterpreter_OwnerNotYet(t) ==
  /\ run < MaxRuns
  /\ \A i \in 1..Len(searchPaths) : searchPaths[i] \notin Unencodable
  /\ bindings # <<>> /\ Decodable(bindings[1])
  /\ FreshCounters
  /\ interpreter' = "live"
  /\ run' = run + 1
  /\ running' = TRUE
  /\ tracebackModule' = TRUE
  /\ sysPath' = Reversed(searchPaths)
  /\ EnterBinding(run + 1, 1, stack, t)
  /\ Return("initialize", t, "entered")
  /\ UNCHANGED <<ownerThread, setup, modules, otherPython>>

(* initialize(), once the guards have passed and Python started: search    *)
(* paths in insertion order, each one in front, then the first binding.    *)
StartInterpreter(t) ==
  /\ run < MaxRuns
  /\ \A i \in 1..Len(searchPaths) : searchPaths[i] \notin Unencodable
  /\ bindings # <<>> => Decodable(bindings[1])
  /\ FreshCounters
  /\ interpreter' = "live"
  /\ run' = run + 1
  /\ running' = TRUE
  /\ ownerThread' = t
  /\ tracebackModule' = TRUE
  /\ sysPath' = Reversed(searchPaths)
  /\ IF bindings = <<>>
       THEN Return("initialize", t, "Ok") /\ UNCHANGED <<sysModules, frames>>
       ELSE EnterBinding(run + 1, 1, stack, t) /\ Return("initialize", t, "entered")
  /\ UNCHANGED <<setup, modules, otherPython>>

(* The interpreter does not start, or it does and is stopped again before  *)
(* any host code ran: `traceback` cannot be imported, a search path cannot *)
(* be passed to Python, or the module of the first binding not be created. *)
StartFails(t) ==
  /\ UNCHANGED <<lifecycle, setup, python, frames>>
  /\ \/ /\ FreshCounters
        /\ Return("initialize", t, "InterpreterFailure")
        /\ UNCHANGED <<modules, tracebackModule>>
     \/ /\ ClearTables
        /\ \/ Return("initialize", t, "InterpreterFailure")
           \/ /\ \E i \in 1..Len(searchPaths) : searchPaths[i] \in Unencodable
              /\ Return("initialize", t, "InvocationFailed")

Initialize(t) ==
  /\ MayCall(t)
  /\ \/ running /\ Refused("initialize", t, "AlreadyInitialized")
     \/ /\ ~running /\ PyIsInitialized
        /\ Refused("initialize", t, "InterpreterFailure")
     \/ ~running /\ ~PyIsInitialized /\ StartInterpreter(t)
     \/ ~running /\ ~PyIsInitialized /\ StartFails(t)

(* modules.emplace(): an entry that is there already stays. *)
Emplaced(i) ==
  IF modules[bindings[i]] = NoObject
    THEN [modules EXCEPT ![bindings[i]] = BindingObject(run, i)]
    ELSE modules

(* The host's callback returned: applyBinding() records the module, unless *)
(* the name is taken, and initialize() turns to the next binding.          *)
BindingReturns ==
  /\ Waiting("binding")
  /\ LET i == Top.index
     IN /\ modules' = Emplaced(i)
        /\ IF i = Len(bindings)
             THEN /\ Pop
                  /\ Return("initialize", stackThread, "Ok")
                  /\ UNCHANGED sysModules
             ELSE /\ interpreter = "live"
                  /\ Decodable(bindings[i + 1])
                  /\ EnterBinding(run, i + 1, Below, stackThread)
                  /\ UNCHANGED returned
  /\ UNCHANGED <<lifecycle, setup, tracebackModule, failureRecords, sysPath,
                 otherPython>>

(* There is a binding after the one whose callback returned. *)
HasNextBinding ==
  Waiting("binding") /\ interpreter = "live" /\ Top.index < Len(bindings)

(* PyModule_New cannot decode its name: initialize() stops.                *)
NextBindingRefused ==
  /\ HasNextBinding
  /\ ~Decodable(bindings[Top.index + 1])
  /\ Stop("initialize", stackThread, "InterpreterFailure", Below)
  /\ UNCHANGED <<setup, python, run>>

(* Script code took sys.modules away: entering the module in it throws     *)
(* past initialize().                                                      *)
NextBindingNotEntered ==
  /\ "edited sys.modules" \in Liberties
  /\ HasNextBinding
  /\ Decodable(bindings[Top.index + 1])
  /\ modules' = Emplaced(Top.index)
  /\ Pop
  /\ Return("initialize", stackThread, "exception")
  /\ UNCHANGED <<lifecycle, setup, tracebackModule, failureRecords, python>>

(* removeModule(), which looks for the full name: nothing is found when it *)
(* holds a NUL.                                                            *)
Without(n) == [c \in Importable |-> IF c = n THEN NoObject ELSE sysModules[c]]

BindingThrows_KeepsRunning ==
  /\ Waiting("binding")
  /\ sysModules' = Without(bindings[Top.index])
  /\ Pop
  /\ \E code \in RaisedCodes : Return("initialize", stackThread, code)
  /\ UNCHANGED <<lifecycle, setup, tables, sysPath, otherPython>>

(* The callback threw a Python error or a std::exception: the module is    *)
(* withdrawn and initialize() stops the interpreter.                       *)
BindingThrows ==
  /\ Waiting("binding")
  /\ interpreter = "live"
  /\ sysModules' = Without(bindings[Top.index])
  /\ \E code \in RaisedCodes : Stop("initialize", stackThread, code, Below)
  /\ UNCHANGED <<setup, sysPath, otherPython, run>>

(* The callback threw something else: nothing on the way catches it. *)
BindingThrowsForeign ==
  /\ "foreign exception" \in Liberties
  /\ Waiting("binding")
  /\ Pop
  /\ Return("initialize", stackThread, "exception")
  /\ UNCHANGED <<lifecycle, setup, tables, python>>

(* shutdown().  Inside a callback or a hook it would finalize the          *)
(* interpreter under the frames that wait for it.                          *)
Shutdown(t) ==
  /\ MayCall(t)
  /\ \/ ~running /\ Refused("shutdown", t, "NotInitialized")
     \/ /\ running /\ ~OwnsInterpreter(t)
        /\ Refused("shutdown", t, "WrongThread")
     \/ /\ running /\ OwnsInterpreter(t)
        /\ \/ "shutdown in callback" \in Liberties
           \/ t # stackThread
           \/ \A i \in 1..Len(stack) : stack[i].kind = "finalize"
        /\ Stop("shutdown", t, "Ok", stack)
        /\ UNCHANGED <<setup, python, run>>

(* ~ScriptRuntime(), on the owner thread as its contract asks, and a new   *)
(* runtime in its place.                                                   *)
Destroy(t) ==
  /\ stack = <<>>
  /\ running => OwnsInterpreter(t)
  /\ Stop("destroy", t, "Ok", <<>>)
  /\ IF interpreter = "live" THEN UNCHANGED setup
                             ELSE bindings' = <<>> /\ searchPaths' = <<>>
  /\ UNCHANGED <<python, run>>

-----------------------------------------------------------------------------

(* addSearchPath(): the path is recorded first, then handed to Python. *)
AddSearchPath(t, p) ==
  /\ MayCall(t)
  /\ \/ p = EmptyPath /\ Refused("addSearchPath", t, "InvalidArgument")
     \/ /\ p # EmptyPath /\ running /\ ~OwnsInterpreter(t)
        /\ Refused("addSearchPath", t, "WrongThread")
     \/ /\ p # EmptyPath /\ (running => OwnsInterpreter(t))
        /\ p \notin Directories
        /\ Refused("addSearchPath", t, "ScriptNotFound")
     \/ /\ p \in Directories /\ (running => OwnsInterpreter(t))
        /\ \E i \in 1..Len(searchPaths) : searchPaths[i] = p
        /\ Refused("addSearchPath", t, "Ok")
     \/ /\ p \in Directories /\ (running => OwnsInterpreter(t))
        /\ \A i \in 1..Len(searchPaths) : searchPaths[i] # p
        /\ searchPaths' = Append(searchPaths, p)
        /\ IF running /\ p \in Unencodable
             THEN Return("addSearchPath", t, "InvocationFailed")
             ELSE Return("addSearchPath", t, "Ok")
        /\ sysPath' = IF running /\ p \notin Unencodable
                        THEN <<p>> \o sysPath
                        ELSE sysPath
        /\ UNCHANGED <<lifecycle, bindings, tables, sysModules, otherPython,
                       frames>>

Found(n) ==
  \E i \in 1..Len(sysPath) : n \in Provides[sysPath[i]]

ScriptObject == [run |-> run, origin |-> FromScript]

(* PyImport_ImportModule takes no empty name and none it cannot decode. *)
CanBeImported(n) == CString(n) # <<>> /\ Decodable(n)

(* Python has no module of the name, or a script left None in its place. *)
NotFound(n) ==
  sysModules[n] = NoObject /\ (~Found(n) \/ "edited sys.modules" \in Liberties)

(* loadModule(): a module Python already has is recorded as it is, even    *)
(* one whose body still runs; otherwise the body runs first.               *)
LoadModule(t, n) ==
  /\ MayCall(t)
  /\ \/ ~running /\ Refused("loadModule", t, "NotInitialized")
     \/ /\ running /\ ~OwnsInterpreter(t)
        /\ Refused("loadModule", t, "WrongThread")
     \/ /\ running /\ OwnsInterpreter(t) /\ n = <<>>
        /\ Refused("loadModule", t, "InvalidArgument")
     \/ /\ running /\ OwnsInterpreter(t) /\ n \in ModuleNames
        /\ ~CanBeImported(n)
        /\ Refused("loadModule", t, "InvocationFailed")
     \/ /\ running /\ OwnsInterpreter(t) /\ n \in ModuleNames
        /\ CanBeImported(n)
        /\ interpreter = "finalizing" => "load while finalizing" \in Liberties
        /\ \/ "load while importing" \in Liberties
           \/ \A i \in 1..Len(stack) :
                stack[i].kind = "import" => CString(stack[i].name) # CString(n)
        /\ \/ /\ sysModules[CString(n)] # NoObject
              /\ modules' = [modules EXCEPT ![n] = sysModules[CString(n)]]
              /\ Return("loadModule", t, "Ok")
              /\ UNCHANGED <<lifecycle, setup, tracebackModule,
                             failureRecords, python, frames>>
           \/ /\ NotFound(CString(n))
              /\ Refused("loadModule", t, "ModuleNotFound")
           \/ /\ sysModules[CString(n)] = NoObject /\ Found(CString(n))
              /\ sysModules' = [sysModules EXCEPT ![CString(n)] = ScriptObject]
              /\ Push([kind |-> "import", name |-> n], t)
              /\ Return("loadModule", t, "entered")
              /\ UNCHANGED <<lifecycle, setup, tables, sysPath, otherPython>>

(* The body ran to its end; a module it withdrew is an error instead. *)
ImportReturns ==
  /\ Waiting("import")
  /\ sysModules[CString(Top.name)] # NoObject
  /\ modules' = [modules EXCEPT ![Top.name] = sysModules[CString(Top.name)]]
  /\ Pop
  /\ Return("loadModule", stackThread, "Ok")
  /\ UNCHANGED <<lifecycle, setup, tracebackModule, failureRecords, python>>

ImportRaises_RecordedEarly ==
  /\ Waiting("import")
  /\ modules' = [modules EXCEPT ![Top.name] = sysModules[CString(Top.name)]]
  /\ sysModules' = [sysModules EXCEPT ![CString(Top.name)] = NoObject]
  /\ Pop
  /\ \E code \in RaisedCodes : Return("loadModule", stackThread, code)
  /\ UNCHANGED <<lifecycle, setup, tracebackModule, failureRecords, sysPath,
                 otherPython>>

(* The body raised: Python withdraws the module. *)
ImportRaises ==
  /\ Waiting("import")
  /\ sysModules' = [sysModules EXCEPT ![CString(Top.name)] = NoObject]
  /\ Pop
  /\ \E code \in RaisedCodes : Return("loadModule", stackThread, code)
  /\ UNCHANGED <<lifecycle, setup, tables, sysPath, otherPython>>

(* An import statement in the code the topmost frame waits for. *)
ScriptImports(n) ==
  /\ stack # <<>> /\ Top.kind # "finalize"
  /\ interpreter = "live"
  /\ sysModules[n] = NoObject /\ Found(n)
  /\ sysModules' = [sysModules EXCEPT ![n] = ScriptObject]
  /\ UNCHANGED <<lifecycle, setup, tables, sysPath, otherPython, frames,
                 returned>>

(* That code replaces an entry of sys.modules or deletes it. *)
ScriptEdits(n) ==
  /\ "edited sys.modules" \in Liberties
  /\ stack # <<>> /\ Top.kind # "finalize"
  /\ interpreter = "live"
  /\ \E object \in {ScriptObject, NoObject} :
       sysModules' = [sysModules EXCEPT ![n] = object]
  /\ UNCHANGED <<lifecycle, setup, tables, sysPath, otherPython, frames,
                 returned>>

-----------------------------------------------------------------------------

(* A call with an empty name. *)
Nameless == [module |-> <<>>, function |-> <<>>]

CallSucceeds(h, t) ==
  /\ failureRecords' = NoteSuccess(failureRecords, h)
  /\ Return("call", t, "Ok")

CallFails(h, t, codes) ==
  /\ NextCount(failureRecords, h) =< MaxStreak
  /\ \E e \in Failures :
       /\ e.code \in codes
       /\ failureRecords' = NoteFailure(failureRecords, h, e)
       /\ Return("call", t, e.code)

(* call() and callOptional(), up to the hook itself.  The module table is  *)
(* all that is looked up; what the name is bound to is the script's doing. *)
Call(t, h) ==
  /\ MayCall(t)
  /\ \/ ~running /\ Refused("call", t, "NotInitialized")
     \/ running /\ ~OwnsInterpreter(t) /\ Refused("call", t, "WrongThread")
     \/ /\ running /\ OwnsInterpreter(t) /\ h = Nameless
        /\ Refused("call", t, "InvalidArgument")
     \/ /\ running /\ OwnsInterpreter(t) /\ h # Nameless
        /\ modules[h.module] = NoObject
        /\ CallFails(h, t, {"ModuleNotFound"})
        /\ UNCHANGED <<lifecycle, setup, modules, tracebackModule, python,
                       frames>>
     \/ /\ running /\ OwnsInterpreter(t) /\ h # Nameless
        /\ modules[h.module] # NoObject
        /\ \/ CallSucceeds(h, t)   \* absent, and optional
           \/ CallFails(h, t, {"FunctionNotFound", "TypeMismatch",
                               "InvalidArgument", "InvocationFailed"})
        /\ UNCHANGED <<lifecycle, setup, modules, tracebackModule, python,
                       frames>>
     \/ /\ running /\ OwnsInterpreter(t) /\ h # Nameless
        /\ modules[h.module] # NoObject
        /\ Push([kind |-> "invoke", hook |-> h], t)
        /\ Return("call", t, "entered")
        /\ UNCHANGED <<lifecycle, setup, tables, python>>

(* The hook, or a converter of its arguments, returned or raised, or a     *)
(* later argument has no converter; the outcome is booked afterwards.      *)
InvokeEnds ==
  /\ Waiting("invoke")
  /\ \/ CallSucceeds(Top.hook, stackThread)
     \/ CallFails(Top.hook, stackThread, RaisedCodes \cup {"InvalidArgument"})
  /\ Pop
  /\ UNCHANGED <<lifecycle, setup, modules, tracebackModule, python>>

(* A converter threw something that is not a std::exception: nothing on    *)
(* the way catches it, or books it.                                        *)
InvokeThrowsForeign ==
  /\ "foreign exception" \in Liberties
  /\ Waiting("invoke")
  /\ Pop
  /\ Return("call", stackThread, "exception")
  /\ UNCHANGED <<lifecycle, setup, tables, python>>

(* Another part of the process starts or stops its own interpreter. *)
OtherPython ==
  /\ interpreter = "none" /\ stack = <<>>
  /\ otherPython' = ~otherPython
  /\ UNCHANGED <<lifecycle, setup, tables, sysModules, sysPath, frames,
                 returned>>

-----------------------------------------------------------------------------

HostCalls(t) ==
  \/ \E n \in ModuleNames \cup {<<>>} : RegisterModule(t, n)
  \/ Initialize(t)
  \/ Shutdown(t)
  \/ Destroy(t)
  \/ \E p \in Paths \cup {EmptyPath} : AddSearchPath(t, p)
  \/ \E n \in ModuleNames \cup {<<>>} : LoadModule(t, n)
  \/ \E h \in Hooks \cup {Nameless} : Call(t, h)

CodeReturns ==
  \/ BindingReturns
  \/ NextBindingRefused
  \/ NextBindingNotEntered
  \/ BindingThrows
  \/ BindingThrowsForeign
  \/ ImportReturns
  \/ ImportRaises
  \/ InvokeEnds
  \/ InvokeThrowsForeign
  \/ FinalizeEnds

Next ==
  \/ \E t \in Threads : HostCalls(t)
  \/ CodeReturns
  \/ \E n \in ScriptNames : ScriptImports(n)
  \/ \E n \in Importable : ScriptEdits(n)
  \/ OtherPython

Spec == Init /\ [][Next]_vars

-----------------------------------------------------------------------------

(* Every variable holds a value of the type the code declares for it. *)
TypeOK ==
  /\ running \in BOOLEAN
  /\ ownerThread \in Threads \cup {NoThread}
  /\ interpreter \in {"none", "live", "finalizing"}
  /\ bindings \in Seq(ModuleNames)
  /\ searchPaths \in Seq(Directories)
  /\ modules \in [ModuleNames -> Object \cup {NoObject}]
  /\ tracebackModule \in BOOLEAN
  /\ failureRecords \in [Keys -> FailureRecord]
  /\ sysModules \in [Importable -> Object \cup {NoObject}]
  /\ sysPath \in Seq(Directories)
  /\ otherPython \in BOOLEAN
  /\ stack \in Seq(Frame)
  /\ stackThread \in Threads \cup {NoThread}
  /\ run \in 0..MaxRuns
  /\ returned \in Returned

(* Where the interpreter stands decides what the runtime holds and which   *)
(* frames can be waiting: none without an interpreter, exit handlers alone *)
(* while it finalizes; initialize() is always the outermost call, and the  *)
(* frames are on the owner's thread.                                       *)
LifecycleInv ==
  /\ interpreter = "none" =>
       ~running /\ modules = NoModules /\ ~tracebackModule /\ stack = <<>>
  /\ interpreter = "live" =>
       running /\ tracebackModule /\ ~OnStack("finalize")
  /\ interpreter = "finalizing" =>
       /\ modules = NoModules /\ ~tracebackModule
       /\ Len(stack) = 1 /\ Waiting("finalize")
  /\ \A i \in 1..Len(stack) : stack[i].kind = "binding" => i = 1
  /\ running /\ stack # <<>> => stackThread = ownerThread

(* No Python reference is held once the interpreter is gone: stop()        *)
(* empties its tables before finalization, and nothing may fill them again *)
(* while the exit handlers run.                                            *)
StoppedHoldsNothing ==
  interpreter = "none" =>
    /\ ~running
    /\ modules = NoModules
    /\ ~tracebackModule

(* A hook is called on the module a script gets by importing the same      *)
(* name: the runtime's table and sys.modules never disagree.               *)
LoadedModulesAreLive ==
  \A n \in ModuleNames :
    modules[n] # NoObject => modules[n] = sysModules[CString(n)]

(* While the interpreter serves scripts, the recorded search paths that    *)
(* Python accepts are in effect and no other is, a later one before an     *)
(* earlier one, whether they were added before or after initialize() and   *)
(* however often the runtime was restarted; a path Python refused stays    *)
(* recorded and takes no effect.                                           *)
SearchPathsInEffect ==
  interpreter = "live" =>
    /\ \A p \in Directories :
         (\E i \in 1..Len(sysPath) : sysPath[i] = p) <=>
           /\ p \notin Unencodable
           /\ \E k \in 1..Len(searchPaths) : searchPaths[k] = p
    /\ \A i, j \in 1..Len(sysPath) : i < j =>
         \E k, l \in 1..Len(searchPaths) :
           /\ l < k
           /\ searchPaths[k] = sysPath[i]
           /\ searchPaths[l] = sysPath[j]

(* The interpreter is never gone under a frame that waits for Python. *)
NoFrameOutlivesInterpreter == interpreter = "none" => stack = <<>>

(* Once initialize() has let go of a runtime that runs, every binding is   *)
(* applied in its own module; no host sees a half-configured runtime.      *)
ConfiguredWhenRunning ==
  interpreter = "live" /\ ~OnStack("binding") =>
    /\ tracebackModule
    /\ \A i \in 1..Len(bindings) :
         /\ sysModules[CString(bindings[i])] = [run |-> run, origin |-> i]
         /\ modules[bindings[i]] = sysModules[CString(bindings[i])]

(* What is booked against a hook whose module was there was booked in the  *)
(* run the module is in: stop() empties the counters with the modules, and *)
(* the outcome of no call reaches them afterwards.                         *)
CountersAreOfThisRun ==
  \A h \in Hooks :
    LET last == failureRecords[HookKey(h)].lastSignature
    IN last # NoSignature /\ last.code # "ModuleNotFound" =>
         modules[h.module] # NoObject

(* initialize() ends either running with Ok or stopped with the failure    *)
(* (except that it leaves a runtime alone that runs already).              *)
InitializeIsAtomic ==
  [][/\ returned' # returned
     /\ returned'.op = "initialize"
     /\ returned'.code \notin {"entered", "AlreadyInitialized"}
     => (running' <=> returned'.code = "Ok")]_vars

(* initialize() iterates the queued bindings while callbacks run: nothing  *)
(* edits the queue under it.                                               *)
BindingsFrozenWhileApplied ==
  [][OnStack("binding") => bindings' = bindings]_vars

(* A call from a thread that does not own the running interpreter is       *)
(* refused without touching anything, whatever the owner is in the middle  *)
(* of.                                                                     *)
ForeignThreadsChangeNothing ==
  [][running /\ returned' # returned /\ returned'.thread # ownerThread
     => UNCHANGED state]_vars

(* However initialize() is left, by an exception nothing catches included, *)
(* no frame of it stays behind, and a runtime it leaves running has its    *)
(* interpreter and an owner who can stop it: the thread it was called on.  *)
InitializeLeavesAnOwner ==
  [][/\ returned' # returned
     /\ returned'.op = "initialize"
     /\ returned'.code \notin {"entered", "AlreadyInitialized"}
     => /\ ~OnStack("binding")'
        /\ running' => interpreter' = "live" /\ ownerThread' = returned'.thread]_vars

=============================================================================
