------------------------ MODULE StandaloneHostProofs ------------------------
(***************************************************************************)
(* Proofs about the example host.  Its steps are steps of the runtime, so  *)
(* what is proved of those holds here; and because no code it waits for    *)
(* calls the runtime, at most one frame is waiting at any time.  Whatever  *)
(* liberties other hosts take, main() takes none; that its script leaves   *)
(* sys.modules alone is assumed (SysModulesAreLeftAlone).                  *)
(***************************************************************************)
EXTENDS StandaloneHost, ScriptRuntimeProofs

LEMMA MainsCalls ==
  ASSUME MainCalls
  PROVE  HostCalls(Main)
<1>1. CallAt(at)
  BY DEF MainCalls
<1>2. ASSUME at \in HookPoints
      PROVE  HookAt(at) \in Hooks
  BY <1>2, HooksAreMains
<1>3. {HostName, GameName} \subseteq ModuleNames
  BY HostAssumption
<1> QED BY <1>1, <1>2, <1>3 DEF CallAt, HostCalls, BoundName

(* What main() does are steps of the runtime, or none at all. *)
LEMMA HostSteps == [HostNext]_hostVars => [Next]_vars
<1> SUFFICES ASSUME [HostNext]_hostVars
             PROVE  [Next]_vars
  OBVIOUS
<1>1. CASE MainCalls
  BY <1>1, MainsCalls, HostAssumption DEF Next
<1>2. CASE CodeEnds
  BY <1>2 DEF CodeEnds, Next, CodeReturns
<1>3. CASE CodeImports
  BY <1>3 DEF CodeImports, Next
<1>4. CASE Validates \/ LocalsGo \/ Exited \/ UNCHANGED hostVars
  BY <1>4 DEF Validates, LocalsGo, Exited, hostVars
<1> QED BY <1>1, <1>2, <1>3, <1>4 DEF HostNext

LEMMA HostImplementsSpec == HostSpec => Spec
<1>1. HostInit => Init
  BY DEF HostInit
<1> QED BY <1>1, HostSteps, PTL DEF HostSpec, Spec

-----------------------------------------------------------------------------

(* What holds of the runtime while main() is at a point: whose code it     *)
(* waits for there, and where the interpreter is when it waits for none.   *)
Serving == {"addSearchPath", "loadModule", "validate", "shutdown", "giveUp"}
             \cup HookPoints

FrameFits(p) ==
  \/ p = "initialize" /\ interpreter = "live" /\ Top.kind = "binding"
  \/ /\ p = "initialize" /\ interpreter = "finalizing"
     /\ Top.kind = "finalize" /\ Top.code # "Ok"
  \/ /\ p = "loadModule" /\ interpreter = "live"
     /\ Top.kind = "import" /\ Top.name = GameName
  \/ p \in HookPoints /\ interpreter = "live" /\ Top.kind = "invoke"
  \/ /\ p \in {"shutdown", "giveUp", "destroy"} /\ interpreter = "finalizing"
     /\ Top.kind = "finalize" /\ Top.code = "Ok"

Fits(p) ==
  /\ interpreter = "live" => running /\ ownerThread = Main
  /\ interpreter = "none" => stack = <<>>
  /\ interpreter = "finalizing" => stack # <<>>
  /\ stack # <<>> => Len(stack) = 1 /\ FrameFits(p)
  /\ p \in Serving /\ stack = <<>> => interpreter = "live"
  /\ p \in {"unwind", "exited"} => interpreter = "none"
  /\ p = "registerModule" => bindings = <<>>
  /\ p \in HookPoints \cup {"validate"} => modules[GameName] # NoObject

(* What a call made at a point leaves behind when it returns. *)
Settled(p, code) ==
  /\ stack = <<>>
  /\ interpreter = "live" => running /\ ownerThread = Main
  /\ interpreter # "finalizing"
  /\ p \in {"addSearchPath", "loadModule"} \cup HookPoints => interpreter = "live"
  /\ p = "initialize" /\ code = "Ok" => interpreter = "live"
  /\ p = "destroy" => interpreter = "none"
  /\ p = "shutdown" => code = "Ok"
  /\ \/ p \in HookPoints
     \/ p = "loadModule" /\ code = "Ok"
     => modules[GameName] # NoObject

After(p) ==
  \/ stack # <<>> /\ Fits(p)
  \/ Settled(p, returned.code)

(* Where main() has got to. *)
Progress ==
  /\ at \in Points
  /\ failedAt \subseteq Points
  /\ settings \in {"usable", "unusable"}
  /\ at \in {"registerModule", "initialize", "addSearchPath", "loadModule",
             "configure", "validate", "on_start", "giveUp"} =>
       frame = 0 /\ status = 1
  /\ at = "on_update" => frame \in 0..(FrameCount - 1) /\ status = 1
  /\ at \in {"on_shutdown", "shutdown"} => frame = FrameCount /\ status = 1
  /\ at \in {"destroy", "unwind", "exited"} =>
       IF SetupFailed THEN status = 1 /\ frame = 0
                      ELSE status = 0 /\ frame = FrameCount

(* What has failed by then.  configure() may leave settings of any kind;   *)
(* before it and after their validation they are usable.                   *)
NoSetupFailed == failedAt \cap SetupPoints = {}

Verdict ==
  /\ at \in {"configure", "validate"} => NoSetupFailed
  /\ at \in {"registerModule", "initialize", "addSearchPath", "loadModule",
             "on_start", "on_update", "on_shutdown", "shutdown"} =>
       NoSetupFailed /\ settings = "usable"
  /\ at = "giveUp" => SetupFailed

HostInv ==
  /\ Fits(at)
  /\ Progress
  /\ Verdict
  /\ at # "exited" => objects = Locals

-----------------------------------------------------------------------------

LEMMA OneFrame ==
  ASSUME NEW x, stack' = Append(<<>>, x)
  PROVE  stack' # <<>> /\ Len(stack') = 1 /\ Top' = x
<1>1. stack' = <<x>>
  OBVIOUS
<1> QED BY <1>1 DEF Top

LEMMA StopAfter ==
  ASSUME TypeOK, NEW p, Fits(p), NEW op, NEW code, Stop(op, Main, code, <<>>),
         \/ /\ p \in {"shutdown", "giveUp", "destroy"} /\ code = "Ok"
            /\ stack = <<>>
         \/ p = "initialize" /\ code # "Ok" /\ interpreter = "live"
  PROVE  After(p)'
<1> DEFINE x == [kind |-> "finalize", op |-> op, code |-> code]
<1>1. x.kind = "finalize" /\ x.code = code
  OBVIOUS
<1>2. CASE interpreter = "live"
  <2>1. stack' = Append(<<>>, x) /\ interpreter' = "finalizing"
    BY <1>2 DEF Stop
  <2> HIDE DEF x
  <2>2. stack' # <<>> /\ Len(stack') = 1 /\ Top' = x
    BY <2>1, OneFrame
  <2>3. FrameFits(p)'
    BY <1>1, <2>1, <2>2 DEF FrameFits
  <2>4. p \notin {"unwind", "exited", "registerModule"}
    OBVIOUS
  <2> QED BY <2>1, <2>2, <2>3, <2>4 DEF After, Fits, HookPoints
<1>3. CASE interpreter # "live"
  <2>1. /\ stack = <<>> /\ stack' = <<>> /\ interpreter' = interpreter
        /\ p \in {"shutdown", "giveUp", "destroy"} /\ code = "Ok"
        /\ returned'.code = "Ok"
    BY <1>3 DEF Stop, frames, Return
  <2>2. interpreter = "none"
    BY <1>3, <2>1 DEF Fits, TypeOK
  <2> QED BY <2>1, <2>2 DEF After, Settled, HookPoints
<1> QED BY <1>2, <1>3

(* Each call main() makes, at its point. *)

LEMMA PushAfter ==
  ASSUME NEW p, Fits(p), interpreter = "live", stack = <<>>,
         NEW x, stack' = Append(stack, x),
         UNCHANGED <<running, ownerThread, interpreter, modules>>,
         \/ p = "loadModule" /\ x.kind = "import" /\ x.name = GameName
         \/ p \in HookPoints /\ x.kind = "invoke"
  PROVE  After(p)'
<1>1. stack' # <<>> /\ Len(stack') = 1 /\ Top' = x
  BY OneFrame
<1>2. FrameFits(p)'
  BY <1>1 DEF FrameFits
<1>3. p \notin {"unwind", "exited", "registerModule"}
  BY DEF HookPoints
<1> QED BY <1>1, <1>2, <1>3 DEF After, Fits

(* A call that returns at once and leaves the interpreter alone. *)
LEMMA ReturnAfter ==
  ASSUME NEW p \in Points, Fits(p), stack = <<>>,
         UNCHANGED <<running, ownerThread, interpreter, stack>>,
         p # "shutdown", p = "destroy" => interpreter = "none",
         p = "initialize" => returned'.code # "Ok",
         p \in HookPoints => UNCHANGED modules,
         p = "loadModule" /\ returned'.code = "Ok" =>
           modules'[GameName] # NoObject
  PROVE  After(p)'
<1>1. p \in HookPoints => p # "loadModule"
  BY DEF HookPoints
<1> QED BY <1>1 DEF After, Settled, Fits, Serving

LEMMA RegisterAfter ==
  ASSUME NEW n, RegisterModule(Main, n), Fits("registerModule"), stack = <<>>
  PROVE  After("registerModule")'
<1>1. UNCHANGED <<running, ownerThread, interpreter, stack>>
  BY DEF RegisterModule, Refused, state, lifecycle, frames
<1> QED BY <1>1, ReturnAfter DEF Points, HookPoints

LEMMA InitializeAfter ==
  ASSUME TypeOK, Initialize(Main), Fits("initialize"), stack = <<>>
  PROVE  After("initialize")'
<1>1. CASE \/ Refused("initialize", Main, "AlreadyInitialized")
           \/ Refused("initialize", Main, "InterpreterFailure")
           \/ StartFails(Main)
  <2>1. UNCHANGED <<running, ownerThread, interpreter, stack>>
    BY <1>1 DEF Refused, StartFails, state, lifecycle, frames
  <2>2. returned'.code # "Ok"
    BY <1>1 DEF Refused, StartFails, Return
  <2> QED BY <2>1, <2>2, ReturnAfter DEF Points, HookPoints
<1>2. CASE StartInterpreter(Main)
  <2>1. interpreter' = "live" /\ running' /\ ownerThread' = Main
    BY <1>2 DEF StartInterpreter
  <2>2. CASE bindings = <<>>
    <3>1. stack' = <<>>
      BY <1>2, <2>2 DEF StartInterpreter, frames
    <3> QED BY <2>1, <3>1 DEF After, Settled, HookPoints
  <2>3. CASE bindings # <<>>
    <3> DEFINE x == [kind |-> "binding", index |-> 1]
    <3>1. x.kind = "binding"
      OBVIOUS
    <3>2. stack' = Append(<<>>, x)
      BY <1>2, <2>3 DEF StartInterpreter, EnterBinding
    <3> HIDE DEF x
    <3>3. stack' # <<>> /\ Len(stack') = 1 /\ Top' = x
      BY <3>2, OneFrame
    <3>4. FrameFits("initialize")'
      BY <2>1, <3>1, <3>3 DEF FrameFits
    <3> QED BY <2>1, <3>3, <3>4 DEF After, Fits, HookPoints
  <2> QED BY <2>2, <2>3
<1> QED BY <1>1, <1>2 DEF Initialize

LEMMA AddSearchPathAfter ==
  ASSUME NEW path, AddSearchPath(Main, path), Fits("addSearchPath"),
         stack = <<>>
  PROVE  After("addSearchPath")'
<1>1. UNCHANGED <<running, ownerThread, interpreter, stack>>
  BY DEF AddSearchPath, Refused, state, lifecycle, frames
<1> QED BY <1>1, ReturnAfter DEF Points, HookPoints

LEMMA LoadAfter ==
  ASSUME TypeOK, LoadModule(Main, GameName), Fits("loadModule"), stack = <<>>
  PROVE  After("loadModule")'
<1>1. CASE /\ UNCHANGED <<running, ownerThread, interpreter, stack>>
           /\ returned'.code = "Ok" => modules'[GameName] # NoObject
  BY <1>1, ReturnAfter DEF Points, HookPoints
<1>2. CASE /\ Push([kind |-> "import", name |-> GameName], Main)
           /\ UNCHANGED <<running, ownerThread, interpreter, modules>>
  <2> DEFINE x == [kind |-> "import", name |-> GameName]
  <2>1. x.kind = "import" /\ x.name = GameName /\ stack' = Append(stack, x)
    BY <1>2 DEF Push
  <2>2. interpreter = "live"
    BY DEF Fits, Serving
  <2> HIDE DEF x
  <2> QED BY <1>2, <2>1, <2>2, PushAfter
<1>3. CASE \E code \in ErrorCodes : Refused("loadModule", Main, code)
  <2>1. UNCHANGED <<running, ownerThread, interpreter, stack>>
    BY <1>3 DEF Refused, state, lifecycle, frames
  <2>2. returned'.code # "Ok"
    BY <1>3 DEF Refused, Return, ErrorCodes
  <2> QED BY <1>1, <2>1, <2>2
<1>4. CASE /\ sysModules[CString(GameName)] # NoObject
           /\ modules' = [modules EXCEPT ![GameName] =
                                           sysModules[CString(GameName)]]
           /\ UNCHANGED <<lifecycle, frames>>
  <2>1. modules'[GameName] # NoObject
    BY <1>4, HostAssumption DEF TypeOK
  <2> QED BY <1>1, <1>4, <2>1 DEF lifecycle, frames
<1> QED
  BY <1>2, <1>3, <1>4 DEF LoadModule, ErrorCodes, lifecycle, tables

LEMMA CallAfter ==
  ASSUME NEW p \in HookPoints, NEW h, Call(Main, h), Fits(p), stack = <<>>
  PROVE  After(p)'
<1>1. CASE UNCHANGED <<running, ownerThread, interpreter, stack, modules>>
  <2>1. p \in Points /\ p \notin {"shutdown", "destroy", "initialize",
                                  "loadModule"}
    BY DEF Points, HookPoints
  <2> QED BY <1>1, <2>1, ReturnAfter
<1>2. CASE /\ Push([kind |-> "invoke", hook |-> h], Main)
           /\ UNCHANGED <<lifecycle, modules>>
  <2> DEFINE x == [kind |-> "invoke", hook |-> h]
  <2>1. x.kind = "invoke" /\ stack' = Append(stack, x)
    BY <1>2 DEF Push
  <2>2. interpreter = "live"
    BY DEF Fits, Serving
  <2> HIDE DEF x
  <2> QED BY <1>2, <2>1, <2>2, PushAfter DEF lifecycle
<1> QED
  BY <1>1, <1>2 DEF Call, Refused, state, lifecycle, tables, frames

LEMMA ShutdownAfter ==
  ASSUME TypeOK, NEW p \in {"shutdown", "giveUp"}, Shutdown(Main), Fits(p),
         stack = <<>>
  PROVE  After(p)'
<1>1. running /\ OwnsInterpreter(Main)
  BY DEF Fits, Serving, OwnsInterpreter
<1>2. Stop("shutdown", Main, "Ok", <<>>)
  BY <1>1 DEF Shutdown
<1> QED BY <1>2, StopAfter

LEMMA DestroyAfter ==
  ASSUME TypeOK, Destroy(Main), Fits("destroy")
  PROVE  After("destroy")'
<1>1. Stop("destroy", Main, "Ok", <<>>) /\ stack = <<>>
  BY DEF Destroy
<1> QED BY <1>1, StopAfter

LEMMA MainCallsAfter ==
  ASSUME TypeOK, Fits(at), at \in Points, MainCalls, NEW p, p = at
  PROVE  After(p)'
<1>1. CallAt(p) /\ stack = <<>> /\ Fits(p)
  BY DEF MainCalls
<1> QED
  BY <1>1, RegisterAfter, InitializeAfter, AddSearchPathAfter, LoadAfter,
     CallAfter, ShutdownAfter, DestroyAfter
  DEF CallAt

(* The code main() waits for ends. *)

LEMMA NothingBelow ==
  ASSUME TypeOK, NEW p, Fits(p), stack # <<>>
  PROVE  Below = <<>>
<1>1. Len(stack) = 1 /\ stack \in Seq(Frame)
  BY DEF Fits, TypeOK
<1>2. Below \in Seq(Frame) /\ Len(Below) = 0
  BY <1>1, BelowType DEF Below
<1> QED BY <1>2

LEMMA PopAfter ==
  ASSUME TypeOK, NEW p \in Points, Fits(p), stack # <<>>,
         interpreter = "live", stack' = Below,
         UNCHANGED <<running, ownerThread, interpreter>>,
         p \in HookPoints => UNCHANGED modules,
         p = "loadModule" /\ returned'.code = "Ok" =>
           modules'[GameName] # NoObject
  PROVE  After(p)'
<1>1. stack' = <<>>
  BY NothingBelow
<1>2. /\ p \notin {"destroy", "shutdown"}
      /\ p \in HookPoints => p # "loadModule"
  BY DEF Fits, FrameFits, HookPoints
<1> QED BY <1>1, <1>2 DEF After, Settled, Fits

LEMMA BindingReturnsAfter ==
  ASSUME TypeOK, NEW p \in Points, Fits(p), BindingReturns
  PROVE  After(p)'
<1>1. /\ stack # <<>> /\ Top.kind = "binding" /\ Below = <<>>
      /\ p = "initialize" /\ interpreter = "live"
  BY NothingBelow DEF BindingReturns, Waiting, Fits, FrameFits
<1>2. UNCHANGED <<running, ownerThread, interpreter>>
  BY DEF BindingReturns, lifecycle
<1>3. CASE stack' = Below
  BY <1>1, <1>2, <1>3, PopAfter DEF HookPoints
<1>4. CASE EnterBinding(run, Top.index + 1, Below, stackThread)
  <2> DEFINE x == [kind |-> "binding", index |-> Top.index + 1]
  <2>1. x.kind = "binding" /\ stack' = Append(<<>>, x)
    BY <1>1, <1>4 DEF EnterBinding
  <2> HIDE DEF x
  <2>2. stack' # <<>> /\ Len(stack') = 1 /\ Top' = x
    BY <2>1, OneFrame
  <2>3. FrameFits(p)'
    BY <1>1, <1>2, <2>1, <2>2 DEF FrameFits
  <2> QED BY <1>1, <1>2, <2>2, <2>3 DEF After, Fits, HookPoints
<1> QED BY <1>3, <1>4 DEF BindingReturns, Pop

LEMMA BindingThrowsAfter ==
  ASSUME TypeOK, NEW p \in Points, Fits(p), BindingThrows
  PROVE  After(p)'
<1>1. /\ stack # <<>> /\ Top.kind = "binding" /\ Below = <<>>
      /\ p = "initialize" /\ interpreter = "live"
  BY NothingBelow DEF BindingThrows, Waiting, Fits, FrameFits
<1>2. PICK code \in RaisedCodes : Stop("initialize", stackThread, code, <<>>)
  BY <1>1 DEF BindingThrows
<1> DEFINE x == [kind |-> "finalize", op |-> "initialize", code |-> code]
<1>3. x.kind = "finalize" /\ x.code # "Ok" /\ stack' = Append(<<>>, x)
      /\ interpreter' = "finalizing"
  BY <1>1, <1>2 DEF Stop, RaisedCodes
<1> HIDE DEF x
<1>4. stack' # <<>> /\ Len(stack') = 1 /\ Top' = x
  BY <1>3, OneFrame
<1>5. FrameFits(p)'
  BY <1>1, <1>3, <1>4 DEF FrameFits
<1> QED BY <1>1, <1>3, <1>4, <1>5 DEF After, Fits, HookPoints

LEMMA ScriptEndsAfter ==
  ASSUME TypeOK, NEW p \in Points, Fits(p),
         ImportReturns \/ ImportRaises \/ InvokeEnds
  PROVE  After(p)'
<1>1. stack # <<>> /\ interpreter = "live"
  BY DEF ImportReturns, ImportRaises, InvokeEnds, Waiting, Fits, FrameFits
<1>2. stack' = Below /\ UNCHANGED <<running, ownerThread, interpreter>>
  BY DEF ImportReturns, ImportRaises, InvokeEnds, Pop, lifecycle
<1>3. CASE ImportReturns
  <2>1. p = "loadModule" /\ Top.name = GameName
    BY <1>3 DEF ImportReturns, Waiting, Fits, FrameFits, HookPoints
  <2>2. modules'[GameName] # NoObject
    BY <1>3, <2>1, HostAssumption DEF ImportReturns, TypeOK
  <2> QED BY <1>1, <1>2, <2>1, <2>2, PopAfter DEF HookPoints
<1>4. CASE ImportRaises
  <2>1. p = "loadModule" /\ returned'.code # "Ok"
    BY <1>4
    DEF ImportRaises, Waiting, Fits, FrameFits, Return, RaisedCodes
  <2> QED BY <1>1, <1>2, <2>1, PopAfter DEF HookPoints
<1>5. CASE InvokeEnds
  <2>1. Top.kind = "invoke" /\ UNCHANGED modules
    BY <1>5 DEF InvokeEnds, Waiting
  <2>2. p # "loadModule"
    BY <1>1, <2>1 DEF Fits, FrameFits, HookPoints
  <2> QED BY <1>1, <1>2, <2>1, <2>2, PopAfter
<1> QED BY <1>3, <1>4, <1>5

LEMMA FinalizeAfter ==
  ASSUME TypeOK, NEW p \in Points, Fits(p), FinalizeEnds
  PROVE  After(p)'
<1>1. /\ stack # <<>> /\ Top.kind = "finalize"
      /\ \/ p = "initialize" /\ Top.code # "Ok"
         \/ p \in {"shutdown", "giveUp", "destroy"} /\ Top.code = "Ok"
  BY DEF FinalizeEnds, Waiting, Fits, FrameFits
<1>2. /\ stack' = <<>> /\ interpreter' = "none" /\ returned'.code = Top.code
  BY <1>1, NothingBelow DEF FinalizeEnds, Pop, Return
<1> QED BY <1>1, <1>2 DEF After, Settled, HookPoints

LEMMA CodeEndsAfter ==
  ASSUME TypeOK, Fits(at), at \in Points, CodeEnds, NEW p, p = at
  PROVE  After(p)'
BY BindingReturnsAfter, BindingThrowsAfter, ScriptEndsAfter, FinalizeAfter
DEF CodeEnds

-----------------------------------------------------------------------------

(* main() goes on. *)

(* The next point suits what the call left behind. *)
LEMMA SettledGoesOn ==
  ASSUME Progress, NEW p, p = at,
         Settled(p, returned.code)', GoesOn, p \notin {"validate", "unwind", "exited"}
  PROVE  Fits(at)'
<1>1. stack' = <<>>
  BY DEF Settled
<1>2. CASE p = "on_update" /\ FrameEnds
  <2>1. at' \in {"on_update", "on_shutdown"}
    BY <1>2 DEF FrameEnds
  <2> QED BY <1>1, <1>2, <2>1 DEF Fits, Settled, HookPoints
<1>3. CASE p # "on_update" /\ CallEnds
  <2>1. at' = IF returned'.code = "Ok" THEN OnOk[p] ELSE OnError[p]
    BY <1>3 DEF CallEnds
  <2>2. p \in {"registerModule", "initialize", "addSearchPath", "loadModule",
               "shutdown", "giveUp", "destroy", "configure", "on_start",
               "on_shutdown"}
    BY <1>3 DEF Progress, Points, HookPoints
  <2>3. /\ at' # "registerModule"
        /\ at' \in Serving =>
             \/ p \in {"addSearchPath", "loadModule"} \cup HookPoints
             \/ p = "initialize" /\ returned'.code = "Ok"
        /\ at' \in HookPoints \cup {"validate"} =>
             \/ p \in HookPoints
             \/ p = "loadModule" /\ returned'.code = "Ok"
        /\ at' \in {"unwind", "exited"} => p = "destroy"
    BY <2>1, <2>2 DEF OnOk, OnError, Serving, HookPoints
  <2>4. at' \in Serving => interpreter' = "live"
    BY <2>3 DEF Settled
  <2>5. at' \in {"unwind", "exited"} => interpreter' = "none"
    BY <2>3 DEF Settled
  <2> QED BY <1>1, <2>3, <2>4, <2>5 DEF Fits, Settled
<1> QED BY <1>1, <1>2, <1>3 DEF GoesOn

(* A failed hook is no failed setup, and what failed stays so. *)
LEMMA CallsJudged ==
  ASSUME NEW p, p = at, CallEnds
  PROVE  /\ p \in SetupPoints /\ returned'.code # "Ok" => ~NoSetupFailed'
         /\ p \notin SetupPoints \/ returned'.code = "Ok" =>
              (NoSetupFailed' <=> NoSetupFailed)
<1>1. failedAt' = IF returned'.code = "Ok" THEN failedAt ELSE failedAt \cup {p}
  BY DEF CallEnds
<1>2. CASE returned'.code = "Ok"
  BY <1>1, <1>2 DEF NoSetupFailed
<1>3. CASE returned'.code # "Ok" /\ p \in SetupPoints
  <2>1. p \in failedAt' \cap SetupPoints
    BY <1>1, <1>3
  <2> QED BY <1>3, <2>1 DEF NoSetupFailed
<1>4. CASE returned'.code # "Ok" /\ p \notin SetupPoints
  <2>1. failedAt' \cap SetupPoints = failedAt \cap SetupPoints
    BY <1>1, <1>4
  <2> QED BY <1>4, <2>1 DEF NoSetupFailed
<1> QED BY <1>2, <1>3, <1>4

LEMMA SetupJudged ==
  /\ SetupFailed <=> ~NoSetupFailed \/ settings = "unusable"
  /\ SetupFailed' <=> ~NoSetupFailed' \/ settings' = "unusable"
BY DEF SetupFailed, NoSetupFailed

LEMMA SettledProgress ==
  ASSUME Progress, Verdict, NEW p, p = at, Settled(p, returned.code)',
         GoesOn, p \notin {"validate", "unwind", "exited"},
         settings' \in {"usable", "unusable"},
         p # "configure" => settings' = settings
  PROVE  Progress' /\ Verdict'
<1>0. FrameCount \in Nat /\ FrameCount > 0
  BY HostAssumption
<1>1. stack' = <<>>
  BY DEF Settled
<1>2. CASE p = "on_update" /\ FrameEnds
  <2>1. /\ frame \in 0..(FrameCount - 1) /\ status' = 1 /\ frame' = frame + 1
        /\ failedAt' \subseteq Points
    BY <1>2 DEF FrameEnds, NextFrame, Progress
  <2>2. at' = IF frame' = FrameCount THEN "on_shutdown" ELSE "on_update"
    BY <1>2 DEF FrameEnds, StopRequested, Policy
  <2>3. NoSetupFailed' /\ settings' = "usable"
    BY <1>2 DEF FrameEnds, Verdict, NoSetupFailed
  <2> QED BY <1>0, <2>1, <2>2, <2>3 DEF Progress, Verdict, Points, HookPoints
<1>3. CASE p # "on_update" /\ CallEnds
  <2> DEFINE ok == returned'.code = "Ok"
  <2>1. /\ at' = IF ok THEN OnOk[p] ELSE OnError[p]
        /\ status' = IF p = "shutdown" /\ ok THEN 0 ELSE status
        /\ frame' = frame
        /\ failedAt' \subseteq Points
    BY <1>3 DEF CallEnds, Progress
  <2>2. p \in {"registerModule", "initialize", "addSearchPath", "loadModule",
               "shutdown", "giveUp", "destroy", "configure", "on_start",
               "on_shutdown"}
    BY <1>3 DEF Progress, Points, HookPoints
  <2>3. at' \in Points
    BY <2>1, <2>2 DEF OnOk, OnError, Points, HookPoints
  <2>4. /\ p \in SetupPoints /\ ~ok => ~NoSetupFailed'
        /\ p \notin SetupPoints \/ ok => (NoSetupFailed' <=> NoSetupFailed)
    BY <1>3, CallsJudged
  <2>5. p = "shutdown" => ok
    BY DEF Settled
  <2> HIDE DEF ok
  <2>6. CASE p \in SetupPoints
    <3>1. /\ frame = 0 /\ status = 1 /\ status' = 1
          /\ NoSetupFailed /\ settings' = "usable"
      BY <2>1, <2>6 DEF Progress, Verdict, SetupPoints
    <3>2. CASE ok
      <4>1. at' \in {"initialize", "addSearchPath", "loadModule", "configure"}
        BY <2>1, <2>6, <3>2 DEF OnOk, SetupPoints
      <4> QED
        BY <1>0, <2>1, <2>3, <2>4, <3>1, <3>2, <4>1 DEF Progress, Verdict
    <3>3. CASE ~ok
      <4>1. at' \in {"giveUp", "destroy"}
        BY <2>1, <2>6, <3>3 DEF OnError, SetupPoints
      <4>2. SetupFailed'
        BY <2>4, <2>6, <3>3, SetupJudged
      <4> QED
        BY <1>0, <2>1, <2>3, <3>1, <4>1, <4>2 DEF Progress, Verdict
    <3> QED BY <3>2, <3>3
  <2>7. CASE p \in {"configure", "on_start"}
    <3>1. /\ frame = 0 /\ status = 1 /\ status' = 1 /\ NoSetupFailed
          /\ p = "on_start" => settings' = "usable"
      BY <2>1, <2>7 DEF Progress, Verdict
    <3>2. at' = IF p = "configure" THEN "validate" ELSE "on_update"
      BY <2>1, <2>7 DEF OnOk, OnError
    <3>3. NoSetupFailed'
      BY <2>4, <2>7, <3>1 DEF SetupPoints
    <3> QED
      BY <1>0, <2>1, <2>3, <2>7, <3>1, <3>2, <3>3 DEF Progress, Verdict
  <2>8. CASE p \in {"on_shutdown", "shutdown"}
    <3>1. /\ frame = FrameCount /\ status = 1
          /\ NoSetupFailed /\ settings' = "usable"
      BY <2>8 DEF Progress, Verdict
    <3>2. /\ at' = IF p = "shutdown" THEN "destroy" ELSE "shutdown"
          /\ status' = IF p = "shutdown" THEN 0 ELSE 1
      BY <2>1, <2>5, <2>8, <3>1 DEF OnOk, OnError
    <3>3. NoSetupFailed' /\ ~SetupFailed'
      BY <2>4, <2>8, <3>1, SetupJudged DEF SetupPoints
    <3> QED
      BY <1>0, <2>1, <2>3, <2>8, <3>1, <3>2, <3>3 DEF Progress, Verdict
  <2>9. CASE p \in {"giveUp", "destroy"}
    <3>1. /\ at' = IF p = "giveUp" THEN "destroy" ELSE "unwind"
          /\ status' = status
      BY <2>1, <2>9 DEF OnOk, OnError
    <3>2. SetupFailed' <=> SetupFailed
      BY <2>4, <2>9, SetupJudged DEF SetupPoints
    <3>3. IF SetupFailed' THEN status' = 1 /\ frame' = 0
                         ELSE status' = 0 /\ frame' = FrameCount
      BY <2>1, <2>9, <3>1, <3>2 DEF Progress, Verdict
    <3> QED BY <2>1, <2>3, <2>9, <3>1, <3>3 DEF Progress, Verdict
  <2> QED BY <2>2, <2>6, <2>7, <2>8, <2>9 DEF SetupPoints
<1> QED BY <1>1, <1>2, <1>3 DEF GoesOn

(* At three points main() makes no call. *)
LEMMA CallsAreMade ==
  ASSUME HostInv, MainCalls \/ CodeEnds
  PROVE  at \notin {"validate", "unwind", "exited"}
<1>1. CASE MainCalls
  BY <1>1 DEF MainCalls, CallAt, HookPoints
<1>2. CASE CodeEnds
  <2>1. stack # <<>>
    BY <1>2
    DEF CodeEnds, BindingReturns, BindingThrows, ImportReturns,
        ImportRaises, InvokeEnds, FinalizeEnds, Waiting
  <2> QED BY <2>1 DEF HostInv, Fits, FrameFits, HookPoints
<1> QED BY <1>1, <1>2

LEMMA VerdictStays ==
  ASSUME Progress, Verdict,
         UNCHANGED <<at, frame, status, settings, failedAt>>
  PROVE  Progress' /\ Verdict'
BY DEF Progress, Verdict, NoSetupFailed, SetupFailed

LEMMA CallStep ==
  ASSUME TypeOK, HostInv, MainCalls \/ CodeEnds
  PROVE  HostInv'
<1> DEFINE p == at
<1>0. /\ settings' \in {"usable", "unusable"}
      /\ p # "configure" => settings' = settings
  BY DEF MainCalls, CodeEnds, HostInv, Progress
<1>1. /\ Fits(p) /\ p \in Points /\ Progress /\ Verdict
      /\ GoesOn /\ UNCHANGED objects
  BY DEF HostInv, Progress, MainCalls, CodeEnds
<1>2. p \notin {"validate", "unwind", "exited"}
  BY CallsAreMade
<1>3. PICK q : q = at
  OBVIOUS
<1>4. After(q)'
  BY <1>1, <1>3, MainCallsAfter, CodeEndsAfter
<1>5. objects' = Locals
  BY <1>1, <1>2 DEF HostInv
<1>6. CASE stack' # <<>>
  <2>1. UNCHANGED <<at, frame, status, failedAt>> /\ Fits(q)'
    BY <1>1, <1>4, <1>6 DEF GoesOn, After, Settled
  <2>2. Fits(at)'
    BY <1>3, <2>1 DEF Fits, FrameFits
  <2>3. Progress' /\ Verdict'
    <3>1. CASE p # "configure"
      BY <1>0, <1>1, <2>1, <3>1, VerdictStays
    <3>2. CASE p = "configure"
      BY <1>0, <1>1, <2>1, <3>2 DEF Progress, Verdict, NoSetupFailed
    <3> QED BY <3>1, <3>2
  <2> QED BY <1>5, <2>2, <2>3 DEF HostInv
<1>7. CASE stack' = <<>>
  <2>1. Settled(q, returned.code)'
    BY <1>4, <1>7 DEF After
  <2>2. Fits(at)' /\ Progress' /\ Verdict'
    BY <1>0, <1>1, <1>2, <1>3, <2>1, SettledGoesOn, SettledProgress
  <2> QED BY <1>5, <2>2 DEF HostInv
<1> QED BY <1>6, <1>7

LEMMA HostStep == TypeOK /\ HostInv /\ [HostNext]_hostVars => HostInv'
<1> SUFFICES ASSUME TypeOK, HostInv, [HostNext]_hostVars
             PROVE  HostInv'
  OBVIOUS
<1>1. CASE MainCalls \/ CodeEnds
  BY <1>1, CallStep
<1>2. CASE CodeImports
  <2>1. /\ UNCHANGED <<interpreter, running, ownerThread, stack, bindings>>
        /\ UNCHANGED <<modules, mainVars>>
    BY <1>2 DEF CodeImports, ScriptImports, lifecycle, setup, tables, frames
  <2>2. Fits(at)'
    BY <2>1 DEF HostInv, Fits, FrameFits, Top, mainVars
  <2> QED BY <2>1, <2>2, VerdictStays DEF HostInv, mainVars
<1>3. CASE Validates
  <2>1. /\ at = "validate"
        /\ at' = IF settings = "usable" THEN "on_start" ELSE "giveUp"
        /\ UNCHANGED <<vars, frame, status, settings, failedAt, objects>>
    BY <1>3 DEF Validates
  <2>2. UNCHANGED <<interpreter, running, ownerThread, stack, bindings, modules>>
    BY <2>1 DEF vars, state, lifecycle, setup, tables, frames
  <2>3. stack = <<>> /\ interpreter = "live"
    BY <2>1 DEF HostInv, Fits, FrameFits, HookPoints, Serving
  <2>4. Fits(at)'
    BY <2>1, <2>2, <2>3 DEF HostInv, Fits, HookPoints
  <2>5. NoSetupFailed' /\ (SetupFailed' <=> settings = "unusable")
    BY <2>1, SetupJudged DEF HostInv, Verdict, NoSetupFailed
  <2> QED
    BY <2>1, <2>4, <2>5 DEF HostInv, Progress, Verdict, Points, HookPoints
<1>4. CASE LocalsGo
  <2>1. /\ at = "unwind" /\ at' = "exited"
        /\ UNCHANGED <<vars, frame, status, settings, failedAt>>
    BY <1>4 DEF LocalsGo
  <2>2. UNCHANGED <<interpreter, running, ownerThread, stack, bindings>>
    BY <2>1 DEF vars, state, lifecycle, setup, frames
  <2>3. interpreter = "none" /\ stack = <<>>
    BY <2>1 DEF HostInv, Fits
  <2>4. Fits(at)'
    BY <2>1, <2>2, <2>3 DEF Fits, Serving, HookPoints
  <2>5. SetupFailed' <=> SetupFailed
    BY <2>1 DEF SetupFailed
  <2> QED BY <2>1, <2>4, <2>5 DEF HostInv, Progress, Verdict, Points
<1>5. CASE UNCHANGED hostVars
  <2>1. UNCHANGED <<interpreter, running, ownerThread, stack, bindings,
                    modules, at, frame, status, settings, failedAt, objects>>
    BY <1>5
    DEF hostVars, mainVars, vars, state, lifecycle, setup, tables, frames
  <2>2. Fits(at)'
    BY <2>1 DEF HostInv, Fits, FrameFits, Top
  <2> QED BY <2>1, <2>2, VerdictStays DEF HostInv
<1> QED
  BY <1>1, <1>2, <1>3, <1>4, <1>5 DEF HostNext, Exited

LEMMA HostInvAlways == HostSpec => []HostInv
<1>1. HostInit => HostInv
  <2> SUFFICES ASSUME HostInit
               PROVE  HostInv
    OBVIOUS
  <2>1. /\ at = "registerModule" /\ frame = 0 /\ status = 1
        /\ settings = "usable" /\ failedAt = {} /\ objects = Locals
        /\ interpreter = "none" /\ stack = <<>> /\ bindings = <<>>
    BY DEF HostInit, Init
  <2>2. Fits(at)
    BY <2>1 DEF Fits, Serving, HookPoints
  <2>3. Progress /\ Verdict
    BY <2>1 DEF Progress, Verdict, NoSetupFailed, Points
  <2> QED BY <2>1, <2>2, <2>3 DEF HostInv
<1>2. TypeOK /\ HostInv /\ [HostNext]_hostVars => HostInv'
  BY HostStep
<1>3. HostSpec => []TypeOK
  BY HostImplementsSpec, TypeCorrect, PTL
<1> QED BY <1>1, <1>2, <1>3, PTL DEF HostSpec

(* main()'s locals, which scripts hold references to, outlive the          *)
(* interpreter on every way out of main().                                 *)
THEOREM ObjectsOutlivePython == HostSpec => []LocalsOutlivePython
<1>1. HostInv => LocalsOutlivePython
  BY DEF HostInv, Fits, LocalsOutlivePython
<1> QED BY <1>1, HostInvAlways, PTL

(* main() calls the hooks of a script it has loaded; whatever they do, it  *)
(* runs all its frames and returns 0, unless its setup fails or leaves it  *)
(* settings it cannot use: then it runs none and returns 1.                *)
THEOREM FramesMatchStatus == HostSpec => []FramesAndStatusAgree
<1>1. HostInv => FramesAndStatusAgree
  <2> SUFFICES ASSUME HostInv
               PROVE  FramesAndStatusAgree
    OBVIOUS
  <2>1. ASSUME at \in HookPoints
        PROVE  interpreter = "live" /\ modules[GameName] # NoObject
    BY <2>1 DEF HostInv, Fits, FrameFits, Serving, HookPoints
  <2>2. ASSUME at = "exited"
        PROVE  IF SetupFailed THEN status = 1 /\ frame = 0
                              ELSE status = 0 /\ frame = FrameCount
    BY <2>2 DEF HostInv, Progress
  <2> QED BY <2>1, <2>2 DEF FramesAndStatusAgree
<1> QED BY <1>1, HostInvAlways, PTL

-----------------------------------------------------------------------------

(* main() goes one way. *)

(* The registry holds at most main()'s one binding, so a callback that     *)
(* returns is the last one.                                                *)
OneBinding ==
  /\ Len(bindings) =< 1
  /\ Waiting("binding") => Top.index = Len(bindings)

LEMMA CallKeepsOneBinding ==
  ASSUME TypeOK, HostInv, OneBinding, MainCalls
  PROVE  OneBinding'
<1>1. CallAt(at) /\ stack = <<>>
  BY DEF MainCalls
<1>2. at = "registerModule" => bindings = <<>>
  BY DEF HostInv, Fits
<1>3. CASE RegisterModule(Main, BoundName) /\ at = "registerModule"
  <2>1. stack' = <<>> /\ bindings' \in {<<>>, Append(<<>>, BoundName)}
    BY <1>1, <1>2, <1>3
    DEF RegisterModule, RegistryAdd, Refused, state, setup, frames
  <2>2. Append(<<>>, BoundName) = <<BoundName>>
    OBVIOUS
  <2>3. bindings' \in {<<>>, <<BoundName>>}
    BY <2>1, <2>2
  <2>4. Len(<<>>) =< 1 /\ Len(<<BoundName>>) =< 1
    OBVIOUS
  <2>5. Len(bindings') =< 1
    BY <2>3, <2>4
  <2> QED BY <2>1, <2>5 DEF OneBinding, Waiting
<1>4. CASE Initialize(Main)
  <2>1. UNCHANGED bindings
    BY <1>4
    DEF Initialize, Refused, StartFails, StartInterpreter, state, setup
  <2>2. CASE UNCHANGED stack
    BY <1>1, <2>1, <2>2 DEF OneBinding, Waiting
  <2>3. CASE bindings # <<>> /\ EnterBinding(run + 1, 1, stack, Main)
    <3> DEFINE x == [kind |-> "binding", index |-> 1]
    <3>1. x.index = 1 /\ stack' = Append(<<>>, x)
      BY <1>1, <2>3 DEF EnterBinding
    <3> HIDE DEF x
    <3>2. Top' = x
      BY <3>1, OneFrame
    <3>3. Len(bindings) = 1
      <4>1. bindings \in Seq(ModuleNames)
        BY DEF TypeOK
      <4>2. Len(bindings) \in Nat /\ Len(bindings) # 0
        BY <2>3, <4>1
      <4> QED BY <4>2 DEF OneBinding
    <3> QED BY <2>1, <3>1, <3>2, <3>3 DEF OneBinding
  <2> QED
    BY <1>4, <2>2, <2>3
    DEF Initialize, Refused, StartFails, StartInterpreter, state, frames
<1>5. CASE \/ \E p \in Paths \cup {EmptyPath} : AddSearchPath(Main, p)
           \/ LoadModule(Main, GameName)
           \/ at \in HookPoints /\ Call(Main, HookAt(at))
           \/ Shutdown(Main)
           \/ Destroy(Main)
  <2>1. bindings' \in {bindings, <<>>}
    BY <1>5
    DEF AddSearchPath, LoadModule, Call, Shutdown, Destroy, Refused, state,
        setup
  <2>2. \/ UNCHANGED stack
        \/ \E x : stack' = Append(<<>>, x) /\ x.kind # "binding"
    <3> DEFINE import == [kind |-> "import", name |-> GameName]
               invoke == [kind |-> "invoke", hook |-> HookAt(at)]
               over(op) == [kind |-> "finalize", op |-> op, code |-> "Ok"]
    <3>1. /\ import.kind # "binding" /\ invoke.kind # "binding"
          /\ \A op : over(op).kind # "binding"
      OBVIOUS
    <3>2. \/ UNCHANGED stack
          \/ stack' = Append(<<>>, import)
          \/ stack' = Append(<<>>, invoke)
          \/ \E op : stack' = Append(<<>>, over(op))
      BY <1>1, <1>5
      DEF AddSearchPath, LoadModule, Call, Shutdown, Destroy, Stop, Push,
          Refused, state, frames
    <3> HIDE DEF import, invoke, over
    <3> QED BY <3>1, <3>2
  <2>3. ~Waiting("binding")'
    BY <1>1, <2>2, OneFrame DEF Waiting
  <2>4. Len(bindings') =< 1
    BY <2>1 DEF OneBinding
  <2> QED BY <2>3, <2>4 DEF OneBinding
<1> QED BY <1>1, <1>3, <1>4, <1>5 DEF CallAt

LEMMA EndsAreLast ==
  ASSUME TypeOK, HostInv, OneBinding, CodeEnds
  PROVE  \/ stack' = <<>>
         \/ /\ Waiting("binding")
            /\ \E x : stack' = Append(<<>>, x) /\ x.kind = "finalize"
<1>1. stack # <<>>
  BY DEF CodeEnds, BindingReturns, BindingThrows, ImportReturns,
         ImportRaises, InvokeEnds, FinalizeEnds, Waiting
<1>2. Below = <<>>
  BY <1>1, NothingBelow DEF HostInv
<1>3. CASE BindingReturns
  BY <1>2, <1>3 DEF BindingReturns, OneBinding, Pop
<1>4. CASE BindingThrows
  <2>1. PICK code \in RaisedCodes : Stop("initialize", stackThread, code, <<>>)
    BY <1>2, <1>4 DEF BindingThrows
  <2> DEFINE x == [kind |-> "finalize", op |-> "initialize", code |-> code]
  <2>2. x.kind = "finalize" /\ stack' = Append(<<>>, x)
    BY <1>4, <2>1 DEF Stop, BindingThrows
  <2> HIDE DEF x
  <2> QED BY <1>4, <2>2 DEF BindingThrows
<1>5. CASE ImportReturns \/ ImportRaises \/ InvokeEnds \/ FinalizeEnds
  BY <1>2, <1>5
  DEF ImportReturns, ImportRaises, InvokeEnds, FinalizeEnds, Pop
<1> QED BY <1>3, <1>4, <1>5 DEF CodeEnds

LEMMA OneBindingStep ==
  TypeOK /\ HostInv /\ OneBinding /\ [HostNext]_hostVars => OneBinding'
<1> SUFFICES ASSUME TypeOK, HostInv, OneBinding, [HostNext]_hostVars
             PROVE  OneBinding'
  OBVIOUS
<1>1. CASE MainCalls
  BY <1>1, CallKeepsOneBinding
<1>2. CASE CodeEnds
  <2>1. bindings' \in {bindings, <<>>}
    BY <1>2
    DEF CodeEnds, BindingReturns, BindingThrows, ImportReturns,
        ImportRaises, InvokeEnds, FinalizeEnds, setup
  <2>2. ~Waiting("binding")'
    BY <1>2, EndsAreLast, OneFrame DEF Waiting
  <2> QED BY <2>1, <2>2 DEF OneBinding
<1>3. CASE CodeImports \/ Validates \/ LocalsGo \/ Exited \/ UNCHANGED hostVars
  <2>1. UNCHANGED <<bindings, stack>>
    BY <1>3
    DEF CodeImports, ScriptImports, Validates, LocalsGo, Exited, hostVars,
        vars, state, setup, frames
  <2> QED BY <2>1 DEF OneBinding, Waiting, Top
<1> QED BY <1>1, <1>2, <1>3 DEF HostNext

(* How far the call is that main() is in. *)
Waits == IF stack = <<>> THEN 3 ELSE IF Top.kind = "binding" THEN 2 ELSE 1

(* A call that is not over yet has come nearer to its end. *)
LEMMA CallAdvances ==
  ASSUME TypeOK, HostInv, OneBinding, MainCalls \/ CodeEnds, stack' # <<>>
  PROVE  UNCHANGED <<at, frame>> /\ Waits' < Waits
<1>1. UNCHANGED <<at, frame>>
  BY DEF MainCalls, CodeEnds, GoesOn
<1>2. CASE MainCalls
  <2>1. Waits = 3 /\ Waits' \in {1, 2}
    BY <1>2 DEF MainCalls, Waits
  <2> QED BY <1>1, <2>1
<1>3. CASE CodeEnds
  <2>1. Waiting("binding") /\ Top'.kind = "finalize"
    BY <1>3, EndsAreLast, OneFrame
  <2>2. Waits = 2 /\ Waits' = 1
    BY <2>1 DEF Waits, Waiting
  <2> QED BY <1>1, <2>2
<1> QED BY <1>2, <1>3

(* When it is over, fewer calls are left. *)
LEMMA FewerCallsLeft ==
  ASSUME HostInv, at \notin {"validate", "unwind", "exited"},
         MainCalls \/ CodeEnds, stack' = <<>>
  PROVE  CallsLeft[at'] - frame' < CallsLeft[at] - frame
<1>1. at \in Points /\ Progress /\ GoesOn /\ FrameCount \in Nat
  BY HostAssumption DEF HostInv, Progress, MainCalls, CodeEnds
<1>2. CASE at = "on_update" /\ FrameEnds
  <2>1. frame \in Int /\ frame' = frame + 1 /\ at' \in {"on_update", "on_shutdown"}
    BY <1>1, <1>2 DEF FrameEnds, NextFrame, Progress
  <2> QED BY <1>2, <2>1 DEF CallsLeft
<1>3. CASE at # "on_update" /\ CallEnds
  <2>1. /\ at' = IF returned'.code = "Ok" THEN OnOk[at] ELSE OnError[at]
        /\ frame' = frame
    BY <1>3 DEF CallEnds
  <2>2. at \in {"registerModule", "initialize", "addSearchPath", "loadModule",
                "shutdown", "giveUp", "destroy", "configure", "on_start",
                "on_shutdown"}
    BY <1>1, <1>3 DEF Points, HookPoints
  <2>3. CallsLeft[at'] < CallsLeft[at]
    BY <2>1, <2>2 DEF OnOk, OnError, CallsLeft
  <2>4. /\ frame \in Int
        /\ CallsLeft[at] \in Int /\ CallsLeft[at'] \in Int
    <3>1. frame \in Int
      BY <1>1, <2>2 DEF Progress
    <3>2. at' \in Points
      BY <2>1, <2>2 DEF OnOk, OnError, Points, HookPoints
    <3> QED BY <1>1, <3>1, <3>2 DEF CallsLeft, Points, HookPoints
  <2> QED BY <2>1, <2>3, <2>4
<1> QED BY <1>1, <1>2, <1>3 DEF GoesOn

LEMMA StepsLeftIsNat ==
  ASSUME HostInv
  PROVE  /\ StepsLeft \in Nat
         /\ CallsLeft[at] \in Nat /\ frame \in 0..FrameCount
         /\ Waits \in 1..3
<1>1. FrameCount \in Nat /\ FrameCount > 0
  BY HostAssumption
<1>2. frame \in 0..FrameCount
  BY <1>1 DEF HostInv, Progress, Points, HookPoints
<1>3. CallsLeft[at] \in Nat
  BY DEF HostInv, Progress, Points, HookPoints, CallsLeft
<1>4. Waits \in 1..3
  BY DEF Waits
<1>5. StepsLeft = 4 * (CallsLeft[at] + FrameCount - frame) + Waits
  BY DEF StepsLeft, Waits
<1> QED BY <1>1, <1>2, <1>3, <1>4, <1>5

(* No step of main() is retaken: with each call it makes, and with the end *)
(* of each piece of code a call waits for, less of it is left, whatever    *)
(* failed; of MainReturns, all but that the code it waits for ends.        *)
THEOREM MainNeverGoesBack == HostSpec => NeverGoesBack
<1>1. HostInit => OneBinding
  BY DEF HostInit, Init, OneBinding, Waiting
<1>2. HostSpec => []TypeOK
  BY HostImplementsSpec, TypeCorrect, PTL
<1>3. TypeOK /\ HostInv /\ HostInv' /\ OneBinding /\ [HostNext]_hostVars
      => [StepsLeft' \in Nat /\ StepsLeft' < StepsLeft]_<<at, frame, stack>>
  <2> SUFFICES ASSUME TypeOK, HostInv, HostInv', OneBinding,
                      [HostNext]_hostVars, ~UNCHANGED <<at, frame, stack>>
               PROVE  StepsLeft' \in Nat /\ StepsLeft' < StepsLeft
    OBVIOUS
  <2>1. /\ CallsLeft[at] \in Nat /\ frame \in Nat /\ Waits \in 1..3
        /\ CallsLeft[at'] \in Nat /\ frame' \in Nat /\ Waits' \in 1..3
        /\ StepsLeft' \in Nat /\ FrameCount \in Nat
    <3>1. FrameCount \in Nat
      BY HostAssumption
    <3>2. (StepsLeft \in Nat /\ CallsLeft[at] \in Nat
             /\ frame \in 0..FrameCount /\ Waits \in 1..3)'
      BY StepsLeftIsNat, PTL
    <3>3. CallsLeft' = CallsLeft
      BY DEF CallsLeft
    <3> QED BY <3>1, <3>2, <3>3, StepsLeftIsNat
  <2>2. /\ StepsLeft = 4 * (CallsLeft[at] + FrameCount - frame) + Waits
        /\ StepsLeft' = 4 * (CallsLeft[at'] + FrameCount - frame') + Waits'
    BY DEF StepsLeft, Waits, CallsLeft
  <2>3. CASE MainCalls \/ CodeEnds
    <3>1. CASE stack' # <<>>
      <4>1. UNCHANGED <<at, frame>> /\ Waits' < Waits
        BY <2>3, <3>1, CallAdvances
      <4>2. CallsLeft[at'] = CallsLeft[at] /\ frame' = frame
        BY <4>1
      <4> QED BY <2>1, <2>2, <4>1, <4>2
    <3>2. CASE stack' = <<>>
      <4>1. at \notin {"validate", "unwind", "exited"}
        BY <2>3, CallsAreMade
      <4>2. CallsLeft[at'] - frame' < CallsLeft[at] - frame
        BY <2>3, <3>2, <4>1, FewerCallsLeft
      <4> QED BY <2>1, <2>2, <4>2
    <3> QED BY <3>1, <3>2
  <2>4. CASE Validates \/ LocalsGo
    <3>1. /\ frame' = frame /\ Waits' = Waits
          /\ CallsLeft[at'] < CallsLeft[at]
      BY <2>4
      DEF Validates, LocalsGo, CallsLeft, Waits, Top, vars, state, frames
    <3> QED BY <2>1, <2>2, <3>1
  <2>5. CASE CodeImports \/ Exited \/ UNCHANGED hostVars
    <3>1. UNCHANGED <<at, frame, stack>>
      BY <2>5
      DEF CodeImports, ScriptImports, Exited, hostVars, mainVars, vars,
          state, frames
    <3> QED BY <3>1
  <2> QED BY <2>3, <2>4, <2>5 DEF HostNext
<1> QED
  BY <1>1, <1>2, <1>3, HostInvAlways, OneBindingStep, PTL
  DEF HostSpec, NeverGoesBack

-----------------------------------------------------------------------------

(* What the failure table says of on_update, while main() is on its way to *)
(* the loop or in it: the failure of the last frame, or none.              *)
UpdateHook == HookAt("on_update")

Booked == failureRecords[HookKey(UpdateHook)].lastSignature

LastUpdate ==
  IF updates = <<>> THEN NoSignature ELSE updates[Len(updates)].signature

Early ==
  {"registerModule", "initialize", "addSearchPath", "loadModule",
   "configure", "validate", "on_start"}

CallsItsHook == at \in HookPoints /\ stack # <<>> => Top.hook = HookAt(at)

UpdatesTyped == updates \in Seq(Update) /\ Len(updates) = frame

ReportInv ==
  /\ CallsItsHook
  /\ UpdatesTyped
  /\ settings \in {"usable", "unusable"}
  /\ at \in Early \cup {"on_update"} => Booked = LastUpdate
  /\ objects \subseteq Locals
  /\ FailureToldOnce

(* A prefix can be cancelled. *)
LEMMA SamePrefix ==
  ASSUME NEW S, NEW m \in Seq(S), NEW f \in Seq(S), NEW g \in Seq(S),
         m \o f = m \o g
  PROVE  f = g
<1>1. Len(f) = Len(g)
  <2>1. Len(m \o f) = Len(m) + Len(f) /\ Len(m \o g) = Len(m) + Len(g)
    OBVIOUS
  <2> QED BY <2>1
<1>2. ASSUME NEW i \in 1..Len(f)
      PROVE  f[i] = g[i]
  <2>1. (m \o f)[Len(m) + i] = f[i]
    OBVIOUS
  <2>2. (m \o g)[Len(m) + i] = g[i]
    BY <1>1
  <2> QED BY <2>1, <2>2
<1> QED BY <1>1, <1>2

(* The other hooks of main() have other records. *)
LEMMA HooksHaveTheirKeys ==
  ASSUME NEW p \in HookPoints
  PROVE  /\ HookAt(p) \in Hooks /\ HookAt(p) # Nameless
         /\ HookKey(HookAt(p)) \in Keys
         /\ p # "on_update" => HookKey(HookAt(p)) # HookKey(UpdateHook)
<1>1. HookAt(p) \in Hooks
  BY HooksAreMains
<1>2. HookAt(p) # Nameless
  BY HostAssumption, NamesAssumption DEF HookAt, Nameless
<1>3. ASSUME HookKey(HookAt(p)) = HookKey(UpdateHook)
      PROVE  p = "on_update"
  <2> DEFINE f == FunctionName[p]
             g == FunctionName["on_update"]
             prefix == GameName \o <<Separator>>
  <2>1. "on_update" \in HookPoints
    BY DEF HookPoints
  <2>2. f \in Seq(Characters) /\ g \in Seq(Characters)
    BY <2>1, HooksAreMains DEF Names
  <2>3. prefix \in Seq(Characters)
    <3>1. GameName \in Seq(Characters)
      BY <1>1, HooksAssumption DEF HookAt, Names
    <3> QED BY <3>1, SeparatorIsACharacter
  <2>4. prefix \o f = prefix \o g
    BY <1>3 DEF HookKey, UpdateHook, HookAt
  <2> HIDE DEF f, g, prefix
  <2>5. f = g
    BY <2>2, <2>3, <2>4, SamePrefix
  <2> QED BY <2>1, <2>5, HooksAreMains DEF f, g
<1> QED BY <1>1, <1>2, <1>3 DEF Keys

(* What a call that ends leaves in the table, and whether it is reported.  *)
LEMMA OutcomeIsBooked ==
  ASSUME TypeOK, NEW h \in Hooks, NEW t, NEW codes,
         CallSucceeds(h, t) \/ CallFails(h, t, codes)
  PROVE  LET before == failureRecords[HookKey(h)].lastSignature
             after  == failureRecords'[HookKey(h)].lastSignature
         IN /\ \A k \in Keys \ {HookKey(h)} :
                 failureRecords'[k] = failureRecords[k]
            /\ after \in Signatures \cup {NoSignature}
            /\ returned'.code # "Ok" <=> after # NoSignature
            /\ returned'.code # "Ok" => (Suppressed(h) <=> after = before)
<1>1. HookKey(h) \in Keys /\ failureRecords \in [Keys -> FailureRecord]
  BY DEF Keys, TypeOK
<1>2. CASE CallSucceeds(h, t)
  <2>1. failureRecords' = NoteSuccess(failureRecords, h) /\ returned'.code = "Ok"
    BY <1>2 DEF CallSucceeds, Return
  <2>2. /\ failureRecords'[HookKey(h)].lastSignature = NoSignature
        /\ \A k \in Keys \ {HookKey(h)} : failureRecords'[k] = failureRecords[k]
    BY <1>1, <2>1 DEF NoteSuccess, NoRecord
  <2> QED BY <2>1, <2>2
<1>3. CASE CallFails(h, t, codes)
  <2>1. PICK e \in Failures :
          /\ failureRecords' = NoteFailure(failureRecords, h, e)
          /\ returned'.code = e.code
    BY <1>3 DEF CallFails, Return
  <2>2. returned'.code # "Ok"
    BY <2>1, CodesAssumption DEF ErrorCodes
  <2>3. \A d \in Failures :
          /\ NoteFailure(failureRecords, h, d)[HookKey(h)].lastSignature
               = FailureSignature(d)
          /\ \A k \in Keys \ {HookKey(h)} :
               NoteFailure(failureRecords, h, d)[k] = failureRecords[k]
    BY <1>1 DEF NoteFailure
  <2>4. /\ failureRecords'[HookKey(h)].lastSignature = FailureSignature(e)
        /\ \A k \in Keys \ {HookKey(h)} : failureRecords'[k] = failureRecords[k]
    BY <2>1, <2>3
  <2>5. FailureSignature(e) \in Signatures
    BY DEF Signatures
  <2>6. Suppressed(h) <=>
          FailureSignature(e) = failureRecords[HookKey(h)].lastSignature
    <3>1. ASSUME Suppressed(h)
          PROVE  FailureSignature(e) = failureRecords[HookKey(h)].lastSignature
      <4>1. PICK d \in Failures :
              /\ Repeated(failureRecords, h, d)
              /\ failureRecords' = NoteFailure(failureRecords, h, d)
        BY <3>1 DEF Suppressed
      <4>2. FailureSignature(d) = FailureSignature(e)
        BY <2>3, <2>4, <4>1
      <4> QED BY <4>1, <4>2 DEF Repeated
    <3>2. ASSUME FailureSignature(e) = failureRecords[HookKey(h)].lastSignature
          PROVE  Suppressed(h)
      BY <2>1, <3>2 DEF Suppressed, Policy, Repeated
    <3> QED BY <3>1, <3>2
  <2> QED BY <2>2, <2>4, <2>5, <2>6, NoSignatureAssumption
<1> QED BY <1>2, <1>3

(* A call of a hook enters it or ends it: main() is never refused. *)
LEMMA HookStep ==
  ASSUME TypeOK, HostInv, CallsItsHook, at \in HookPoints,
         MainCalls \/ CodeEnds
  PROVE  \/ /\ stack' # <<>> /\ Top'.hook = HookAt(at)
            /\ UNCHANGED failureRecords
         \/ /\ stack' = <<>>
            /\ \E t, codes : \/ CallSucceeds(HookAt(at), t)
                             \/ CallFails(HookAt(at), t, codes)
<1>1. CASE MainCalls
  <2>1. stack = <<>> /\ Call(Main, HookAt(at))
    BY <1>1 DEF MainCalls, CallAt, HookPoints
  <2>2. running /\ OwnsInterpreter(Main)
    BY <2>1 DEF HostInv, Fits, Serving, OwnsInterpreter
  <2>3. HookAt(at) # Nameless
    BY HooksHaveTheirKeys
  <2>4. CASE /\ Push([kind |-> "invoke", hook |-> HookAt(at)], Main)
             /\ UNCHANGED tables
    <3> DEFINE x == [kind |-> "invoke", hook |-> HookAt(at)]
    <3>1. x.hook = HookAt(at) /\ stack' = Append(<<>>, x)
      BY <2>1, <2>4 DEF Push
    <3> HIDE DEF x
    <3>2. stack' # <<>> /\ Top' = x
      BY <3>1, OneFrame
    <3> QED BY <2>4, <3>1, <3>2 DEF tables
  <2>5. CASE /\ UNCHANGED frames
             /\ \E codes : \/ CallSucceeds(HookAt(at), Main)
                           \/ CallFails(HookAt(at), Main, codes)
    BY <2>1, <2>5 DEF frames
  <2> QED BY <2>1, <2>2, <2>3, <2>4, <2>5 DEF Call
<1>2. CASE CodeEnds
  <2>1. stack # <<>>
    BY <1>2
    DEF CodeEnds, BindingReturns, BindingThrows, ImportReturns,
        ImportRaises, InvokeEnds, FinalizeEnds, Waiting
  <2>2. Top.kind = "invoke" /\ Top.hook = HookAt(at)
    BY <2>1 DEF HostInv, Fits, FrameFits, HookPoints, CallsItsHook
  <2>3. InvokeEnds
    BY <1>2, <2>2
    DEF CodeEnds, BindingReturns, BindingThrows, ImportReturns,
        ImportRaises, FinalizeEnds, Waiting
  <2>4. stack' = <<>>
    BY <2>1, <2>3, NothingBelow DEF HostInv, InvokeEnds, Pop
  <2> QED BY <2>2, <2>3, <2>4 DEF InvokeEnds
<1> QED BY <1>1, <1>2

(* On the way to the loop nothing else is booked. *)
LEMMA SetupKeepsTheTable ==
  ASSUME TypeOK, HostInv, at \in Early \ (HookPoints \cup {"validate"}),
         MainCalls \/ CodeEnds
  PROVE  Booked' = Booked \/ Booked' = NoSignature
<1>1. CASE UNCHANGED failureRecords
  BY <1>1 DEF Booked, UpdateHook, HookAt
<1>2. CASE failureRecords' = NoRecords
  <2>1. HookKey(UpdateHook) \in Keys
    BY HooksHaveTheirKeys DEF HookPoints, UpdateHook
  <2> QED BY <1>2, <2>1 DEF Booked, NoRecords, NoRecord, UpdateHook, HookAt
<1>3. CASE MainCalls
  <2>1. \/ RegisterModule(Main, BoundName) \/ Initialize(Main)
        \/ \E p \in Paths \cup {EmptyPath} : AddSearchPath(Main, p)
        \/ LoadModule(Main, GameName)
    BY <1>3 DEF MainCalls, CallAt, Early, HookPoints
  <2>2. CASE RegisterModule(Main, BoundName)
    BY <1>1, <2>2 DEF RegisterModule, Refused, state, tables
  <2>3. CASE Initialize(Main)
    BY <1>1, <1>2, <2>3
    DEF Initialize, Refused, StartFails, StartInterpreter, FreshCounters,
        ClearTables, state, tables
  <2>4. CASE \E p \in Paths \cup {EmptyPath} : AddSearchPath(Main, p)
    BY <1>1, <2>4 DEF AddSearchPath, Refused, state, tables
  <2>5. CASE LoadModule(Main, GameName)
    BY <1>1, <2>5 DEF LoadModule, Refused, state, tables
  <2> QED BY <2>1, <2>2, <2>3, <2>4, <2>5
<1>4. CASE CodeEnds
  <2>1. stack # <<>> => Top.kind # "invoke"
    BY DEF HostInv, Fits, FrameFits
  <2>2. \/ BindingReturns \/ BindingThrows
        \/ ImportReturns \/ ImportRaises \/ FinalizeEnds
    BY <1>4, <2>1 DEF CodeEnds, InvokeEnds, Waiting
  <2>3. CASE BindingReturns
    BY <1>1, <2>3 DEF BindingReturns, EnterBinding
  <2>4. CASE BindingThrows
    BY <1>1, <1>2, <2>4 DEF BindingThrows, Stop, ClearTables
  <2>5. CASE ImportReturns \/ ImportRaises
    BY <1>1, <2>5 DEF ImportReturns, ImportRaises, tables
  <2>6. CASE FinalizeEnds
    BY <1>1, <2>6 DEF FinalizeEnds, tables
  <2> QED BY <2>2, <2>3, <2>4, <2>5, <2>6
<1> QED BY <1>3, <1>4

(* A frame of the loop is over: one more entry, and it is right. *)
LEMMA FrameIsTold ==
  ASSUME TypeOK, HostInv, ReportInv, at = "on_update",
         MainCalls \/ CodeEnds, FrameEnds, stack' = <<>>
  PROVE  UpdatesTyped' /\ Booked' = LastUpdate' /\ FailureToldOnce'
<1> DEFINE h     == UpdateHook
           last  == failureRecords'[HookKey(h)].lastSignature
           told  == returned'.code # "Ok" /\ ~Suppressed(h)
           entry == [signature |-> last, told |-> told]
<1>1. h \in Hooks /\ at \in HookPoints /\ h = HookAt(at)
  BY HooksHaveTheirKeys DEF HookPoints, UpdateHook
<1>2. \E t, codes : CallSucceeds(h, t) \/ CallFails(h, t, codes)
  BY <1>1, HookStep DEF ReportInv
<1>3. /\ last \in Signatures \cup {NoSignature}
      /\ told <=> last # NoSignature /\ last # Booked
  BY <1>1, <1>2, OutcomeIsBooked DEF Booked
<1>4. updates' = Append(updates, entry) /\ frame' = frame + 1
  BY DEF FrameEnds, NextFrame, UpdateHook
<1>5. updates \in Seq(Update) /\ Len(updates) = frame /\ Booked = LastUpdate
  BY DEF ReportInv, UpdatesTyped
<1>6. entry \in Update /\ entry.signature = last /\ entry.told = told
  BY <1>3 DEF Update
<1>7. Booked' = last
  BY DEF Booked, UpdateHook, HookAt
<1> HIDE DEF h, last, told, entry
<1>8. /\ updates' \in Seq(Update) /\ Len(updates') = Len(updates) + 1
      /\ \A i \in 1..Len(updates) : updates'[i] = updates[i]
      /\ updates'[Len(updates) + 1] = entry
  BY <1>4, <1>5, <1>6
<1>9. UpdatesTyped'
  BY <1>4, <1>5, <1>8 DEF UpdatesTyped
<1>10. LastUpdate' = last
  BY <1>6, <1>8 DEF LastUpdate
<1>11. FailureToldOnce'
  <2> SUFFICES ASSUME NEW i \in 1..Len(updates')
               PROVE  (updates[i].told <=>
                         /\ updates[i].signature # NoSignature
                         /\ i > 1 => updates[i - 1].signature
                                       # updates[i].signature)'
    BY DEF FailureToldOnce
  <2>1. Len(updates) \in Nat
    BY <1>5
  <2>2. CASE i \in 1..Len(updates)
    <3>1. i > 1 => i - 1 \in 1..Len(updates)
      BY <2>1, <2>2
    <3> QED BY <1>8, <2>2, <3>1 DEF ReportInv, FailureToldOnce
  <2>3. CASE i = Len(updates) + 1
    <3>1. updates'[i] = entry
      BY <1>8, <2>3
    <3>2. CASE Len(updates) = 0
      <4>1. Booked = NoSignature /\ ~(i > 1)
        BY <1>5, <2>3, <3>2 DEF LastUpdate
      <4> QED BY <1>3, <1>6, <3>1, <4>1
    <3>3. CASE Len(updates) # 0
      <4>1. i > 1 /\ i - 1 = Len(updates) /\ Len(updates) \in 1..Len(updates)
        BY <2>1, <2>3, <3>3
      <4>2. updates'[i - 1].signature = Booked
        BY <1>5, <1>8, <3>3, <4>1 DEF LastUpdate
      <4> QED BY <1>3, <1>6, <3>1, <4>1, <4>2
    <3> QED BY <3>2, <3>3
  <2> QED BY <1>8, <2>1, <2>2, <2>3
<1> QED BY <1>7, <1>9, <1>10, <1>11

LEMMA CallReports ==
  ASSUME TypeOK, HostInv, ReportInv, MainCalls \/ CodeEnds
  PROVE  ReportInv'
<1>1. GoesOn /\ at \in Points \ {"validate", "unwind", "exited"}
  <2>1. CASE MainCalls
    BY <2>1 DEF HostInv, Progress, MainCalls, CallAt, HookPoints
  <2>2. CASE CodeEnds
    <3>1. stack # <<>>
      BY <2>2
      DEF CodeEnds, BindingReturns, BindingThrows, ImportReturns,
          ImportRaises, InvokeEnds, FinalizeEnds, Waiting
    <3> QED
      BY <2>2, <3>1
      DEF HostInv, Progress, Fits, FrameFits, CodeEnds, HookPoints
  <2> QED BY <2>1, <2>2
<1>2. settings' \in {"usable", "unusable"} /\ objects' \subseteq Locals
  BY DEF ReportInv, MainCalls, CodeEnds
<1>3. CallsItsHook'
  <2> SUFFICES ASSUME at' \in HookPoints, stack' # <<>>
               PROVE  Top'.hook = HookAt(at')
    BY DEF CallsItsHook, HookAt
  <2>1. at' = at
    BY <1>1 DEF GoesOn
  <2> QED BY <2>1, HookStep DEF ReportInv
<1>4. CASE at = "on_update" /\ stack' = <<>>
  <2>1. FrameEnds
    BY <1>1, <1>4 DEF GoesOn
  <2> QED BY <1>2, <1>3, <1>4, <2>1, FrameIsTold DEF ReportInv
<1>5. CASE ~(at = "on_update" /\ stack' = <<>>)
  <2>1. /\ UNCHANGED <<frame, updates>>
        /\ at' = at \/ (at # "on_update" /\ CallEnds)
    BY <1>1, <1>5 DEF GoesOn, CallEnds
  <2>2. UpdatesTyped' /\ FailureToldOnce' /\ LastUpdate' = LastUpdate
    BY <2>1 DEF ReportInv, UpdatesTyped, FailureToldOnce, LastUpdate
  <2>3. at' \in Early \cup {"on_update"} => at \in Early \cup {"on_update"}
    <3>1. CASE at' = at
      BY <3>1
    <3>2. CASE at # "on_update" /\ CallEnds
      <4>1. at' = OnOk[at] \/ at' = OnError[at]
        BY <3>2 DEF CallEnds
      <4>2. at \in Early \cup {"on_shutdown", "shutdown", "giveUp", "destroy"}
        BY <1>1, <3>2 DEF Points, HookPoints, Early
      <4>3. at \in {"on_shutdown", "shutdown", "giveUp", "destroy"} =>
              at' \in {"shutdown", "destroy", "unwind"}
        BY <4>1 DEF OnOk, OnError
      <4> QED BY <4>2, <4>3 DEF Early
    <3> QED BY <2>1, <3>1, <3>2
  <2>4. ASSUME at \in Early \cup {"on_update"}
        PROVE  Booked' = LastUpdate
    <3>1. Booked = LastUpdate
      BY <2>4 DEF ReportInv
    <3>2. CASE at \in Early
      <4>1. LastUpdate = NoSignature
        BY <3>2
        DEF HostInv, Progress, Early, ReportInv, UpdatesTyped, LastUpdate
      <4>2. CASE at \in HookPoints
        <5>1. /\ HookAt(at) \in Hooks
              /\ HookKey(UpdateHook) \in Keys
              /\ HookKey(HookAt(at)) # HookKey(UpdateHook)
          BY <3>2, <4>2, HooksHaveTheirKeys DEF Early, HookPoints, UpdateHook
        <5>2. CASE UNCHANGED failureRecords
          BY <3>1, <5>2 DEF Booked, UpdateHook, HookAt
        <5>3. CASE \E t, codes : \/ CallSucceeds(HookAt(at), t)
                                 \/ CallFails(HookAt(at), t, codes)
          <6>1. failureRecords'[HookKey(UpdateHook)]
                  = failureRecords[HookKey(UpdateHook)]
            BY <5>1, <5>3, OutcomeIsBooked
          <6> QED BY <3>1, <6>1 DEF Booked, UpdateHook, HookAt
        <5> QED BY <4>2, <5>2, <5>3, HookStep DEF ReportInv
      <4>3. CASE at \notin HookPoints
        <5>1. Booked' = Booked \/ Booked' = NoSignature
          BY <1>1, <3>2, <4>3, SetupKeepsTheTable
        <5> QED BY <3>1, <4>1, <5>1
      <4> QED BY <4>2, <4>3
    <3>3. CASE at = "on_update"
      <4>1. stack' # <<>> /\ at \in HookPoints
        BY <1>5, <3>3 DEF HookPoints
      <4>2. UNCHANGED failureRecords
        BY <4>1, HookStep DEF ReportInv
      <4> QED BY <3>1, <4>2 DEF Booked, UpdateHook, HookAt
    <3> QED BY <2>4, <3>2, <3>3
  <2> QED BY <1>2, <1>3, <2>2, <2>3, <2>4 DEF ReportInv
<1> QED BY <1>4, <1>5

LEMMA ReportStep ==
  ASSUME TypeOK, HostInv, ReportInv, [HostNext]_hostVars
  PROVE  ReportInv'
<1>1. CASE MainCalls \/ CodeEnds
  BY <1>1, CallReports
<1>2. ASSUME UNCHANGED <<failureRecords, stack, settings, frame, updates>>,
             objects' = objects \/ objects' = {},
             \/ at' = at
             \/ at = "validate" /\ at' \in {"on_start", "giveUp"}
             \/ at = "unwind" /\ at' = "exited"
      PROVE  ReportInv'
  <2>1. UpdatesTyped' /\ FailureToldOnce' /\ LastUpdate' = LastUpdate
    BY <1>2 DEF ReportInv, UpdatesTyped, FailureToldOnce, LastUpdate
  <2>2. Booked' = Booked
    BY <1>2 DEF Booked, UpdateHook, HookAt
  <2>3. CallsItsHook'
    <3>1. CASE at' = at
      BY <1>2, <3>1 DEF ReportInv, CallsItsHook, Top, HookAt
    <3>2. CASE at = "validate"
      <4>1. stack = <<>>
        BY <3>2 DEF HostInv, Fits, FrameFits, HookPoints
      <4> QED BY <1>2, <4>1 DEF CallsItsHook
    <3>3. CASE at = "unwind" /\ at' = "exited"
      BY <3>3 DEF CallsItsHook, HookPoints
    <3> QED BY <1>2, <3>1, <3>2, <3>3
  <2>4. at' \in Early \cup {"on_update"} => at \in Early \cup {"on_update"}
    BY <1>2 DEF Early
  <2> QED BY <1>2, <2>1, <2>2, <2>3, <2>4 DEF ReportInv
<1>3. CASE CodeImports
  BY <1>2, <1>3 DEF CodeImports, ScriptImports, tables, frames, mainVars
<1>4. CASE Validates
  BY <1>2, <1>4 DEF Validates, vars, state, tables, frames
<1>5. CASE LocalsGo
  BY <1>2, <1>5 DEF LocalsGo, vars, state, tables, frames
<1>6. CASE UNCHANGED hostVars
  BY <1>2, <1>6 DEF hostVars, mainVars, vars, state, tables, frames
<1> QED
  BY <1>1, <1>3, <1>4, <1>5, <1>6 DEF HostNext, Exited

LEMMA ReportInvAlways == HostSpec => []ReportInv
<1>1. HostInit => ReportInv
  <2> SUFFICES ASSUME HostInit
               PROVE  ReportInv
    OBVIOUS
  <2>1. HookKey(UpdateHook) \in Keys
    BY HooksHaveTheirKeys DEF HookPoints, UpdateHook
  <2>2. Booked = NoSignature
    BY <2>1 DEF HostInit, Init, Booked, NoRecords, NoRecord
  <2>3. /\ updates = <<>> /\ frame = 0 /\ stack = <<>>
        /\ settings = "usable" /\ objects = Locals
    BY DEF HostInit, Init
  <2> QED
    BY <2>2, <2>3
    DEF ReportInv, CallsItsHook, UpdatesTyped, LastUpdate, FailureToldOnce
<1>2. TypeOK /\ HostInv /\ ReportInv /\ [HostNext]_hostVars => ReportInv'
  BY ReportStep
<1>3. HostSpec => []TypeOK
  BY HostImplementsSpec, TypeCorrect, PTL
<1> QED BY <1>1, <1>2, <1>3, HostInvAlways, PTL DEF HostSpec

(* main()'s variables keep their types. *)
THEOREM HostTypeCorrect == HostSpec => []HostTypeOK
<1>1. HostInv /\ ReportInv => HostTypeOK
  <2> SUFFICES ASSUME HostInv, ReportInv
               PROVE  HostTypeOK
    OBVIOUS
  <2>1. /\ at \in Points /\ failedAt \subseteq Points
        /\ frame \in 0..FrameCount /\ status \in {0, 1}
    BY HostAssumption DEF HostInv, Progress, Points, HookPoints
  <2>2. /\ updates \in Seq(Update)
        /\ settings \in {"usable", "unusable"} /\ objects \subseteq Locals
    BY DEF ReportInv, UpdatesTyped
  <2> QED BY <2>1, <2>2 DEF HostTypeOK
<1> QED BY <1>1, HostInvAlways, ReportInvAlways, PTL

(* on_update's failure is printed in the first frame of a streak and       *)
(* whenever it becomes another one, and in no other frame, for any number  *)
(* of frames and any failures.                                             *)
THEOREM FailuresToldOnce == HostSpec => []FailureToldOnce
<1>1. ReportInv => FailureToldOnce
  BY DEF ReportInv
<1> QED BY <1>1, ReportInvAlways, PTL

-----------------------------------------------------------------------------

LEMMA ShownGroups ==
  /\ UNCHANGED Shown!state <=> UNCHANGED state
  /\ UNCHANGED Shown!vars <=> UNCHANGED vars
  /\ UNCHANGED Shown!lifecycle <=> UNCHANGED lifecycle
  /\ UNCHANGED Shown!setup <=> UNCHANGED setup
  /\ UNCHANGED Shown!tables <=> UNCHANGED tables
  /\ UNCHANGED Shown!python <=> UNCHANGED python
  /\ UNCHANGED Shown!frames <=> UNCHANGED frames
BY DEF Shown!vars, Shown!state, Shown!lifecycle, Shown!setup, Shown!tables,
       Shown!python, Shown!frames, vars, state, lifecycle, setup, tables,
       python, frames

(* The pieces the runtime's operations are built from do not depend on     *)
(* what liberties there are.                                               *)
LEMMA ShownPieces ==
  /\ \A t : Shown!MayCall(t) <=> MayCall(t)
  /\ \A t : Shown!OwnsInterpreter(t) <=> OwnsInterpreter(t)
  /\ \A op, t, code : Shown!Return(op, t, code) <=> Return(op, t, code)
  /\ \A op, t, code : Shown!Refused(op, t, code) <=> Refused(op, t, code)
<1>1. \A op, t, code : Shown!Return(op, t, code) <=> Return(op, t, code)
  BY DEF Return, Shown!Return
<1>2. \A op, t, code : Shown!Refused(op, t, code) <=> Refused(op, t, code)
  BY <1>1, ShownGroups DEF Refused, Shown!Refused
<1> QED
  BY <1>1, <1>2
  DEF MayCall, Shown!MayCall, OwnsInterpreter, Shown!OwnsInterpreter

LEMMA ShownRecords ==
  /\ Shown!NoRecords = NoRecords
  /\ \A h : Shown!NextCount(failureRecords, h) = NextCount(failureRecords, h)
  /\ \A h : Shown!NoteSuccess(failureRecords, h) = NoteSuccess(failureRecords, h)
  /\ \A h, e : Shown!NoteFailure(failureRecords, h, e) = NoteFailure(failureRecords, h, e)
<1>1. \A h : Shown!HookKey(h) = HookKey(h)
  BY DEF HookKey, Shown!HookKey
<1>2. Shown!Keys = Keys
  BY <1>1 DEF Keys, Shown!Keys
<1>3. Shown!NoRecord = NoRecord
  BY DEF NoRecord, Shown!NoRecord
<1>4. \A e : Shown!FailureSignature(e) = FailureSignature(e)
  BY DEF FailureSignature, Shown!FailureSignature
<1>5. \A h : Shown!NextCount(failureRecords, h) = NextCount(failureRecords, h)
  BY <1>1 DEF NextCount, Shown!NextCount
<1> QED
  BY <1>1, <1>2, <1>3, <1>4, <1>5
  DEF NoRecords, Shown!NoRecords, NoteSuccess, Shown!NoteSuccess, NoteFailure,
      Shown!NoteFailure

LEMMA ShownNames ==
  /\ \A n : Shown!CString(n) = CString(n)
  /\ \A n : Shown!Decodable(n) <=> Decodable(n)
  /\ \A n : Shown!CanBeImported(n) <=> CanBeImported(n)
  /\ Shown!NoSysModules = NoSysModules
  /\ \A n : Shown!Without(n) = Without(n)
  /\ \A i : Shown!Emplaced(i) = Emplaced(i)
<1>1. \A n : Shown!CString(n) = CString(n)
  BY DEF CString, Shown!CString
<1>2. \A n : Shown!Decodable(n) <=> Decodable(n)
  BY <1>1 DEF Decodable, Shown!Decodable
<1>3. Shown!Importable = Importable
  BY <1>1 DEF Importable, Shown!Importable
<1>4. \A i : Shown!Emplaced(i) = Emplaced(i)
  BY DEF Emplaced, Shown!Emplaced, BindingObject, Shown!BindingObject
<1> QED
  BY <1>1, <1>2, <1>3, <1>4
  DEF CanBeImported, Shown!CanBeImported, NoSysModules, Shown!NoSysModules,
      Without, Shown!Without

LEMMA ShownFrames ==
  /\ Shown!Top = Top /\ Shown!Below = Below
  /\ \A kind : Shown!Waiting(kind) <=> Waiting(kind)
  /\ \A x, t : Shown!Push(x, t) <=> Push(x, t)
  /\ Shown!Pop <=> Pop
<1>1. Shown!Top = Top /\ Shown!Below = Below
  BY DEF Top, Shown!Top, Below, Shown!Below
<1> QED
  BY <1>1
  DEF Waiting, Shown!Waiting, Push, Shown!Push, Pop, Shown!Pop

LEMMA ShownStop ==
  ASSUME NEW op, NEW t, NEW code, NEW waiting, Stop(op, t, code, waiting)
  PROVE  Shown!Stop(op, t, code, waiting)
<1>1. Shown!NoModules = NoModules
  BY DEF NoModules, Shown!NoModules
<1>2. Shown!ClearTables
  BY <1>1, ShownRecords DEF Stop, ClearTables, Shown!ClearTables
<1> QED
  BY <1>2, ShownGroups, ShownPieces DEF Stop, Shown!Stop

LEMMA ShownEnterBinding ==
  \A k, i, waiting, t :
    Shown!EnterBinding(k, i, waiting, t) <=> EnterBinding(k, i, waiting, t)
BY ShownNames
DEF EnterBinding, Shown!EnterBinding, BindingObject, Shown!BindingObject

-----------------------------------------------------------------------------

LEMMA ShownRegister ==
  ASSUME bindings = <<>>, RegisterModule(Main, HostName)
  PROVE  Shown!RegisterModule(Main, HostName)
<1>1. \A i \in 1..Len(bindings) :
        Shown!CString(bindings[i]) # Shown!CString(HostName)
  OBVIOUS
<1>2. RegistryAdd(HostName) => Shown!RegistryAdd(HostName)
  BY DEF RegistryAdd, Shown!RegistryAdd
<1>3. Shown!CString(HostName) \notin ScriptNames
  BY HostAssumption, HostNamesAreText, ShownNames
<1> QED
  BY <1>1, <1>2, <1>3, ShownPieces, ShownGroups
  DEF RegisterModule, Shown!RegisterModule

LEMMA ShownInitialize ==
  ASSUME Initialize(Main)
  PROVE  Shown!Initialize(Main)
<1>1. Shown!FreshCounters <=> FreshCounters
  BY ShownRecords DEF FreshCounters, Shown!FreshCounters
<1>2. StartInterpreter(Main) => Shown!StartInterpreter(Main)
  <2>1. Shown!Reversed(searchPaths) = Reversed(searchPaths)
    BY DEF Reversed, Shown!Reversed
  <2> QED
    BY <1>1, <2>1, ShownPieces, ShownGroups, ShownNames, ShownEnterBinding
    DEF StartInterpreter, Shown!StartInterpreter
<1>3. StartFails(Main) => Shown!StartFails(Main)
  <2>1. Shown!NoModules = NoModules
    BY DEF NoModules, Shown!NoModules
  <2>2. Shown!ClearTables <=> ClearTables
    BY <2>1, ShownRecords DEF ClearTables, Shown!ClearTables
  <2> QED
    BY <1>1, <2>2, ShownPieces, ShownGroups DEF StartFails, Shown!StartFails
<1>4. Shown!PyIsInitialized <=> PyIsInitialized
  BY DEF PyIsInitialized, Shown!PyIsInitialized
<1> QED
  BY <1>2, <1>3, <1>4, ShownPieces DEF Initialize, Shown!Initialize

LEMMA ShownAddSearchPath ==
  ASSUME NEW path, AddSearchPath(Main, path)
  PROVE  Shown!AddSearchPath(Main, path)
BY ShownPieces, ShownGroups DEF AddSearchPath, Shown!AddSearchPath

LEMMA ShownLoad ==
  ASSUME stack = <<>>, interpreter # "finalizing", NEW n, LoadModule(Main, n)
  PROVE  Shown!LoadModule(Main, n)
<1>1. \A i \in 1..Len(stack) :
        stack[i].kind = "import" =>
          Shown!CString(stack[i].name) # Shown!CString(n)
  OBVIOUS
<1>2. /\ \A c : Shown!Found(c) <=> Found(c)
      /\ \A c : NotFound(c) => Shown!NotFound(c)
  BY SysModulesAreLeftAlone DEF Found, Shown!Found, NotFound, Shown!NotFound
<1>3. Shown!ScriptObject = ScriptObject
  BY DEF ScriptObject, Shown!ScriptObject, FromScript, Shown!FromScript
<1> QED
  BY <1>1, <1>2, <1>3, ShownNames, ShownPieces, ShownGroups, ShownFrames
  DEF LoadModule, Shown!LoadModule

LEMMA ShownOutcome ==
  ASSUME NEW h, NEW t
  PROVE  /\ CallSucceeds(h, t) => Shown!CallSucceeds(h, t)
         /\ \A codes : CallFails(h, t, codes) => Shown!CallFails(h, t, codes)
BY ShownPieces, ShownRecords
DEF CallSucceeds, Shown!CallSucceeds, CallFails, Shown!CallFails

LEMMA ShownCall ==
  ASSUME NEW h, Call(Main, h)
  PROVE  Shown!Call(Main, h)
<1>1. Shown!Nameless = Nameless
  BY DEF Nameless, Shown!Nameless
<1> QED
  BY <1>1, ShownOutcome, ShownPieces, ShownGroups, ShownFrames
  DEF Call, Shown!Call

LEMMA ShownShutdown ==
  ASSUME stack = <<>>, Shutdown(Main)
  PROVE  Shown!Shutdown(Main)
<1>1. \A i \in 1..Len(stack) : stack[i].kind = "finalize"
  OBVIOUS
<1> QED
  BY <1>1, ShownStop, ShownPieces, ShownGroups
  DEF Shutdown, Shown!Shutdown

LEMMA ShownDestroy ==
  ASSUME Destroy(Main)
  PROVE  Shown!Destroy(Main)
BY ShownStop, ShownPieces, ShownGroups DEF Destroy, Shown!Destroy

LEMMA ShownCodeEnds ==
  ASSUME CodeEnds
  PROVE  Shown!CodeReturns
<1>1. BindingReturns => Shown!BindingReturns
  BY ShownNames, ShownPieces, ShownGroups, ShownFrames, ShownEnterBinding
  DEF BindingReturns, Shown!BindingReturns
<1>2. Shown!RaisedCodes = RaisedCodes
  BY DEF RaisedCodes, Shown!RaisedCodes
<1>3. BindingThrows => Shown!BindingThrows
  BY <1>2, ShownNames, ShownStop, ShownGroups, ShownFrames
  DEF BindingThrows, Shown!BindingThrows
<1>4. ImportReturns => Shown!ImportReturns
  BY ShownNames, ShownPieces, ShownGroups, ShownFrames
  DEF ImportReturns, Shown!ImportReturns
<1>5. ImportRaises => Shown!ImportRaises
  BY <1>2, ShownNames, ShownPieces, ShownGroups, ShownFrames
  DEF ImportRaises, Shown!ImportRaises
<1>6. InvokeEnds => Shown!InvokeEnds
  BY <1>2, ShownOutcome, ShownGroups, ShownFrames
  DEF InvokeEnds, Shown!InvokeEnds
<1>7. FinalizeEnds => Shown!FinalizeEnds
  BY ShownNames, ShownPieces, ShownGroups, ShownFrames
  DEF FinalizeEnds, Shown!FinalizeEnds
<1> QED
  BY <1>1, <1>3, <1>4, <1>5, <1>6, <1>7 DEF CodeEnds, Shown!CodeReturns

LEMMA ShownImports ==
  ASSUME NEW n, ScriptImports(n)
  PROVE  Shown!ScriptImports(n)
<1>1. Shown!Found(n) <=> Found(n)
  BY DEF Found, Shown!Found
<1>2. Shown!ScriptObject = ScriptObject
  BY DEF ScriptObject, Shown!ScriptObject, FromScript, Shown!FromScript
<1> QED
  BY <1>1, <1>2, ShownGroups, ShownFrames
  DEF ScriptImports, Shown!ScriptImports

LEMMA ShownCalls ==
  ASSUME HostInv, MainCalls
  PROVE  Shown!HostCalls(Main)
<1>1. CallAt(at) /\ stack = <<>> /\ interpreter # "finalizing"
  BY DEF MainCalls, HostInv, Fits
<1>2. at = "registerModule" => bindings = <<>>
  BY DEF HostInv, Fits
<1>3. \A p \in HookPoints : HookAt(p) \in Hooks
  BY HooksAreMains
<1>4. {HostName, GameName} \subseteq ModuleNames
  BY HostAssumption
<1>5. Initialize(Main) => Shown!Initialize(Main)
  BY ShownInitialize
<1>6. Destroy(Main) => Shown!Destroy(Main)
  BY ShownDestroy
<1>7. Shutdown(Main) => Shown!Shutdown(Main)
  BY <1>1, ShownShutdown
<1>8. \A n : LoadModule(Main, n) => Shown!LoadModule(Main, n)
  BY <1>1, ShownLoad
<1>9. \A h : Call(Main, h) => Shown!Call(Main, h)
  BY ShownCall
<1>10. \A p : AddSearchPath(Main, p) => Shown!AddSearchPath(Main, p)
  BY ShownAddSearchPath
<1>11. bindings = <<>> /\ RegisterModule(Main, HostName)
       => Shown!RegisterModule(Main, HostName)
  BY ShownRegister
<1> QED
  BY <1>1, <1>2, <1>3, <1>4, <1>5, <1>6, <1>7, <1>8, <1>9, <1>10, <1>11
  DEF CallAt, BoundName, Shown!HostCalls

(* main() is a host of the kind the documentation shows: whatever          *)
(* Liberties allow, its steps are steps of a runtime whose host takes no   *)
(* liberty.                                                                *)
THEOREM MainUsesRuntimeAsShown == HostSpec => UsesRuntimeAsShown
<1>1. HostInit => Shown!Init
  <2>1. Shown!NoModules = NoModules
    BY DEF NoModules, Shown!NoModules
  <2> QED
    BY <2>1, ShownRecords, ShownNames DEF HostInit, Init, Shown!Init
<1>2. HostInv /\ [HostNext]_hostVars => [Shown!Next]_(Shown!vars)
  <2> SUFFICES ASSUME HostInv, [HostNext]_hostVars
               PROVE  Shown!Next \/ UNCHANGED Shown!vars
    OBVIOUS
  <2>1. CASE MainCalls
    BY <2>1, ShownCalls, HostAssumption DEF Shown!Next
  <2>2. CASE CodeEnds
    BY <2>2, ShownCodeEnds DEF Shown!Next
  <2>3. CASE CodeImports
    BY <2>3, ShownImports DEF CodeImports, Shown!Next
  <2>4. CASE Validates \/ LocalsGo \/ Exited \/ UNCHANGED hostVars
    <3>1. UNCHANGED vars
      BY <2>4 DEF Validates, LocalsGo, Exited, hostVars
    <3> QED BY <3>1, ShownGroups
  <2> QED BY <2>1, <2>2, <2>3, <2>4 DEF HostNext
<1> QED
  BY <1>1, <1>2, HostInvAlways, PTL
  DEF HostSpec, UsesRuntimeAsShown, Shown!Spec

-----------------------------------------------------------------------------

(* What is proved of a runtime whose host is careful holds of the one      *)
(* main() uses.  Documented is Shown with the theorems: written out, their *)
(* definitions are the same formulas.                                      *)
Documented == INSTANCE ModuleTableProofs WITH Liberties <- {}

LEMMA DocumentedInit == Shown!Init => Documented!Init
BY DEF Documented!Init, Shown!Init, Documented!NoModules,
       Shown!NoModules, Documented!NoRecords, Shown!NoRecords,
       Documented!Keys, Shown!Keys, Documented!NoRecord, Shown!NoRecord,
       Documented!HookKey, Shown!HookKey,
       Documented!NoSysModules, Shown!NoSysModules, Documented!Importable,
       Shown!Importable, Documented!CString, Shown!CString

LEMMA DocumentedNext == Shown!Next => Documented!Next
BY DEF Documented!Next, Shown!Next, Documented!HostCalls,
       Shown!HostCalls, Documented!RegisterModule, Shown!RegisterModule,
       Documented!MayCall, Shown!MayCall, Documented!Refused,
       Shown!Refused, Documented!Return, Shown!Return, Documented!state,
       Shown!state, Documented!lifecycle, Shown!lifecycle,
       Documented!setup, Shown!setup, Documented!tables, Shown!tables,
       Documented!python, Shown!python, Documented!frames, Shown!frames,
       Documented!RegistryAdd, Shown!RegistryAdd, Documented!Initialize,
       Shown!Initialize, Documented!PyIsInitialized,
       Shown!PyIsInitialized, Documented!StartInterpreter,
       Shown!StartInterpreter, Documented!FreshCounters,
       Shown!FreshCounters, Documented!NoRecords, Shown!NoRecords,
       Documented!Keys, Shown!Keys, Documented!HookKey, Shown!HookKey,
       Documented!NoRecord, Shown!NoRecord, Documented!Reversed,
       Shown!Reversed, Documented!EnterBinding, Shown!EnterBinding,
       Documented!BindingObject, Shown!BindingObject,
       Documented!StartFails, Shown!StartFails, Documented!ClearTables,
       Shown!ClearTables, Documented!NoModules, Shown!NoModules,
       Documented!Shutdown, Shown!Shutdown, Documented!OwnsInterpreter,
       Shown!OwnsInterpreter, Documented!Stop, Shown!Stop,
       Documented!Destroy, Shown!Destroy, Documented!AddSearchPath,
       Shown!AddSearchPath, Documented!LoadModule, Shown!LoadModule,
       Documented!Found, Shown!Found, Documented!ScriptObject,
       Shown!ScriptObject, Documented!FromScript, Shown!FromScript,
       Documented!Push, Shown!Push, Documented!Nameless, Shown!Nameless,
       Documented!Call, Shown!Call, Documented!CallFails,
       Shown!CallFails, Documented!NextCount, Shown!NextCount,
       Documented!NoteFailure, Shown!NoteFailure,
       Documented!FailureSignature, Shown!FailureSignature,
       Documented!CallSucceeds, Shown!CallSucceeds,
       Documented!NoteSuccess, Shown!NoteSuccess, Documented!CodeReturns,
       Shown!CodeReturns, Documented!BindingReturns,
       Shown!BindingReturns, Documented!Waiting, Shown!Waiting,
       Documented!Top, Shown!Top, Documented!Pop, Shown!Pop,
       Documented!Below, Shown!Below, Documented!BindingThrows,
       Shown!BindingThrows, Documented!RaisedCodes, Shown!RaisedCodes,
       Documented!BindingThrowsForeign, Shown!BindingThrowsForeign,
       Documented!ImportReturns, Shown!ImportReturns,
       Documented!ImportRaises, Shown!ImportRaises,
       Documented!InvokeEnds, Shown!InvokeEnds, Documented!FinalizeEnds,
       Shown!FinalizeEnds, Documented!ScriptImports, Shown!ScriptImports,
       Documented!OtherPython, Shown!OtherPython,
       Documented!CString, Shown!CString, Documented!Importable,
       Shown!Importable, Documented!Decodable, Shown!Decodable,
       Documented!NoSysModules, Shown!NoSysModules, Documented!Emplaced,
       Shown!Emplaced, Documented!HasNextBinding, Shown!HasNextBinding,
       Documented!NextBindingRefused, Shown!NextBindingRefused,
       Documented!NextBindingNotEntered, Shown!NextBindingNotEntered,
       Documented!Without, Shown!Without, Documented!CanBeImported,
       Shown!CanBeImported, Documented!NotFound, Shown!NotFound,
       Documented!ScriptEdits, Shown!ScriptEdits,
       Documented!InvokeThrowsForeign, Shown!InvokeThrowsForeign

LEMMA DocumentedVars == UNCHANGED Shown!vars => UNCHANGED Documented!vars
BY DEF Documented!vars, Shown!vars, Documented!state, Shown!state,
       Documented!lifecycle, Shown!lifecycle, Documented!setup,
       Shown!setup, Documented!tables, Shown!tables, Documented!python,
       Shown!python, Documented!frames, Shown!frames

LEMMA HostImplementsDocumented == HostSpec => Documented!Spec
<1>1. [Shown!Next]_(Shown!vars) => [Documented!Next]_(Documented!vars)
  BY DocumentedNext, DocumentedVars
<1> QED
  BY <1>1, DocumentedInit, MainUsesRuntimeAsShown, PTL
  DEF UsesRuntimeAsShown, Shown!Spec, Documented!Spec

LEMMA DocumentedIsTidy ==
  /\ Documented!HooksDoNotStop /\ Documented!CarefulHost
  /\ Documented!TidyHost /\ Documented!ImportsOnce /\ Documented!FailuresCaught
BY DEF Documented!HooksDoNotStop, Documented!CarefulHost, Documented!TidyHost,
       Documented!ImportsOnce, Documented!FailuresCaught

(* What ModuleTableProofs assumes of its constants holds here too. *)
LEMMA DocumentedAssumptions ==
  /\ Separator \in Characters
  /\ Hooks \subseteq [module : Documented!Names, function : Documented!Names]
  /\ NoSignature \notin Documented!Signatures
  /\ NoThread \notin Threads
  /\ ModuleNames \subseteq Documented!Names \ {<<>>}
  /\ ScriptNames \subseteq ModuleNames
  /\ \A n \in ScriptNames :
       Documented!CString(n) = n /\ Documented!Decodable(n)
  /\ \A h \in Hooks : h.module \in ModuleNames
  /\ \A e \in Failures : e.code \in Documented!ErrorCodes
  /\ EmptyPath \notin Paths
  /\ Directories \subseteq Paths
  /\ Unencodable \subseteq Directories
  /\ Provides \in [Directories -> SUBSET ScriptNames]
  /\ {MaxBindings, MaxDepth, MaxRuns, MaxStreak} \subseteq Nat
  /\ {} \subseteq Documented!AllLiberties
  /\ NoObject \notin Documented!Object
<1>1. Documented!Names = Names /\ Documented!Object = Object
  BY DEF Documented!Names, Names, Documented!Object, Object
<1>2. Documented!Signatures = Signatures
  BY DEF Documented!Signatures, Signatures, Documented!FailureSignature,
         FailureSignature
<1>3. Documented!ErrorCodes = ErrorCodes
  BY DEF Documented!ErrorCodes, ErrorCodes
<1>4. \A n \in ScriptNames :
        Documented!CString(n) = n /\ Documented!Decodable(n)
  BY NamesAssumption
  DEF CString, Documented!CString, Decodable, Documented!Decodable
<1>5. /\ Separator \in Characters
      /\ Hooks \subseteq [module : Documented!Names, function : Documented!Names]
      /\ NoSignature \notin Documented!Signatures
  BY <1>1, <1>2, SeparatorIsACharacter, HooksAssumption, NoSignatureAssumption
<1>6. NoThread \notin Threads /\ NoObject \notin Documented!Object
  BY <1>1, ThreadsAssumption, NoObjectAssumption
<1>7. \A e \in Failures : e.code \in Documented!ErrorCodes
  BY <1>3, CodesAssumption
<1> QED
  BY <1>1, <1>4, <1>5, <1>6, <1>7, NamesAssumption, PathsAssumption, BoundsAssumption

LEMMA DocumentedLifecycle == Documented!Spec => []Documented!LifecycleInv
<1>1. Documented!CarefulHost => (Documented!Spec => []Documented!LifecycleInv)
  BY DocumentedAssumptions, Documented!LifecycleHolds
<1> QED BY <1>1, DocumentedIsTidy

LEMMA DocumentedTables == Documented!Spec => []Documented!LoadedModulesAreLive
<1>1. Documented!TidyHost /\ Documented!ImportsOnce
      => (Documented!Spec => []Documented!LoadedModulesAreLive)
  BY DocumentedAssumptions, Documented!LoadedModulesStayLive
<1> QED BY <1>1, DocumentedIsTidy

LEMMA DocumentedRuns == Documented!Spec => []Documented!ConfiguredWhenRunning
<1>1. Documented!TidyHost /\ Documented!FailuresCaught
      => (Documented!Spec => []Documented!ConfiguredWhenRunning)
  BY DocumentedAssumptions, Documented!RunsConfigured
<1> QED BY <1>1, DocumentedIsTidy

LEMMA DocumentedInitialize == Documented!Spec => Documented!InitializeIsAtomic
<1>1. Documented!HooksDoNotStop /\ Documented!FailuresCaught
      => (Documented!Spec => Documented!InitializeIsAtomic)
  BY DocumentedAssumptions, Documented!InitializeSucceedsOrStops
<1> QED BY <1>1, DocumentedIsTidy

LEMMA DocumentedBindings == Documented!Spec => Documented!BindingsFrozenWhileApplied
<1>1. Documented!HooksDoNotStop
      => (Documented!Spec => Documented!BindingsFrozenWhileApplied)
  BY DocumentedAssumptions, Documented!BindingsAreFrozen
<1> QED BY <1>1, DocumentedIsTidy

LEMMA DocumentedStates ==
  /\ Documented!LifecycleInv => LifecycleInv
  /\ Documented!LoadedModulesAreLive => LoadedModulesAreLive
  /\ Documented!ConfiguredWhenRunning => ConfiguredWhenRunning
BY DEF LifecycleInv, Documented!LifecycleInv, NoModules, Documented!NoModules,
       OnStack, Documented!OnStack, Waiting, Documented!Waiting, Top,
       Documented!Top, LoadedModulesAreLive, Documented!LoadedModulesAreLive,
       ConfiguredWhenRunning, Documented!ConfiguredWhenRunning, CString,
       Documented!CString

(* Whatever the script of the example does and wherever it fails, also in  *)
(* its exit handlers: no reference and no frame outlives the interpreter,  *)
(* the module tables agree, and the runtime that runs is configured.       *)
(* Nothing is assumed of Liberties, main() is what is known.               *)
THEOREM MainsRuntimeIsSound ==
  HostSpec => /\ []StoppedHoldsNothing
              /\ []NoFrameOutlivesInterpreter
              /\ []LoadedModulesAreLive
              /\ []ConfiguredWhenRunning
<1>1. LifecycleInv => StoppedHoldsNothing /\ NoFrameOutlivesInterpreter
  BY DEF LifecycleInv, StoppedHoldsNothing, NoFrameOutlivesInterpreter
<1> QED
  BY <1>1, HostImplementsDocumented, DocumentedLifecycle, DocumentedTables,
     DocumentedRuns, DocumentedStates, PTL

(* main() sees initialize() succeed or stop, and no callback of its one    *)
(* binding edits the queue, whatever Liberties allow.                      *)
THEOREM MainsInitializeIsAtomic ==
  HostSpec => InitializeIsAtomic /\ BindingsFrozenWhileApplied
<1>1. UNCHANGED vars => UNCHANGED Documented!vars
  BY ShownGroups, DocumentedVars
<1>2. [/\ returned' # returned
       /\ returned'.op = "initialize"
       /\ returned'.code \notin {"entered", "AlreadyInitialized"}
       => (running' <=> returned'.code = "Ok")]_(Documented!vars)
      => [/\ returned' # returned
          /\ returned'.op = "initialize"
          /\ returned'.code \notin {"entered", "AlreadyInitialized"}
          => (running' <=> returned'.code = "Ok")]_vars
  BY <1>1 DEF Documented!vars
<1>3. [Documented!OnStack("binding") => bindings' = bindings]_(Documented!vars)
      => [OnStack("binding") => bindings' = bindings]_vars
  BY <1>1
  DEF OnStack, Documented!OnStack, vars, state, setup, Documented!vars,
      Documented!state, Documented!setup
<1> QED
  BY <1>2, <1>3, HostImplementsDocumented, DocumentedInitialize,
     DocumentedBindings, PTL
  DEF InitializeIsAtomic, Documented!InitializeIsAtomic,
      BindingsFrozenWhileApplied, Documented!BindingsFrozenWhileApplied

=============================================================================
