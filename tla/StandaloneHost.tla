--------------------------- MODULE StandaloneHost ---------------------------
(***************************************************************************)
(* The example host (examples/standalone_host/main.cpp) on top of one      *)
(* runtime: main() from its first registerModule() to the destruction of   *)
(* its locals, composed with the steps of ScriptRuntime.  Its bindings     *)
(* expose classes only, so no script and no callback calls the runtime;    *)
(* everything else scripts do is theirs: bodies and hooks succeed, fail,   *)
(* import, keep what they are handed and write to it; only sys.modules     *)
(* they leave to Python.                                                   *)
(*                                                                         *)
(* at is the call main() makes next, or is in while stack is not empty.    *)
(***************************************************************************)
EXTENDS ScriptRuntime

CONSTANTS
  Main,           \* the thread main() is on
  HostName,       \* "host", the module main() binds
  GameName,       \* "game", the module it loads
  FunctionName,   \* per hook of main(), the name of the function
  FrameCount      \* frames of the loop

HookPoints == {"configure", "on_start", "on_update", "on_shutdown"}

(* The calls without which main() has nothing to run. *)
SetupPoints == {"registerModule", "initialize", "addSearchPath", "loadModule"}

HookAt(point) == [module |-> GameName, function |-> FunctionName[point]]

ASSUME HostAssumption ==
  /\ Main \in Threads
  /\ {HostName, GameName} \subseteq ModuleNames
  /\ HostName \notin ScriptNames
  /\ FrameCount \in Nat \ {0}

ASSUME SysModulesAreLeftAlone == "edited sys.modules" \notin Liberties

ASSUME HostNamesAreText ==
  \A n \in {HostName, GameName} : CString(n) = n /\ Decodable(n)

ASSUME HooksAreMains ==
  /\ FunctionName \in [HookPoints -> Names]
  /\ \A p, q \in HookPoints : FunctionName[p] = FunctionName[q] => p = q
  /\ Hooks = {HookAt(point) : point \in HookPoints}

VARIABLES
  at,         \* where main() is
  frame,      \* frames the loop has finished
  settings,   \* the HostSettings: whether isUsable() holds of them
  objects,    \* the locals that exist: settings and metrics
  status,     \* what main() returns
  failedAt,   \* history: where a call of main() failed
  updates     \* history: per frame, what on_update failed with, if told

mainVars == <<at, frame, settings, objects, status, failedAt, updates>>

hostVars == <<vars, mainVars>>

Locals == {"settings", "metrics"}

Points ==
  {"registerModule", "initialize", "addSearchPath", "loadModule", "validate",
   "shutdown", "giveUp", "destroy", "unwind", "exited"} \cup HookPoints

Update == [signature : Signatures \cup {NoSignature}, told : BOOLEAN]

HostInit ==
  /\ Init
  /\ at = "registerModule" /\ frame = 0
  /\ settings = "usable" /\ objects = Locals
  /\ status = 1 /\ failedAt = {} /\ updates = <<>>

-----------------------------------------------------------------------------

(* Where main() goes when the call it makes at a point succeeds ... *)
OnOk ==
  [registerModule |-> "initialize", initialize |-> "addSearchPath",
   addSearchPath |-> "loadModule", loadModule |-> "configure",
   configure |-> "validate", on_start |-> "on_update",
   on_shutdown |-> "shutdown", shutdown |-> "destroy", giveUp |-> "destroy",
   destroy |-> "unwind"]

OnError_TriesTheLoadAgain ==
  [registerModule |-> "destroy", initialize |-> "destroy",
   addSearchPath |-> "destroy", loadModule |-> "loadModule",
   configure |-> "validate", on_start |-> "on_update",
   on_shutdown |-> "shutdown", shutdown |-> "destroy", giveUp |-> "destroy",
   destroy |-> "unwind"]

OnError_IgnoresTheLoad ==
  [registerModule |-> "destroy", initialize |-> "destroy",
   addSearchPath |-> "destroy", loadModule |-> "configure",
   configure |-> "validate", on_start |-> "on_update",
   on_shutdown |-> "shutdown", shutdown |-> "destroy", giveUp |-> "destroy",
   destroy |-> "unwind"]

(* ... and when it fails: a hook may fail, the setup may not. *)
OnError ==
  [registerModule |-> "destroy", initialize |-> "destroy",
   addSearchPath |-> "destroy", loadModule |-> "giveUp",
   configure |-> "validate", on_start |-> "on_update",
   on_shutdown |-> "shutdown", shutdown |-> "destroy", giveUp |-> "destroy",
   destroy |-> "unwind"]

NextFrame_CountedTwice == frame' = frame + 2

NextFrame == frame' = frame + 1

Policy == "ReportOnce"

(* CallReport::stopRequested, of a failure. *)
StopRequested == Policy = "Stop"

(* CallReport::error is kept back: callWithPolicy() under ReportOnce. *)
Suppressed(h) ==
  /\ Policy = "ReportOnce"
  /\ \E e \in Failures : /\ Repeated(failureRecords, h, e)
                         /\ failureRecords' = NoteFailure(failureRecords, h, e)

(* One frame of the loop ends. *)
FrameEnds ==
  LET h      == HookAt("on_update")
      failed == returned'.code # "Ok"
  IN /\ NextFrame
     /\ updates' = Append(updates,
          [signature |-> failureRecords'[HookKey(h)].lastSignature,
           told      |-> failed /\ ~Suppressed(h)])
     /\ at' = IF (failed /\ StopRequested) \/ frame' = FrameCount
                THEN "on_shutdown" ELSE "on_update"
     /\ UNCHANGED <<status, failedAt>>

(* Any other call is over. *)
CallEnds ==
  /\ at' = IF returned'.code = "Ok" THEN OnOk[at] ELSE OnError[at]
  /\ status' = IF at = "shutdown" /\ returned'.code = "Ok" THEN 0 ELSE status
  /\ failedAt' = IF returned'.code = "Ok" THEN failedAt ELSE failedAt \cup {at}
  /\ UNCHANGED <<frame, updates>>

(* main() goes on when the call it is in has returned. *)
GoesOn ==
  \/ stack' # <<>> /\ UNCHANGED <<at, frame, status, failedAt, updates>>
  \/ stack' = <<>> /\ at = "on_update" /\ FrameEnds
  \/ stack' = <<>> /\ at # "on_update" /\ CallEnds

BoundName_TheScripts == GameName

BoundName == HostName

(* The call main() makes at a point of its own. *)
CallAt(point) ==
  \/ point = "registerModule" /\ RegisterModule(Main, BoundName)
  \/ point = "initialize" /\ Initialize(Main)
  \/ /\ point = "addSearchPath"
     /\ \E p \in Paths \cup {EmptyPath} : AddSearchPath(Main, p)
  \/ point = "loadModule" /\ LoadModule(Main, GameName)
  \/ point \in HookPoints /\ Call(Main, HookAt(point))
  \/ point \in {"shutdown", "giveUp"} /\ Shutdown(Main)
  \/ point = "destroy" /\ Destroy(Main)

MainCalls ==
  /\ stack = <<>>
  /\ CallAt(at)
  /\ GoesOn
  /\ UNCHANGED <<settings, objects>>

(* The code main() waits for is over; configure() is handed the settings   *)
(* by reference.                                                           *)
CodeEnds ==
  /\ \/ BindingReturns \/ BindingThrows
     \/ ImportReturns \/ ImportRaises
     \/ InvokeEnds \/ FinalizeEnds
  /\ GoesOn
  /\ settings' \in IF at = "configure" THEN {"usable", "unusable"}
                                       ELSE {settings}
  /\ UNCHANGED objects

CodeImports ==
  /\ \E n \in ScriptNames : ScriptImports(n)
  /\ UNCHANGED mainVars

(* isUsable() of what the script proposed. *)
Validates ==
  /\ at = "validate"
  /\ at' = IF settings = "usable" THEN "on_start" ELSE "giveUp"
  /\ UNCHANGED <<vars, frame, settings, objects, status, failedAt, updates>>

LocalsGo_BeforeTheRuntime ==
  /\ at = "unwind" \/ (at = "destroy" /\ objects # {})
  /\ objects' = {}
  /\ at' = IF at = "unwind" THEN "exited" ELSE at
  /\ UNCHANGED <<vars, frame, settings, status, failedAt, updates>>

(* The runtime was declared last and is gone; the objects follow it. *)
LocalsGo ==
  /\ at = "unwind"
  /\ objects' = {}
  /\ at' = "exited"
  /\ UNCHANGED <<vars, frame, settings, status, failedAt, updates>>

Exited == at = "exited" /\ UNCHANGED hostVars

HostNext ==
  \/ MainCalls
  \/ CodeEnds
  \/ CodeImports
  \/ Validates
  \/ LocalsGo
  \/ Exited

(* Bodies, hooks and exit handlers end: CPython sets them no limit, but    *)
(* main() can only be as alive as the script it runs.                      *)
HostSpec == HostInit /\ [][HostNext]_hostVars /\ WF_hostVars(HostNext)

-----------------------------------------------------------------------------

(* main()'s variables have their types. *)
HostTypeOK ==
  /\ at \in Points
  /\ frame \in 0..FrameCount
  /\ settings \in {"usable", "unusable"}
  /\ objects \subseteq Locals
  /\ status \in {0, 1}
  /\ failedAt \subseteq Points
  /\ updates \in Seq(Update)

(* The objects scripts get references to outlive the interpreter, also on  *)
(* the path of main() that returns without shutdown() and while exit       *)
(* handlers run: ~ScriptRuntime() comes first.                             *)
LocalsOutlivePython == interpreter # "none" => objects = Locals

(* on_update's failure is printed in the first frame of a streak and       *)
(* whenever it becomes another failure, and in no other frame.             *)
FailureToldOnce ==
  \A i \in 1..Len(updates) :
    updates[i].told <=>
      /\ updates[i].signature # NoSignature
      /\ i > 1 => updates[i - 1].signature # updates[i].signature

SetupFailed == failedAt \cap SetupPoints # {} \/ settings = "unusable"

(* main() calls the hooks of a script it has loaded, and only then.  A     *)
(* setup that fails, or settings it cannot use, cost it every frame and    *)
(* its exit status; a hook that fails, in whatever way, costs it neither.  *)
FramesAndStatusAgree ==
  /\ at \in HookPoints => interpreter = "live" /\ modules[GameName] # NoObject
  /\ at = "exited" =>
       IF SetupFailed THEN status = 1 /\ frame = 0
                      ELSE status = 0 /\ frame = FrameCount

(* main() uses the runtime the way the documentation shows: every step of  *)
(* it is one of a runtime whose host takes no liberty.                     *)
Shown == INSTANCE ScriptRuntime WITH Liberties <- {}

UsesRuntimeAsShown == Shown!Spec

(* The calls main() still makes after a point, but for frames of its loop. *)
CallsLeft ==
  [registerModule |-> 12, initialize |-> 11, addSearchPath |-> 10,
   loadModule |-> 9, configure |-> 8, validate |-> 7, on_start |-> 6,
   on_update |-> 5, on_shutdown |-> 4, shutdown |-> 3, giveUp |-> 3,
   destroy |-> 2, unwind |-> 1, exited |-> 0]

(* With those of its loop, and how far the call is that main() is in: the  *)
(* callback of its one binding may have to be followed by a finalization.  *)
StepsLeft ==
  4 * (CallsLeft[at] + FrameCount - frame)
    + (IF stack = <<>> THEN 3 ELSE IF Top.kind = "binding" THEN 2 ELSE 1)

(* Whatever fails, main() gets nearer to its end with each call and with   *)
(* the end of each piece of code a call waits for: nothing is tried again, *)
(* and a failing hook adds no frame.                                       *)
NeverGoesBack ==
  [][StepsLeft' \in Nat /\ StepsLeft' < StepsLeft]_<<at, frame, stack>>

(* main() returns, whatever fails on the way. *)
MainReturns == <>(at = "exited")

=============================================================================
