# Verification of the maïs scripting runtime

maïs embeds one CPython interpreter in a C++ host and lets the host call Python
hooks. All of its logic is `mais::ScriptRuntime` (`sources/ScriptRuntime.cpp`)
with small helpers around it, and `examples/standalone_host` shows how a host is
meant to use it. This directory holds TLA+ modules translated from that code,
TLC configurations that check them on small instances, and proofs that TLAPS
checks for every instance. Line numbers without a file are those of
`sources/ScriptRuntime.cpp`.

## The system

| Part | State it keeps | Operations | What makes it correct |
|---|---|---|---|
| Interpreter lifecycle | `running`, `ownerThread`, `interpreter`, `tracebackModule` | `initialize`, `shutdown`, destructor, `stop` | `initialize` is atomic; nothing of Python is held, and no frame waits, once the interpreter is gone; a restart starts from zero |
| Binding registration | `bindings` | `registerModule`, `BindingRegistry::add`, `applyBinding`, `removeModule` | every binding is applied, in its own module, before the host gets the runtime; the queue is not edited while it is walked |
| Module loader | `searchPaths`, `modules` | `addSearchPath`, `loadModule`, `isModuleLoaded` | the table agrees with `sys.modules`, which knows a name up to its first NUL; every recorded path Python accepts is in effect, latest first |
| Hook invocation | (C++ frames) | `call`, `callOptional`, typed overloads | a hook gets every argument it was passed, the host learns what the hook did, and nothing of one call leaks into the next |
| Failure accounting | `failureRecords` | `noteFailure`, `noteSuccess`, `callWithPolicy` | a hook's record describes its own streak; suppression is earned |
| Thread affinity | `running`, `ownerThread`, read without synchronization | a check in every operation | a foreign thread is refused, never blocked; the owner never refused |
| Introspection | none | `hasFunction`, `listFunctions` | foretells what `call` would do, or says that it cannot |
| Conversion | none | `convertArgument`, `tryConvertReturnValue`, `convertReturnValue` | total, exact, no error indicator left behind |
| Diagnostics | none | `fromPythonError`, `classifyPythonError`, `formatTraceback`, `extractFrames` | a report always comes; its frames are the innermost ones |
| Standalone host | its loop and its locals | `examples/standalone_host/main.cpp` | every failed step is unwound; its objects outlive Python |
| Boundary and version checks | none | `cmake/`, `scripts/` | configure-time, pure text or arithmetic |

The parts interact by plain calls on one object. What makes them hard is
**re-entry**: `initialize` runs host callbacks, `loadModule` runs module bodies,
`call` runs hooks and `stop` runs Python's exit handlers, and each of those is
host or script code that may call the same object again while the outer call is
half done. The second difficulty is **threads**: the class is meant for one
thread and promises that any other gets `WrongThread`, also in the middle of the
owner's operations, from fields no lock protects. The third is **partial
failure**: every step of `initialize`, an import, the conversion of each
argument and each step of the host's setup may fail after earlier ones took
effect. The fourth is **Python itself**: look-ups, native converters and
traceback formatting run script code in the middle of the runtime's own.

## Modules

| Module | What it is |
|---|---|
| `FailureRecords` | the counter table and its operators: `hookKey`, `failureSignature`, `noteFailure`, `noteSuccess` |
| `CallPolicy` | failure accounting of all `call` overloads; one step is the end of one call |
| `HookStreaks` | the abstract specification of `CallPolicy`: what the header promises of reports, with streaks instead of a keyed table |
| `ScriptRuntime` | lifecycle, bindings, loader, invocation and ownership of one runtime, with re-entry; extends `FailureRecords` |
| `PythonValues` | values, conversions and classification of exceptions, as operators |
| `HookInvocation` | the inside of one call and introspection; extends `PythonValues` |
| `TracebackFrames` | how text and frames of an `Error` are taken from an exception |
| `Ownership` | the abstract specification of `ThreadAffinity`: what the header promises of threads, each call decided in one step |
| `ThreadAffinity` | the guard's reads, the writes of the lifecycle and of the destructor, the GIL, threads and their ids |
| `StandaloneHost` | the example's `main()` composed with `ScriptRuntime`, which it refines |
| `MC...` | instances for TLC |
| `...Proofs` | the theorems of `FailureRecords`, `CallPolicy`, `HookInvocation`, `TracebackFrames`, `ThreadAffinity`, `StandaloneHost`, and of `ScriptRuntime` in two modules: `ScriptRuntimeProofs` and, for the module table, the queue and `initialize()`, `ModuleTableProofs` |

In every module a definition named `X_Mistake` before a definition `X` is `X` with
a plausible bug. No specification uses it; `mutants` in `PROJECT.json` says which
property notices it.

### FailureRecords and CallPolicy

`failureRecords` is the C++ map of the same name, made total: an absent entry and
a default constructed `FailureRecord` behave alike, and no entry with a zero
count is ever left in the map. Names are sequences of characters because
`hookKey` concatenates them; all other texts are abstract values. A failure is a
record of code, exception type, message and traceback; the signature drops the
traceback as `failureSignature` does.

`ErrorReturningCall` is `callImpl`/`callTyped` with `noteOutcome`;
`CallWithPolicy` is `callWithPolicy` after validation; `RejectedCall` is its
early return; `ClearRecords` is the `clear()` of `initialize` and `stop`. Which
errors a call can end with is an input. `report` is the `CallReport` (or the
`Error`) handed to the host, and `streak` is a history variable: the failures of
each hook since its last success, and whether the host was told of each.

`HookStreaks` has no table and no key. Its actions say what the report of a call
must be given the hook's streak. `CallPolicy` implements it under
`streaks <- [h |-> SignaturesOf(streak[h])]`.

### ScriptRuntime

The variables of `Impl` keep their names. `interpreter` is `none`, `live` or
`finalizing`: `unique_ptr::reset` clears the pointer before it finalizes, so a
nested `stop` during finalization finds none. `sysModules`, `sysPath` and
`otherPython` are Python's side, modelled from how the code uses them.

`stack` holds the C++ frames that wait for host or script code: a binding
callback, an import, a hook, or finalization. An operation that runs such code
is split there and nowhere else. `Initialize` goes up to the first callback; a callback
ends in `BindingReturns`, which goes on to the next one, in `NextBindingRefused` or
`NextBindingNotEntered` when the next one cannot be reached, in `BindingThrows` or in
`BindingThrowsForeign`. `LoadModule` is followed by `ImportReturns` or `ImportRaises`;
`Call` by `InvokeEnds` or `InvokeThrowsForeign`; `Stop`, up to finalization, by
`FinalizeEnds`. Between those steps any public function can be called by the code on top
of the stack (`MayCall`), and, while the runtime runs, by every other thread.
`ScriptImports` is an import statement of a script, `ScriptEdits` an assignment to an
entry of `sys.modules` or its deletion. `returned` is an observation: the call that last
entered or left the runtime.

Names are sequences of characters, because two of them can be one name to Python:
`applyBinding` and `loadModule` hand over `name.c_str()` (583, 593, 1153), which ends at
the first NUL, while the runtime's own table keeps the full name (615, 1154). So `modules`
is keyed by the names the host uses and `sysModules` by their `CString`. A name with a NUL
is no liberty: the two tables agree on it as they do on any other
(`LoadedModulesAreLive`), unless another binding or script is that same name to Python.
`removeModule` asks for the full name and finds nothing under one that holds a NUL.
`NotUtf8Names` are the C strings Python cannot decode. `PyModule_New` refuses them (584),
at the first binding (`StartFails`) or at a later one (`NextBindingRefused`), and an
import of one fails.

A thread that does not own the interpreter may call only while `running` is set.
Calls of two threads on a stopped runtime at the same moment are a data race the
header forbids and `ScriptRuntime` does not explore; concurrent access to the
two plain fields is `ThreadAffinity`.

`Liberties` names what host and scripts may do beyond the documented use. The
code refuses none of them.

| Liberty | What it allows | What it breaks |
|---|---|---|
| `name clash` | two bindings, or a binding and a script, that are one name to Python | `LoadedModulesAreLive` (run `NameClash`), `ConfiguredWhenRunning` |
| `load while finalizing` | an exit handler that makes the host load a module | `StoppedHoldsNothing` (run `LoadWhileFinalizing`) |
| `shutdown in callback` | `shutdown()` from a hook or a binding callback | `NoFrameOutlivesInterpreter` (run `ShutdownInCallback`) |
| `load while importing` | a module body that makes the host load that module: recorded (1154) although its import may still fail | `LoadedModulesAreLive` |
| `foreign exception` | a binding callback, or a converter, that throws something not a `std::exception`, which no handler catches (607, 524) | `InitializeIsAtomic` |
| `edited sys.modules` | scripts that replace entries of `sys.modules` or delete them, or take `sys.modules` itself away, so that 592-593, outside of any handler, throw past `initialize()` | `LoadedModulesAreLive`, `ConfiguredWhenRunning`, `InitializeIsAtomic` |

What is left of `InitializeIsAtomic` under the last two is `InitializeLeavesAnOwner`: a
runtime that `initialize()` abandons half configured still runs, belongs to the thread
that called and has no frame behind, so its host can stop it.

A search path whose bytes are not UTF-8 needs no liberty: it is recorded (1124) and then
refused by Python, by `addSearchPath()` at once or by the next `initialize()`, which then
stops. `SearchPathsInEffect` says what that leaves.

### PythonValues and HookInvocation

A Python object is its type and its payload. Integers have the width of
`std::int64_t`, with any bounds as constants; `AsLongLongAndOverflow` is CPython's
function, `-1` for an overflow included. A text is an abstract value; `NotUtf8`
are those that cannot be carried over. `PyCheck` are the check macros, which take
a bool for an int. Exceptions are known by which of the three classes
`classifyPythonError` asks for they derive from, in any combination.

`HookInvocation` is `invoke()` with what it calls, step by step: `BeginCall` is the
look-up (`LookUp` is `getattr` with a default, so an error it raises reads as
`None`, and a name is cut at its first NUL); `ConvertScalar`, `NoConverter`,
`RunConverter` and `HandleOutcome` are `convertArgument` for one argument, with
the moment after a native converter, where Python's error indicator and the
handle may disagree, as a state of its own; `EnterHook`, `HookReturns` and
`HookRaises` are the call and what `callImpl` or `callTyped` makes of it. A converter's
outcome says how it ended, what Python error it threw and what error it left in the
indicator, in any combination: 515-523 fetch the error that was thrown and leave one
that was left, so a converter that does both leaks it. `CarefulConverters` excludes that.

`Rebind` is a script statement: it can come before a call, from a converter in
the middle of one, and from the hook. Which function a name is bound to is not
followed, only whether it is one: the function called is the one looked up.

`HasFunction` and `ListFunctions` are operators, for they only read; `namespace` is the
dictionary and `beyond` what `getattr` finds where the dictionary has nothing. A script
may have put something else than a module under its name in `sys.modules`; that object
has `NoNamespace`, both functions report `InterpreterFailure` for it (1193-1198,
1233-1238), and a call still finds what `getattr` finds. Validation before the look-up
is in `ScriptRuntime`, what follows the result is in `CallPolicy`.

### TracebackFrames

`Raised` enters `fromPythonError`. Text and frames are arguments of one
constructor call, so `FormatTraceback` may come before or after the walk; it runs
Python code that can cut the chain. `CopyEntry` is one turn of the loop of
`extractFrames` with `FrameOf` for the line and `unicodeToUtf8` for the names,
`WalkEnds` and `WalkThrows` its two ends.

### ThreadAffinity

Every read of `running` and `ownerThread` by a guard, and every write of them by
`initialize` and `stop`, is a step. Nothing orders two accesses of one thread for
another thread, so the two reads of a guard, and the two writes of `initialize` or
`stop`, come in either order. This is the set of outcomes for fields
that are read and written whole. The calls that write are serialized, as the
header asks; calls that read are not. `pc` says how far a thread is: `reading`
its guard, `entering` (waiting in `gil_scoped_acquire`), `inside`, and for the
lifecycle `publishing`, `configuring`, `finalizing`, `withdrawing`. Host threads start
and end; a script's threads are started from Python code and may call the runtime;
an id comes back once its thread has ended. Finalization waits for the threads
scripts started.

`Destroys` is the destructor, which goes to `stop()` with no guard at all, and a new
runtime in the place of the old one. Nobody may be in a call on a runtime that is being
destroyed. `headers/mais/ScriptRuntime.hpp:273-277` asks that it be destroyed on the
owner's thread; that is modelled wherever the owner lives. Where the owner has ended, no
thread can keep that rule and any host thread may destroy.

`OwnersStay` is the host's rule that no thread ends while it owns a running interpreter.
Without it a thread can pass for an owner that has ended, or destroy what it left; either
goes to `stop()`, which asks for no GIL. That is undefined, and the model follows such a
thread no further. `addSearchPath()` reads `running` a second time before it asks for the
GIL (1126); a host that serializes it with the calls that write, as the header asks
(268-271), finds there what the guard found, and it is modelled as the other calls are.

`Ownership` has no fields and no GIL: a thread asks, is admitted if it is the owner at
that step and turned away if not, and the interpreter changes hands only when nobody is
inside. It is `headers/mais/ScriptRuntime.hpp:252-277`. `ThreadAffinity` implements it
under `owner <- interpreter` and `place <- [t |-> Place(t)]`, where a thread whose guard
is still being read has not been decided about: the step that completes the guard is the
one that decides, in whichever order the two fields were read.

### StandaloneHost

`at` is the call `main()` makes next, or is in while `stack` is not empty. `CallAt`
maps each point to an action of `ScriptRuntime`; `OnOk` and `OnError` are where
`main()` goes then; `FrameEnds` is one turn of the loop with the failure policy.
`LocalsGo` is the destruction of the objects scripts hold references to, after
`~ScriptRuntime`. The bindings of the example expose classes only, so no code it
waits for calls the runtime. `failedAt` is a history: the points at which a call of
`main()` failed. `FramesAndStatusAgree` judges `main()` by it: a hook that fails costs
neither a frame nor the exit status, a step of the setup that fails, or settings it cannot
use, costs all of them, and no hook is called but on the script that was loaded.

The instance grants the runtime every liberty but `edited sys.modules`
(`SysModulesAreLeftAlone`: the example's script leaves it to Python), with names that
are text (`HostNamesAreText`). `UsesRuntimeAsShown` says `main()` takes none of them: its
specification implements `INSTANCE ScriptRuntime WITH Liberties <- {}`.

## Runs

| Run | Instance | What it shows |
|---|---|---|
| `CallPolicy` | 2 hooks whose names concatenate alike, 3 failures (two differ by traceback only), 2 rejections, streaks up to 3 | counters, suppression and reports are right across all overloads; refinement of `HookStreaks` |
| `ScriptRuntime` | 2 threads, 3 names to bind (one with a NUL, one Python cannot decode), 1 script module under 2 names (one with a NUL), 3 directories (one Python refuses) and a path that does not exist, 2 queued bindings, 2 runs, 3 nested frames, no liberty | every promise of the runtime holds under documented use |
| `ScriptRuntimeLiberties` | 2 threads, fewer names and one directory, one failure (the one every failing step can end with), 1 run, 2 nested frames, every liberty but `shutdown in callback` | what holds without trusting the host |
| `HookInvocation` | integers -4..3, names `f`, the private `_f`, one that is not UTF-8 and one that is not behind `f` and a NUL; 6 argument lists, 9 ways a converter ends, 5 exceptions, objects with a dictionary and without | arguments arrive, results tell what happened, the error indicator never leaks, introspection agrees with the call |
| `TracebackFrames` | a limit of 2 frames, tracebacks of 0 to 4 entries of 4 kinds | the frames are the innermost ones, each step brings the report nearer, and every error is reported |
| `ThreadAffinity` | 2 host threads, 1 script thread, 3 ids; the destructor, too | refinement of `Ownership`: only the owner enters, and it always does; the GIL stays with it and its scripts; every call returns |
| `StandaloneHost` | 3 frames, 4 hooks, 2 failures, 3 paths, every liberty but `edited sys.modules` | `main()` exits and tries nothing again, with the status its setup deserves; it uses the runtime as shown and tells each failure once |
| `NameClash`, `LoadWhileFinalizing`, `ShutdownInCallback` | `ScriptRuntime` with one liberty | a sentence of a comment or a document the code does not keep |
| `GetattrRaises` | `HookInvocation` | an error of a module-level `__getattr__` is never reported |
| `OwnerThreadExits` | `ThreadAffinity` without `OwnersStay` | a reused id passes for the owner and its call blocks on the GIL |

`findings` in `PROJECT.json` quotes the sentence each of the last five refutes.

**Bounds.** `MaxStreak` 3 in `CallPolicy` lets a failure repeat, change and repeat
again, which is where suppression could go wrong; the hooks chosen have the same
concatenation, so dropping the separator merges them. In `ScriptRuntime` two bindings
allow a failure after a success (the second may be the one Python cannot decode), the
script's second name is where the two tables have different keys, two runs allow a
restart (the run with liberties has one run: its properties relate a call to the
interpreter it is in), three frames allow a call inside a hook inside a callback; a
streak of one is enough for a record to survive (or not) a restart. Its bounds stand in
the guards of `RegisterModule` (`MaxBindings`), `Push` (`MaxDepth`), `StartInterpreter`
(`MaxRuns`) and `CallFails`, `StreakContinues` (`MaxStreak`). Three-bit integers have
both bounds, their neighbours outside and -1, the only values the conversion treats
apart. A window of two with four entries is filled, overflows and overflows again. Two
host threads are an owner and another, which change places; three ids are as many as
threads, so a thread that starts gets the id of one that ended. Three frames tell a
failure that starts, repeats and changes.

Threads are symmetric in the `ScriptRuntime` runs, which check no liveness.
Deadlock is not checked there either: after `MaxRuns` the instance may stop; nor in
`OwnerThreadExits`, where a thread whose behaviour is undefined is followed no further.
It is checked in every other run.

**Fairness.** The runtime has no thread, queue or retry of its own: in `CallPolicy`,
`ScriptRuntime` and `HookInvocation` every step is a call of the host or the end
of code it called, nothing obliges either, and no fairness is assumed. Elsewhere:

- `TracebackFrames`: weak fairness of formatting and walking. Both run on the
  thread that reports, without a wait; throwing (`WalkThrows`) is not assumed.
- `ThreadAffinity`: weak fairness of the runtime's own steps on each thread
  (`Continues`: no step of it waits but the one that takes the GIL) and of giving
  the GIL up (`Yields`: CPython's switch interval); strong fairness of taking it
  (`Takes`: CPython passes the GIL on to waiting threads in the end) and of
  hooks, callbacks and script threads ending (`PythonEnds`), which is an
  assumption about scripts. No call is obliged to begin, and no thread to start.
- `StandaloneHost`: weak fairness of the program as a whole, which is one thread;
  it includes that bodies and hooks end. A host that calls a hook without end
  waits without end; the runtime has no timeout.

## What is proved

The proofs hold for every value of the constants that satisfies the named
assumptions of the modules; the bounds appear as arbitrary naturals. Where a
property needs a rule the code does not enforce, the rule is a hypothesis of the
theorem, and the runs above show what goes wrong without it.

| Hypothesis | What it says | Used for |
|---|---|---|
| `NamesAreUnambiguous` | no name holds the separator of `hookKey` | records and streaks in `CallPolicyProofs` |
| `HooksDoNotStop` | no `shutdown in callback` | `NoFrameOutlivesInterpreter`, `BindingsFrozenWhileApplied`, `InitializeLeavesAnOwner`; with `NamesAreUnambiguous`, `CountersAreOfThisRun` |
| `HooksDoNotStop`, `FailuresCaught` | and no `foreign exception`, no `edited sys.modules` | `InitializeIsAtomic` |
| `CarefulHost` | no `shutdown in callback`, no `load while finalizing` | `LifecycleInv`, `StoppedHoldsNothing` |
| `TidyHost`, `ImportsOnce` | `CarefulHost`, no `name clash`, no `edited sys.modules`; no `load while importing` | `LoadedModulesAreLive` |
| `TidyHost`, `FailuresCaught` | `CarefulHost`, no `name clash`, no `edited sys.modules`; no `foreign exception` | `ConfiguredWhenRunning` |
| `CarefulConverters` | a converter that throws a Python error, or past the runtime, leaves no other Python error behind | `IndicatorClear` |
| `OwnersStay` | no thread ends that owns a running interpreter | the properties in `ThreadAffinityProofs`, but for types and `NobodyElseStopsIt` |

A liberty that no hypothesis of a theorem excludes does not break its property, alone or
with the others. `TypeOK`, `SearchPathsInEffect` and `ForeignThreadsChangeNothing` of
`ScriptRuntime` need no hypothesis.

**FailureRecordsProofs.** Keys identify hooks when no name holds the separator
(`HookKeyInjective`): a key is read back from its first separator (`KeyLayout`). The
lemmas that follow from it (`KeysIdentifyHooks`, `NoteTypes`) serve both modules that keep
records.

**CallPolicyProofs.** A record describes its hook's streak, suppression is earned,
records are not shared and the table implements `HookStreaks`.
`RecordDescribesStreak` is inductive with `TypeOK`. `SuppressedOnlyAfterTold` needs
it: a suppressed failure repeats the record's signature, that signature is that of
the streak's last failure, and whatever covered that one covers the new one.

**ScriptRuntimeProofs.** The invariant comes in three parts, each under the rules it
needs. `OwnerInv`, with no rule: `running` and the interpreter agree, and frames are on
the owner's thread. So whatever leaves a frame is the owner's, and
`ForeignThreadsChangeNothing` follows. `FrameInv`, if callbacks do not shut the runtime
down: which frames can wait in each state of the interpreter. It gives
`NoFrameOutlivesInterpreter`, and `BindingsFrozenWhileApplied` because a binding frame
means a running runtime, where `registerModule` refuses. `HoldsInv`, if exit handlers
do not load either: what the runtime holds in each state. Together they are
`LifecycleInv`, which is inductive where `StoppedHoldsNothing` is not: that one says
nothing of the exit handlers still running. `InitializeIsAtomic` needs that a
finalization `initialize()` waits for carries a failure (`FailurePending`), which holds
with no rule at all. `InitializeLeavesAnOwner` follows from `OwnerInv` and `FrameInv`: the
owner is named before the first callback, and a callback that ends leaves no other binding
below it. `CountersAreOfThisRun` is inductive with the fact that a hook that runs has its
module in the table (`InvokedAreLoaded`): the outcome of a call is booked when it ends, so
it must not be able to end in another run than it began in. `PathsTakeEffect` orders
`sys.path` by the queue it was filled from, over restarts.

**ModuleTableProofs.** `LoadedModulesAreLive` and `ConfiguredWhenRunning` need to know
how far `initialize()` is: `TableInv` says that while the callback of a binding runs,
those before it are in both tables, it is in `sys.modules` only and those after it in
neither (`QueueApplied`); that names of bindings and scripts stay apart as Python reads
them (`NamesApart`); that a module whose body still runs is not recorded and not
imported again (`ImportsApart`). The rules on imports and on what leaves `initialize()`
uncaught are conditions inside the invariant, so that each theorem asks only for its
own.

**HookInvocationProofs.** `ConversionIsExact`: for integers of any width an object is
converted exactly when the host may read it as the type asked for, and to its own
value. `ScalarsRoundTrip`: a scalar handed over and back reads as itself, and as no
other type. All six invariants of the run follow; `HookGetsItsArguments` is
proved from the stronger `Underway`: at every moment what was converted so far
are the first arguments in order, and the function was found and has not run.

**TracebackFramesProofs.** For every limit and traceback, the window holds the
innermost of the entries walked so far (`WindowInv`), also if formatting cut the
chain before; hence `FramesAreInnermost`. The same invariant bounds how far the walk can
be, so that `StepsLeft` is a natural number which every step lowers
(`EachStepIsProgress`): the part of `EveryErrorIsReported` that is a safety property.
What is left to the model checker is that a step is always possible.

**ThreadAffinityProofs.** For any number of threads, `OnlyTheOwnerEnters`,
`FieldsNameTheOwner` and `OwnerIsNotRefused`. The invariant relates the half-written
fields to the writer's progress (`OwnerField`, `RunningField`) and says what a
guard that is half through can have read (`GuardsKnow`): no thread but the
owner ever reads its own id, in whichever order it reads, because ids of living
threads differ and an owner's id is withdrawn before the owner may end.
With it each step of `ThreadAffinity` is one of `Ownership` or none
(`GuardsDecideAtOnce`); that nobody is inside when an interpreter starts is what the
host's serialization of the writing calls is for (`OneWriter`).
`GilHeldByOwnerOrScripts` is the safety part of `EveryCallReturns`: whoever waits for the
GIL waits for the owner or for a live thread of a script, and between its calls the owner
holds it (`HolderFits`, `OwnerHolds`). The last theorem, `NobodyElseStopsIt`, drops
`OwnersStay`. An owner that ends takes the GIL with it (`OwnerGone`) and leaves its id in
`ownerThread` (`IdLeft`); from then on no step changes interpreter, GIL or fields, and no
thread gets past a refusal, but for the two the code cannot tell: a destructor, which asks
nothing (`headers/mais/ScriptRuntime.hpp:273-277`), and a thread that was given the dead
owner's id. What either does in `stop()` is undefined, and the theorem ends there.

**StandaloneHostProofs.** Nothing is assumed of `Liberties` but
`SysModulesAreLeftAlone`. `main()` waits for at most one frame, and of the kind its
point says (`Fits`); with the progress of the loop that gives `LocalsOutlivePython` and
the refinement `UsesRuntimeAsShown`. For `FramesAndStatusAgree` the invariant also
relates where `main()` is to what has failed so far (`Verdict`): a point of the straight
path is reached only if no step of the setup failed, `giveUp` only if one did. The
theorems of `ScriptRuntimeProofs` and `ModuleTableProofs` are instantiated for the
runtime of that refinement (`Documented`), which has no liberties, so `main()`'s runtime
keeps its promises although it is an instance that would allow them
(`MainsRuntimeIsSound`, `MainsInitializeIsAtomic`). `FailureToldOnce` and `HostTypeOK`
rest on a second invariant, `ReportInv`: while `main()` is on its way to the loop or in
it, the signature the failure table holds for `on_update` is that of the last frame, or
none before the first. It is needed because `FailureToldOnce` speaks of the history
only, and whether a failure is told is read from the table; it is kept because the other
hooks of `main()` have other names, hence other keys. `NeverGoesBack` is the safety part
of `MainReturns`: a number, `StepsLeft`, falls with each call of `main()` and with each
end of code a call waits for, and stays natural. It needs `OneBinding`: the queue holds
one module, so a callback that returns is the last. What is left to the model checker is
that the code called does end.

Only model-checked: the liveness properties (`EveryErrorIsReported`,
`EveryCallReturns`, `MainReturns`), which are out of the prover's reach.

## Where comments and documents say something else

Besides the five refuted runs, reading and modelling met these sentences. The
modules follow the code.

| Sentence | Code |
|---|---|
| `docs/ERROR_HANDLING.md:160` "raises \| no value \| `InvocationFailed` + traceback" | `classifyPythonError` (145-157) reports a raised `AttributeError`, `TypeError` or `ModuleNotFoundError` as `FunctionNotFound`, `TypeMismatch` or `ModuleNotFound`. `exceptionType()` tells them apart (`SilenceIsOptional`, `ResultTellsOutcome`) |
| `docs/ERROR_HANDLING.md:314` "non-callable \| `TypeMismatch`, the same `call()` reports" | a name bound to `None` is a missing function to `call()` (733) and a `TypeMismatch` to `hasFunction()`; `IntrospectionForetellsCall` states both |
| `docs/ERROR_HANDLING.md:131-132` "Conversion failures never crash and never leave a Python error set for the next call" | a converter that throws something not a `std::exception` unwinds `call()` itself, and what it left in the indicator stays (524); hence `CarefulConverters` |
| `headers/mais/Error.hpp:66` "A value could not be converted between C++ and Python" (`TypeMismatch`) | a string argument that is not UTF-8 makes `py::cast` throw (498), reported as `InvocationFailed` |
| 1256-1257 "A string that cannot be encoded as UTF-8 cannot be passed to call() either" | the names that are listed may hold a NUL, and those `call()` cuts short; names that read the same as a C string are the scope of `IntrospectionForetellsCall` |
| 329-330 "such a name cannot resolve to a Python module or attribute, so the calls whose streaks get merged fail either way" | `setattr` and `sys.modules` accept any string, the separator included; hence `NamesAreUnambiguous` |
| 364 "False until initialize() succeeds" | `running` is set before paths and bindings are applied, so callbacks find a running runtime; `ConfiguredWhenRunning` speaks of when `initialize()` has let go |
| `headers/mais/BindingRegistry.hpp:83` "populates the module before it becomes importable" | 590-593 register it before the callback runs, deliberately |

## What is not modelled, and why

- Wording of messages, `Error::toString`, `errorCodeName`, `duration`: they format,
  and no property depends on them. This is why Diagnostics is modelled partly.
- Which file an import finds: `Provides` says which directory has which module.
- Calls of two threads that write the lifecycle at the same moment, which the
  header forbids, and daemon threads of scripts, which Python stops at
  finalization wherever they are.
- `~ScriptRuntime()` on another thread than the living owner's, `addSearchPath()` on a
  thread while another starts or stops the interpreter, and anything a thread does in
  `stop()` that is not the owner: the header forbids the first two, and all are undefined.
- `sys.path` edited by scripts. `sys.modules` replaced as a whole, but for what 592-593
  then do; a `UnicodeDecodeError` that `PyModule_New` leaves pending while exit handlers
  run (584-588 fetch no error).
- Which function a name is bound to when it is bound again during a call.
- What the example prints, but for the failures of `on_update`.
- pybind11 and CPython beyond what the code relies on; vendored libraries.
- Boundary scans, version arithmetic, tests, benchmarks, build, documentation and
  CI: no run-time state.

`PROJECT.json` maps each definition to the lines it models and each hazard to the
properties about it.
