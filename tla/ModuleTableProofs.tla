------------------------- MODULE ModuleTableProofs -------------------------
(***************************************************************************)
(* What ScriptRuntime's own table of modules, Python's sys.modules and the *)
(* queue of bindings have to do with each other, when the table is keyed   *)
(* by a name and sys.modules by the C string of it.                        *)
(*                                                                         *)
(* While initialize() walks the queue, the bindings before the current one *)
(* are in both tables, the current one is in sys.modules and the rest in   *)
(* neither; and a module whose body still runs is not in the runtime's     *)
(* table.  That is what keeps the tables in step when an import fails or   *)
(* the next binding is created.                                            *)
(*                                                                         *)
(* The host is assumed to keep names apart and to leave a closing          *)
(* interpreter alone, and scripts to leave sys.modules alone.  Where one   *)
(* more liberty would break a part of the invariant, that part says so,    *)
(* and the rest is proved with it.                                         *)
(***************************************************************************)
EXTENDS ScriptRuntimeProofs

TidyHost ==
  /\ CarefulHost
  /\ "name clash" \notin Liberties
  /\ "edited sys.modules" \notin Liberties

(* No script loads a module whose body still runs. *)
ImportsOnce == "load while importing" \notin Liberties

(* To Python, no two bindings have one name, and no script has the name of *)
(* a binding.                                                              *)
NamesApart ==
  \A i \in 1..Len(bindings) :
    /\ CString(bindings[i]) \notin ScriptNames
    /\ \A j \in 1..Len(bindings) :
         i # j => CString(bindings[i]) # CString(bindings[j])

(* Modules whose body still runs are scripts; unless one of them loads     *)
(* itself, each is there once, and none is recorded.                       *)
ImportsApart ==
  \A i \in 1..Len(stack) :
    stack[i].kind = "import" =>
      /\ CString(stack[i].name) \in ScriptNames
      /\ ImportsOnce =>
           /\ \A m \in ModuleNames :
                CString(m) = CString(stack[i].name) => modules[m] = NoObject
           /\ \A j \in 1..Len(stack) :
                stack[j].kind = "import" /\ i # j =>
                  CString(stack[i].name) # CString(stack[j].name)

(* The binding initialize() is at, or 0. *)
Current ==
  IF stack # <<>> /\ stack[1].kind = "binding" THEN stack[1].index ELSE 0

(* How far the queue is applied. *)
BindingAt(j) ==
  LET n == bindings[j]
      c == CString(n)
  IN /\ Current = 0 \/ j < Current =>
          /\ sysModules[c] = BindingObject(run, j)
          /\ modules[n] = BindingObject(run, j)
     /\ j = Current => sysModules[c] = BindingObject(run, j)
     /\ Current # 0 /\ j > Current => sysModules[c] = NoObject

(* A binding that throws something else leaves the queue where it was. *)
QueueApplied ==
  interpreter = "live" =>
    /\ Current \in 0..Len(bindings)
    /\ Current # 0 \/ FailuresCaught => \A j \in 1..Len(bindings) : BindingAt(j)

EmptyWithoutPython == interpreter = "none" => sysModules = NoSysModules

(* The names on which the two tables must agree. *)
Settled ==
  IF ImportsOnce THEN ModuleNames
                 ELSE {n \in ModuleNames : CString(n) \notin ScriptNames}

TablesAgree ==
  \A n \in Settled : modules[n] # NoObject => modules[n] = sysModules[CString(n)]

TableInv ==
  /\ NamesApart
  /\ ImportsApart
  /\ QueueApplied
  /\ EmptyWithoutPython
  /\ TablesAgree

(* What every step of this module may use. *)
Known == TypeOK /\ LifecycleInv /\ TableInv

LEMMA BindingObjects ==
  ASSUME NEW k \in Nat, NEW j \in Nat
  PROVE  BindingObject(k, j) \in Object /\ BindingObject(k, j) # NoObject
BY NoObjectAssumption DEF BindingObject, Object

LEMMA NoEntries ==
  ASSUME NEW n \in ModuleNames
  PROVE  NoModules[n] = NoObject /\ NoSysModules[CString(n)] = NoObject
BY CStrings DEF NoModules, NoSysModules

LEMMA ScriptsAreImportable ==
  ASSUME NEW n \in ScriptNames
  PROVE  n \in ModuleNames /\ n \in Importable /\ CString(n) = n
BY NamesAssumption, CStrings

-----------------------------------------------------------------------------

(* A runtime that is not live holds no module, so little is left to show.  *)
LEMMA NotLive ==
  ASSUME TypeOK', LifecycleInv', interpreter' # "live", NamesApart',
         EmptyWithoutPython'
  PROVE  TableInv'
<1>1. modules' = NoModules
  BY DEF LifecycleInv, TypeOK
<1>2. TablesAgree'
  BY <1>1, NoEntries DEF TablesAgree, Settled
<1>3. \A i \in 1..Len(stack') : stack'[i].kind # "import"
  BY DEF LifecycleInv, TypeOK, Waiting, Top
<1>4. ImportsApart'
  BY <1>3 DEF ImportsApart
<1>5. QueueApplied'
  BY DEF QueueApplied
<1> QED BY <1>2, <1>4, <1>5 DEF TableInv

(* A frame of another kind is pushed, or popped. *)
LEMMA PushApart ==
  ASSUME TypeOK, LifecycleInv, interpreter = "live", ImportsApart,
         QueueApplied, NEW frame \in Frame, stack' = Append(stack, frame),
         frame.kind = "invoke", UNCHANGED <<bindings, modules>>
  PROVE  ImportsApart' /\ Current' = Current
<1>1. /\ Len(stack) \in Nat /\ Len(stack') = Len(stack) + 1
      /\ stack'[Len(stack) + 1] = frame /\ stack' # <<>>
      /\ \A i \in 1..Len(stack) : stack'[i] = stack[i]
  BY AppendType DEF TypeOK
<1>2. \A i \in 1..Len(stack') :
        stack'[i].kind = "import" => i \in 1..Len(stack) /\ stack'[i] = stack[i]
  BY <1>1
<1>3. ImportsApart'
  BY <1>2 DEF ImportsApart
<1>4. Current' = Current
  <2>1. CASE stack = <<>>
    BY <1>1, <2>1 DEF Current
  <2>2. CASE stack # <<>>
    <3>1. stack'[1] = stack[1]
      BY <1>1, <2>2 DEF TypeOK
    <3> QED BY <1>1, <2>2, <3>1 DEF Current
  <2> QED BY <2>1, <2>2
<1> QED BY <1>3, <1>4

LEMMA PopApart ==
  ASSUME TypeOK, LifecycleInv, interpreter = "live", stack # <<>>,
         stack' = Below, Top.kind # "binding", UNCHANGED bindings
  PROVE  /\ Len(stack') = Len(stack) - 1 /\ Len(stack) \in Nat
         /\ \A i \in 1..Len(stack') : i \in 1..Len(stack) /\ stack'[i] = stack[i]
         /\ Current' = Current
<1>1. /\ Len(stack) \in Nat /\ Len(stack) >= 1 /\ Len(stack') = Len(stack) - 1
      /\ \A i \in 1..Len(stack') : stack'[i] = stack[i]
      /\ stack' \in Seq(Frame)
  BY BelowType DEF Below, TypeOK
<1>2. \A i \in 1..Len(stack') : i \in 1..Len(stack)
  BY <1>1
<1>3. CASE Len(stack) = 1
  <2>1. stack' = <<>>
    BY <1>1, <1>3
  <2>2. stack[1] = Top
    BY <1>3 DEF Top
  <2> QED BY <1>1, <1>2, <2>1, <2>2 DEF Current
<1>4. CASE Len(stack) # 1
  <2>1. stack' # <<>> /\ stack'[1] = stack[1]
    BY <1>1, <1>4
  <2> QED BY <1>1, <1>2, <2>1 DEF Current
<1> QED BY <1>3, <1>4, <1>1

(* What the queue has to do with names of scripts. *)
LEMMA ScriptsAreNotBindings ==
  ASSUME NamesApart, QueueApplied, UNCHANGED <<bindings, interpreter, run>>,
         Current' = Current, NEW n \in ScriptNames,
         \A m \in ModuleNames : CString(m) # n =>
           /\ modules'[m] = modules[m]
           /\ sysModules'[CString(m)] = sysModules[CString(m)],
         bindings \in Seq(ModuleNames)
  PROVE  QueueApplied' /\ NamesApart'
<1>1. \A j \in 1..Len(bindings) :
        bindings[j] \in ModuleNames /\ CString(bindings[j]) # n
  BY DEF NamesApart
<1>2. NamesApart'
  BY DEF NamesApart
<1>3. ASSUME interpreter = "live", NEW j \in 1..Len(bindings),
             Current # 0 \/ FailuresCaught
      PROVE  BindingAt(j)'
  BY <1>1, <1>3 DEF QueueApplied, BindingAt, BindingObject
<1>4. QueueApplied'
  BY <1>3 DEF QueueApplied
<1> QED BY <1>2, <1>4

-----------------------------------------------------------------------------

(* One lemma per kind of step. *)

LEMMA TablesUntouched ==
  ASSUME Known,
         UNCHANGED <<interpreter, run, bindings, modules, sysModules, stack>>
  PROVE  TableInv'
<1>1. NamesApart' /\ ImportsApart'
  BY DEF Known, TableInv, NamesApart, ImportsApart
<1>2. \A j : BindingAt(j)' <=> BindingAt(j)
  BY DEF BindingAt, Current, BindingObject
<1>3. QueueApplied'
  BY <1>2 DEF Known, TableInv, QueueApplied, Current
<1> QED
  BY <1>1, <1>3
  DEF Known, TableInv, EmptyWithoutPython, TablesAgree

LEMMA StopKeepsTables ==
  ASSUME Known, TypeOK', LifecycleInv', NEW op, NEW t, NEW code, NEW waiting,
         Stop(op, t, code, waiting), NamesApart',
         interpreter # "live" => UNCHANGED sysModules
  PROVE  TableInv'
<1>1. interpreter' # "live" /\ (interpreter' = "none" => interpreter = "none")
  BY DEF Stop
<1>2. EmptyWithoutPython'
  BY <1>1 DEF Known, TableInv, EmptyWithoutPython
<1> QED BY <1>1, <1>2, NotLive

LEMMA NamesStayApart ==
  ASSUME NamesApart, bindings' = bindings \/ bindings' = <<>>
  PROVE  NamesApart'
BY DEF NamesApart

LEMMA RegisterKeepsTables ==
  ASSUME TidyHost, Known, TypeOK', LifecycleInv',
         NEW t \in Threads, NEW n \in ModuleNames \cup {<<>>},
         RegisterModule(t, n)
  PROVE  TableInv'
<1>1. CASE UNCHANGED state
  BY <1>1, TablesUntouched DEF state, lifecycle, setup, tables, python, frames
<1>2. CASE /\ ~running
           /\ CString(n) \notin ScriptNames
           /\ \A i \in 1..Len(bindings) : CString(bindings[i]) # CString(n)
           /\ RegistryAdd(n)
           /\ UNCHANGED <<lifecycle, tables, python, frames>>
  <2>1. interpreter' # "live" /\ UNCHANGED <<interpreter, sysModules>>
    BY <1>2 DEF Known, LifecycleInv, lifecycle, python
  <2>2. bindings \in Seq(ModuleNames) /\ n \in ModuleNames
        /\ bindings' = Append(bindings, n)
    BY <1>2 DEF Known, TypeOK, RegistryAdd
  <2>3. /\ Len(bindings) \in Nat /\ Len(bindings') = Len(bindings) + 1
        /\ bindings'[Len(bindings) + 1] = n
        /\ \A i \in 1..Len(bindings) : bindings'[i] = bindings[i]
    BY <2>2, AppendType
  <2>4. NamesApart'
    BY <1>2, <2>3 DEF Known, TableInv, NamesApart
  <2>5. EmptyWithoutPython'
    BY <2>1 DEF Known, TableInv, EmptyWithoutPython
  <2> QED BY <2>1, <2>4, <2>5, NotLive
<1> QED
  BY <1>1, <1>2 DEF RegisterModule, Refused, TidyHost

LEMMA StartKeepsTables ==
  ASSUME Known, TypeOK', LifecycleInv', NEW t, ~PyIsInitialized,
         StartInterpreter(t)
  PROVE  TableInv'
<1>1. /\ interpreter = "none" /\ stack = <<>>
      /\ modules = NoModules /\ sysModules = NoSysModules
  BY DEF PyIsInitialized, Known, LifecycleInv, TableInv, EmptyWithoutPython
<1>2. /\ UNCHANGED <<bindings, modules>> /\ interpreter' = "live"
      /\ run' = run + 1 /\ bindings \in Seq(ModuleNames)
  BY DEF StartInterpreter, setup, Known, TypeOK
<1>3. NamesApart'
  BY <1>2, NamesStayApart DEF Known, TableInv
<1>4. TablesAgree' /\ EmptyWithoutPython'
  BY <1>1, <1>2, NoEntries DEF TablesAgree, Settled, EmptyWithoutPython
<1>5. CASE bindings = <<>>
  <2>1. stack' = <<>>
    BY <1>1, <1>5 DEF StartInterpreter, frames
  <2>2. ImportsApart' /\ QueueApplied'
    BY <1>2, <1>5, <2>1 DEF ImportsApart, QueueApplied, Current
  <2> QED BY <1>3, <1>4, <2>2 DEF TableInv
<1>6. CASE bindings # <<>>
  <2> DEFINE frame == [kind |-> "binding", index |-> 1]
  <2>1. /\ sysModules' =
             [sysModules EXCEPT ![CString(bindings[1])] = BindingObject(run + 1, 1)]
        /\ stack' = Append(stack, frame)
    BY <1>6 DEF StartInterpreter, EnterBinding
  <2>2. frame.kind = "binding" /\ frame.index = 1
    OBVIOUS
  <2> HIDE DEF frame
  <2>3. stack' = <<frame>>
    BY <1>1, <2>1
  <2>4. /\ stack' # <<>> /\ stack'[1] = frame
        /\ \A i \in 1..Len(stack') : i = 1
    BY <2>3
  <2>5. Current' = 1
    BY <2>2, <2>4 DEF Current
  <2>6. ImportsApart'
    BY <2>2, <2>4 DEF ImportsApart
  <2>7. /\ Len(bindings) \in Nat /\ Len(bindings) >= 1
        /\ \A j \in 1..Len(bindings) : bindings[j] \in ModuleNames
    BY <1>2, <1>6
  <2>8. ASSUME NEW j \in 1..Len(bindings)
        PROVE  BindingAt(j)'
    <3>1. j \in Int /\ j >= 1
      BY <2>7
    <3>2. CASE j = 1
      <4>1. sysModules'[CString(bindings[1])] = BindingObject(run', 1)
        BY <1>1, <1>2, <2>1, <2>7, CStrings DEF NoSysModules
      <4> QED BY <1>2, <2>5, <3>2, <4>1 DEF BindingAt, BindingObject
    <3>3. CASE j # 1
      <4>1. CString(bindings[j]) # CString(bindings[1])
        BY <2>7, <3>3 DEF Known, TableInv, NamesApart
      <4>2. sysModules'[CString(bindings[j])] = NoObject
        BY <1>1, <2>1, <2>7, <4>1, CStrings DEF NoSysModules
      <4> QED BY <1>2, <2>5, <3>1, <3>3, <4>2 DEF BindingAt
    <3> QED BY <3>2, <3>3
  <2>9. QueueApplied'
    BY <1>2, <2>5, <2>7, <2>8 DEF QueueApplied
  <2> QED BY <1>3, <1>4, <2>6, <2>9 DEF TableInv
<1> QED BY <1>5, <1>6

LEMMA InitializeKeepsTables ==
  ASSUME Known, TypeOK', LifecycleInv', NEW t \in Threads, Initialize(t)
  PROVE  TableInv'
<1>1. CASE UNCHANGED state
  BY <1>1, TablesUntouched DEF state, lifecycle, setup, tables, python, frames
<1>2. CASE ~PyIsInitialized /\ StartInterpreter(t)
  BY <1>2, StartKeepsTables
<1>3. CASE ~PyIsInitialized /\ StartFails(t)
  <2>1. interpreter' # "live" /\ UNCHANGED <<interpreter, sysModules, bindings>>
    BY <1>3 DEF PyIsInitialized, StartFails, lifecycle, setup, python
  <2>2. NamesApart' /\ EmptyWithoutPython'
    BY <2>1, NamesStayApart DEF Known, TableInv, EmptyWithoutPython
  <2> QED BY <2>1, <2>2, NotLive
<1> QED BY <1>1, <1>2, <1>3 DEF Initialize, Refused

LEMMA StopsKeepTables ==
  ASSUME Known, TypeOK', LifecycleInv', NEW t \in Threads,
         Shutdown(t) \/ Destroy(t)
  PROVE  TableInv'
<1>1. CASE UNCHANGED state
  BY <1>1, TablesUntouched DEF state, lifecycle, setup, tables, python, frames
<1>2. ASSUME NEW op, NEW code, NEW waiting, Stop(op, t, code, waiting),
             bindings' = bindings \/ bindings' = <<>>, UNCHANGED python
      PROVE  TableInv'
  BY <1>2, StopKeepsTables, NamesStayApart DEF python, Known, TableInv
<1>3. CASE Shutdown(t)
  BY <1>1, <1>2, <1>3 DEF Shutdown, Refused, setup
<1>4. CASE Destroy(t)
  BY <1>2, <1>4 DEF Destroy, setup
<1> QED BY <1>3, <1>4

-----------------------------------------------------------------------------

(* A module Python finds on the search path is a script's. *)
LEMMA FoundIsScript ==
  ASSUME TypeOK, NEW n, Found(n)
  PROVE  n \in ScriptNames
<1>1. PICK i \in 1..Len(sysPath) : n \in Provides[sysPath[i]]
  BY DEF Found
<1>2. sysPath[i] \in Directories
  BY <1>1 DEF TypeOK
<1> QED BY <1>1, <1>2, PathsAssumption

(* sys.modules gains a script, and nothing else changes but a frame. *)
LEMMA NewScriptKeepsTables ==
  ASSUME Known, interpreter = "live", NEW n, Found(n),
         sysModules[n] = NoObject,
         sysModules' = [sysModules EXCEPT ![n] = ScriptObject],
         UNCHANGED <<interpreter, run, bindings, modules>>,
         ImportsApart', Current' = Current
  PROVE  TableInv'
<1>1. n \in ScriptNames /\ bindings \in Seq(ModuleNames)
  BY FoundIsScript DEF Known, TypeOK
<1>2. \A m \in Settled : CString(m) = n => modules[m] = NoObject
  BY DEF Known, TableInv, TablesAgree
<1>3. \A m \in ModuleNames : CString(m) # n =>
        /\ modules'[m] = modules[m]
        /\ sysModules'[CString(m)] = sysModules[CString(m)]
  BY CStrings DEF Known, TypeOK
<1>4. QueueApplied' /\ NamesApart'
  BY <1>1, <1>3, ScriptsAreNotBindings DEF Known, TableInv
<1>5. TablesAgree'
  BY <1>2, <1>3 DEF Known, TableInv, TablesAgree, Settled
<1> QED BY <1>4, <1>5 DEF TableInv, EmptyWithoutPython

LEMMA LoadKeepsTables ==
  ASSUME TidyHost, Known, TypeOK', LifecycleInv', NEW t \in Threads,
         NEW n \in ModuleNames \cup {<<>>}, LoadModule(t, n)
  PROVE  TableInv'
<1>1. CASE UNCHANGED state
  BY <1>1, TablesUntouched DEF state, lifecycle, setup, tables, python, frames
<1>2. CASE /\ running /\ n \in ModuleNames /\ interpreter # "finalizing"
           /\ ImportsOnce =>
                \A i \in 1..Len(stack) :
                  stack[i].kind = "import" => CString(stack[i].name) # CString(n)
  <2>1. interpreter = "live"
    BY <1>2 DEF Known, TypeOK, LifecycleInv
  <2>2. CASE /\ sysModules[CString(n)] # NoObject
             /\ modules' = [modules EXCEPT ![n] = sysModules[CString(n)]]
             /\ UNCHANGED <<lifecycle, setup, python, frames>>
    <3>1. UNCHANGED <<interpreter, run, bindings, sysModules, stack>>
      BY <2>2 DEF lifecycle, setup, python, frames
    <3>2. /\ modules'[n] = sysModules[CString(n)]
          /\ \A m \in ModuleNames : m # n => modules'[m] = modules[m]
      BY <1>2, <2>2 DEF Known, TypeOK
    <3>3. NamesApart' /\ Current' = Current
      BY <3>1 DEF Known, TableInv, NamesApart, Current
    <3>4. ImportsApart'
      <4>1. \A i \in 1..Len(stack) : stack[i].kind = "import" /\ ImportsOnce =>
              CString(stack[i].name) # CString(n)
        BY <1>2
      <4> QED BY <3>1, <3>2, <4>1 DEF Known, TableInv, ImportsApart
    <3>5. ASSUME NEW j \in 1..Len(bindings), Current # 0 \/ FailuresCaught
          PROVE  BindingAt(j)'
      <4>1. BindingAt(j)
        BY <2>1, <3>5 DEF Known, TableInv, QueueApplied
      <4>2. bindings[j] \in ModuleNames
        BY DEF Known, TypeOK
      <4> QED BY <3>1, <3>2, <3>3, <4>1, <4>2 DEF BindingAt, BindingObject
    <3>6. QueueApplied'
      BY <2>1, <3>1, <3>3, <3>5 DEF Known, TableInv, QueueApplied
    <3>7. TablesAgree'
      BY <3>1, <3>2 DEF Known, TableInv, TablesAgree, Settled
    <3> QED BY <2>1, <3>1, <3>3, <3>4, <3>6, <3>7 DEF TableInv, EmptyWithoutPython
  <2>3. CASE /\ sysModules[CString(n)] = NoObject /\ Found(CString(n))
             /\ sysModules' = [sysModules EXCEPT ![CString(n)] = ScriptObject]
             /\ Push([kind |-> "import", name |-> n], t)
             /\ UNCHANGED <<lifecycle, setup, tables>>
    <3> DEFINE frame == [kind |-> "import", name |-> n]
    <3>1. frame \in Frame /\ frame.kind = "import" /\ frame.name = n
      BY <1>2 DEF Frame
    <3>2. stack' = Append(stack, frame)
      BY <2>3 DEF Push
    <3> HIDE DEF frame
    <3>3. /\ UNCHANGED <<interpreter, run, bindings, modules>>
          /\ CString(n) \in ScriptNames
          /\ ImportsOnce => \A m \in ModuleNames :
               CString(m) = CString(n) => modules[m] = NoObject
      BY <1>2, <2>3, FoundIsScript
      DEF lifecycle, setup, tables, Known, TableInv, TablesAgree, Settled
    <3>4. /\ Len(stack) \in Nat /\ Len(stack') = Len(stack) + 1
          /\ stack'[Len(stack) + 1] = frame /\ stack' # <<>>
          /\ \A i \in 1..Len(stack) : stack'[i] = stack[i]
      <4>1. stack \in Seq(Frame)
        BY DEF Known, TypeOK
      <4> QED BY <3>1, <3>2, <4>1, AppendType
    <3>5. \A i \in 1..Len(stack') :
            \/ i \in 1..Len(stack) /\ stack'[i] = stack[i]
            \/ i = Len(stack) + 1 /\ stack'[i] = frame
      BY <3>4
    <3>6. ImportsApart'
      BY <1>2, <3>1, <3>3, <3>5 DEF Known, TableInv, ImportsApart
    <3>7. Current' = Current
      <4>1. CASE stack = <<>>
        <5>1. stack'[1] = frame
          BY <3>4, <4>1
        <5> QED BY <3>1, <3>3, <4>1, <5>1 DEF Current
      <4>2. CASE stack # <<>>
        <5>1. stack'[1] = stack[1]
          BY <3>4, <4>2 DEF Known, TypeOK
        <5> QED BY <3>3, <3>4, <4>2, <5>1 DEF Current
      <4> QED BY <4>1, <4>2
    <3> QED BY <1>2, <2>1, <2>3, <3>3, <3>6, <3>7, NewScriptKeepsTables
  <2> QED BY <1>1, <1>2, <2>2, <2>3 DEF LoadModule, Refused, TidyHost
<1> QED
  BY <1>1, <1>2 DEF LoadModule, Refused, TidyHost, CarefulHost, ImportsOnce

LEMMA ScriptImportKeepsTables ==
  ASSUME Known, NEW n, ScriptImports(n)
  PROVE  TableInv'
<1>1. UNCHANGED <<interpreter, run, bindings, modules, stack>>
  BY DEF ScriptImports, lifecycle, setup, tables, frames
<1>2. ImportsApart' /\ Current' = Current
  BY <1>1 DEF Known, TableInv, ImportsApart, Current
<1> QED BY <1>1, <1>2, NewScriptKeepsTables DEF ScriptImports

LEMMA CallKeepsTables ==
  ASSUME Known, TypeOK', LifecycleInv', NEW t \in Threads,
         NEW h \in Hooks \cup {Nameless}, Call(t, h)
  PROVE  TableInv'
<1>1. CASE UNCHANGED <<lifecycle, setup, modules, python, frames>>
  BY <1>1, TablesUntouched DEF lifecycle, setup, python, frames
<1>2. CASE /\ h # Nameless /\ modules[h.module] # NoObject
           /\ Push([kind |-> "invoke", hook |-> h], t)
           /\ UNCHANGED <<lifecycle, setup, tables, python>>
  <2> DEFINE frame == [kind |-> "invoke", hook |-> h]
  <2>1. h \in Hooks /\ h.module \in ModuleNames
    BY <1>2, NamesAssumption
  <2>2. frame \in Frame /\ frame.kind = "invoke"
    BY <2>1 DEF Frame
  <2>3. stack' = Append(stack, frame)
    BY <1>2 DEF Push
  <2> HIDE DEF frame
  <2>4. UNCHANGED <<interpreter, run, bindings, modules, sysModules>>
    BY <1>2 DEF lifecycle, setup, tables, python
  <2>5. interpreter = "live"
    <3>1. modules # NoModules
      BY <1>2, <2>1 DEF NoModules
    <3> QED BY <3>1 DEF Known, TypeOK, LifecycleInv
  <2>6. ImportsApart' /\ Current' = Current
    BY <2>2, <2>3, <2>4, <2>5, PushApart DEF Known, TableInv
  <2>7. NamesApart'
    BY <2>4, NamesStayApart DEF Known, TableInv
  <2>8. \A j : BindingAt(j)' <=> BindingAt(j)
    BY <2>4, <2>6 DEF BindingAt, BindingObject
  <2>9. QueueApplied'
    BY <2>4, <2>6, <2>8 DEF Known, TableInv, QueueApplied
  <2> QED
    BY <2>4, <2>6, <2>7, <2>9
    DEF Known, TableInv, EmptyWithoutPython, TablesAgree
<1> QED
  BY <1>1, <1>2 DEF Call, Refused, state, tables

LEMMA CodeEndsKeepsTables ==
  ASSUME Known, TypeOK', LifecycleInv',
         ImportReturns \/ ImportRaises \/ InvokeEnds \/ InvokeThrowsForeign
  PROVE  TableInv'
<1> DEFINE i == Len(stack)
<1>1. interpreter = "live" /\ stack # <<>> /\ Top.kind \in {"import", "invoke"}
  <2>1. StateType
    BY DEF Known, TypeOK, StateType
  <2> QED
    BY <2>1, OpenFrame
    DEF Known, ImportReturns, ImportRaises, InvokeEnds, InvokeThrowsForeign,
        Waiting
<1>2. /\ UNCHANGED <<interpreter, run, bindings>> /\ stack' = Below
      /\ Top = stack[i] /\ i \in 1..Len(stack)
  <2>1. UNCHANGED <<lifecycle, setup>> /\ Pop
    BY DEF ImportReturns, ImportRaises, InvokeEnds, InvokeThrowsForeign
  <2> QED BY <1>1, <2>1 DEF lifecycle, setup, Pop, Top, Known, TypeOK
<1>3. /\ Len(stack') = Len(stack) - 1 /\ Len(stack) \in Nat
      /\ \A k \in 1..Len(stack') : k \in 1..Len(stack) /\ stack'[k] = stack[k]
      /\ Current' = Current
  BY <1>1, <1>2, PopApart DEF Known, TableInv
<1>4. \A k \in 1..Len(stack') : k # i
  BY <1>3
<1> HIDE DEF i
<1>5. CASE InvokeEnds \/ InvokeThrowsForeign
  <2>1. UNCHANGED <<modules, sysModules>>
    BY <1>5 DEF InvokeEnds, InvokeThrowsForeign, tables, python
  <2>2. ImportsApart' /\ NamesApart'
    <3>1. ImportsApart'
      BY <1>3, <2>1 DEF Known, TableInv, ImportsApart
    <3>2. NamesApart'
      BY <1>2 DEF Known, TableInv, NamesApart
    <3> QED BY <3>1, <3>2
  <2>3. \A j : BindingAt(j)' <=> BindingAt(j)
    BY <1>2, <1>3, <2>1 DEF BindingAt, BindingObject
  <2>4. QueueApplied'
    BY <1>2, <1>3, <2>3 DEF Known, TableInv, QueueApplied
  <2> QED
    BY <1>2, <2>1, <2>2, <2>4
    DEF Known, TableInv, EmptyWithoutPython, TablesAgree
<1>6. CASE ImportReturns \/ ImportRaises
  <2> DEFINE n == Top.name
             c == CString(n)
  <2>1. /\ Top.kind = "import" /\ c \in ScriptNames /\ n \in ModuleNames
        /\ ImportsOnce =>
             /\ \A m \in ModuleNames : CString(m) = c => modules[m] = NoObject
             /\ \A k \in 1..Len(stack') :
                  stack'[k].kind = "import" => CString(stack'[k].name) # c
    <3>1. Top.kind = "import" /\ stack[i].kind = "import"
      BY <1>2, <1>6 DEF ImportReturns, ImportRaises, Waiting
    <3>2. /\ CString(stack[i].name) \in ScriptNames
          /\ ImportsOnce =>
               /\ \A m \in ModuleNames :
                    CString(m) = CString(stack[i].name) => modules[m] = NoObject
               /\ \A k \in 1..Len(stack) :
                    stack[k].kind = "import" /\ i # k =>
                      CString(stack[i].name) # CString(stack[k].name)
      BY <1>2, <3>1 DEF Known, TableInv, ImportsApart
    <3>3. ImportsOnce => \A k \in 1..Len(stack') :
            stack'[k].kind = "import" =>
              CString(stack'[k].name) # CString(stack[i].name)
      BY <1>3, <1>4, <3>2
    <3>4. n \in ModuleNames
      <4>1. Top \in Frame
        BY <1>1, <1>2 DEF Known, TypeOK
      <4> QED BY <3>1, <4>1 DEF Frame
    <3> QED
      BY <1>2, <3>1, <3>2, <3>3, <3>4
  <2> HIDE DEF n, c
  <2>2. /\ ImportsOnce => \A m \in ModuleNames : CString(m) = c =>
             modules'[m] = sysModules'[c] \/ modules'[m] = NoObject
        /\ \A m \in ModuleNames : CString(m) # c =>
             /\ modules'[m] = modules[m]
             /\ sysModules'[CString(m)] = sysModules[CString(m)]
    <3>1. c \in Importable /\ CString(n) = c
      BY <2>1, ScriptsAreImportable DEF c
    <3>2. CASE ImportReturns
      <4>1. /\ modules' = [modules EXCEPT ![n] = sysModules[c]]
            /\ UNCHANGED sysModules
        BY <3>2 DEF ImportReturns, python, n, c
      <4>2. /\ modules'[n] = sysModules[c]
            /\ \A m \in ModuleNames : m # n => modules'[m] = modules[m]
        BY <2>1, <4>1 DEF Known, TypeOK
      <4> QED BY <2>1, <3>1, <4>1, <4>2
    <3>3. CASE ImportRaises
      <4>1. /\ sysModules' = [sysModules EXCEPT ![c] = NoObject]
            /\ UNCHANGED modules
        BY <3>3 DEF ImportRaises, tables, n, c
      <4> QED BY <2>1, <3>1, <4>1, CStrings DEF Known, TypeOK
    <3> QED BY <1>6, <3>2, <3>3
  <2>3. QueueApplied' /\ NamesApart'
    <3>1. bindings \in Seq(ModuleNames)
      BY DEF Known, TypeOK
    <3> QED
      BY <1>2, <1>3, <2>1, <2>2, <3>1, ScriptsAreNotBindings
      DEF Known, TableInv
  <2>4. ImportsApart'
    <3> SUFFICES ASSUME NEW k \in 1..Len(stack'), stack'[k].kind = "import"
                 PROVE  /\ CString(stack'[k].name) \in ScriptNames
                        /\ ImportsOnce =>
                             /\ \A m \in ModuleNames :
                                  CString(m) = CString(stack'[k].name) =>
                                    modules'[m] = NoObject
                             /\ \A j \in 1..Len(stack') :
                                  stack'[j].kind = "import" /\ k # j =>
                                    CString(stack'[k].name) # CString(stack'[j].name)
      BY DEF ImportsApart
    <3>1. /\ k \in 1..Len(stack) /\ stack'[k] = stack[k]
          /\ \A j \in 1..Len(stack') :
               j \in 1..Len(stack) /\ stack'[j] = stack[j]
      BY <1>3
    <3>2. /\ CString(stack[k].name) \in ScriptNames
          /\ ImportsOnce =>
               /\ \A m \in ModuleNames :
                    CString(m) = CString(stack[k].name) => modules[m] = NoObject
               /\ \A j \in 1..Len(stack) :
                    stack[j].kind = "import" /\ k # j =>
                      CString(stack[k].name) # CString(stack[j].name)
      BY <3>1 DEF Known, TableInv, ImportsApart
    <3>3. ImportsOnce => CString(stack[k].name) # c
      BY <2>1, <3>1
    <3> QED BY <2>2, <3>1, <3>2, <3>3
  <2>5. TablesAgree'
    BY <2>1, <2>2 DEF Known, TableInv, TablesAgree, Settled
  <2> QED
    BY <1>1, <1>2, <2>3, <2>4, <2>5 DEF TableInv, EmptyWithoutPython
<1> QED BY <1>5, <1>6

LEMMA FinalizeKeepsTables ==
  ASSUME Known, TypeOK', LifecycleInv', FinalizeEnds
  PROVE  TableInv'
<1>1. bindings' = bindings \/ bindings' = <<>>
  BY DEF FinalizeEnds, setup
<1>2. NamesApart' /\ EmptyWithoutPython' /\ interpreter' # "live"
  BY <1>1, NamesStayApart
  DEF FinalizeEnds, EmptyWithoutPython, Known, TableInv
<1> QED BY <1>2, NotLive

(* A binding that throws something nothing catches leaves the queue half   *)
(* applied, and the two tables in step.                                    *)
LEMMA ForeignThrowKeepsTables ==
  ASSUME Known, BindingThrowsForeign
  PROVE  TableInv'
<1>1. /\ UNCHANGED <<interpreter, run, bindings, modules, sysModules>>
      /\ ~FailuresCaught /\ Pop /\ Waiting("binding")
  BY DEF BindingThrowsForeign, FailuresCaught, lifecycle, setup, tables, python
<1>2. stack' = <<>>
  <2>1. StateType
    BY DEF Known, TypeOK, StateType
  <2> QED BY <1>1, <2>1, OpenFrame DEF Known, Pop
<1>3. NamesApart' /\ ImportsApart' /\ Current' = 0
  BY <1>1, <1>2 DEF Known, TableInv, NamesApart, ImportsApart, Current
<1>4. QueueApplied'
  <2>1. Len(bindings) \in Nat
    BY DEF Known, TypeOK
  <2> QED BY <1>1, <1>3, <2>1 DEF QueueApplied
<1> QED
  BY <1>1, <1>3, <1>4
  DEF Known, TableInv, EmptyWithoutPython, TablesAgree, Settled

LEMMA BindingThrowsKeepsTables ==
  ASSUME Known, TypeOK', LifecycleInv', BindingThrows \/ NextBindingRefused
  PROVE  TableInv'
<1>1. PICK code : Stop("initialize", stackThread, code, Below)
  BY DEF BindingThrows, NextBindingRefused
<1>2. NamesApart' /\ interpreter = "live"
  BY NamesStayApart
  DEF BindingThrows, NextBindingRefused, HasNextBinding, setup, Known, TableInv
<1> QED BY <1>1, <1>2, StopKeepsTables

(* The current binding is recorded and the next one entered. *)
LEMMA BindingReturnsKeepsTables ==
  ASSUME Known, TypeOK', LifecycleInv', BindingReturns
  PROVE  TableInv'
<1> DEFINE i == Top.index
           n == bindings[i]
<1>1. /\ interpreter = "live" /\ stack # <<>> /\ Below = <<>>
      /\ Top = stack[1] /\ Top.kind = "binding" /\ Len(stack) = 1
  <2>1. StateType
    BY DEF Known, TypeOK, StateType
  <2>2. /\ interpreter = "live" /\ stack # <<>> /\ Below = <<>>
        /\ Top.kind = "binding"
    BY <2>1, OpenFrame DEF Known, BindingReturns, Waiting
  <2>3. Len(stack) \in Nat /\ Len(stack) \in 1..Len(stack)
    BY <2>2 DEF Known, TypeOK
  <2>4. Len(stack) = 1
    BY <2>2, <2>3 DEF Top, Known, LifecycleInv
  <2> QED BY <2>2, <2>4 DEF Top
<1>2. Current = i /\ UNCHANGED <<interpreter, run, bindings>>
  BY <1>1 DEF Current, BindingReturns, lifecycle, setup
<1>3. /\ bindings \in Seq(ModuleNames) /\ Len(bindings) \in Nat
      /\ run \in Nat /\ interpreter' = "live"
      /\ modules \in [ModuleNames -> Object \cup {NoObject}]
      /\ sysModules \in [Importable -> Object \cup {NoObject}]
  BY <1>1, <1>2, BoundsAssumption DEF Known, TypeOK
<1>4. i \in 1..Len(bindings)
  <2>1. i \in 0..Len(bindings)
    BY <1>1, <1>2 DEF Known, TableInv, QueueApplied
  <2>2. Top \in Frame
    BY <1>1, TopType DEF Known, TypeOK, StateType
  <2>3. i \in Nat \ {0}
    BY <1>1, <2>2 DEF Frame
  <2> QED BY <2>1, <2>3
<1>5. /\ n \in ModuleNames
      /\ sysModules[CString(n)] = BindingObject(run, i)
      /\ modules[n] \in {BindingObject(run, i), NoObject}
  <2>1. BindingAt(i) /\ n \in ModuleNames /\ n \in Settled
    BY <1>1, <1>2, <1>3, <1>4
    DEF Known, TableInv, QueueApplied, NamesApart, Settled
  <2> QED
    BY <1>2, <2>1 DEF BindingAt, Known, TableInv, TablesAgree
<1>6. /\ modules'[n] = BindingObject(run, i)
      /\ \A m \in ModuleNames : m # n => modules'[m] = modules[m]
  <2>1. modules' = IF modules[n] = NoObject
                     THEN [modules EXCEPT ![n] = BindingObject(run, i)]
                     ELSE modules
    BY DEF BindingReturns, Emplaced
  <2> QED BY <1>3, <1>5, <2>1
<1>7. \A j \in 1..Len(bindings) :
        /\ bindings[j] \in ModuleNames
        /\ j # i => CString(bindings[j]) # CString(n)
  BY <1>3, <1>4 DEF Known, TableInv, NamesApart
<1>8. NamesApart'
  BY <1>2, NamesStayApart DEF Known, TableInv
<1> HIDE DEF n
<1>9. CASE i = Len(bindings)
  <2>1. stack' = <<>> /\ sysModules' = sysModules
    BY <1>1, <1>9 DEF BindingReturns, Pop
  <2>2. ImportsApart' /\ Current' = 0
    BY <2>1 DEF ImportsApart, Current
  <2>3. ASSUME NEW j \in 1..Len(bindings)
        PROVE  BindingAt(j)'
    <3>1. BindingAt(j) /\ (j = i \/ j < i)
      BY <1>1, <1>2, <1>3, <1>4, <1>9 DEF Known, TableInv, QueueApplied
    <3> QED
      BY <1>2, <1>4, <1>5, <1>6, <1>7, <2>1, <2>2, <3>1
      DEF BindingAt, BindingObject, n
  <2>4. QueueApplied'
    BY <1>2, <1>3, <2>2, <2>3 DEF QueueApplied
  <2>5. TablesAgree' /\ EmptyWithoutPython'
    BY <1>3, <1>5, <1>6, <2>1
    DEF Known, TableInv, TablesAgree, Settled, EmptyWithoutPython
  <2> QED BY <1>8, <2>2, <2>4, <2>5 DEF TableInv
<1>10. CASE i # Len(bindings)
  <2> DEFINE frame == [kind |-> "binding", index |-> i + 1]
             next  == bindings[i + 1]
             c     == CString(next)
  <2>1. /\ sysModules' = [sysModules EXCEPT ![c] = BindingObject(run, i + 1)]
        /\ stack' = Append(<<>>, frame)
    BY <1>1, <1>10 DEF BindingReturns, EnterBinding
  <2>2. frame.kind = "binding" /\ frame.index = i + 1
    OBVIOUS
  <2> HIDE DEF frame
  <2>3. stack' = <<frame>>
    BY <2>1
  <2>4. /\ stack' # <<>> /\ stack'[1] = frame
        /\ \A k \in 1..Len(stack') : k = 1
    BY <2>3
  <2>5. Current' = i + 1
    BY <2>2, <2>4 DEF Current
  <2>6. ImportsApart'
    BY <2>2, <2>4 DEF ImportsApart
  <2>7. i + 1 \in 1..Len(bindings) /\ i # i + 1
    BY <1>3, <1>4, <1>10
  <2>8. next \in ModuleNames /\ c # CString(n)
    BY <1>7, <2>7
  <2>9. /\ sysModules'[c] = BindingObject(run, i + 1)
        /\ \A m \in ModuleNames : CString(m) # c =>
             sysModules'[CString(m)] = sysModules[CString(m)]
    BY <1>3, <2>1, <2>8, CStrings
  <2>10. \A j \in 1..Len(bindings) : j # i + 1 => CString(bindings[j]) # c
    BY <2>7 DEF Known, TableInv, NamesApart
  <2>11. /\ sysModules[c] = NoObject
         /\ \A m \in Settled : CString(m) = c => modules[m] = NoObject
    <3>1. BindingAt(i + 1)
      BY <1>1, <1>2, <1>4, <2>7 DEF Known, TableInv, QueueApplied
    <3>2. sysModules[c] = NoObject
      BY <1>2, <1>4, <2>7, <3>1 DEF BindingAt
    <3> QED
      BY <3>1, <3>2 DEF Known, TableInv, TablesAgree
  <2> USE DEF c
  <2> HIDE DEF next
  <2>12. ASSUME NEW j \in 1..Len(bindings)
         PROVE  BindingAt(j)'
    <3>1. BindingAt(j) /\ j \in Int /\ i \in Int /\ i >= 1
      BY <1>1, <1>2, <1>3, <1>4 DEF Known, TableInv, QueueApplied
    <3>2. CASE j = i
      BY <1>2, <1>4, <1>5, <1>6, <2>5, <2>8, <2>9, <3>1, <3>2
      DEF BindingAt, BindingObject, n
    <3>3. CASE j = i + 1
      BY <1>2, <2>5, <2>9, <3>1, <3>3 DEF BindingAt, BindingObject, next
    <3>4. CASE j # i /\ j # i + 1
      <4>1. /\ sysModules'[CString(bindings[j])] = sysModules[CString(bindings[j])]
            /\ modules'[bindings[j]] = modules[bindings[j]]
        BY <1>6, <1>7, <2>9, <2>10, <3>4
      <4>2. (j < i + 1 <=> j < i) /\ (j > i + 1 => j > i) /\ i + 1 # 0 /\ i # 0
        BY <3>1, <3>4
      <4> QED
        BY <1>2, <2>5, <3>1, <3>4, <4>1, <4>2 DEF BindingAt, BindingObject
    <3> QED BY <3>2, <3>3, <3>4
  <2>13. QueueApplied'
    BY <1>2, <1>3, <2>5, <2>7, <2>12 DEF QueueApplied
  <2>14. TablesAgree' /\ EmptyWithoutPython'
    BY <1>3, <1>5, <1>6, <2>8, <2>9, <2>11
    DEF Known, TableInv, TablesAgree, Settled, EmptyWithoutPython
  <2> QED BY <1>8, <2>6, <2>13, <2>14 DEF TableInv
<1> QED BY <1>9, <1>10

-----------------------------------------------------------------------------

LEMMA TableStep ==
  TidyHost => (Known /\ [Next]_vars => Known')
<1> SUFFICES ASSUME TidyHost, Known, [Next]_vars
             PROVE  Known'
  OBVIOUS
<1>1. TypeOK' /\ LifecycleInv'
  BY TypeStep, LifecycleStep DEF Known, TidyHost
<1>2. ASSUME NEW t \in Threads, HostCalls(t)
      PROVE  TableInv'
  <2>1. ASSUME NEW p, AddSearchPath(t, p)
        PROVE  TableInv'
    BY <2>1, TablesUntouched
    DEF AddSearchPath, Refused, state, lifecycle, setup, tables, python, frames
  <2> QED
    BY <1>1, <1>2, <2>1, RegisterKeepsTables, InitializeKeepsTables,
       StopsKeepTables, LoadKeepsTables, CallKeepsTables
    DEF HostCalls
<1>3. ASSUME CodeReturns
      PROVE  TableInv'
  BY <1>1, <1>3, BindingReturnsKeepsTables, BindingThrowsKeepsTables,
     ForeignThrowKeepsTables, CodeEndsKeepsTables, FinalizeKeepsTables
  DEF CodeReturns, NextBindingNotEntered, TidyHost
<1>4. ASSUME OtherPython \/ UNCHANGED vars
      PROVE  TableInv'
  BY <1>4, TablesUntouched
  DEF OtherPython, vars, state, lifecycle, setup, tables, python, frames
<1>5. ~\E n : ScriptEdits(n)
  BY DEF ScriptEdits, TidyHost
<1> QED
  BY <1>1, <1>2, <1>3, <1>4, <1>5, ScriptImportKeepsTables DEF Next, Known

LEMMA InitKnown == Init /\ TypeOK => Known
<1> SUFFICES ASSUME Init, TypeOK
             PROVE  Known
  OBVIOUS
<1>1. LifecycleInv
  BY DEF Init, LifecycleInv, OnStack
<1>2. /\ bindings = <<>> /\ stack = <<>> /\ interpreter = "none"
      /\ modules = NoModules /\ sysModules = NoSysModules
  BY DEF Init
<1>3. NamesApart /\ ImportsApart
  BY <1>2 DEF NamesApart, ImportsApart
<1>4. TablesAgree
  BY <1>2, NoEntries DEF TablesAgree, Settled
<1> QED
  BY <1>1, <1>2, <1>3, <1>4
  DEF Known, TableInv, QueueApplied, EmptyWithoutPython

LEMMA KnownAlways == TidyHost => (Spec => []Known)
<1> SUFFICES ASSUME TidyHost
             PROVE  Spec => []Known
  OBVIOUS
<1>1. Known /\ [Next]_vars => Known'
  BY TableStep
<1> QED BY <1>1, InitKnown, TypeCorrect, PTL DEF Spec

(* A hook is looked up in the module a script would import: the runtime's  *)
(* table and sys.modules agree on every name the runtime has recorded,     *)
(* whatever imports and bindings fail and however often it restarts.       *)
THEOREM LoadedModulesStayLive ==
  TidyHost /\ ImportsOnce => (Spec => []LoadedModulesAreLive)
<1>1. Known /\ ImportsOnce => LoadedModulesAreLive
  BY DEF Known, TableInv, TablesAgree, Settled, LoadedModulesAreLive
<1> SUFFICES ASSUME TidyHost, ImportsOnce
             PROVE  Spec => []LoadedModulesAreLive
  OBVIOUS
<1>2. Known => LoadedModulesAreLive
  BY <1>1
<1> QED BY <1>2, KnownAlways, PTL

(* When initialize() has let go of a runtime that runs, every binding of   *)
(* the queue is applied, under its name and in its own module.             *)
THEOREM RunsConfigured ==
  TidyHost /\ FailuresCaught => (Spec => []ConfiguredWhenRunning)
<1> SUFFICES ASSUME TidyHost, FailuresCaught
             PROVE  Spec => []ConfiguredWhenRunning
  OBVIOUS
<1>1. Known => ConfiguredWhenRunning
  <2> SUFFICES ASSUME Known, interpreter = "live", ~OnStack("binding")
               PROVE  /\ tracebackModule
                      /\ \A j \in 1..Len(bindings) :
                           /\ sysModules[CString(bindings[j])] =
                                [run |-> run, origin |-> j]
                           /\ modules[bindings[j]] = sysModules[CString(bindings[j])]
    BY DEF ConfiguredWhenRunning
  <2>1. tracebackModule
    BY DEF Known, LifecycleInv
  <2>2. stack # <<>> => 1 \in 1..Len(stack)
    BY DEF Known, TypeOK
  <2>3. Current = 0
    BY <2>2 DEF Current, OnStack
  <2> QED
    BY <2>1, <2>3 DEF Known, TableInv, QueueApplied, BindingAt, BindingObject
<1> QED BY <1>1, KnownAlways, PTL

=============================================================================
