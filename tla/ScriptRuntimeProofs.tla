------------------------ MODULE ScriptRuntimeProofs ------------------------
(***************************************************************************)
(* Proofs about ScriptRuntime, for any number of threads, names, paths,    *)
(* bindings and runs.                                                      *)
(***************************************************************************)
EXTENDS ScriptRuntime, FailureRecordsProofs, SequenceTheorems, TLAPS

-----------------------------------------------------------------------------

(* The frames under the topmost one. *)
LEMMA BelowType ==
  ASSUME NEW s \in Seq(Frame), s # <<>>
  PROVE  /\ SubSeq(s, 1, Len(s) - 1) \in Seq(Frame)
         /\ Len(SubSeq(s, 1, Len(s) - 1)) = Len(s) - 1
         /\ \A i \in 1..(Len(s) - 1) : SubSeq(s, 1, Len(s) - 1)[i] = s[i]
         /\ s[Len(s)] \in Frame
<1>1. Len(s) \in Nat /\ Len(s) >= 1 /\ \A i \in 1..Len(s) : s[i] \in Frame
  OBVIOUS
<1>2. PICK n \in Int : n = Len(s) - 1
  BY <1>1
<1>3. n >= 0 /\ \A i \in 1..n : s[i] \in Frame
  BY <1>1, <1>2
<1>4. SubSeq(s, 1, n) \in Seq(Frame)
  BY <1>3
<1>5. Len(SubSeq(s, 1, n)) = n
  BY <1>3
<1>6. \A i \in 1..n : SubSeq(s, 1, n)[i] = s[i]
  BY <1>3
<1> QED BY <1>1, <1>2, <1>4, <1>5, <1>6

LEMMA AppendType ==
  ASSUME NEW S, NEW s \in Seq(S), NEW x \in S
  PROVE  /\ Append(s, x) \in Seq(S)
         /\ Append(s, x) # <<>>
         /\ Len(Append(s, x)) = Len(s) + 1
         /\ Append(s, x)[Len(s) + 1] = x
         /\ \A i \in 1..Len(s) : Append(s, x)[i] = s[i]
OBVIOUS

LEMMA ReversedType ==
  ASSUME NEW S, NEW s \in Seq(S)
  PROVE  Reversed(s) \in Seq(S)
<1> DEFINE n == Len(s)
<1>1. n \in Nat /\ \A i \in 1..n : n + 1 - i \in 1..n /\ s[n + 1 - i] \in S
  OBVIOUS
<1> HIDE DEF n
<1>2. [i \in 1..n |-> s[n + 1 - i]] \in Seq(S)
  BY <1>1
<1> QED BY <1>2 DEF Reversed, n

LEMMA EmptyTables ==
  /\ NoRecords \in [Keys -> FailureRecord]
  /\ NoModules \in [ModuleNames -> Object \cup {NoObject}]
  /\ NoSysModules \in [Importable -> Object \cup {NoObject}]
BY DEF NoRecords, NoRecord, FailureRecord, NoModules, NoSysModules

(* What Python knows a name as. *)
LEMMA CStrings ==
  ASSUME NEW n \in ModuleNames
  PROVE  CString(n) \in Importable
BY DEF Importable

-----------------------------------------------------------------------------

(* The type of everything but the observation. *)
StateType ==
  /\ running \in BOOLEAN
  /\ ownerThread \in Threads \cup {NoThread}
  /\ interpreter \in {"none", "live", "finalizing"}
  /\ bindings \in Seq(ModuleNames)
  /\ searchPaths \in Seq(Directories)
  /\ modules \in [ModuleNames -> Object \cup {NoObject}]
  /\ tracebackModule \in BOOLEAN
  /\ failureRecords \in [Keys -> FailureRecord]
  /\ sysModules \in [Importable -> Object \cup {NoObject}]
  /\ sysPath \in Seq(Directories)
  /\ otherPython \in BOOLEAN
  /\ stack \in Seq(Frame)
  /\ stackThread \in Threads \cup {NoThread}
  /\ run \in 0..MaxRuns

LEMMA SameStateType ==
  ASSUME StateType, UNCHANGED state
  PROVE  StateType'
BY DEF StateType, state, lifecycle, setup, tables, python, frames

LEMMA ReturnType ==
  ASSUME NEW op \in Operations, NEW t \in Threads \cup {NoThread},
         NEW code \in Codes, Return(op, t, code)
  PROVE  returned' \in Returned
BY DEF Return, Returned

LEMMA PopType ==
  ASSUME StateType, stack # <<>>, Pop
  PROVE  stack' \in Seq(Frame) /\ stackThread' \in Threads \cup {NoThread}
BY BelowType DEF StateType, Pop, Below

(* stop() keeps the types, whatever frames it leaves waiting. *)
LEMMA StopType ==
  ASSUME StateType,
         NEW op \in {"initialize", "shutdown", "destroy"},
         NEW t \in Threads \cup {NoThread}, NEW code \in Codes,
         NEW waiting \in Seq(Frame), Stop(op, t, code, waiting)
  PROVE  /\ running' \in BOOLEAN
         /\ ownerThread' \in Threads \cup {NoThread}
         /\ interpreter' \in {"none", "live", "finalizing"}
         /\ modules' \in [ModuleNames -> Object \cup {NoObject}]
         /\ tracebackModule' \in BOOLEAN
         /\ failureRecords' \in [Keys -> FailureRecord]
         /\ stack' \in Seq(Frame)
         /\ stackThread' \in Threads \cup {NoThread}
         /\ returned' \in Returned
<1>1. /\ modules' \in [ModuleNames -> Object \cup {NoObject}]
      /\ tracebackModule' \in BOOLEAN
      /\ failureRecords' \in [Keys -> FailureRecord]
  BY EmptyTables DEF Stop, ClearTables
<1>2. CASE interpreter = "live"
  <2> DEFINE frame == [kind |-> "finalize", op |-> op, code |-> code]
  <2>1. frame \in Frame
    BY DEF Frame
  <2>2. /\ interpreter' = "finalizing"
        /\ stack' = Append(waiting, frame)
        /\ stackThread' = t
        /\ Return(op, t, "entered")
        /\ UNCHANGED <<running, ownerThread>>
    BY <1>2 DEF Stop
  <2> HIDE DEF frame
  <2>3. stack' \in Seq(Frame)
    BY <2>1, <2>2, AppendType
  <2>4. returned' \in Returned
    BY <2>2, ReturnType DEF Operations, Codes
  <2> QED BY <1>1, <2>2, <2>3, <2>4 DEF StateType
<1>3. CASE interpreter # "live"
  <2>1. /\ running' = FALSE
        /\ ownerThread' = NoThread
        /\ Return(op, t, code)
        /\ UNCHANGED <<interpreter, frames>>
    BY <1>3 DEF Stop
  <2>2. returned' \in Returned
    BY <2>1, ReturnType DEF Operations, Codes
  <2> QED BY <1>1, <2>1, <2>2 DEF StateType, frames
<1> QED BY <1>2, <1>3

LEMMA RefusedType ==
  ASSUME StateType, NEW op \in Operations, NEW t \in Threads \cup {NoThread},
         NEW code \in Codes, Refused(op, t, code)
  PROVE  TypeOK'
BY SameStateType, ReturnType DEF TypeOK, StateType, Refused

(* Each of the host's calls keeps the types. *)
LEMMA RegisterModuleType ==
  ASSUME StateType, NEW t \in Threads, NEW n \in ModuleNames \cup {<<>>},
         RegisterModule(t, n)
  PROVE  TypeOK'
<1>1. CASE \/ Refused("registerModule", t, "AlreadyInitialized")
           \/ Refused("registerModule", t, "InvalidArgument")
  BY <1>1, RefusedType DEF Operations, Codes, ErrorCodes
<1>2. CASE /\ n # <<>>
           /\ bindings' = Append(bindings, n)
           /\ Return("registerModule", t, "Ok")
           /\ UNCHANGED <<lifecycle, searchPaths, tables, python, frames>>
  <2>1. bindings' \in Seq(ModuleNames)
    BY <1>2, AppendType DEF StateType
  <2>2. returned' \in Returned
    BY <1>2, ReturnType DEF Operations, Codes
  <2> QED
    BY <1>2, <2>1, <2>2
    DEF TypeOK, StateType, lifecycle, tables, python, frames
<1> QED BY <1>1, <1>2 DEF RegisterModule, RegistryAdd

LEMMA EnterBindingType ==
  ASSUME StateType, NEW k \in Nat, NEW i \in Nat \ {0},
         NEW waiting \in Seq(Frame), NEW t \in Threads \cup {NoThread},
         EnterBinding(k, i, waiting, t)
  PROVE  /\ sysModules' \in [Importable -> Object \cup {NoObject}]
         /\ stack' \in Seq(Frame)
         /\ stackThread' \in Threads \cup {NoThread}
<1>2. BindingObject(k, i) \in Object
  BY DEF BindingObject, Object
<1>3. [kind |-> "binding", index |-> i] \in Frame
  BY DEF Frame
<1> DEFINE frame == [kind |-> "binding", index |-> i]
<1>4. stack' = Append(waiting, frame)
  BY DEF EnterBinding
<1> HIDE DEF frame
<1>5. stack' \in Seq(Frame)
  BY <1>3, <1>4, AppendType DEF frame
<1>6. sysModules' \in [Importable -> Object \cup {NoObject}]
  BY <1>2 DEF EnterBinding, StateType
<1> QED BY <1>5, <1>6 DEF EnterBinding

LEMMA InitializeType ==
  ASSUME StateType, NEW t \in Threads, Initialize(t)
  PROVE  TypeOK'
<1>1. CASE \/ Refused("initialize", t, "AlreadyInitialized")
           \/ Refused("initialize", t, "InterpreterFailure")
  BY <1>1, RefusedType DEF Operations, Codes, ErrorCodes
<1>2. CASE StartInterpreter(t)
  <2>1. /\ running' \in BOOLEAN
        /\ ownerThread' \in Threads \cup {NoThread}
        /\ interpreter' \in {"none", "live", "finalizing"}
        /\ tracebackModule' \in BOOLEAN
    BY <1>2 DEF StartInterpreter
  <2>2. run' \in 0..MaxRuns /\ run + 1 \in Nat
    BY <1>2, BoundsAssumption DEF StartInterpreter, StateType
  <2>3. sysPath' \in Seq(Directories)
    BY <1>2, ReversedType DEF StartInterpreter, StateType
  <2>4. failureRecords' \in [Keys -> FailureRecord]
    BY <1>2, EmptyTables DEF StartInterpreter, FreshCounters
  <2>5. UNCHANGED <<bindings, searchPaths, modules, otherPython>>
    BY <1>2 DEF StartInterpreter, setup
  <2>6. CASE bindings = <<>>
    <3>1. returned' \in Returned
      BY <1>2, <2>6, ReturnType DEF StartInterpreter, Operations, Codes
    <3>2. UNCHANGED <<sysModules, stack, stackThread>>
      BY <1>2, <2>6 DEF StartInterpreter, frames
    <3> QED
      BY <2>1, <2>2, <2>3, <2>4, <2>5, <3>1, <3>2 DEF TypeOK, StateType
  <2>7. CASE bindings # <<>>
    <3>1. /\ EnterBinding(run + 1, 1, stack, t)
          /\ Return("initialize", t, "entered")
      BY <1>2, <2>7 DEF StartInterpreter
    <3>3. /\ sysModules' \in [Importable -> Object \cup {NoObject}]
          /\ stack' \in Seq(Frame)
          /\ stackThread' \in Threads \cup {NoThread}
      BY <2>2, <3>1, EnterBindingType DEF StateType
    <3>4. returned' \in Returned
      BY <3>1, ReturnType DEF Operations, Codes
    <3> QED
      BY <2>1, <2>2, <2>3, <2>4, <2>5, <3>3, <3>4 DEF TypeOK, StateType
  <2> QED BY <2>6, <2>7
<1>3. CASE StartFails(t)
  <2>1. returned' \in Returned
    BY <1>3, ReturnType DEF StartFails, Operations, Codes, ErrorCodes
  <2>2. /\ modules' \in [ModuleNames -> Object \cup {NoObject}]
        /\ tracebackModule' \in BOOLEAN
        /\ failureRecords' \in [Keys -> FailureRecord]
    BY <1>3, EmptyTables DEF StartFails, FreshCounters, ClearTables, StateType
  <2>3. UNCHANGED <<lifecycle, setup, python, frames>>
    BY <1>3 DEF StartFails
  <2> QED
    BY <2>1, <2>2, <2>3
    DEF TypeOK, StateType, lifecycle, setup, python, frames
<1> QED BY <1>1, <1>2, <1>3 DEF Initialize

LEMMA ShutdownType ==
  ASSUME StateType, NEW t \in Threads, Shutdown(t)
  PROVE  TypeOK'
<1>1. CASE \/ Refused("shutdown", t, "NotInitialized")
           \/ Refused("shutdown", t, "WrongThread")
  BY <1>1, RefusedType DEF Operations, Codes, ErrorCodes
<1>2. CASE Stop("shutdown", t, "Ok", stack) /\ UNCHANGED <<setup, python, run>>
  <2>1. "Ok" \in Codes /\ stack \in Seq(Frame)
    BY DEF Codes, StateType
  <2> QED
    BY <1>2, <2>1, StopType DEF TypeOK, StateType, setup, python
<1> QED BY <1>1, <1>2 DEF Shutdown

LEMMA DestroyType ==
  ASSUME StateType, NEW t \in Threads, Destroy(t)
  PROVE  TypeOK'
<1>1. "Ok" \in Codes /\ <<>> \in Seq(Frame)
  BY DEF Codes
<1>2. bindings' \in Seq(ModuleNames) /\ searchPaths' \in Seq(Directories)
  <2>1. CASE interpreter = "live"
    BY <2>1 DEF Destroy, setup, StateType
  <2>2. CASE interpreter # "live"
    <3>1. bindings' = <<>> /\ searchPaths' = <<>>
      BY <2>2 DEF Destroy
    <3> QED BY <3>1
  <2> QED BY <2>1, <2>2
<1>3. Stop("destroy", t, "Ok", <<>>) /\ UNCHANGED <<python, run>>
  BY DEF Destroy
<1> QED
  BY <1>1, <1>2, <1>3, StopType DEF TypeOK, StateType, python

LEMMA AddSearchPathType ==
  ASSUME StateType, NEW t \in Threads, NEW p, AddSearchPath(t, p)
  PROVE  TypeOK'
<1>1. CASE \E code \in Codes : Refused("addSearchPath", t, code)
  BY <1>1, RefusedType DEF Operations
<1>2. CASE /\ p \in Directories
           /\ searchPaths' = Append(searchPaths, p)
           /\ IF running /\ p \in Unencodable
                THEN Return("addSearchPath", t, "InvocationFailed")
                ELSE Return("addSearchPath", t, "Ok")
           /\ sysPath' = IF running /\ p \notin Unencodable
                           THEN <<p>> \o sysPath
                           ELSE sysPath
           /\ UNCHANGED <<lifecycle, bindings, tables, sysModules, otherPython,
                          frames>>
  <2>1. searchPaths' \in Seq(Directories)
    BY <1>2, AppendType DEF StateType
  <2>2. <<p>> \o sysPath \in Seq(Directories)
    BY <1>2 DEF StateType
  <2>3. sysPath' \in Seq(Directories)
    BY <1>2, <2>2 DEF StateType
  <2>4. returned' \in Returned
    BY <1>2, ReturnType DEF Operations, Codes, ErrorCodes
  <2> QED
    BY <1>2, <2>1, <2>3, <2>4
    DEF TypeOK, StateType, lifecycle, tables, frames
<1> QED BY <1>1, <1>2 DEF AddSearchPath, Codes, ErrorCodes

LEMMA LoadModuleType ==
  ASSUME StateType, NEW t \in Threads, NEW n, LoadModule(t, n)
  PROVE  TypeOK'
<1>1. CASE \E code \in Codes : Refused("loadModule", t, code)
  BY <1>1, RefusedType DEF Operations
<1>2. CASE /\ n \in ModuleNames
           /\ modules' = [modules EXCEPT ![n] = sysModules[CString(n)]]
           /\ Return("loadModule", t, "Ok")
           /\ UNCHANGED <<lifecycle, setup, tracebackModule,
                          failureRecords, python, frames>>
  <2>1. modules' \in [ModuleNames -> Object \cup {NoObject}]
    BY <1>2, CStrings DEF StateType
  <2>2. returned' \in Returned
    BY <1>2, ReturnType DEF Operations, Codes
  <2> QED
    BY <1>2, <2>1, <2>2
    DEF TypeOK, StateType, lifecycle, setup, python, frames
<1>3. CASE /\ n \in ModuleNames
           /\ sysModules' = [sysModules EXCEPT ![CString(n)] = ScriptObject]
           /\ Push([kind |-> "import", name |-> n], t)
           /\ Return("loadModule", t, "entered")
           /\ UNCHANGED <<lifecycle, setup, tables, sysPath, otherPython>>
  <2>1. ScriptObject \in Object
    BY BoundsAssumption DEF ScriptObject, Object, FromScript, StateType
  <2>2. sysModules' \in [Importable -> Object \cup {NoObject}]
    BY <1>3, <2>1 DEF StateType
  <2> DEFINE frame == [kind |-> "import", name |-> n]
  <2>3. frame \in Frame
    BY <1>3 DEF Frame
  <2>4. stack' = Append(stack, frame) /\ stackThread' = t
    BY <1>3 DEF Push
  <2> HIDE DEF frame
  <2>5. stack' \in Seq(Frame)
    BY <2>3, <2>4, AppendType DEF StateType
  <2>6. returned' \in Returned
    BY <1>3, ReturnType DEF Operations, Codes
  <2> QED
    BY <1>3, <2>2, <2>4, <2>5, <2>6
    DEF TypeOK, StateType, lifecycle, setup, tables
<1> QED BY <1>1, <1>2, <1>3 DEF LoadModule, Codes, ErrorCodes

LEMMA CallOutcomeType ==
  ASSUME StateType, NEW t \in Threads \cup {NoThread}, NEW h \in Hooks,
         NEW codes, CallSucceeds(h, t) \/ CallFails(h, t, codes)
  PROVE  /\ failureRecords' \in [Keys -> FailureRecord]
         /\ returned' \in Returned
<1>1. CASE CallSucceeds(h, t)
  BY <1>1, NoteTypes, ReturnType
  DEF StateType, CallSucceeds, Operations, Codes
<1>2. CASE CallFails(h, t, codes)
  <2>1. PICK e \in Failures :
          /\ failureRecords' = NoteFailure(failureRecords, h, e)
          /\ Return("call", t, e.code)
    BY <1>2 DEF CallFails
  <2>2. e.code \in Codes
    BY CodesAssumption DEF Codes
  <2> QED BY <2>1, <2>2, NoteTypes, ReturnType DEF StateType, Operations
<1> QED BY <1>1, <1>2

LEMMA CallType ==
  ASSUME StateType, NEW t \in Threads, NEW h \in Hooks \cup {Nameless},
         Call(t, h)
  PROVE  TypeOK'
<1>1. CASE \E code \in Codes : Refused("call", t, code)
  BY <1>1, RefusedType DEF Operations
<1>2. ASSUME NEW codes, h # Nameless,
             CallSucceeds(h, t) \/ CallFails(h, t, codes),
             UNCHANGED <<lifecycle, setup, modules, tracebackModule, python,
                         frames>>
      PROVE  TypeOK'
  BY <1>2, CallOutcomeType
  DEF TypeOK, StateType, lifecycle, setup, python, frames
<1>3. CASE /\ h # Nameless
           /\ Push([kind |-> "invoke", hook |-> h], t)
           /\ Return("call", t, "entered")
           /\ UNCHANGED <<lifecycle, setup, tables, python>>
  <2> DEFINE frame == [kind |-> "invoke", hook |-> h]
  <2>1. frame \in Frame
    BY <1>3 DEF Frame
  <2>2. stack' = Append(stack, frame) /\ stackThread' = t
    BY <1>3 DEF Push
  <2> HIDE DEF frame
  <2>3. stack' \in Seq(Frame)
    BY <2>1, <2>2, AppendType DEF StateType
  <2>4. returned' \in Returned
    BY <1>3, ReturnType DEF Operations, Codes
  <2> QED
    BY <1>3, <2>2, <2>3, <2>4
    DEF TypeOK, StateType, lifecycle, setup, tables, python
<1> QED BY <1>1, <1>2, <1>3 DEF Call, Codes, ErrorCodes

(* So does the end of each kind of frame. *)
LEMMA TopType ==
  ASSUME StateType, NEW kind, Waiting(kind)
  PROVE  /\ stack # <<>> /\ Top \in Frame /\ Top.kind = kind
         /\ Below \in Seq(Frame)
BY BelowType DEF StateType, Waiting, Top, Below

LEMMA EmplacedType ==
  ASSUME StateType, NEW i \in Nat
  PROVE  Emplaced(i) \in [ModuleNames -> Object \cup {NoObject}]
<1>1. BindingObject(run, i) \in Object
  BY BoundsAssumption DEF BindingObject, Object, StateType
<1> QED BY <1>1 DEF Emplaced, StateType

LEMMA BindingReturnsType ==
  ASSUME StateType, returned \in Returned, BindingReturns
  PROVE  TypeOK'
<1> DEFINE i == Top.index
<1>1. Waiting("binding") /\ stack # <<>> /\ Below \in Seq(Frame)
  BY TopType DEF BindingReturns
<1>2. i \in Nat \ {0} /\ i + 1 \in Nat \ {0}
  BY <1>1, TopType DEF Frame
<1>3. run \in Nat
  BY BoundsAssumption DEF StateType
<1>6. modules' \in [ModuleNames -> Object \cup {NoObject}]
  BY <1>2, <1>3, EmplacedType DEF BindingReturns
<1>7. UNCHANGED <<lifecycle, setup, tracebackModule, failureRecords, sysPath,
                  otherPython>>
  BY DEF BindingReturns
<1>8. CASE i = Len(bindings)
  <2>1. /\ Pop
        /\ Return("initialize", stackThread, "Ok")
        /\ UNCHANGED sysModules
    BY <1>8 DEF BindingReturns
  <2>2. stack' \in Seq(Frame) /\ stackThread' \in Threads \cup {NoThread}
    BY <1>1, <2>1, PopType
  <2>3. returned' \in Returned
    BY <2>1, ReturnType DEF StateType, Operations, Codes
  <2> QED
    BY <1>6, <1>7, <2>1, <2>2, <2>3
    DEF TypeOK, StateType, lifecycle, setup
<1>9. CASE i # Len(bindings)
  <2>1. EnterBinding(run, i + 1, Below, stackThread) /\ UNCHANGED returned
    BY <1>9 DEF BindingReturns
  <2>2. /\ sysModules' \in [Importable -> Object \cup {NoObject}]
        /\ stack' \in Seq(Frame)
        /\ stackThread' \in Threads \cup {NoThread}
    BY <1>1, <1>2, <1>3, <2>1, EnterBindingType DEF StateType
  <2> QED
    BY <1>6, <1>7, <2>1, <2>2 DEF TypeOK, StateType, lifecycle, setup
<1> QED BY <1>8, <1>9

LEMMA BindingThrowsType ==
  ASSUME StateType, BindingThrows \/ NextBindingRefused
  PROVE  TypeOK'
<1>1. Waiting("binding") /\ stack # <<>> /\ Below \in Seq(Frame)
  BY TopType DEF BindingThrows, NextBindingRefused, HasNextBinding
<1>2. CASE BindingThrows
  <2>1. sysModules' \in [Importable -> Object \cup {NoObject}]
    BY <1>2 DEF BindingThrows, Without, StateType
  <2>2. PICK code \in Codes : Stop("initialize", stackThread, code, Below)
    BY <1>2 DEF BindingThrows, RaisedCodes, Codes, ErrorCodes
  <2>3. UNCHANGED <<setup, sysPath, otherPython, run>>
    BY <1>2 DEF BindingThrows
  <2> QED
    BY <1>1, <2>1, <2>2, <2>3, StopType DEF TypeOK, StateType, setup
<1>3. CASE NextBindingRefused
  <2>1. Stop("initialize", stackThread, "InterpreterFailure", Below)
        /\ UNCHANGED <<setup, python, run>>
    BY <1>3 DEF NextBindingRefused
  <2>2. "InterpreterFailure" \in Codes /\ stackThread \in Threads \cup {NoThread}
    BY DEF Codes, ErrorCodes, StateType
  <2> QED
    BY <1>1, <2>1, <2>2, StopType DEF TypeOK, StateType, setup, python
<1> QED BY <1>2, <1>3

(* An exception nothing catches leaves the innermost frame. *)
ThrowsPast == BindingThrowsForeign \/ NextBindingNotEntered \/ InvokeThrowsForeign

LEMMA ThrowsPastPops ==
  ASSUME ThrowsPast
  PROVE  /\ Waiting("binding") \/ Waiting("invoke")
         /\ stack # <<>> /\ Pop
         /\ Return("initialize", stackThread, "exception")
              \/ (Return("call", stackThread, "exception") /\ UNCHANGED modules)
         /\ UNCHANGED <<lifecycle, setup, tracebackModule, failureRecords, python>>
BY DEF ThrowsPast, BindingThrowsForeign, NextBindingNotEntered, HasNextBinding,
       InvokeThrowsForeign, Waiting, tables

LEMMA ThrowsPastType ==
  ASSUME StateType, ThrowsPast
  PROVE  TypeOK'
<1>1. stack # <<>> /\ Pop
      /\ UNCHANGED <<lifecycle, setup, tracebackModule, failureRecords, python>>
  BY ThrowsPastPops
<1>2. returned' \in Returned
  BY ThrowsPastPops, ReturnType DEF StateType, Operations, Codes
<1>3. modules' \in [ModuleNames -> Object \cup {NoObject}]
  <2>1. CASE NextBindingNotEntered
    <3>1. Waiting("binding")
      BY <2>1 DEF NextBindingNotEntered, HasNextBinding
    <3>2. Top.index \in Nat
      BY <3>1, TopType DEF Frame
    <3> QED BY <2>1, <3>2, EmplacedType DEF NextBindingNotEntered
  <2>2. CASE BindingThrowsForeign \/ InvokeThrowsForeign
    BY <2>2 DEF BindingThrowsForeign, InvokeThrowsForeign, tables, StateType
  <2> QED BY <2>1, <2>2 DEF ThrowsPast
<1> QED
  BY <1>1, <1>2, <1>3, PopType
  DEF TypeOK, StateType, lifecycle, setup, python

LEMMA ImportEndsType ==
  ASSUME StateType, ImportReturns \/ ImportRaises
  PROVE  TypeOK'
<1>1. Waiting("import") /\ stack # <<>> /\ Top \in Frame /\ Pop
  BY TopType DEF ImportReturns, ImportRaises
<1>2. stack' \in Seq(Frame) /\ stackThread' \in Threads \cup {NoThread}
  BY <1>1, PopType
<1>3. CASE ImportReturns
  <2>1. Top.name \in ModuleNames
    BY <1>1 DEF Waiting, Frame
  <2>2. modules' \in [ModuleNames -> Object \cup {NoObject}]
    BY <1>3, <2>1, CStrings DEF ImportReturns, StateType
  <2>3. returned' \in Returned
    BY <1>3, ReturnType DEF ImportReturns, StateType, Operations, Codes
  <2> QED
    BY <1>2, <1>3, <2>2, <2>3
    DEF ImportReturns, TypeOK, StateType, lifecycle, setup, python
<1>4. CASE ImportRaises
  <2>1. sysModules' \in [Importable -> Object \cup {NoObject}]
    BY <1>4 DEF ImportRaises, StateType
  <2>2. PICK code \in Codes : Return("loadModule", stackThread, code)
    BY <1>4 DEF ImportRaises, RaisedCodes, Codes, ErrorCodes
  <2>3. returned' \in Returned
    BY <2>2, ReturnType DEF StateType, Operations
  <2> QED
    BY <1>2, <1>4, <2>1, <2>3
    DEF ImportRaises, TypeOK, StateType, lifecycle, setup, tables
<1> QED BY <1>3, <1>4

LEMMA InvokeEndsType ==
  ASSUME StateType, InvokeEnds
  PROVE  TypeOK'
<1>1. Waiting("invoke") /\ stack # <<>> /\ Top \in Frame
  BY TopType DEF InvokeEnds
<1>2. Top.hook \in Hooks
  BY <1>1 DEF Waiting, Frame
<1>3. stack' \in Seq(Frame) /\ stackThread' \in Threads \cup {NoThread}
  BY <1>1, PopType DEF InvokeEnds
<1>4. /\ failureRecords' \in [Keys -> FailureRecord]
      /\ returned' \in Returned
  BY <1>2, CallOutcomeType DEF InvokeEnds, StateType
<1> QED
  BY <1>3, <1>4
  DEF InvokeEnds, TypeOK, StateType, lifecycle, setup, python

LEMMA FinalizeEndsType ==
  ASSUME StateType, FinalizeEnds
  PROVE  TypeOK'
<1>1. Waiting("finalize") /\ stack # <<>> /\ Top \in Frame
  BY TopType DEF FinalizeEnds
<1>2. stack' \in Seq(Frame) /\ stackThread' \in Threads \cup {NoThread}
  BY <1>1, PopType DEF FinalizeEnds
<1>3. Top.op \in Operations /\ Top.code \in Codes
  BY <1>1 DEF Waiting, Frame, Operations
<1>4. returned' \in Returned
  BY <1>3, ReturnType DEF FinalizeEnds, StateType
<1>5. bindings' \in Seq(ModuleNames) /\ searchPaths' \in Seq(Directories)
  <2>1. CASE Top.op = "destroy"
    <3>1. bindings' = <<>> /\ searchPaths' = <<>>
      BY <2>1 DEF FinalizeEnds
    <3> QED BY <3>1
  <2>2. CASE Top.op # "destroy"
    BY <2>2 DEF FinalizeEnds, setup, StateType
  <2> QED BY <2>1, <2>2
<1>6. /\ interpreter' = "none" /\ sysModules' = NoSysModules /\ sysPath' = <<>>
      /\ running' = FALSE /\ ownerThread' = NoThread
      /\ UNCHANGED <<tables, otherPython, run>>
  BY DEF FinalizeEnds
<1>7. sysPath' \in Seq(Directories)
  BY <1>6
<1> QED
  BY <1>2, <1>4, <1>5, <1>6, <1>7, EmptyTables DEF TypeOK, StateType, tables

(* The type invariant needs no other: every step keeps it. *)
LEMMA TypeStep == TypeOK /\ [Next]_vars => TypeOK'
<1> SUFFICES ASSUME TypeOK, [Next]_vars
             PROVE  TypeOK'
  OBVIOUS
<1>1. StateType /\ returned \in Returned
  BY DEF TypeOK, StateType
<1>2. ASSUME NEW t \in Threads, HostCalls(t)
      PROVE  TypeOK'
  BY <1>1, <1>2, RegisterModuleType, InitializeType, ShutdownType,
     DestroyType, AddSearchPathType, LoadModuleType, CallType
  DEF HostCalls
<1>3. CASE CodeReturns
  BY <1>1, <1>3, BindingReturnsType, BindingThrowsType, ThrowsPastType,
     ImportEndsType, InvokeEndsType, FinalizeEndsType
  DEF CodeReturns, ThrowsPast
<1>4. ASSUME NEW n, ScriptImports(n) \/ ScriptEdits(n)
      PROVE  TypeOK'
  <2>1. ScriptObject \in Object
    BY <1>1, BoundsAssumption
    DEF ScriptObject, Object, FromScript, StateType
  <2>2. sysModules' \in [Importable -> Object \cup {NoObject}]
    BY <1>1, <1>4, <2>1 DEF ScriptImports, ScriptEdits, StateType
  <2> QED
    BY <1>4, <2>2
    DEF ScriptImports, ScriptEdits, TypeOK, lifecycle, setup, tables, frames
<1>5. CASE OtherPython
  BY <1>5 DEF OtherPython, TypeOK, lifecycle, setup, tables, frames
<1>6. CASE UNCHANGED vars
  BY <1>6
  DEF vars, state, lifecycle, setup, tables, python, frames, TypeOK
<1> QED BY <1>2, <1>3, <1>4, <1>5, <1>6 DEF Next

(* Whatever host, scripts and exit handlers do, every variable keeps its   *)
(* type.                                                                   *)
THEOREM TypeCorrect == Spec => []TypeOK
<1>1. Init => TypeOK
  <2> SUFFICES ASSUME Init
               PROVE  TypeOK
    OBVIOUS
  <2>1. /\ bindings = <<>> /\ searchPaths = <<>> /\ sysPath = <<>>
        /\ stack = <<>>
    BY DEF Init
  <2>2. /\ bindings \in Seq(ModuleNames) /\ searchPaths \in Seq(Directories)
        /\ sysPath \in Seq(Directories) /\ stack \in Seq(Frame)
    BY <2>1
  <2>3. returned \in Returned
    BY DEF Init, Returned, Operations, Codes
  <2>4. run \in 0..MaxRuns
    BY BoundsAssumption DEF Init
  <2>5. /\ modules \in [ModuleNames -> Object \cup {NoObject}]
        /\ sysModules \in [Importable -> Object \cup {NoObject}]
        /\ failureRecords \in [Keys -> FailureRecord]
    BY EmptyTables DEF Init
  <2>6. /\ running \in BOOLEAN /\ tracebackModule \in BOOLEAN
        /\ otherPython \in BOOLEAN
        /\ ownerThread \in Threads \cup {NoThread}
        /\ stackThread \in Threads \cup {NoThread}
        /\ interpreter \in {"none", "live", "finalizing"}
    BY DEF Init
  <2> QED BY <2>2, <2>3, <2>4, <2>5, <2>6 DEF TypeOK
<1> QED BY <1>1, TypeStep, PTL DEF Spec

-----------------------------------------------------------------------------

(* What holds whatever the host and its scripts do: a live interpreter has *)
(* a running runtime, and the frames of one are on its owner's thread.     *)
OwnerInv ==
  /\ interpreter = "none" => ~running
  /\ interpreter = "live" => running
  /\ running /\ stack # <<>> => stackThread = ownerThread

LEMMA SameOwner ==
  ASSUME OwnerInv,
         UNCHANGED <<running, ownerThread, interpreter, stack, stackThread>>
  PROVE  OwnerInv'
BY DEF OwnerInv

LEMMA PushKeepsOwner ==
  ASSUME OwnerInv, NEW frame, Push(frame, ownerThread),
         UNCHANGED <<running, ownerThread, interpreter>>
  PROVE  OwnerInv'
BY DEF OwnerInv, Push

LEMMA PopKeepsOwner ==
  ASSUME OwnerInv, stack # <<>>, Pop,
         UNCHANGED <<running, ownerThread, interpreter>>
  PROVE  OwnerInv'
BY DEF OwnerInv, Pop

LEMMA StopKeepsOwner ==
  ASSUME OwnerInv, NEW op, NEW t, NEW code, NEW waiting,
         Stop(op, t, code, waiting), running => t = ownerThread
  PROVE  OwnerInv'
BY DEF OwnerInv, Stop, frames

LEMMA OwnerStep == OwnerInv /\ [Next]_vars => OwnerInv'
<1> SUFFICES ASSUME OwnerInv, [Next]_vars
             PROVE  OwnerInv'
  OBVIOUS
<1> USE DEF Refused, state, lifecycle, frames, OwnsInterpreter, Waiting
<1>1. ASSUME NEW t \in Threads, HostCalls(t)
      PROVE  OwnerInv'
  <2>1. ASSUME NEW n, RegisterModule(t, n)
        PROVE  OwnerInv'
    BY <2>1, SameOwner DEF RegisterModule, RegistryAdd
  <2>2. CASE Initialize(t)
    <3>1. CASE ~running /\ StartInterpreter(t)
      <4>1. stack # <<>> => stackThread = t
        BY <2>2, <3>1 DEF Initialize, MayCall
      <4>2. interpreter' = "live" /\ running' /\ ownerThread' = t
        BY <3>1 DEF StartInterpreter
      <4>3. stackThread' = t \/ UNCHANGED <<stack, stackThread>>
        BY <3>1 DEF StartInterpreter, EnterBinding
      <4> QED BY <4>1, <4>2, <4>3 DEF OwnerInv
    <3>2. CASE ~(~running /\ StartInterpreter(t))
      BY <2>2, <3>2, SameOwner DEF Initialize, StartFails
    <3> QED BY <3>1, <3>2
  <2>3. CASE Shutdown(t)
    BY <2>3, SameOwner, StopKeepsOwner DEF Shutdown
  <2>4. CASE Destroy(t)
    BY <2>4, StopKeepsOwner DEF Destroy
  <2>5. ASSUME NEW p, AddSearchPath(t, p)
        PROVE  OwnerInv'
    BY <2>5, SameOwner DEF AddSearchPath
  <2>6. ASSUME NEW n, LoadModule(t, n)
        PROVE  OwnerInv'
    BY <2>6, SameOwner, PushKeepsOwner DEF LoadModule
  <2>7. ASSUME NEW h, Call(t, h)
        PROVE  OwnerInv'
    BY <2>7, SameOwner, PushKeepsOwner DEF Call
  <2> QED BY <1>1, <2>1, <2>2, <2>3, <2>4, <2>5, <2>6, <2>7 DEF HostCalls
<1>2. CASE BindingReturns
  <2>1. stack # <<>> /\ UNCHANGED <<running, ownerThread, interpreter>>
    BY <1>2 DEF BindingReturns
  <2>2. Pop \/ stackThread' = stackThread
    BY <1>2 DEF BindingReturns, EnterBinding
  <2> QED BY <2>1, <2>2, PopKeepsOwner DEF OwnerInv
<1>3. CASE BindingThrows \/ NextBindingRefused
  BY <1>3, StopKeepsOwner
  DEF BindingThrows, NextBindingRefused, HasNextBinding, OwnerInv
<1>4. CASE ThrowsPast \/ ImportReturns \/ ImportRaises \/ InvokeEnds
  BY <1>4, PopKeepsOwner, ThrowsPastPops
  DEF ImportReturns, ImportRaises, InvokeEnds
<1>5. CASE FinalizeEnds
  BY <1>5 DEF FinalizeEnds, OwnerInv
<1>6. CASE UNCHANGED vars \/ OtherPython \/ \E n : ScriptImports(n) \/ ScriptEdits(n)
  BY <1>6, SameOwner DEF vars, OtherPython, ScriptImports, ScriptEdits
<1> QED
  BY <1>1, <1>2, <1>3, <1>4, <1>5, <1>6 DEF Next, CodeReturns, ThrowsPast

LEMMA OwnerInvAlways == Spec => []OwnerInv
<1>1. Init => OwnerInv
  BY DEF Init, OwnerInv
<1> QED BY <1>1, OwnerStep, PTL DEF Spec

-----------------------------------------------------------------------------

(* Nobody shuts the runtime down from code it called. *)
HooksDoNotStop == "shutdown in callback" \notin Liberties

(* Then the frames that wait tell where the interpreter is: none without   *)
(* one, no finalization while it lives, one below everything else while it *)
(* goes; and initialize() is always the outermost call.                    *)
FrameInv ==
  /\ interpreter = "none" => stack = <<>>
  /\ interpreter = "live" => ~OnStack("finalize")
  /\ interpreter = "finalizing" =>
       \A i \in 1..Len(stack) : stack[i].kind = "finalize" <=> i = 1
  /\ interpreter = "finalizing" => stack # <<>>
  /\ \A i \in 1..Len(stack) : stack[i].kind = "binding" => i = 1

LEMMA SameFrames ==
  ASSUME FrameInv, UNCHANGED <<interpreter, stack>>
  PROVE  FrameInv'
BY DEF FrameInv, OnStack

(* What a stack with one frame is. *)
LEMMA SingleFrame ==
  ASSUME NEW frame
  PROVE  /\ <<frame>> # <<>> /\ Len(<<frame>>) = 1 /\ <<frame>>[1] = frame
         /\ \A i \in 1..Len(<<frame>>) : i = 1
OBVIOUS

LEMMA PushKeepsFrames ==
  ASSUME StateType, FrameInv, NEW frame \in Frame, NEW t, Push(frame, t),
         frame.kind \in {"import", "invoke"}, interpreter # "none",
         UNCHANGED interpreter
  PROVE  FrameInv'
<1>1. stack' = Append(stack, frame) /\ stack \in Seq(Frame)
  BY DEF Push, StateType
<1>2. /\ stack' # <<>> /\ Len(stack') = Len(stack) + 1 /\ Len(stack) \in Nat
      /\ stack'[Len(stack) + 1] = frame
      /\ \A i \in 1..Len(stack) : stack'[i] = stack[i]
  BY <1>1, AppendType
<1>3. frame.kind # "binding" /\ frame.kind # "finalize"
  OBVIOUS
<1>4. \A i \in 1..Len(stack') : i \in 1..Len(stack) \/ i = Len(stack) + 1
  BY <1>2
<1>5. interpreter = "finalizing" => Len(stack) # 0
  BY <1>1 DEF FrameInv
<1>6. interpreter' = "live" => ~OnStack("finalize")'
  BY <1>2, <1>3, <1>4 DEF FrameInv, OnStack
<1>7. ASSUME interpreter' = "finalizing", NEW i \in 1..Len(stack')
      PROVE  stack'[i].kind = "finalize" <=> i = 1
  BY <1>2, <1>3, <1>4, <1>5, <1>7 DEF FrameInv
<1>8. \A i \in 1..Len(stack') : stack'[i].kind = "binding" => i = 1
  BY <1>2, <1>3, <1>4 DEF FrameInv
<1> QED BY <1>2, <1>6, <1>7, <1>8 DEF FrameInv

LEMMA PopKeepsFrames ==
  ASSUME StateType, FrameInv, stack # <<>>, Pop, Top.kind # "finalize",
         UNCHANGED interpreter
  PROVE  FrameInv'
<1>1. /\ stack' = SubSeq(stack, 1, Len(stack) - 1)
      /\ stack \in Seq(Frame)
  BY DEF Pop, Below, StateType
<1>2. /\ Len(stack) \in Nat /\ Len(stack') = Len(stack) - 1
      /\ stack' \in Seq(Frame)
      /\ \A i \in 1..Len(stack') : stack'[i] = stack[i] /\ i \in 1..Len(stack)
  BY <1>1, BelowType
<1>3. interpreter # "none"
  BY DEF FrameInv
<1>4. interpreter = "finalizing" => stack' # <<>>
  <2> SUFFICES ASSUME interpreter = "finalizing", stack' = <<>>
               PROVE  FALSE
    OBVIOUS
  <2>1. Len(stack) = 1 /\ Len(stack) \in 1..Len(stack)
    BY <1>2
  <2> QED BY <2>1 DEF FrameInv, Top
<1>5. interpreter' = "live" => ~OnStack("finalize")'
  BY <1>2 DEF FrameInv, OnStack
<1> QED BY <1>2, <1>3, <1>4, <1>5 DEF FrameInv

(* stop() leaves its own frame and no other. *)
LEMMA StopKeepsFrames ==
  ASSUME FrameInv, NEW op, NEW t, NEW code, NEW waiting,
         Stop(op, t, code, waiting), interpreter = "live" => waiting = <<>>
  PROVE  FrameInv'
<1>1. CASE interpreter = "live"
  <2> DEFINE frame == [kind |-> "finalize", op |-> op, code |-> code]
  <2>1. interpreter' = "finalizing" /\ stack' = Append(<<>>, frame)
    BY <1>1 DEF Stop
  <2>2. frame.kind = "finalize"
    OBVIOUS
  <2> HIDE DEF frame
  <2>3. stack' = <<frame>>
    BY <2>1
  <2> QED BY <2>1, <2>2, <2>3, SingleFrame DEF FrameInv
<1>2. CASE interpreter # "live"
  BY <1>2, SameFrames DEF Stop, frames
<1> QED BY <1>1, <1>2

(* initialize() has no frame but that of the binding it is at. *)
LEMMA EnterKeepsFrames ==
  ASSUME NEW k, NEW i, NEW t, EnterBinding(k, i, <<>>, t),
         interpreter' = "live"
  PROVE  FrameInv'
<1> DEFINE frame == [kind |-> "binding", index |-> i]
<1>1. stack' = Append(<<>>, frame) /\ frame.kind = "binding"
  BY DEF EnterBinding
<1> HIDE DEF frame
<1>2. stack' = <<frame>>
  BY <1>1
<1> QED BY <1>1, <1>2, SingleFrame DEF FrameInv, OnStack

LEMMA LastFrame ==
  ASSUME StateType, NEW kind, Waiting(kind)
  PROVE  /\ stack # <<>> /\ Len(stack) \in 1..Len(stack)
         /\ stack[Len(stack)].kind = kind /\ OnStack(kind)
BY DEF StateType, Waiting, Top, OnStack

LEMMA OneFrameLeft ==
  ASSUME StateType, stack # <<>>, Len(stack) = 1
  PROVE  Below = <<>>
<1>1. Below \in Seq(Frame) /\ Len(Below) = 0
  BY BelowType DEF Below, StateType
<1> QED BY <1>1

(* A binding is the only frame there is, on a live interpreter. *)
LEMMA BindingIsAlone ==
  ASSUME StateType, FrameInv, Waiting("binding")
  PROVE  interpreter = "live" /\ Below = <<>>
<1>1. Len(stack) = 1 /\ stack # <<>> /\ stack[1].kind = "binding"
  BY LastFrame DEF FrameInv
<1>2. interpreter = "live"
  BY <1>1 DEF FrameInv, StateType
<1> QED BY <1>1, <1>2, OneFrameLeft

(* shutdown() finds no frame but those of exit handlers. *)
LEMMA ShutdownStops ==
  ASSUME HooksDoNotStop, StateType, OwnerInv, FrameInv, NEW t, Shutdown(t)
  PROVE  \/ UNCHANGED state
         \/ /\ Stop("shutdown", t, "Ok", stack)
            /\ running /\ OwnsInterpreter(t)
            /\ interpreter = "live" => stack = <<>>
<1> SUFFICES ASSUME ~UNCHANGED state, interpreter = "live", stack # <<>>
             PROVE  FALSE
  BY DEF Shutdown, Refused
<1>1. /\ running /\ OwnsInterpreter(t)
      /\ t # stackThread \/ \A i \in 1..Len(stack) : stack[i].kind = "finalize"
  BY DEF Shutdown, Refused, HooksDoNotStop
<1>2. t = stackThread
  BY <1>1 DEF OwnerInv, OwnsInterpreter
<1>3. 1 \in 1..Len(stack)
  BY DEF StateType
<1> QED BY <1>1, <1>2, <1>3 DEF FrameInv, OnStack

LEMMA CallPushesFrames ==
  ASSUME StateType, OwnerInv, FrameInv, NEW t \in Threads,
         \/ \E n : LoadModule(t, n)
         \/ \E h \in Hooks \cup {Nameless} : Call(t, h)
  PROVE  FrameInv'
<1> USE DEF Refused, state, lifecycle, frames
<1>1. CASE UNCHANGED <<interpreter, stack>>
  BY <1>1, SameFrames
<1>2. ASSUME NEW frame \in Frame, frame.kind \in {"import", "invoke"},
             Push(frame, t), running, UNCHANGED interpreter
      PROVE  FrameInv'
  BY <1>2, PushKeepsFrames DEF OwnerInv
<1>3. ASSUME NEW n, LoadModule(t, n)
      PROVE  FrameInv'
  <2>1. ASSUME n \in ModuleNames
        PROVE  [kind |-> "import", name |-> n] \in Frame
    BY <2>1 DEF Frame
  <2> QED BY <1>1, <1>2, <1>3, <2>1 DEF LoadModule
<1>4. ASSUME NEW h \in Hooks \cup {Nameless}, Call(t, h)
      PROVE  FrameInv'
  <2>1. ASSUME h # Nameless
        PROVE  [kind |-> "invoke", hook |-> h] \in Frame
    BY <2>1 DEF Frame
  <2> QED BY <1>1, <1>2, <1>4, <2>1 DEF Call
<1> QED BY <1>3, <1>4

LEMMA CodeReturnsKeepFrames ==
  ASSUME StateType, FrameInv, CodeReturns
  PROVE  FrameInv'
<1>1. CASE BindingReturns
  <2>1. /\ interpreter = "live" /\ Below = <<>> /\ UNCHANGED interpreter
        /\ stack # <<>> /\ Top.kind # "finalize"
    BY <1>1, BindingIsAlone DEF BindingReturns, Waiting, lifecycle
  <2>2. Pop \/ \E i : EnterBinding(run, i, <<>>, stackThread)
    BY <1>1, <2>1 DEF BindingReturns
  <2> QED BY <2>1, <2>2, PopKeepsFrames, EnterKeepsFrames
<1>2. CASE BindingThrows \/ NextBindingRefused
  <2>1. Below = <<>>
    BY <1>2, BindingIsAlone DEF BindingThrows, NextBindingRefused, HasNextBinding
  <2> QED BY <1>2, <2>1, StopKeepsFrames DEF BindingThrows, NextBindingRefused
<1>3. CASE ThrowsPast \/ ImportReturns \/ ImportRaises \/ InvokeEnds
  <2>1. stack # <<>> /\ Top.kind # "finalize" /\ Pop /\ UNCHANGED interpreter
    BY <1>3, ThrowsPastPops
    DEF ImportReturns, ImportRaises, InvokeEnds, Waiting, lifecycle
  <2> QED BY <2>1, PopKeepsFrames
<1>4. CASE FinalizeEnds
  <2>1. /\ stack # <<>> /\ Len(stack) \in 1..Len(stack) /\ OnStack("finalize")
        /\ stack[Len(stack)].kind = "finalize"
    BY <1>4, LastFrame DEF FinalizeEnds
  <2>2. interpreter = "finalizing"
    BY <2>1 DEF FrameInv, StateType
  <2>3. Len(stack) = 1
    BY <2>1, <2>2 DEF FrameInv
  <2>4. stack' = <<>> /\ interpreter' = "none"
    BY <1>4, <2>1, <2>3, OneFrameLeft DEF FinalizeEnds, Pop
  <2> QED BY <2>4 DEF FrameInv
<1> QED BY <1>1, <1>2, <1>3, <1>4 DEF CodeReturns, ThrowsPast

LEMMA FrameStep ==
  HooksDoNotStop =>
    (TypeOK /\ OwnerInv /\ FrameInv /\ [Next]_vars => FrameInv')
<1> SUFFICES ASSUME HooksDoNotStop, TypeOK, OwnerInv, FrameInv, [Next]_vars
             PROVE  FrameInv'
  OBVIOUS
<1>1. StateType
  BY DEF TypeOK, StateType
<1> USE DEF Refused, state, lifecycle, frames
<1>2. ASSUME NEW t \in Threads, HostCalls(t)
      PROVE  FrameInv'
  <2>1. ASSUME NEW n, RegisterModule(t, n)
        PROVE  FrameInv'
    BY <2>1, SameFrames DEF RegisterModule, RegistryAdd
  <2>2. ASSUME NEW p, AddSearchPath(t, p)
        PROVE  FrameInv'
    BY <2>2, SameFrames DEF AddSearchPath
  <2>3. CASE Initialize(t)
    <3>1. CASE ~PyIsInitialized /\ StartInterpreter(t)
      <4>1. stack = <<>> /\ interpreter' = "live"
        BY <3>1 DEF PyIsInitialized, FrameInv, StartInterpreter
      <4>2. stack' = <<>> \/ \E k, i : EnterBinding(k, i, <<>>, t)
        BY <3>1, <4>1 DEF StartInterpreter
      <4>3. CASE stack' = <<>>
        BY <4>1, <4>3 DEF FrameInv, OnStack
      <4> QED BY <4>1, <4>2, <4>3, EnterKeepsFrames
    <3>2. CASE UNCHANGED <<interpreter, stack>>
      BY <3>2, SameFrames
    <3> QED BY <2>3, <3>1, <3>2 DEF Initialize, StartFails
  <2>4. CASE Shutdown(t)
    BY <1>1, <2>4, ShutdownStops, SameFrames, StopKeepsFrames
  <2>5. CASE Destroy(t)
    BY <2>5, StopKeepsFrames DEF Destroy
  <2> QED
    BY <1>1, <1>2, <2>1, <2>2, <2>3, <2>4, <2>5, CallPushesFrames
    DEF HostCalls
<1>3. CASE UNCHANGED vars \/ OtherPython \/ \E n : ScriptImports(n) \/ ScriptEdits(n)
  BY <1>3, SameFrames DEF vars, OtherPython, ScriptImports, ScriptEdits
<1> QED BY <1>1, <1>2, <1>3, CodeReturnsKeepFrames DEF Next

LEMMA FrameInvAlways == HooksDoNotStop => (Spec => []FrameInv)
<1> SUFFICES ASSUME HooksDoNotStop
             PROVE  Spec => []FrameInv
  OBVIOUS
<1>1. Init => FrameInv
  BY DEF Init, FrameInv, OnStack
<1>2. TypeOK /\ OwnerInv /\ FrameInv /\ [Next]_vars => FrameInv'
  BY FrameStep
<1> QED BY <1>1, <1>2, TypeCorrect, OwnerInvAlways, PTL DEF Spec

(* No call of the runtime waits for Python code without an interpreter, as *)
(* long as nobody calls shutdown() from code the runtime called.           *)
THEOREM FramesEndFirst ==
  HooksDoNotStop => (Spec => []NoFrameOutlivesInterpreter)
<1>1. FrameInv => NoFrameOutlivesInterpreter
  BY DEF FrameInv, NoFrameOutlivesInterpreter
<1> QED BY <1>1, FrameInvAlways, PTL

-----------------------------------------------------------------------------

(* A binding fails with a Python error or a std::exception, if it does,    *)
(* and finds sys.modules.                                                  *)
FailuresCaught ==
  Liberties \cap {"foreign exception", "edited sys.modules"} = {}

(* initialize() that stops the interpreter does so to report a failure,    *)
(* and its code waits in its frame until the exit handlers have run.       *)
Reports(frame) ==
  frame.kind = "finalize" /\ frame.op = "initialize" => frame.code # "Ok"

FailurePending == \A i \in 1..Len(stack) : Reports(stack[i])

LEMMA SameStackReports ==
  FailurePending /\ UNCHANGED stack => FailurePending'
BY DEF FailurePending, Reports

(* What a stack is built of: frames that were there, and a new one. *)
LEMMA AppendReports ==
  ASSUME NEW waiting \in Seq(Frame), NEW frame \in Frame,
         \A i \in 1..Len(waiting) : Reports(waiting[i]), Reports(frame),
         stack' = Append(waiting, frame)
  PROVE  FailurePending'
<1>1. /\ Len(stack') = Len(waiting) + 1 /\ Len(waiting) \in Nat
      /\ stack'[Len(waiting) + 1] = frame
      /\ \A i \in 1..Len(waiting) : stack'[i] = waiting[i]
  BY AppendType
<1>2. \A i \in 1..Len(stack') : i \in 1..Len(waiting) \/ i = Len(waiting) + 1
  BY <1>1
<1> HIDE DEF Reports
<1>3. \A i \in 1..Len(stack') : Reports(stack'[i])
  BY <1>1, <1>2
<1> QED BY <1>3 DEF FailurePending, Reports

LEMMA BelowReports ==
  ASSUME StateType, FailurePending, stack # <<>>
  PROVE  Below \in Seq(Frame) /\ \A i \in 1..Len(Below) : Reports(Below[i])
<1>1. /\ Below \in Seq(Frame) /\ Len(Below) = Len(stack) - 1
      /\ \A i \in 1..(Len(stack) - 1) : Below[i] = stack[i]
      /\ Len(stack) \in Nat
  BY BelowType DEF StateType, Below
<1>2. \A i \in 1..Len(Below) : i \in 1..Len(stack) /\ Below[i] = stack[i]
  BY <1>1
<1> QED BY <1>1, <1>2 DEF FailurePending

LEMMA PopReports ==
  ASSUME StateType, FailurePending, stack # <<>>, stack' = Below
  PROVE  FailurePending'
<1>1. \A i \in 1..Len(Below) : Reports(Below[i])
  BY BelowReports
<1> QED BY <1>1 DEF FailurePending, Reports

LEMMA PushReports ==
  ASSUME StateType, FailurePending, NEW frame \in Frame, NEW t, Push(frame, t),
         frame.kind # "finalize"
  PROVE  FailurePending'
<1>1. stack \in Seq(Frame) /\ stack' = Append(stack, frame) /\ Reports(frame)
  BY DEF StateType, Push, Reports
<1> QED BY <1>1, AppendReports DEF FailurePending

LEMMA StopReports ==
  ASSUME StateType, FailurePending,
         NEW op \in {"initialize", "shutdown", "destroy"}, NEW t,
         NEW code \in Codes, NEW waiting \in Seq(Frame),
         \A i \in 1..Len(waiting) : Reports(waiting[i]),
         Stop(op, t, code, waiting), op = "initialize" => code # "Ok"
  PROVE  FailurePending'
<1>1. CASE UNCHANGED stack
  BY <1>1, SameStackReports
<1>2. CASE stack' = Append(waiting, [kind |-> "finalize", op |-> op, code |-> code])
  <2> DEFINE frame == [kind |-> "finalize", op |-> op, code |-> code]
  <2>1. frame \in Frame
    BY DEF Frame
  <2>2. Reports(frame)
    BY DEF Reports
  <2> QED BY <1>2, <2>1, <2>2, AppendReports
<1> QED BY <1>1, <1>2 DEF Stop, frames

LEMMA HostCallReports ==
  ASSUME StateType, FailurePending, NEW t \in Threads, HostCalls(t)
  PROVE  FailurePending'
<1>0. "Ok" \in Codes /\ stack \in Seq(Frame) /\ <<>> \in Seq(Frame)
  BY DEF Codes, StateType
<1> USE DEF Refused, state, frames
<1>1. ASSUME NEW n, RegisterModule(t, n)
      PROVE  FailurePending'
  BY <1>1, SameStackReports DEF RegisterModule, RegistryAdd
<1>2. ASSUME NEW p, AddSearchPath(t, p)
      PROVE  FailurePending'
  BY <1>2, SameStackReports DEF AddSearchPath
<1>3. CASE Initialize(t)
  <2>1. CASE StartInterpreter(t) /\ bindings # <<>>
    <3>1. stack' = Append(stack, [kind |-> "binding", index |-> 1])
      BY <2>1 DEF StartInterpreter, EnterBinding
    <3>2. /\ [kind |-> "binding", index |-> 1] \in Frame
          /\ Reports([kind |-> "binding", index |-> 1])
      BY DEF Frame, Reports
    <3> QED BY <1>0, <3>1, <3>2, AppendReports DEF FailurePending
  <2>2. CASE UNCHANGED stack
    BY <2>2, SameStackReports
  <2> QED BY <1>3, <2>1, <2>2 DEF Initialize, StartInterpreter, StartFails
<1>4. CASE Shutdown(t)
  <2>1. CASE Stop("shutdown", t, "Ok", stack)
    BY <1>0, <2>1, StopReports DEF FailurePending
  <2> QED BY <1>4, <2>1, SameStackReports DEF Shutdown
<1>5. CASE Destroy(t)
  <2>1. \A i \in 1..Len(<<>>) : FALSE
    OBVIOUS
  <2> QED BY <1>0, <1>5, <2>1, StopReports DEF Destroy
<1>6. ASSUME NEW n, LoadModule(t, n)
      PROVE  FailurePending'
  <2>1. CASE n \in ModuleNames /\ Push([kind |-> "import", name |-> n], t)
    <3>1. [kind |-> "import", name |-> n] \in Frame
      BY <2>1 DEF Frame
    <3> QED BY <2>1, <3>1, PushReports
  <2> QED BY <1>6, <2>1, SameStackReports DEF LoadModule
<1>7. ASSUME NEW h \in Hooks \cup {Nameless}, Call(t, h)
      PROVE  FailurePending'
  <2>1. CASE h # Nameless /\ Push([kind |-> "invoke", hook |-> h], t)
    <3>1. [kind |-> "invoke", hook |-> h] \in Frame
      BY <2>1 DEF Frame
    <3> QED BY <2>1, <3>1, PushReports
  <2> QED BY <1>7, <2>1, SameStackReports DEF Call
<1> QED
  BY <1>1, <1>2, <1>3, <1>4, <1>5, <1>6, <1>7 DEF HostCalls

LEMMA CodeReturnReports ==
  ASSUME StateType, FailurePending, CodeReturns
  PROVE  FailurePending'
<1>1. stack # <<>>
  BY ThrowsPastPops
  DEF CodeReturns, BindingReturns, BindingThrows, NextBindingRefused,
      HasNextBinding, ThrowsPast, ImportReturns, ImportRaises, InvokeEnds,
      FinalizeEnds, Waiting
<1>2. CASE Pop
  BY <1>1, <1>2, PopReports DEF Pop
<1>3. CASE BindingReturns /\ ~Pop
  <2> DEFINE i == Top.index
             frame == [kind |-> "binding", index |-> i + 1]
  <2>1. stack' = Append(Below, frame)
    BY <1>3 DEF BindingReturns, EnterBinding
  <2>2. i \in Nat \ {0} /\ i + 1 \in Nat \ {0}
    BY <1>3, TopType DEF BindingReturns, Frame
  <2>3. frame \in Frame /\ Reports(frame)
    BY <2>2 DEF Frame, Reports
  <2> HIDE DEF frame
  <2> QED BY <1>1, <2>1, <2>3, BelowReports, AppendReports
<1>4. CASE BindingThrows
  <2>1. PICK code \in RaisedCodes : Stop("initialize", stackThread, code, Below)
    BY <1>4 DEF BindingThrows
  <2>2. code \in Codes /\ code # "Ok"
    BY DEF RaisedCodes, Codes, ErrorCodes
  <2> QED BY <1>1, <2>1, <2>2, BelowReports, StopReports
<1>5. CASE NextBindingRefused
  <2>1. Stop("initialize", stackThread, "InterpreterFailure", Below)
    BY <1>5 DEF NextBindingRefused
  <2>2. "InterpreterFailure" \in Codes
    BY DEF Codes, ErrorCodes
  <2> QED BY <1>1, <2>1, <2>2, BelowReports, StopReports
<1> QED
  BY <1>2, <1>3, <1>4, <1>5, ThrowsPastPops
  DEF CodeReturns, ThrowsPast, ImportReturns, ImportRaises, InvokeEnds,
      FinalizeEnds

LEMMA PendingAlways == Spec => []FailurePending
<1>1. Init => FailurePending
  BY DEF Init, FailurePending
<1>2. TypeOK /\ FailurePending /\ [Next]_vars => FailurePending'
  <2> SUFFICES ASSUME TypeOK, FailurePending, [Next]_vars
               PROVE  FailurePending'
    OBVIOUS
  <2>1. StateType
    BY DEF TypeOK, StateType
  <2>2. CASE UNCHANGED stack
    BY <2>2, SameStackReports
  <2> QED
    BY <2>1, <2>2, HostCallReports, CodeReturnReports
    DEF Next, ScriptImports, ScriptEdits, OtherPython, vars, state, frames
<1> QED BY <1>1, <1>2, TypeCorrect, PTL DEF Spec

(* What is seen when initialize() lets go. *)
InitializeLeft ==
  /\ returned' # returned
  /\ returned'.op = "initialize"
  /\ returned'.code \notin {"entered", "AlreadyInitialized"}

LEMMA OthersDoNotInitialize ==
  ASSUME NEW t \in Threads, HostCalls(t), InitializeLeft
  PROVE  Initialize(t)
<1> USE DEF Refused, InitializeLeft
<1>0. \A op, u, code : Return(op, u, code) => returned'.op = op
  BY DEF Return
<1>1. ASSUME NEW n, RegisterModule(t, n) \/ LoadModule(t, n)
      PROVE  FALSE
  BY <1>0, <1>1 DEF RegisterModule, LoadModule
<1>2. ASSUME NEW p, AddSearchPath(t, p)
      PROVE  FALSE
  BY <1>0, <1>2 DEF AddSearchPath
<1>3. CASE Shutdown(t) \/ Destroy(t)
  <2>1. \A op, code, waiting : Stop(op, t, code, waiting) =>
          returned'.op = op
    BY <1>0 DEF Stop
  <2> QED BY <1>0, <1>3, <2>1 DEF Shutdown, Destroy
<1>4. ASSUME NEW h, Call(t, h)
      PROVE  FALSE
  BY <1>0, <1>4 DEF Call, CallSucceeds, CallFails
<1> QED BY <1>1, <1>2, <1>3, <1>4 DEF HostCalls

LEMMA HostCallLeaves ==
  ASSUME NEW t \in Threads, HostCalls(t), InitializeLeft
  PROVE  running' <=> returned'.code = "Ok"
<1> USE DEF Refused, InitializeLeft, Return
<1>1. Initialize(t)
  BY OthersDoNotInitialize
<1>2. CASE ~running /\ Refused("initialize", t, "InterpreterFailure")
  BY <1>2 DEF state, lifecycle
<1>3. CASE ~running /\ StartFails(t)
  BY <1>3 DEF StartFails, lifecycle
<1>4. CASE StartInterpreter(t)
  BY <1>4 DEF StartInterpreter
<1> QED BY <1>1, <1>2, <1>3, <1>4 DEF Initialize

LEMMA CodeReturnLeaves ==
  ASSUME StateType, OwnerInv, FrameInv, FailurePending, FailuresCaught,
         CodeReturns, InitializeLeft
  PROVE  running' <=> returned'.code = "Ok"
<1> USE DEF InitializeLeft, Return
<1>1. CASE ImportReturns \/ ImportRaises \/ InvokeEnds
  BY <1>1 DEF ImportReturns, ImportRaises, InvokeEnds, CallSucceeds, CallFails
<1>2. CASE BindingReturns
  <2>1. running
    BY <1>2, BindingIsAlone DEF BindingReturns, OwnerInv
  <2> QED BY <1>2, <2>1 DEF BindingReturns, lifecycle
<1>3. CASE BindingThrows \/ NextBindingRefused
  <2>1. PICK code : Stop("initialize", stackThread, code, Below)
    BY <1>3 DEF BindingThrows, NextBindingRefused
  <2>2. interpreter = "live"
    BY <1>3 DEF BindingThrows, NextBindingRefused, HasNextBinding
  <2>3. returned'.code = "entered"
    BY <2>1, <2>2 DEF Stop
  <2> QED BY <2>3
<1>4. CASE FinalizeEnds
  <2>1. Len(stack) \in 1..Len(stack) /\ Top.kind = "finalize"
    BY <1>4, LastFrame DEF FinalizeEnds, Top
  <2>2. Reports(Top)
    BY <2>1 DEF FailurePending, Top
  <2>3. /\ returned'.op = Top.op /\ returned'.code = Top.code
        /\ running' = FALSE
    BY <1>4 DEF FinalizeEnds
  <2> QED BY <2>1, <2>2, <2>3 DEF Reports
<1>5. ~ThrowsPast
  <2>1. /\ "foreign exception" \notin Liberties
        /\ "edited sys.modules" \notin Liberties
    BY DEF FailuresCaught
  <2> QED
    BY <2>1
    DEF ThrowsPast, BindingThrowsForeign, NextBindingNotEntered,
        InvokeThrowsForeign
<1> QED BY <1>1, <1>2, <1>3, <1>4, <1>5 DEF CodeReturns, ThrowsPast

(* initialize() leaves a runtime that runs or one that is stopped, and     *)
(* says which: also when a binding throws and the interpreter goes down    *)
(* with exit handlers still to run, whatever these do.                     *)
THEOREM InitializeSucceedsOrStops ==
  HooksDoNotStop /\ FailuresCaught => (Spec => InitializeIsAtomic)
<1> SUFFICES ASSUME HooksDoNotStop, FailuresCaught
             PROVE  Spec => InitializeIsAtomic
  OBVIOUS
<1>1. TypeOK /\ OwnerInv /\ FrameInv /\ FailurePending /\ [Next]_vars =>
        [/\ returned' # returned
         /\ returned'.op = "initialize"
         /\ returned'.code \notin {"entered", "AlreadyInitialized"}
         => (running' <=> returned'.code = "Ok")]_vars
  <2> SUFFICES ASSUME TypeOK, OwnerInv, FrameInv, FailurePending, Next,
                      InitializeLeft
               PROVE  running' <=> returned'.code = "Ok"
    BY DEF vars, InitializeLeft
  <2>1. StateType
    BY DEF TypeOK, StateType
  <2> QED
    BY <2>1, HostCallLeaves, CodeReturnLeaves
    DEF Next, ScriptImports, ScriptEdits, OtherPython, InitializeLeft
<1>2. Spec => []FrameInv
  BY FrameInvAlways
<1> QED
  BY <1>1, <1>2, TypeCorrect, OwnerInvAlways, PendingAlways, PTL
  DEF Spec, InitializeIsAtomic

-----------------------------------------------------------------------------

(* What the tables depend on besides: exit handlers load nothing. *)
CarefulHost ==
  /\ HooksDoNotStop
  /\ "load while finalizing" \notin Liberties

(* Then the runtime holds Python objects of a live interpreter only. *)
HoldsInv ==
  /\ interpreter # "live" => modules = NoModules /\ ~tracebackModule
  /\ interpreter = "live" => tracebackModule
  /\ interpreter = "finalizing" => Len(stack) = 1

LEMMA LifecycleParts ==
  ASSUME StateType
  PROVE  LifecycleInv <=> OwnerInv /\ FrameInv /\ HoldsInv
<1>1. ASSUME LifecycleInv
      PROVE  OwnerInv /\ FrameInv /\ HoldsInv
  <2>1. interpreter \in {"none", "live", "finalizing"} /\ stack \in Seq(Frame)
    BY DEF StateType
  <2>2. ASSUME interpreter = "finalizing"
        PROVE  /\ stack # <<>> /\ Len(stack) = 1
               /\ \A i \in 1..Len(stack) : stack[i].kind = "finalize" <=> i = 1
    <3>1. stack # <<>> /\ Len(stack) = 1 /\ stack[1].kind = "finalize"
      BY <1>1, <2>2 DEF LifecycleInv, Waiting, Top
    <3>2. \A i \in 1..1 : i = 1
      OBVIOUS
    <3> QED BY <3>1, <3>2
  <2> QED BY <1>1, <2>1, <2>2 DEF LifecycleInv, OwnerInv, FrameInv, HoldsInv
<1>2. ASSUME OwnerInv, FrameInv, HoldsInv
      PROVE  LifecycleInv
  <2>1. interpreter \in {"none", "live", "finalizing"}
    BY DEF StateType
  <2>2. ASSUME interpreter = "finalizing"
        PROVE  Len(stack) = 1 /\ Waiting("finalize")
    <3>1. stack # <<>> /\ Len(stack) = 1
      BY <1>2, <2>2 DEF FrameInv, HoldsInv
    <3>2. 1 \in 1..Len(stack)
      BY <3>1
    <3> QED BY <1>2, <2>2, <3>1, <3>2 DEF FrameInv, Waiting, Top
  <2> QED BY <1>2, <2>1, <2>2 DEF LifecycleInv, OwnerInv, FrameInv, HoldsInv
<1> QED BY <1>1, <1>2

LEMMA SameHolds ==
  ASSUME HoldsInv, UNCHANGED <<interpreter, modules, tracebackModule, stack>>
  PROVE  HoldsInv'
BY DEF HoldsInv

LEMMA LiveHolds ==
  ASSUME HoldsInv, interpreter = "live",
         UNCHANGED <<interpreter, tracebackModule>>
  PROVE  HoldsInv'
BY DEF HoldsInv

LEMMA StopDropsAll ==
  ASSUME HoldsInv, NEW op, NEW t, NEW code, NEW waiting,
         Stop(op, t, code, waiting), interpreter = "live" => waiting = <<>>
  PROVE  HoldsInv'
<1>1. modules' = NoModules /\ ~tracebackModule' /\ interpreter' # "live"
  BY DEF Stop, ClearTables
<1>2. interpreter' = "finalizing" => Len(stack') = 1
  <2>1. CASE interpreter = "live"
    <3> DEFINE frame == [kind |-> "finalize", op |-> op, code |-> code]
    <3>1. stack' = Append(<<>>, frame)
      BY <2>1 DEF Stop
    <3> HIDE DEF frame
    <3> QED BY <3>1
  <2>2. CASE interpreter # "live"
    BY <2>2 DEF Stop, HoldsInv, frames
  <2> QED BY <2>1, <2>2
<1> QED BY <1>1, <1>2 DEF HoldsInv

(* What ends a binding, an import or an invocation finds the interpreter   *)
(* live, and a binding is the only frame there is.                         *)
LEMMA OpenFrame ==
  ASSUME StateType, LifecycleInv, NEW kind \in {"binding", "import", "invoke"},
         Waiting(kind)
  PROVE  /\ interpreter = "live" /\ running /\ stackThread = ownerThread
         /\ stack # <<>>
         /\ kind = "binding" => Below = <<>>
<1>1. OwnerInv /\ FrameInv /\ HoldsInv
  BY LifecycleParts
<1>2. /\ stack # <<>> /\ Len(stack) \in 1..Len(stack)
      /\ stack[Len(stack)].kind = kind
  BY LastFrame
<1>3. interpreter # "finalizing"
  BY <1>1, <1>2 DEF FrameInv, HoldsInv
<1>4. interpreter = "live"
  BY <1>1, <1>2, <1>3 DEF FrameInv, StateType
<1>5. kind = "binding" => Below = <<>>
  BY <1>1, BindingIsAlone
<1> QED BY <1>1, <1>2, <1>4, <1>5 DEF OwnerInv

LEMMA HoldsStep ==
  CarefulHost =>
    (TypeOK /\ OwnerInv /\ FrameInv /\ HoldsInv /\ [Next]_vars => HoldsInv')
<1> SUFFICES ASSUME CarefulHost, TypeOK, OwnerInv, FrameInv, HoldsInv,
                    [Next]_vars
             PROVE  HoldsInv'
  OBVIOUS
<1>1. StateType /\ LifecycleInv /\ HooksDoNotStop
  BY LifecycleParts DEF TypeOK, StateType, CarefulHost
<1>2. running => interpreter \in {"live", "finalizing"}
  BY <1>1 DEF OwnerInv, StateType
<1> USE DEF Refused, state, lifecycle, tables, frames
<1>3. ASSUME NEW t \in Threads, HostCalls(t)
      PROVE  HoldsInv'
  <2>1. ASSUME NEW n, RegisterModule(t, n)
        PROVE  HoldsInv'
    BY <2>1, SameHolds DEF RegisterModule, RegistryAdd
  <2>2. ASSUME NEW p, AddSearchPath(t, p)
        PROVE  HoldsInv'
    BY <2>2, SameHolds DEF AddSearchPath
  <2>3. CASE Initialize(t)
    <3>1. CASE StartInterpreter(t)
      BY <3>1 DEF StartInterpreter, HoldsInv
    <3>2. CASE ~PyIsInitialized /\ StartFails(t)
      <4>1. interpreter = "none" /\ interpreter' = "none"
        BY <1>1, <3>2 DEF PyIsInitialized, StartFails
      <4>2. modules' = NoModules /\ ~tracebackModule'
        BY <3>2, <4>1 DEF StartFails, ClearTables, HoldsInv
      <4> QED BY <4>1, <4>2 DEF HoldsInv
    <3>3. CASE UNCHANGED state
      BY <3>3, SameHolds
    <3> QED BY <2>3, <3>1, <3>2, <3>3 DEF Initialize
  <2>4. CASE Shutdown(t)
    BY <1>1, <2>4, ShutdownStops, SameHolds, StopDropsAll
  <2>5. CASE Destroy(t)
    BY <2>5, StopDropsAll DEF Destroy
  <2>6. ASSUME NEW n, LoadModule(t, n)
        PROVE  HoldsInv'
    <3>1. CASE UNCHANGED state
      BY <3>1, SameHolds
    <3>2. CASE ~UNCHANGED state
      <4>1. interpreter = "live" /\ UNCHANGED <<interpreter, tracebackModule>>
        BY <1>2, <2>6, <3>2 DEF LoadModule, CarefulHost
      <4> QED BY <4>1, LiveHolds
    <3> QED BY <3>1, <3>2
  <2>7. ASSUME NEW h \in Hooks \cup {Nameless}, Call(t, h)
        PROVE  HoldsInv'
    <3>1. CASE UNCHANGED <<interpreter, modules, tracebackModule, stack>>
      BY <3>1, SameHolds
    <3>2. CASE ~UNCHANGED <<interpreter, modules, tracebackModule, stack>>
      <4>1. /\ UNCHANGED <<interpreter, tracebackModule>>
            /\ running /\ h # Nameless /\ modules[h.module] # NoObject
        BY <2>7, <3>2 DEF Call
      <4>2. modules # NoModules
        BY <4>1, NamesAssumption DEF NoModules
      <4> QED BY <1>2, <4>1, <4>2, LiveHolds DEF HoldsInv
    <3> QED BY <3>1, <3>2
  <2> QED
    BY <1>3, <2>1, <2>2, <2>3, <2>4, <2>5, <2>6, <2>7 DEF HostCalls
<1>4. CASE BindingThrows \/ NextBindingRefused
  <2>1. Below = <<>>
    BY <1>1, <1>4, OpenFrame
    DEF BindingThrows, NextBindingRefused, HasNextBinding
  <2> QED BY <1>4, <2>1, StopDropsAll DEF BindingThrows, NextBindingRefused
<1>5. CASE \/ BindingReturns \/ ThrowsPast
           \/ ImportReturns \/ ImportRaises \/ InvokeEnds
  <2>1. interpreter = "live"
    BY <1>1, <1>5, OpenFrame, ThrowsPastPops
    DEF BindingReturns, ImportReturns, ImportRaises, InvokeEnds
  <2>2. UNCHANGED <<interpreter, tracebackModule>>
    BY <1>5, ThrowsPastPops
    DEF BindingReturns, ImportReturns, ImportRaises, InvokeEnds
  <2> QED BY <2>1, <2>2, LiveHolds
<1>6. CASE FinalizeEnds
  <2>1. OnStack("finalize")
    BY <1>1, <1>6, LastFrame DEF FinalizeEnds
  <2>2. interpreter # "live"
    BY <2>1 DEF FrameInv
  <2> QED BY <1>6, <2>2 DEF FinalizeEnds, HoldsInv
<1>7. CASE UNCHANGED vars \/ OtherPython \/ \E n : ScriptImports(n) \/ ScriptEdits(n)
  BY <1>7, SameHolds DEF vars, OtherPython, ScriptImports, ScriptEdits
<1> QED
  BY <1>3, <1>4, <1>5, <1>6, <1>7 DEF Next, CodeReturns, ThrowsPast

LEMMA LifecycleStep ==
  CarefulHost => (TypeOK /\ LifecycleInv /\ [Next]_vars => LifecycleInv')
<1> SUFFICES ASSUME CarefulHost, TypeOK, LifecycleInv, [Next]_vars
             PROVE  LifecycleInv'
  OBVIOUS
<1>1. StateType /\ HooksDoNotStop
  BY DEF TypeOK, StateType, CarefulHost
<1>2. OwnerInv /\ FrameInv /\ HoldsInv
  BY <1>1, LifecycleParts
<1>3. OwnerInv' /\ FrameInv' /\ HoldsInv'
  BY <1>1, <1>2, OwnerStep, FrameStep, HoldsStep
<1>4. interpreter' \in {"none", "live", "finalizing"}
  BY TypeStep DEF TypeOK
<1> QED
  BY <1>3, <1>4 DEF LifecycleInv, OwnerInv, FrameInv, HoldsInv, Waiting, Top

(* The interpreter's state decides what the runtime holds and which frames *)
(* wait, as long as exit handlers load nothing and nobody calls shutdown() *)
(* from code the runtime called.                                           *)
THEOREM LifecycleHolds == CarefulHost => (Spec => []LifecycleInv)
<1> SUFFICES ASSUME CarefulHost
             PROVE  Spec => []LifecycleInv
  OBVIOUS
<1>1. Init => HoldsInv
  BY DEF Init, HoldsInv
<1>2. TypeOK /\ OwnerInv /\ FrameInv /\ HoldsInv /\ [Next]_vars => HoldsInv'
  BY HoldsStep
<1>3. HooksDoNotStop
  BY DEF CarefulHost
<1>4. Spec => []FrameInv
  BY <1>3, FrameInvAlways
<1>5. TypeOK /\ OwnerInv /\ FrameInv /\ HoldsInv => LifecycleInv
  <2>1. TypeOK => StateType
    BY DEF TypeOK, StateType
  <2> QED BY <2>1, LifecycleParts
<1> QED
  BY <1>1, <1>2, <1>4, <1>5, TypeCorrect, OwnerInvAlways, PTL DEF Spec

(* stop() empties the module table before the interpreter goes, and it     *)
(* stays empty: no Python reference outlives the interpreter.              *)
THEOREM NothingHeldWhenStopped == CarefulHost => (Spec => []StoppedHoldsNothing)
<1>1. LifecycleInv => StoppedHoldsNothing
  BY DEF LifecycleInv, StoppedHoldsNothing
<1> QED BY <1>1, LifecycleHolds, PTL

-----------------------------------------------------------------------------

(* What a call on a thread that does not own the running interpreter does. *)
LEMMA ForeignCallIsRefused ==
  ASSUME NEW t \in Threads, HostCalls(t), running, ~OwnsInterpreter(t)
  PROVE  UNCHANGED state
<1>1. ASSUME NEW n, RegisterModule(t, n)
      PROVE  UNCHANGED state
  BY <1>1 DEF RegisterModule, RegistryAdd, Refused
<1>2. CASE Initialize(t)
  BY <1>2 DEF Initialize, Refused
<1>3. CASE Shutdown(t)
  BY <1>3 DEF Shutdown, Refused
<1>4. CASE Destroy(t)
  BY <1>4 DEF Destroy
<1>5. ASSUME NEW p, AddSearchPath(t, p)
      PROVE  UNCHANGED state
  BY <1>5 DEF AddSearchPath, Refused
<1>6. ASSUME NEW n, LoadModule(t, n)
      PROVE  UNCHANGED state
  BY <1>6 DEF LoadModule, Refused
<1>7. ASSUME NEW h, Call(t, h)
      PROVE  UNCHANGED state
  BY <1>7 DEF Call, Refused
<1> QED BY <1>1, <1>2, <1>3, <1>4, <1>5, <1>6, <1>7 DEF HostCalls

(* A host's call is reported under its own thread. *)
LEMMA CallsNameTheirThread ==
  ASSUME NEW t \in Threads, HostCalls(t)
  PROVE  returned'.thread = t
<1>0. \A op, code : Return(op, t, code) => returned'.thread = t
  BY DEF Return
<1> USE <1>0 DEF Refused
<1>1. ASSUME NEW n, RegisterModule(t, n)
      PROVE  returned'.thread = t
  BY <1>1 DEF RegisterModule, RegistryAdd
<1>2. CASE Initialize(t)
  BY <1>2 DEF Initialize, StartInterpreter, StartFails
<1>3. ASSUME NEW op, NEW code, NEW waiting, Stop(op, t, code, waiting)
      PROVE  returned'.thread = t
  BY <1>3 DEF Stop
<1>4. CASE Shutdown(t)
  BY <1>3, <1>4 DEF Shutdown
<1>5. CASE Destroy(t)
  BY <1>3, <1>5 DEF Destroy
<1>6. ASSUME NEW p, AddSearchPath(t, p)
      PROVE  returned'.thread = t
  BY <1>6 DEF AddSearchPath
<1>7. ASSUME NEW n, LoadModule(t, n)
      PROVE  returned'.thread = t
  BY <1>7 DEF LoadModule
<1>8. ASSUME NEW h, Call(t, h)
      PROVE  returned'.thread = t
  BY <1>8 DEF Call, CallSucceeds, CallFails
<1> QED BY <1>1, <1>2, <1>4, <1>5, <1>6, <1>7, <1>8 DEF HostCalls

(* So is what leaves a frame: under the thread the frames are on. *)
LEMMA ReturnsNameTheStackThread ==
  ASSUME CodeReturns, returned' # returned
  PROVE  stack # <<>> /\ returned'.thread = stackThread
<1> USE DEF Return, Waiting
<1>1. CASE BindingReturns
  BY <1>1 DEF BindingReturns
<1>2. CASE BindingThrows \/ NextBindingRefused
  <2>1. PICK code : Stop("initialize", stackThread, code, Below)
    BY <1>2 DEF BindingThrows, NextBindingRefused
  <2>2. stack # <<>>
    BY <1>2 DEF BindingThrows, NextBindingRefused, HasNextBinding
  <2> QED BY <2>1, <2>2 DEF Stop
<1>3. CASE ThrowsPast
  BY <1>3, ThrowsPastPops
<1>4. CASE ImportReturns \/ ImportRaises
  BY <1>4 DEF ImportReturns, ImportRaises
<1>5. CASE InvokeEnds
  BY <1>5 DEF InvokeEnds, CallSucceeds, CallFails
<1>6. CASE FinalizeEnds
  BY <1>6 DEF FinalizeEnds
<1> QED BY <1>1, <1>2, <1>3, <1>4, <1>5, <1>6 DEF CodeReturns, ThrowsPast

(* Whatever the owner is in the middle of, a call from another thread is   *)
(* refused and changes nothing: the check on the thread comes before       *)
(* everything a call does.  Nothing is assumed of the host.                *)
THEOREM ForeignThreadsAreHarmless == Spec => ForeignThreadsChangeNothing
<1>1. OwnerInv /\ [Next]_vars =>
        [running /\ returned' # returned /\ returned'.thread # ownerThread
         => UNCHANGED state]_vars
  <2> SUFFICES ASSUME OwnerInv, Next, running, returned' # returned,
                      returned'.thread # ownerThread
               PROVE  UNCHANGED state
    BY DEF vars
  <2>1. ASSUME NEW t \in Threads, HostCalls(t)
        PROVE  UNCHANGED state
    BY <2>1, CallsNameTheirThread, ForeignCallIsRefused DEF OwnsInterpreter
  <2>2. CASE CodeReturns
    BY <2>2, ReturnsNameTheStackThread DEF OwnerInv
  <2> QED BY <2>1, <2>2 DEF Next, ScriptImports, ScriptEdits, OtherPython
<1> QED
  BY <1>1, OwnerInvAlways, PTL DEF Spec, ForeignThreadsChangeNothing

(* No step edits the queue of bindings while initialize() walks it, as     *)
(* long as no callback shuts the runtime down.                             *)
THEOREM BindingsAreFrozen ==
  HooksDoNotStop => (Spec => BindingsFrozenWhileApplied)
<1> SUFFICES ASSUME HooksDoNotStop
             PROVE  Spec => BindingsFrozenWhileApplied
  OBVIOUS
<1>1. TypeOK /\ OwnerInv /\ FrameInv /\ [Next]_vars =>
        [OnStack("binding") => bindings' = bindings]_vars
  <2> SUFFICES ASSUME TypeOK, OwnerInv, FrameInv, Next, OnStack("binding")
               PROVE  bindings' = bindings
    BY DEF vars
  <2>1. interpreter = "live" /\ running /\ stack # <<>>
    <3>1. PICK i \in 1..Len(stack) : stack[i].kind = "binding"
      BY DEF OnStack
    <3>2. stack # <<>> /\ i = 1
      BY <3>1 DEF FrameInv, TypeOK
    <3>3. interpreter = "live"
      BY <3>1, <3>2 DEF FrameInv, TypeOK
    <3> QED BY <3>2, <3>3 DEF OwnerInv
  <2> USE <2>1 DEF Refused, state, setup
  <2>2. ASSUME NEW t \in Threads, HostCalls(t)
        PROVE  bindings' = bindings
    <3>1. CASE Initialize(t) \/ Shutdown(t) \/ Destroy(t)
      BY <3>1 DEF Initialize, Shutdown, Destroy
    <3>2. ASSUME NEW n, RegisterModule(t, n) \/ LoadModule(t, n)
          PROVE  bindings' = bindings
      BY <3>2 DEF RegisterModule, RegistryAdd, LoadModule
    <3>3. ASSUME NEW p, AddSearchPath(t, p)
          PROVE  bindings' = bindings
      BY <3>3 DEF AddSearchPath
    <3>4. ASSUME NEW h, Call(t, h)
          PROVE  bindings' = bindings
      BY <3>4 DEF Call
    <3> QED BY <2>2, <3>1, <3>2, <3>3, <3>4 DEF HostCalls
  <2>3. CASE FinalizeEnds
    <3>1. StateType
      BY DEF TypeOK, StateType
    <3>2. OnStack("finalize")
      BY <2>3, <3>1, LastFrame DEF FinalizeEnds
    <3> QED BY <2>1, <3>2 DEF FrameInv
  <2>4. CASE CodeReturns /\ ~FinalizeEnds
    BY <2>4, ThrowsPastPops
    DEF CodeReturns, BindingReturns, BindingThrows, NextBindingRefused,
        ThrowsPast, ImportReturns, ImportRaises, InvokeEnds
  <2> QED BY <2>2, <2>3, <2>4 DEF Next, ScriptImports, ScriptEdits, OtherPython
<1> QED
  BY <1>1, TypeCorrect, OwnerInvAlways, FrameInvAlways, PTL
  DEF Spec, BindingsFrozenWhileApplied

-----------------------------------------------------------------------------

(* The paths in effect are those Python takes, ... *)
TakenFrom(recorded, effective) ==
  \A p \in Directories :
    (\E i \in 1..Len(effective) : effective[i] = p) <=>
      /\ p \notin Unencodable
      /\ \E k \in 1..Len(recorded) : recorded[k] = p

RecordedAfter(recorded, p, q) ==
  \E k, l \in 1..Len(recorded) :
    /\ l < k
    /\ recorded[k] = p
    /\ recorded[l] = q

(* ... a later one before an earlier one. *)
LatestFirst(recorded, effective) ==
  \A i, j \in 1..Len(effective) :
    i < j => RecordedAfter(recorded, effective[i], effective[j])

InEffect(recorded, effective) ==
  TakenFrom(recorded, effective) /\ LatestFirst(recorded, effective)

LEMMA InEffectMeans ==
  /\ SearchPathsInEffect <=>
       (interpreter = "live" => InEffect(searchPaths, sysPath))
  /\ SearchPathsInEffect' <=>
       (interpreter' = "live" => InEffect(searchPaths', sysPath'))
BY Zenon
DEF SearchPathsInEffect, InEffect, TakenFrom, LatestFirst, RecordedAfter

(* initialize(): each path goes in front of those before it. *)
LEMMA ReversedInEffect ==
  ASSUME NEW s \in Seq(Directories),
         \A i \in 1..Len(s) : s[i] \notin Unencodable
  PROVE  InEffect(s, Reversed(s))
<1> DEFINE n == Len(s)
           r == [i \in 1..n |-> s[n + 1 - i]]
<1>1. n \in Nat /\ \A i \in 1..n : s[i] \in Directories /\ s[i] \notin Unencodable
  OBVIOUS
<1>2. Reversed(s) = r /\ r \in Seq(Directories) /\ DOMAIN r = 1..n
      /\ \A i \in 1..n : r[i] = s[n + 1 - i]
  BY ReversedType DEF Reversed
<1> HIDE DEF n, r
<1>3. Len(r) = n
  BY <1>1, <1>2
<1>4. \A i \in 1..n : n + 1 - i \in 1..n /\ n + 1 - (n + 1 - i) = i
  BY <1>1
<1>5. TakenFrom(s, r)
  <2> SUFFICES ASSUME NEW p \in Directories
               PROVE  (\E i \in 1..n : r[i] = p) <=>
                        p \notin Unencodable /\ \E k \in 1..n : s[k] = p
    BY <1>3 DEF TakenFrom, n
  <2>1. ASSUME NEW i \in 1..n, r[i] = p
        PROVE  p \notin Unencodable /\ \E k \in 1..n : s[k] = p
    BY <1>1, <1>2, <1>4, <2>1
  <2>2. ASSUME NEW k \in 1..n, s[k] = p
        PROVE  \E i \in 1..n : r[i] = p
    <3>1. n + 1 - k \in 1..n /\ r[n + 1 - k] = s[n + 1 - (n + 1 - k)]
      BY <1>2, <1>4
    <3> QED BY <1>4, <2>2, <3>1
  <2> QED BY <2>1, <2>2
<1>6. LatestFirst(s, r)
  <2> SUFFICES ASSUME NEW i \in 1..n, NEW j \in 1..n, i < j
               PROVE  RecordedAfter(s, r[i], r[j])
    BY <1>3 DEF LatestFirst
  <2>1. n + 1 - j < n + 1 - i
    BY <1>1
  <2> QED BY <1>2, <1>4, <2>1 DEF RecordedAfter, n
<1> QED BY <1>2, <1>5, <1>6 DEF InEffect

(* addSearchPath() while running: a path Python takes goes in front, ...   *)
LEMMA PathInFront ==
  ASSUME NEW s \in Seq(Directories), NEW r \in Seq(Directories),
         NEW p \in Directories \ Unencodable, InEffect(s, r)
  PROVE  InEffect(Append(s, p), <<p>> \o r)
<1> DEFINE a == Append(s, p)
           b == <<p>> \o r
<1>1. /\ Len(s) \in Nat /\ Len(a) = Len(s) + 1 /\ a[Len(s) + 1] = p
      /\ \A i \in 1..Len(s) : a[i] = s[i]
  BY AppendType
<1>2. /\ Len(r) \in Nat /\ Len(b) = Len(r) + 1 /\ b[1] = p
      /\ \A i \in 2..Len(r) + 1 : b[i] = r[i - 1]
      /\ \A i \in 1..Len(r) : r[i] \in Directories
  OBVIOUS
<1> HIDE DEF a, b
<1>3. TakenFrom(a, b)
  <2> SUFFICES ASSUME NEW q \in Directories
               PROVE  (\E i \in 1..Len(b) : b[i] = q) <=>
                        q \notin Unencodable /\ \E k \in 1..Len(a) : a[k] = q
    BY DEF TakenFrom
  <2>1. (\E i \in 1..Len(b) : b[i] = q) <=>
          q = p \/ \E i \in 1..Len(r) : r[i] = q
    <3>1. ASSUME NEW i \in 1..Len(b), b[i] = q
          PROVE  q = p \/ \E j \in 1..Len(r) : r[j] = q
      <4>1. i = 1 \/ (i \in 2..Len(r) + 1 /\ i - 1 \in 1..Len(r))
        BY <1>2
      <4> QED BY <1>2, <3>1, <4>1
    <3>2. ASSUME NEW i \in 1..Len(r), r[i] = q
          PROVE  \E j \in 1..Len(b) : b[j] = q
      <4>1. i + 1 \in 2..Len(r) + 1 /\ i + 1 \in 1..Len(b) /\ (i + 1) - 1 = i
        BY <1>2
      <4> QED BY <1>2, <3>2, <4>1
    <3>3. 1 \in 1..Len(b)
      BY <1>2
    <3> QED BY <1>2, <3>1, <3>2, <3>3
  <2>2. (\E k \in 1..Len(a) : a[k] = q) <=>
          q = p \/ \E k \in 1..Len(s) : s[k] = q
    <3>1. \A k \in 1..Len(a) : k \in 1..Len(s) \/ k = Len(s) + 1
      BY <1>1
    <3>2. Len(s) + 1 \in 1..Len(a) /\ \A k \in 1..Len(s) : k \in 1..Len(a)
      BY <1>1
    <3> QED BY <1>1, <3>1, <3>2
  <2> QED BY <2>1, <2>2 DEF InEffect, TakenFrom
<1>4. LatestFirst(a, b)
  <2> SUFFICES ASSUME NEW i \in 1..Len(b), NEW j \in 1..Len(b), i < j
               PROVE  RecordedAfter(a, b[i], b[j])
    BY DEF LatestFirst
  <2>1. j - 1 \in 1..Len(r) /\ b[j] = r[j - 1]
    BY <1>2
  <2>2. CASE i = 1
    <3>1. PICK l \in 1..Len(s) : s[l] = r[j - 1]
      BY <1>2, <2>1 DEF InEffect, TakenFrom
    <3>2. l \in 1..Len(a) /\ Len(s) + 1 \in 1..Len(a) /\ l < Len(s) + 1
      BY <1>1
    <3> QED BY <1>1, <1>2, <2>1, <2>2, <3>1, <3>2 DEF RecordedAfter
  <2>3. CASE i # 1
    <3>1. i - 1 \in 1..Len(r) /\ b[i] = r[i - 1] /\ i - 1 < j - 1
      BY <1>2, <2>3
    <3>2. PICK k, l \in 1..Len(s) : l < k /\ s[k] = r[i - 1] /\ s[l] = r[j - 1]
      <4>1. RecordedAfter(s, r[i - 1], r[j - 1])
        BY <2>1, <3>1 DEF InEffect, LatestFirst
      <4> QED BY <4>1 DEF RecordedAfter
    <3>3. k \in 1..Len(a) /\ l \in 1..Len(a)
      BY <1>1
    <3> QED BY <1>1, <2>1, <3>1, <3>2, <3>3 DEF RecordedAfter
  <2> QED BY <2>2, <2>3
<1> QED BY <1>3, <1>4 DEF InEffect, a, b

(* ... and one it refuses is recorded only. *)
LEMMA PathRefused ==
  ASSUME NEW s \in Seq(Directories), NEW r \in Seq(Directories),
         NEW p \in Unencodable, InEffect(s, r)
  PROVE  InEffect(Append(s, p), r)
<1>1. p \in Directories
  BY PathsAssumption
<1>2. /\ Len(s) \in Nat /\ Len(Append(s, p)) = Len(s) + 1
      /\ Append(s, p)[Len(s) + 1] = p
      /\ \A i \in 1..Len(s) : Append(s, p)[i] = s[i]
  BY <1>1, AppendType
<1>3. /\ \A k \in 1..Len(s) + 1 : k \in 1..Len(s) \/ k = Len(s) + 1
      /\ \A k \in 1..Len(s) : k \in 1..Len(s) + 1
  BY <1>2
<1>4. TakenFrom(Append(s, p), r)
  <2>1. \A q : q \notin Unencodable =>
          ((\E k \in 1..Len(Append(s, p)) : Append(s, p)[k] = q) <=>
             \E k \in 1..Len(s) : s[k] = q)
    BY <1>2, <1>3
  <2> QED BY <2>1 DEF InEffect, TakenFrom
<1>5. \A u, v : RecordedAfter(s, u, v) => RecordedAfter(Append(s, p), u, v)
  BY <1>2, <1>3 DEF RecordedAfter
<1> QED BY <1>4, <1>5 DEF InEffect, LatestFirst

LEMMA SearchPathStep ==
  TypeOK /\ OwnerInv /\ SearchPathsInEffect /\ [Next]_vars
    => SearchPathsInEffect'
<1> SUFFICES ASSUME TypeOK, OwnerInv, SearchPathsInEffect, [Next]_vars
             PROVE  SearchPathsInEffect'
  OBVIOUS
<1>1. ASSUME UNCHANGED <<searchPaths, sysPath>>,
             interpreter' = "live" => interpreter = "live"
      PROVE  SearchPathsInEffect'
  BY <1>1 DEF SearchPathsInEffect
<1> USE DEF Refused, state, lifecycle, setup, python
<1>2. ASSUME NEW t \in Threads, HostCalls(t)
      PROVE  SearchPathsInEffect'
  <2>1. CASE Initialize(t)
    <3>1. CASE StartInterpreter(t)
      <4>1. /\ sysPath' = Reversed(searchPaths) /\ UNCHANGED searchPaths
            /\ \A i \in 1..Len(searchPaths) : searchPaths[i] \notin Unencodable
        BY <3>1 DEF StartInterpreter
      <4>2. InEffect(searchPaths, Reversed(searchPaths))
        BY <4>1, ReversedInEffect DEF TypeOK
      <4> QED BY <4>1, <4>2, InEffectMeans
    <3>2. CASE ~StartInterpreter(t)
      BY <1>1, <2>1, <3>2 DEF Initialize, StartFails
    <3> QED BY <3>1, <3>2
  <2>2. CASE Shutdown(t)
    BY <1>1, <2>2 DEF Shutdown, Stop
  <2>3. CASE Destroy(t)
    BY <1>1, <2>3 DEF Destroy, Stop, SearchPathsInEffect
  <2>4. ASSUME NEW p, AddSearchPath(t, p)
        PROVE  SearchPathsInEffect'
    <3>1. CASE UNCHANGED state \/ interpreter' # "live"
      BY <1>1, <3>1 DEF SearchPathsInEffect
    <3>2. CASE ~UNCHANGED state /\ interpreter' = "live"
      <4>1. /\ p \in Directories
            /\ searchPaths' = Append(searchPaths, p)
            /\ sysPath' = IF running /\ p \notin Unencodable
                             THEN <<p>> \o sysPath
                             ELSE sysPath
            /\ UNCHANGED interpreter
        BY <2>4, <3>2 DEF AddSearchPath
      <4>2. running /\ InEffect(searchPaths, sysPath)
        BY <3>2, <4>1, InEffectMeans DEF OwnerInv
      <4>3. searchPaths \in Seq(Directories) /\ sysPath \in Seq(Directories)
        BY DEF TypeOK
      <4>4. InEffect(searchPaths', sysPath')
        <5>1. CASE p \in Unencodable
          BY <4>1, <4>2, <4>3, <5>1, PathRefused
        <5>2. CASE p \notin Unencodable
          BY <4>1, <4>2, <4>3, <5>2, PathInFront
        <5> QED BY <5>1, <5>2
      <4> QED BY <4>4, InEffectMeans
    <3> QED BY <3>1, <3>2
  <2>5. ASSUME NEW n, RegisterModule(t, n) \/ LoadModule(t, n)
        PROVE  SearchPathsInEffect'
    BY <1>1, <2>5 DEF RegisterModule, RegistryAdd, LoadModule
  <2>6. ASSUME NEW h, Call(t, h)
        PROVE  SearchPathsInEffect'
    BY <1>1, <2>6 DEF Call
  <2> QED BY <1>2, <2>1, <2>2, <2>3, <2>4, <2>5, <2>6 DEF HostCalls
<1>3. CASE FinalizeEnds
  BY <1>3 DEF FinalizeEnds, SearchPathsInEffect
<1>4. CASE CodeReturns /\ ~FinalizeEnds
  BY <1>1, <1>4, ThrowsPastPops
  DEF CodeReturns, BindingReturns, BindingThrows, NextBindingRefused,
      ThrowsPast, ImportReturns, ImportRaises, InvokeEnds, Stop
<1>5. CASE UNCHANGED vars
  BY <1>1, <1>5 DEF vars
<1>6. ASSUME NEW n, OtherPython \/ ScriptImports(n) \/ ScriptEdits(n)
      PROVE  SearchPathsInEffect'
  BY <1>1, <1>6 DEF ScriptImports, ScriptEdits, OtherPython
<1> QED BY <1>2, <1>3, <1>4, <1>5, <1>6 DEF Next

(* While the interpreter lives, sys.path holds the recorded search paths   *)
(* that Python takes, a later one before an earlier one, whatever the host *)
(* does: a refused path is recorded and left out, and keeps the next       *)
(* initialize() from succeeding.                                           *)
THEOREM PathsTakeEffect == Spec => []SearchPathsInEffect
<1>1. Init => SearchPathsInEffect
  BY DEF Init, SearchPathsInEffect
<1>2. TypeOK /\ OwnerInv /\ SearchPathsInEffect /\ [Next]_vars
        => SearchPathsInEffect'
  BY SearchPathStep
<1> QED BY <1>1, <1>2, TypeCorrect, OwnerInvAlways, PTL DEF Spec

-----------------------------------------------------------------------------

LEMMA StoppedRunsNoBinding ==
  ASSUME StateType, OwnerInv, FrameInv, ~running
  PROVE  ~OnStack("binding")
<1> SUFFICES ASSUME NEW i \in 1..Len(stack), stack[i].kind = "binding"
             PROVE  FALSE
  BY DEF OnStack
<1>1. i = 1 /\ stack # <<>>
  BY DEF FrameInv, StateType
<1> QED BY <1>1 DEF FrameInv, OwnerInv, StateType

(* What initialize() leaves. *)
OwnerStays ==
  /\ ~OnStack("binding")'
  /\ running' => interpreter' = "live" /\ ownerThread' = returned'.thread

LEMMA InitializeReturnsToOwner ==
  ASSUME StateType, OwnerInv, FrameInv, NEW t \in Threads, Initialize(t),
         InitializeLeft
  PROVE  OwnerStays
<1> USE DEF InitializeLeft, Return, Refused
<1>1. ~running /\ ~OnStack("binding")
  BY StoppedRunsNoBinding DEF Initialize
<1>2. CASE StartInterpreter(t)
  <2>1. bindings = <<>>
    BY <1>2 DEF StartInterpreter
  <2> QED BY <1>1, <1>2, <2>1 DEF StartInterpreter, OwnerStays, OnStack, frames
<1>3. CASE ~StartInterpreter(t)
  BY <1>1, <1>3
  DEF Initialize, StartFails, OwnerStays, OnStack, state, lifecycle, frames
<1> QED BY <1>2, <1>3

LEMMA CodeReturnsToOwner ==
  ASSUME StateType, OwnerInv, FrameInv, CodeReturns, InitializeLeft
  PROVE  OwnerStays
<1> USE DEF InitializeLeft, Return
<1>1. ASSUME Waiting("binding"), Pop, UNCHANGED lifecycle,
             returned'.thread = stackThread
      PROVE  OwnerStays
  <2>1. interpreter = "live" /\ stack' = <<>> /\ stack # <<>>
    BY <1>1, BindingIsAlone DEF Pop, Waiting
  <2>2. ownerThread = stackThread
    BY <2>1 DEF OwnerInv
  <2> QED BY <1>1, <2>1, <2>2 DEF OwnerStays, OnStack, lifecycle
<1>2. CASE BindingReturns
  BY <1>1, <1>2 DEF BindingReturns, lifecycle
<1>3. CASE BindingThrowsForeign \/ NextBindingNotEntered
  <2>1. /\ Waiting("binding") /\ Pop /\ UNCHANGED lifecycle
        /\ Return("initialize", stackThread, "exception")
    BY <1>3 DEF BindingThrowsForeign, NextBindingNotEntered, HasNextBinding
  <2>2. returned'.thread = stackThread
    BY <2>1
  <2> QED BY <1>1, <2>1, <2>2
<1>4. CASE BindingThrows \/ NextBindingRefused
  <2>1. PICK code : Stop("initialize", stackThread, code, Below)
    BY <1>4 DEF BindingThrows, NextBindingRefused
  <2>2. interpreter = "live"
    BY <1>4 DEF BindingThrows, NextBindingRefused, HasNextBinding
  <2>3. returned'.code = "entered"
    BY <2>1, <2>2 DEF Stop
  <2> QED BY <2>3
<1>5. CASE FinalizeEnds
  <2>1. stack # <<>> /\ OnStack("finalize") /\ stack' = Below /\ ~running'
    BY <1>5, LastFrame DEF FinalizeEnds, Pop
  <2>2. interpreter = "finalizing"
    BY <2>1 DEF FrameInv, StateType, OnStack
  <2>3. \A k \in 1..Len(stack) : stack[k].kind # "binding"
    BY <2>1, <2>2 DEF FrameInv, StateType
  <2>4. /\ Len(stack) \in Nat /\ Len(stack') = Len(stack) - 1
        /\ \A k \in 1..Len(stack') : stack'[k] = stack[k]
    BY <2>1, BelowType DEF Below, StateType
  <2>5. \A k \in 1..Len(stack') : k \in 1..Len(stack)
    BY <2>4
  <2> QED BY <2>1, <2>3, <2>4, <2>5 DEF OwnerStays, OnStack
<1>6. ~(ImportReturns \/ ImportRaises)
  BY DEF ImportReturns, ImportRaises
<1>7. ~(InvokeEnds \/ InvokeThrowsForeign)
  <2>1. \A t, code : Return("call", t, code) => FALSE
    OBVIOUS
  <2> HIDE DEF Return
  <2> QED BY <2>1 DEF InvokeEnds, InvokeThrowsForeign, CallSucceeds, CallFails
<1> QED BY <1>2, <1>3, <1>4, <1>5, <1>6, <1>7 DEF CodeReturns

(* A runtime that initialize() leaves running has an owner who can stop    *)
(* it, however it was left: ownerThread is set before the first callback,  *)
(* so that even an exception nobody catches leaves nothing without an      *)
(* owner.                                                                  *)
THEOREM InitializeNamesAnOwner ==
  HooksDoNotStop => (Spec => InitializeLeavesAnOwner)
<1> SUFFICES ASSUME HooksDoNotStop
             PROVE  Spec => InitializeLeavesAnOwner
  OBVIOUS
<1>1. TypeOK /\ OwnerInv /\ FrameInv /\ [Next]_vars =>
        [/\ returned' # returned
         /\ returned'.op = "initialize"
         /\ returned'.code \notin {"entered", "AlreadyInitialized"}
         => /\ ~OnStack("binding")'
            /\ running' => interpreter' = "live" /\ ownerThread' = returned'.thread]_vars
  <2> SUFFICES ASSUME TypeOK, OwnerInv, FrameInv, Next, InitializeLeft
               PROVE  OwnerStays
    BY DEF vars, InitializeLeft, OwnerStays
  <2>1. StateType
    BY DEF TypeOK, StateType
  <2>2. ASSUME NEW t \in Threads, HostCalls(t)
        PROVE  OwnerStays
    <3>1. Initialize(t)
      BY <2>2, OthersDoNotInitialize
    <3> QED BY <2>1, <3>1, InitializeReturnsToOwner
  <2> QED
    BY <2>1, <2>2, CodeReturnsToOwner
    DEF Next, ScriptImports, ScriptEdits, OtherPython, InitializeLeft
<1>2. Spec => []FrameInv
  BY FrameInvAlways
<1> QED
  BY <1>1, <1>2, TypeCorrect, OwnerInvAlways, PTL
  DEF Spec, InitializeLeavesAnOwner

-----------------------------------------------------------------------------

(* A hook that runs has its module in the table. *)
InvokedAreLoaded ==
  \A i \in 1..Len(stack) :
    stack[i].kind = "invoke" => modules[stack[i].hook.module] # NoObject

CountInv == CountersAreOfThisRun /\ InvokedAreLoaded

(* No module leaves the table, no outcome is booked and no hook called. *)
LEMMA CountsStay ==
  ASSUME CountInv, UNCHANGED failureRecords,
         \A n : modules[n] # NoObject => modules'[n] # NoObject,
         \A i \in 1..Len(stack') : stack'[i].kind = "invoke" =>
           \E j \in 1..Len(stack) : stack'[i] = stack[j]
  PROVE  CountInv'
<1>1. CountersAreOfThisRun'
  BY DEF CountInv, CountersAreOfThisRun
<1>2. InvokedAreLoaded'
  BY DEF CountInv, InvokedAreLoaded
<1> QED BY <1>1, <1>2 DEF CountInv

LEMMA NothingCounted ==
  ASSUME failureRecords' = NoRecords
  PROVE  CountersAreOfThisRun'
<1>1. \A h \in Hooks : failureRecords'[HookKey(h)].lastSignature = NoSignature
  BY DEF NoRecords, NoRecord, Keys
<1> QED BY <1>1 DEF CountersAreOfThisRun

(* An outcome is booked against a hook whose module is there, or as a      *)
(* failure to find the module.                                             *)
LEMMA OutcomeCounted ==
  ASSUME NamesAreUnambiguous, StateType, CountersAreOfThisRun, NEW h \in Hooks,
         UNCHANGED modules,
         \/ failureRecords' = NoteSuccess(failureRecords, h)
         \/ \E e \in Failures :
              /\ failureRecords' = NoteFailure(failureRecords, h, e)
              /\ e.code = "ModuleNotFound" \/ modules[h.module] # NoObject
  PROVE  CountersAreOfThisRun'
<1>1. HookKey(h) \in Keys /\ failureRecords \in [Keys -> FailureRecord]
  BY DEF Keys, StateType
<1>2. ASSUME NEW g \in Hooks, g # h
      PROVE  failureRecords'[HookKey(g)] = failureRecords[HookKey(g)]
  <2>1. HookKey(g) # HookKey(h)
    BY <1>2, KeysIdentifyHooks
  <2>2. HookKey(g) \in Keys
    BY DEF Keys
  <2> QED BY <1>1, <2>1, <2>2 DEF NoteSuccess, NoteFailure
<1>3. LET last == failureRecords'[HookKey(h)].lastSignature
      IN last # NoSignature /\ last.code # "ModuleNotFound" =>
           modules[h.module] # NoObject
  <2>1. CASE failureRecords' = NoteSuccess(failureRecords, h)
    BY <1>1, <2>1 DEF NoteSuccess, NoRecord
  <2>2. ASSUME NEW e \in Failures,
               failureRecords' = NoteFailure(failureRecords, h, e),
               e.code = "ModuleNotFound" \/ modules[h.module] # NoObject
        PROVE  <1>3!:
    <3>1. failureRecords'[HookKey(h)].lastSignature = FailureSignature(e)
      BY <1>1, <2>2 DEF NoteFailure
    <3>2. FailureSignature(e).code = e.code
      BY DEF FailureSignature
    <3> QED BY <2>2, <3>1, <3>2
  <2> QED BY <2>1, <2>2
<1> QED BY <1>2, <1>3 DEF CountersAreOfThisRun

(* stop() empties both tables, with no hook running. *)
LEMMA StopCounts ==
  ASSUME StateType, NEW op, NEW t, NEW code, NEW waiting \in Seq(Frame),
         Stop(op, t, code, waiting),
         \A i \in 1..Len(waiting) : waiting[i].kind # "invoke",
         interpreter # "live" => waiting = stack
  PROVE  CountInv'
<1>1. CountersAreOfThisRun'
  BY NothingCounted DEF Stop, ClearTables
<1>2. CASE interpreter = "live"
  <2> DEFINE frame == [kind |-> "finalize", op |-> op, code |-> code]
  <2>1. stack' = Append(waiting, frame) /\ frame.kind # "invoke"
    BY <1>2 DEF Stop
  <2> HIDE DEF frame
  <2>2. /\ Len(waiting) \in Nat /\ Len(stack') = Len(waiting) + 1
        /\ stack'[Len(waiting) + 1] = frame
        /\ \A i \in 1..Len(waiting) : stack'[i] = waiting[i]
    BY <2>1
  <2>3. \A i \in 1..Len(stack') : stack'[i].kind # "invoke"
    <3>1. \A i \in 1..Len(stack') : i \in 1..Len(waiting) \/ i = Len(waiting) + 1
      BY <2>2
    <3> QED BY <2>1, <2>2, <3>1
  <2> QED BY <1>1, <2>3 DEF CountInv, InvokedAreLoaded
<1>3. CASE interpreter # "live"
  <2>1. stack' = waiting
    BY <1>3 DEF Stop, frames
  <2> QED BY <1>1, <2>1 DEF CountInv, InvokedAreLoaded
<1> QED BY <1>2, <1>3

LEMMA StackGrows ==
  ASSUME StateType, NEW frame, Push(frame, stackThread')
  PROVE  /\ \A i \in 1..Len(stack') :
              stack'[i] = frame \/ \E j \in 1..Len(stack) : stack'[i] = stack[j]
<1>1. /\ Len(stack) \in Nat /\ Len(stack') = Len(stack) + 1
      /\ stack'[Len(stack) + 1] = frame
      /\ \A i \in 1..Len(stack) : stack'[i] = stack[i]
  BY DEF Push, StateType
<1>2. \A i \in 1..Len(stack') : i \in 1..Len(stack) \/ i = Len(stack) + 1
  BY <1>1
<1> QED BY <1>1, <1>2

LEMMA StackShrinks ==
  ASSUME StateType, stack # <<>>, stack' = Below
  PROVE  \A i \in 1..Len(stack') : \E j \in 1..Len(stack) : stack'[i] = stack[j]
<1>1. /\ Len(stack) \in Nat /\ Len(stack') = Len(stack) - 1
      /\ \A i \in 1..Len(stack') : stack'[i] = stack[i]
  BY BelowType DEF Below, StateType
<1>2. \A i \in 1..Len(stack') : i \in 1..Len(stack)
  BY <1>1
<1> QED BY <1>1, <1>2

LEMMA StartCounts ==
  ASSUME StateType, FrameInv, CountInv, NEW t, ~PyIsInitialized,
         StartInterpreter(t) \/ StartFails(t)
  PROVE  CountInv'
<1>1. stack = <<>>
  BY DEF PyIsInitialized, FrameInv
<1>2. failureRecords' = NoRecords
  BY DEF StartInterpreter, StartFails, FreshCounters, ClearTables
<1>3. \A i \in 1..Len(stack') : stack'[i].kind # "invoke"
  <2>1. CASE stack' = stack
    BY <1>1, <2>1
  <2>2. CASE stack' # stack
    <3>1. stack' = <<[kind |-> "binding", index |-> 1]>>
      BY <1>1, <2>2 DEF StartInterpreter, StartFails, EnterBinding, frames
    <3>2. \A i \in 1..Len(stack') : i = 1
      BY <3>1
    <3> QED BY <3>1, <3>2
  <2> QED BY <2>1, <2>2
<1> QED BY <1>2, <1>3, NothingCounted DEF CountInv, InvokedAreLoaded

LEMMA HostCallCounts ==
  ASSUME HooksDoNotStop, NamesAreUnambiguous, TypeOK, OwnerInv, FrameInv,
         CountInv, NEW t \in Threads, HostCalls(t)
  PROVE  CountInv'
<1>0. StateType
  BY DEF TypeOK, StateType
<1>1. CASE UNCHANGED <<modules, failureRecords, stack>>
  BY <1>1, CountsStay
<1> USE DEF Refused, state, tables, frames
<1>2. ASSUME NEW n, RegisterModule(t, n)
      PROVE  CountInv'
  BY <1>1, <1>2 DEF RegisterModule
<1>3. CASE Initialize(t)
  BY <1>0, <1>1, <1>3, StartCounts DEF Initialize
<1>4. CASE Shutdown(t)
  <2>1. CASE ~UNCHANGED state
    <3>1. Stop("shutdown", t, "Ok", stack) /\ running /\ t = ownerThread
      BY <1>4, <2>1 DEF Shutdown, OwnsInterpreter
    <3>2. stack = <<>> \/ \A i \in 1..Len(stack) : stack[i].kind = "finalize"
      BY <1>4, <2>1, <3>1 DEF Shutdown, OwnsInterpreter, HooksDoNotStop, OwnerInv
    <3>3. \A i \in 1..Len(stack) : stack[i].kind # "invoke"
      BY <3>2
    <3>4. stack \in Seq(Frame)
      BY <1>0 DEF StateType
    <3> QED BY <1>0, <3>1, <3>3, <3>4, StopCounts
  <2> QED BY <1>1, <2>1
<1>5. CASE Destroy(t)
  <2>1. /\ Stop("destroy", t, "Ok", <<>>) /\ stack = <<>>
        /\ <<>> \in Seq(Frame)
        /\ \A i \in 1..Len(<<>>) : (<<>>)[i].kind # "invoke"
    BY <1>5 DEF Destroy
  <2> QED BY <1>0, <2>1, StopCounts
<1>6. ASSUME NEW p, AddSearchPath(t, p)
      PROVE  CountInv'
  BY <1>1, <1>6 DEF AddSearchPath
<1>7. ASSUME NEW n, LoadModule(t, n)
      PROVE  CountInv'
  <2>1. CASE /\ n \in ModuleNames /\ sysModules[CString(n)] # NoObject
             /\ modules' = [modules EXCEPT ![n] = sysModules[CString(n)]]
             /\ UNCHANGED <<failureRecords, stack>>
    <3>1. \A m : modules[m] # NoObject => modules'[m] # NoObject
      BY <1>0, <2>1 DEF StateType
    <3> QED BY <2>1, <3>1, CountsStay
  <2>2. ASSUME Push([kind |-> "import", name |-> n], t),
               UNCHANGED <<modules, failureRecords>>
        PROVE  CountInv'
    <3>1. \A i \in 1..Len(stack') :
            \/ stack'[i] = [kind |-> "import", name |-> n]
            \/ \E j \in 1..Len(stack) : stack'[i] = stack[j]
      BY <1>0, <2>2, StackGrows DEF Push
    <3>2. \A i \in 1..Len(stack') : stack'[i].kind = "invoke" =>
            \E j \in 1..Len(stack) : stack'[i] = stack[j]
      BY <3>1
    <3> QED BY <2>2, <3>2, CountsStay
  <2> QED BY <1>1, <1>7, <2>1, <2>2 DEF LoadModule
<1>8. ASSUME NEW h \in Hooks \cup {Nameless}, Call(t, h)
      PROVE  CountInv'
  <2>1. CASE h = Nameless \/ UNCHANGED state
    BY <1>1, <1>8, <2>1 DEF Call
  <2>2. ASSUME h \in Hooks, UNCHANGED <<modules, stack>>,
               \/ CallSucceeds(h, t)
               \/ CallFails(h, t, {"ModuleNotFound"})
               \/ modules[h.module] # NoObject /\ \E codes : CallFails(h, t, codes)
        PROVE  CountInv'
    <3>1. \/ failureRecords' = NoteSuccess(failureRecords, h)
          \/ \E e \in Failures :
               /\ failureRecords' = NoteFailure(failureRecords, h, e)
               /\ e.code = "ModuleNotFound" \/ modules[h.module] # NoObject
      BY <2>2 DEF CallSucceeds, CallFails
    <3>2. CountersAreOfThisRun'
      BY <1>0, <2>2, <3>1, OutcomeCounted DEF CountInv
    <3> QED BY <2>2, <3>2 DEF CountInv, InvokedAreLoaded
  <2>3. ASSUME Push([kind |-> "invoke", hook |-> h], t),
               modules[h.module] # NoObject,
               UNCHANGED <<modules, failureRecords>>
        PROVE  CountInv'
    <3>1. \A i \in 1..Len(stack') :
            \/ stack'[i] = [kind |-> "invoke", hook |-> h]
            \/ \E j \in 1..Len(stack) : stack'[i] = stack[j]
      BY <1>0, <2>3, StackGrows DEF Push
    <3>2. CountersAreOfThisRun'
      BY <2>3 DEF CountInv, CountersAreOfThisRun
    <3>3. InvokedAreLoaded'
      BY <2>3, <3>1 DEF CountInv, InvokedAreLoaded
    <3> QED BY <3>2, <3>3 DEF CountInv
  <2> QED BY <1>8, <2>1, <2>2, <2>3 DEF Call
<1> QED
  BY <1>2, <1>3, <1>4, <1>5, <1>6, <1>7, <1>8 DEF HostCalls

LEMMA CodeReturnCounts ==
  ASSUME NamesAreUnambiguous, TypeOK, OwnerInv, FrameInv, CountInv, CodeReturns
  PROVE  CountInv'
<1>0. StateType
  BY DEF TypeOK, StateType
<1>1. ASSUME stack # <<>>, stack' = Below, UNCHANGED failureRecords,
             \A n : modules[n] # NoObject => modules'[n] # NoObject
      PROVE  CountInv'
  BY <1>0, <1>1, StackShrinks, CountsStay
<1> USE DEF Pop, Waiting
<1>2. ASSUME NEW i \in Nat, modules' = Emplaced(i)
      PROVE  \A n : modules[n] # NoObject => modules'[n] # NoObject
  <2>1. CASE modules[bindings[i]] = NoObject
    <3>1. modules' = [modules EXCEPT ![bindings[i]] = BindingObject(run, i)]
      BY <1>2, <2>1 DEF Emplaced
    <3>2. BindingObject(run, i) # NoObject
      BY <1>0, <1>2, BoundsAssumption, NoObjectAssumption
      DEF StateType, BindingObject, Object
    <3>3. modules \in [ModuleNames -> Object \cup {NoObject}]
      BY <1>0 DEF StateType
    <3> QED BY <3>1, <3>2, <3>3
  <2>2. CASE modules[bindings[i]] # NoObject
    BY <1>2, <2>2 DEF Emplaced
  <2> QED BY <2>1, <2>2
<1>3. CASE BindingReturns
  <2>1. /\ Below = <<>> /\ stack # <<>> /\ Top.index \in Nat
        /\ modules' = Emplaced(Top.index) /\ UNCHANGED failureRecords
    BY <1>0, <1>3, BindingIsAlone, TopType DEF BindingReturns, Frame
  <2>2. CASE stack' = Below
    BY <1>1, <1>2, <2>1, <2>2
  <2>3. CASE stack' # Below
    <3>1. stack' = <<[kind |-> "binding", index |-> Top.index + 1]>>
      BY <1>3, <2>1, <2>3 DEF BindingReturns, EnterBinding
    <3>2. \A i \in 1..Len(stack') : i = 1
      BY <3>1
    <3>3. \A i \in 1..Len(stack') : stack'[i].kind # "invoke"
      BY <3>1, <3>2
    <3> QED BY <1>2, <2>1, <3>3, CountsStay
  <2> QED BY <2>2, <2>3
<1>4. CASE BindingThrows \/ NextBindingRefused
  <2>1. PICK code : Stop("initialize", stackThread, code, Below)
    BY <1>4 DEF BindingThrows, NextBindingRefused
  <2>2. Waiting("binding") /\ interpreter = "live"
    BY <1>4 DEF BindingThrows, NextBindingRefused, HasNextBinding
  <2>3. Below = <<>>
    BY <1>0, <2>2, BindingIsAlone
  <2>4. Below \in Seq(Frame) /\ \A i \in 1..Len(Below) : Below[i].kind # "invoke"
    BY <2>3
  <2> QED BY <1>0, <2>1, <2>2, <2>4, StopCounts
<1>5. CASE ThrowsPast
  <2>1. \A n : modules[n] # NoObject => modules'[n] # NoObject
    <3>1. CASE NextBindingNotEntered
      <4>1. Top.index \in Nat /\ modules' = Emplaced(Top.index)
        BY <1>0, <3>1, TopType DEF NextBindingNotEntered, HasNextBinding, Frame
      <4> QED BY <1>2, <4>1
    <3>2. CASE ~NextBindingNotEntered
      BY <1>5, <3>2 DEF ThrowsPast, BindingThrowsForeign, InvokeThrowsForeign, tables
    <3> QED BY <3>1, <3>2
  <2>2. stack # <<>> /\ stack' = Below /\ UNCHANGED failureRecords
    BY <1>5, ThrowsPastPops
  <2> QED BY <1>1, <2>1, <2>2
<1>6. CASE ImportReturns
  <2>1. Top.name \in ModuleNames
    BY <1>0, <1>6, TopType DEF ImportReturns, Frame
  <2>2. \A n : modules[n] # NoObject => modules'[n] # NoObject
    BY <1>0, <1>6, <2>1 DEF ImportReturns, StateType
  <2> QED BY <1>1, <1>6, <2>2 DEF ImportReturns
<1>7. CASE ImportRaises \/ FinalizeEnds
  BY <1>1, <1>7 DEF ImportRaises, FinalizeEnds, tables
<1>8. CASE InvokeEnds
  <2>1. /\ Top \in Frame /\ Top.kind = "invoke" /\ stack # <<>>
        /\ Len(stack) \in 1..Len(stack) /\ Top = stack[Len(stack)]
    BY <1>0, <1>8, TopType DEF InvokeEnds, Top, StateType
  <2>2. Top.hook \in Hooks /\ modules[Top.hook.module] # NoObject
    BY <2>1 DEF Frame, CountInv, InvokedAreLoaded
  <2>3. \/ failureRecords' = NoteSuccess(failureRecords, Top.hook)
        \/ \E e \in Failures :
             failureRecords' = NoteFailure(failureRecords, Top.hook, e)
    BY <1>8 DEF InvokeEnds, CallSucceeds, CallFails
  <2>4. UNCHANGED modules
    BY <1>8 DEF InvokeEnds
  <2>5. CountersAreOfThisRun'
    BY <1>0, <2>2, <2>3, <2>4, OutcomeCounted DEF CountInv
  <2>6. InvokedAreLoaded'
    BY <1>0, <1>8, <2>1, <2>4, StackShrinks DEF InvokeEnds, CountInv, InvokedAreLoaded
  <2> QED BY <2>5, <2>6 DEF CountInv
<1> QED
  BY <1>3, <1>4, <1>5, <1>6, <1>7, <1>8 DEF CodeReturns, ThrowsPast

(* stop() empties the counters with the module table, and no outcome is    *)
(* booked afterwards against a hook of the run that ended: whatever is     *)
(* counted for a hook whose module was found belongs to a module the       *)
(* runtime holds.                                                          *)
THEOREM CountersOfThisRun ==
  HooksDoNotStop /\ NamesAreUnambiguous => (Spec => []CountersAreOfThisRun)
<1> SUFFICES ASSUME HooksDoNotStop, NamesAreUnambiguous
             PROVE  Spec => []CountersAreOfThisRun
  OBVIOUS
<1>1. Init => CountInv
  <2> SUFFICES ASSUME Init PROVE CountInv
    OBVIOUS
  <2>1. CountersAreOfThisRun
    BY DEF Init, CountersAreOfThisRun, NoRecords, NoRecord, Keys
  <2>2. InvokedAreLoaded
    BY DEF Init, InvokedAreLoaded
  <2> QED BY <2>1, <2>2 DEF CountInv
<1>2. TypeOK /\ OwnerInv /\ FrameInv /\ CountInv /\ [Next]_vars => CountInv'
  <2> SUFFICES ASSUME TypeOK, OwnerInv, FrameInv, CountInv, [Next]_vars
               PROVE  CountInv'
    OBVIOUS
  <2>1. CASE UNCHANGED <<modules, failureRecords, stack>>
    BY <2>1, CountsStay
  <2> QED
    BY <2>1, HostCallCounts, CodeReturnCounts
    DEF Next, ScriptImports, ScriptEdits, OtherPython, vars, state, tables, frames
<1>3. CountInv => CountersAreOfThisRun
  BY DEF CountInv
<1>4. Spec => []FrameInv
  BY FrameInvAlways
<1> QED
  BY <1>1, <1>2, <1>3, <1>4, TypeCorrect, OwnerInvAlways, PTL DEF Spec

=============================================================================
