--------------------------- MODULE HookInvocation ---------------------------
(***************************************************************************)
(* What happens inside a call() or callOptional() that passed validation   *)
(* on a loaded module (sources/ScriptRuntime.cpp: Impl::invoke,            *)
(* convertArgument, callImpl, callTyped), and what introspection says of   *)
(* the same module (hasFunction, listFunctions).  Python imports what a    *)
(* script left in sys.modules, so the loaded object may be no module.      *)
(*                                                                         *)
(* Look-up, conversion of each argument and the hook are separate steps:   *)
(* native converters are host code and hooks are script code, and both may *)
(* rebind the names of the module in between.  ScriptRuntime models what   *)
(* surrounds the call, CallPolicy what is made of its outcome.             *)
(***************************************************************************)
EXTENDS PythonValues

CONSTANTS
  Names,               \* function names a host or a script uses
  CString,             \* per name, what is left of it up to the first NUL
  Undecodable,         \* names that are not UTF-8
  Private,             \* names listFunctions() leaves out: empty, or _...
  NoNamespace,         \* what an object that is no module has for one
  ArgumentLists,       \* what hosts pass
  ReturnValues,        \* what hooks return, besides an argument handed back
  Raised,              \* what scripts and converters raise
  ConverterOutcomes    \* how a native converter can end

ASSUME NamesAssumption ==
  /\ CString \in [Names -> Names]
  /\ Undecodable \subseteq Names
  /\ Private \subseteq Names

ASSUME HostAssumption ==
  /\ ArgumentLists \subseteq Seq(ScriptArgument)
  /\ ReturnValues \subseteq PyObject
  /\ Raised \subseteq Exceptions

(* A converter returns an object or nullptr, throws the Python error it    *)
(* met, throws a std::exception or something else; left is the error it    *)
(* leaves in Python's error indicator, whichever it does.                  *)
ASSUME ConverterAssumption ==
  /\ ConverterOutcomes \subseteq
       [end : {"object", "null", "raises", "throws", "foreign"},
        thrown : Raised \cup {Nothing}, left : Raised \cup {Nothing}]
  /\ \A outcome \in ConverterOutcomes :
       outcome.end = "raises" => outcome.thrown # Nothing

VARIABLES
  namespace,   \* the module's dictionary
  beyond,      \* what getattr() finds where the dictionary has nothing:
               \* an attribute of the module type, or the answer of a
               \* module-level __getattr__
  indicator,   \* Python's error indicator
  call,        \* the call in progress, or the last one
  result       \* what it returned

vars == <<namespace, beyond, indicator, call, result>>

Keys == Names \ Undecodable

Bindings == {"absent", "none", "function", "object"}

ASSUME NoNamespaceAssumption == NoNamespace \notin [Keys -> Bindings]

(* A C string holds no NUL, so getattr() never asks for a name that does. *)
Answers == Bindings \cup {"raises"}

Modes == ReturnTypes \cup {"untyped"}

(* What the hook did, once it was entered. *)
Ending(end, object, exception) ==
  [end |-> end, object |-> object, exception |-> exception]

NotRun == Ending("not run", Nothing, Nothing)

Endings ==
  [end : {"not run", "returned", "raised"}, object : PyObject \cup {Nothing},
   exception : Exceptions \cup {Nothing}]

Call ==
  [phase : {"ended", "converting", "converter ended", "running"},
   mode : Modes, optional : BOOLEAN,
   found : {"missing", "getattr raised", "object", "function"},
   arguments : Seq(ScriptArgument), converted : Seq(PyObject),
   handle : {"none", "object", "null", "throws"}, hook : Endings,
   endedBy : {"look-up", "scalar", "native", "hook"}]

Codes ==
  {"Ok", "InvalidArgument", "InterpreterFailure", "ModuleNotFound",
   "FunctionNotFound", "TypeMismatch", "InvocationFailed", "exception"}

Results ==
  [error : [code : Codes, exception : Exceptions \cup {Nothing}],
   hasValue : BOOLEAN,
   value : Booleans \cup Int64 \cup Numbers \cup Texts \cup {Nothing}]

Init ==
  /\ namespace \in [Keys -> Bindings] \cup {NoNamespace}
  /\ beyond \in [Keys -> Answers]
  /\ \A name \in Keys : beyond[name] # "absent" => CString[name] = name
  /\ indicator = Nothing
  /\ call = [phase |-> "ended", mode |-> "untyped", optional |-> TRUE,
             found |-> "missing", arguments |-> <<>>, converted |-> <<>>,
             handle |-> "none", hook |-> NotRun, endedBy |-> "look-up"]
  /\ result = NoValue

-----------------------------------------------------------------------------

(* Introspection. *)

NotAModule == Failure(Error("InterpreterFailure", Nothing))

(* What the dictionary has under a name. *)
Entry(name) ==
  IF namespace = NoNamespace \/ name \notin Keys THEN "absent"
                                                ELSE namespace[name]

HasFunction_NoNamespaceIsEmpty(name) ==
  IF Entry(name) = "absent" THEN Value(False)
  ELSE IF Entry(name) = "function" THEN Value(True)
  ELSE Failure(Error("TypeMismatch", Nothing))

(* hasFunction() reads the dictionary and nothing else. *)
HasFunction(name) ==
  IF namespace = NoNamespace THEN NotAModule
  ELSE IF Entry(name) = "absent" THEN Value(False)
  ELSE IF Entry(name) = "function" THEN Value(True)
  ELSE Failure(Error("TypeMismatch", Nothing))

(* listFunctions(), without the order: the public callables. *)
ListFunctions ==
  IF namespace = NoNamespace
    THEN NotAModule
    ELSE Value({n \in Keys \ Private : Entry(n) = "function"})

(* getattr(module, name.c_str(), None): whatever the look-up raises is     *)
(* swallowed and reads as None.                                            *)
LookUp(name) ==
  LET n == CString[name]
  IN IF n \notin Keys THEN "missing"
     ELSE IF Entry(n) \in {"function", "object"} THEN Entry(n)
     ELSE IF Entry(n) = "none" THEN "missing"
     ELSE IF beyond[n] \in {"function", "object"} THEN beyond[n]
     ELSE IF beyond[n] = "raises" THEN "getattr raised"
     ELSE "missing"

-----------------------------------------------------------------------------

(* The call leaves the runtime, and its arguments with it. *)
Ended(step) ==
  [call EXCEPT !.phase = "ended", !.arguments = <<>>, !.converted = <<>>,
               !.handle = "none", !.endedBy = step]

(* A conversion failed: the hook is not run. *)
Fail(step, error) == result' = Failure(error) /\ call' = Ended(step)

WithoutHook_AbsenceIsSilent(found, optional) ==
  IF found = "object" THEN Failure(Error("TypeMismatch", Nothing)) ELSE NoValue

(* The result when the look-up finds nothing to call: no function is an    *)
(* error unless the hook is optional, and a name bound to None is none.    *)
WithoutHook(found, optional) ==
  IF found = "object" THEN Failure(Error("TypeMismatch", Nothing))
  ELSE IF optional THEN NoValue
  ELSE Failure(Error("FunctionNotFound", Nothing))

(* invoke(), up to the first argument. *)
BeginCall(name, mode, optional, arguments) ==
  LET found == LookUp(name)
      begun == [phase |-> "converting", mode |-> mode, optional |-> optional,
                found |-> found, arguments |-> arguments, converted |-> <<>>,
                handle |-> "none", hook |-> NotRun, endedBy |-> "look-up"]
  IN /\ call.phase = "ended"
     /\ IF found = "function"
          THEN call' = begun /\ result' = NoValue
          ELSE /\ call' = [begun EXCEPT !.phase = "ended", !.arguments = <<>>]
               /\ result' = WithoutHook(found, optional)
     /\ UNCHANGED <<namespace, beyond, indicator>>

NextArgument == call.arguments[Len(call.converted) + 1]

Converting(kinds) ==
  /\ call.phase = "converting"
  /\ Len(call.converted) < Len(call.arguments)
  /\ NextArgument.kind \in kinds

Converted(object) ==
  call' = [call EXCEPT !.phase = "converting", !.handle = "none",
                       !.converted = Append(@, object)]

ConvertScalar_SkipsFailures ==
  /\ Converting(ReturnTypes)
  /\ IF CastFails(NextArgument)
       THEN Converted(None) /\ UNCHANGED result
       ELSE Converted(Cast(NextArgument)) /\ UNCHANGED result
  /\ UNCHANGED <<namespace, beyond, indicator>>

(* convertArgument() of a scalar.  py::cast() throws the Python error of a *)
(* string that is not UTF-8; no handler is nearer than invoke()'s.         *)
ConvertScalar ==
  /\ Converting(ReturnTypes)
  /\ IF CastFails(NextArgument)
       THEN Fail("scalar", FromPythonError(UnicodeError))
       ELSE Converted(Cast(NextArgument)) /\ UNCHANGED result
  /\ UNCHANGED <<namespace, beyond, indicator>>

NoConverter ==
  /\ Converting({"native"})
  /\ ~NextArgument.converter
  /\ Fail("native", Error("InvalidArgument", Nothing))
  /\ UNCHANGED <<namespace, beyond, indicator>>

(* The host's converter ran.  An error it throws is fetched already; one   *)
(* it left behind stays where it is, and nothing catches a foreign         *)
(* exception: it leaves call() itself.                                     *)
RunConverter(outcome) ==
  /\ Converting({"native"})
  /\ NextArgument.converter
  /\ CASE outcome.end = "raises" ->
            Fail("native", FromPythonError(outcome.thrown))
       [] outcome.end = "foreign" ->
            Fail("native", Error("exception", Nothing))
       [] OTHER ->
            /\ call' = [call EXCEPT !.phase = "converter ended",
                                    !.handle = outcome.end]
            /\ UNCHANGED result
  /\ indicator' = outcome.left
  /\ UNCHANGED <<namespace, beyond>>

HandleOutcome_TrustsTheHandle ==
  /\ call.phase = "converter ended"
  /\ IF call.handle = "object"
       THEN /\ Converted([type |-> "object", value |-> Nothing])
            /\ UNCHANGED <<result, indicator>>
       ELSE Fail("native", Error("TypeMismatch", Nothing)) /\ indicator' = Nothing
  /\ UNCHANGED <<namespace, beyond>>

(* What convertArgument() makes of it: a std::exception clears the         *)
(* indicator and is reported as such; otherwise an error left behind       *)
(* outweighs the handle, and is fetched.                                   *)
HandleOutcome ==
  /\ call.phase = "converter ended"
  /\ indicator' = Nothing
  /\ \/ /\ \/ call.handle = "throws"
           \/ call.handle = "null" /\ indicator = Nothing
        /\ Fail("native", Error("TypeMismatch", Nothing))
     \/ /\ call.handle # "throws" /\ indicator # Nothing
        /\ Fail("native", FromPythonError(indicator))
     \/ /\ call.handle = "object" /\ indicator = Nothing
        /\ Converted([type |-> "object", value |-> Nothing])
        /\ UNCHANGED result
  /\ UNCHANGED <<namespace, beyond>>

(* Every argument is converted before the hook is entered. *)
EnterHook ==
  /\ call.phase = "converting"
  /\ Len(call.converted) = Len(call.arguments)
  /\ call' = [call EXCEPT !.phase = "running"]
  /\ UNCHANGED <<namespace, beyond, indicator, result>>

HookEnds(ending, r) ==
  /\ call.phase = "running"
  /\ call' = [Ended("hook") EXCEPT !.hook = ending]
  /\ result' = r
  /\ UNCHANGED <<namespace, beyond, indicator>>

(* The untyped overloads drop the value; None is success without a value.  *)
HookReturns(object) ==
  HookEnds(Ending("returned", object, Nothing),
           IF call.mode = "untyped" \/ object = None
             THEN NoValue
             ELSE ConvertReturnValue(call.mode, object))

HookRaises(exception) ==
  HookEnds(Ending("raised", Nothing, exception),
           Failure(FromPythonError(exception)))

(* A script statement binds or unbinds a name, or changes what the module  *)
(* answers for it: a hook's, an importing module's, one reached from a     *)
(* converter.                                                              *)
Rebind(name) ==
  /\ call.phase \in {"ended", "running"} \/ Converting({"native"})
  /\ \/ /\ namespace # NoNamespace
        /\ \E binding \in Bindings :
             namespace' = [namespace EXCEPT ![name] = binding]
        /\ UNCHANGED beyond
     \/ /\ CString[name] = name
        /\ \E answer \in Answers : beyond' = [beyond EXCEPT ![name] = answer]
        /\ UNCHANGED namespace
  /\ UNCHANGED <<indicator, call, result>>

Next ==
  \/ \E name \in Names, mode \in Modes, optional \in BOOLEAN,
        arguments \in ArgumentLists :
       BeginCall(name, mode, optional, arguments)
  \/ ConvertScalar
  \/ NoConverter
  \/ \E outcome \in ConverterOutcomes : RunConverter(outcome)
  \/ HandleOutcome
  \/ EnterHook
  \/ \E object \in ReturnValues : HookReturns(object)
  \/ call.converted # <<>> /\ HookReturns(call.converted[1])
  \/ \E exception \in Raised : HookRaises(exception)
  \/ \E name \in Keys : Rebind(name)

Spec == Init /\ [][Next]_vars

(* Converters that leave no Python error behind when they throw one, or    *)
(* what the runtime does not catch.                                        *)
CarefulConverters ==
  \A outcome \in ConverterOutcomes :
    outcome.end \in {"raises", "foreign"} => outcome.left = Nothing

-----------------------------------------------------------------------------

(* The module, the call and its result have their types. *)
TypeOK ==
  /\ namespace \in [Keys -> Bindings] \cup {NoNamespace}
  /\ beyond \in [Keys -> Answers]
  /\ indicator \in Exceptions \cup {Nothing}
  /\ call \in Call
  /\ result \in Results

(* Python's error indicator is clear whenever the runtime goes on or       *)
(* returns: a converter's error never leaks into the next Python call      *)
(* (convertArgument).                                                      *)
IndicatorClear == call.phase # "converter ended" => indicator = Nothing

(* What the hook must see for an argument the host passed. *)
PassedAs(object, argument) ==
  IF argument.kind = "native"
    THEN argument.converter /\ object.type = "object"
    ELSE object = Cast(argument)

(* A hook is entered only with all of its arguments, each the Python value *)
(* of the one the host passed (invoke).                                    *)
HookGetsItsArguments ==
  call.phase = "running" =>
    /\ call.found = "function"
    /\ Len(call.converted) = Len(call.arguments)
    /\ \A i \in 1..Len(call.arguments) :
         PassedAs(call.converted[i], call.arguments[i])

(* What the host may read as a T: an object of exactly that type whose     *)
(* payload the C++ type can hold.                                          *)
Readable(type, object) ==
  /\ object.type = type
  /\ type = "int" => object.value \in Int64
  /\ type = "str" => object.value \notin NotUtf8

(* The result tells what the hook did: its own value, unchanged, when that *)
(* is what was asked for; no value for None; a mismatch for anything else; *)
(* its exception when it raised (callTyped, convertReturnValue).           *)
ResultTellsOutcome ==
  /\ call.hook.end = "returned" =>
       LET object == call.hook.object
       IN result = IF call.mode = "untyped" \/ object = None THEN NoValue
                   ELSE IF Readable(call.mode, object) THEN Value(object.value)
                   ELSE Failure(Error("TypeMismatch", Nothing))
  /\ call.hook.end = "raised" =>
       /\ result.error.exception = call.hook.exception
       /\ result.error.code # "Ok" /\ ~result.hasValue
  /\ call.hook = NotRun => ~result.hasValue

(* A call that ends well without running the hook found none, and the host *)
(* said it may be missing; a failure without an exception never comes from *)
(* a hook that raised, so a host can tell a missing function from an       *)
(* AttributeError of the hook by exceptionType() (invoke).                 *)
SilenceIsOptional ==
  call.phase = "ended" =>
    /\ result.error = NoError /\ call.hook = NotRun =>
         call.optional /\ call.found \in {"missing", "getattr raised"}
    /\ result.error = Error("FunctionNotFound", Nothing) =>
         ~call.optional /\ call.hook = NotRun /\ call.found # "function"

(* For names that read the same as a C string, introspection foretells the *)
(* call: a function it reports is reached; a call reaches one it does not  *)
(* report only where getattr() finds more than the dictionary has, and     *)
(* then it denies the function or, of an object that is no module, says    *)
(* nothing; and a name it calls no function is none to the call either,    *)
(* but a missing one if it is bound to None.  The list fails for such an   *)
(* object and names the public functions of any other (hasFunction,        *)
(* listFunctions, invoke).                                                 *)
IntrospectionForetellsCall ==
  \A name \in Names : CString[name] = name =>
    LET reported == HasFunction(name)
    IN /\ reported = Value(True) => LookUp(name) = "function"
       /\ LookUp(name) = "function" =>
            \/ reported = Value(True)
            \/ /\ beyond[name] = "function"
               /\ reported \in {Value(False), NotAModule}
       /\ reported.error.code = "TypeMismatch" =>
            LookUp(name) = IF namespace[name] = "none" THEN "missing"
                                                       ELSE "object"
       /\ reported = NotAModule <=> ListFunctions = NotAModule
       /\ ListFunctions # NotAModule =>
            (name \in ListFunctions.value <=>
               name \notin Private /\ reported = Value(True))

(* What the documents claim, and a run refutes. *)

(* When a script raises, the error carries its exception. *)
LookUpErrorsReported ==
  call.phase = "ended" /\ call.found = "getattr raised"
    => result.error.exception # Nothing

=============================================================================
