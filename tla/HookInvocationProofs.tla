------------------------ MODULE HookInvocationProofs ------------------------
(***************************************************************************)
(* What a call does, for any width of integers, any names, arguments,      *)
(* values and converters.                                                  *)
(***************************************************************************)
EXTENDS HookInvocation, TLAPS

(* A returned object becomes a value exactly when the host may read it as  *)
(* the type asked for, and then it is that value: no truncation, no bool   *)
(* read as an int, no -1 taken for an error (convertReturnValue).          *)
THEOREM ConversionIsExact ==
  ASSUME NEW type \in ReturnTypes, NEW object \in PyObject
  PROVE  ConvertReturnValue(type, object) =
           IF Readable(type, object)
             THEN Value(object.value)
             ELSE Failure(Error("TypeMismatch", Nothing))
<1>1. CASE type = "int"
  <2>1. CASE object.type = "int"
    <3>1. object.value \in Int
      BY <2>1 DEF PyObject
    <3> QED
      BY <1>1, <2>1, <3>1 DEF ConvertReturnValue, TryConvertReturnValue,
         TryConvertInt, AsLongLongAndOverflow, PyCheck, Readable, Conversion
  <2>2. CASE object.type # "int"
    BY <1>1, <2>2 DEF ConvertReturnValue, TryConvertReturnValue,
       TryConvertInt, PyCheck, Readable, Conversion
  <2> QED
    BY <2>1, <2>2
<1>2. CASE type = "str"
  BY <1>2 DEF ConvertReturnValue, TryConvertReturnValue, TryConvertStr,
     PyCheck, Readable, Conversion
<1>3. CASE type \in {"bool", "float"}
  BY <1>3 DEF ConvertReturnValue, TryConvertReturnValue, TryConvertExact,
     PyCheck, Readable, Conversion
<1> QED
  BY <1>1, <1>2, <1>3 DEF ReturnTypes

(* A scalar the host passes and a hook hands back is read unchanged as its *)
(* own type and as no other (py::cast, convertReturnValue).                *)
THEOREM ScalarsRoundTrip ==
  ASSUME NEW argument \in ScriptArgument, argument.kind # "native",
         ~CastFails(argument), NEW type \in ReturnTypes
  PROVE  ConvertReturnValue(type, Cast(argument)) =
           IF type = argument.kind
             THEN Value(argument.value)
             ELSE Failure(Error("TypeMismatch", Nothing))
<1>1. argument.kind \in ReturnTypes
  BY DEF ScriptArgument, ReturnTypes
<1>2. Cast(argument) \in PyObject
  BY RangeAssumption DEF ScriptArgument, Cast, PyObject, Int64
<1>3. Readable(type, Cast(argument)) <=> type = argument.kind
  BY <1>1 DEF Readable, Cast, CastFails, ScriptArgument
<1> QED
  BY <1>2, <1>3, ConversionIsExact DEF Cast

-----------------------------------------------------------------------------

LEMMA CallFields ==
  ASSUME TypeOK
  PROVE  /\ call.converted \in Seq(PyObject)
         /\ call.arguments \in Seq(ScriptArgument)
         /\ call.mode \in Modes /\ call.optional \in BOOLEAN
<1>1. call \in Call
  BY DEF TypeOK
<1> QED
  BY <1>1, Zenon DEF Call

(* What fromPythonError() can report. *)
LEMMA RaisedErrors ==
  ASSUME NEW exception \in Exceptions
  PROVE  /\ FromPythonError(exception).exception = exception
         /\ FromPythonError(exception).code \in Codes \ {"Ok"}
         /\ FromPythonError(exception) \in
              [code : Codes, exception : Exceptions \cup {Nothing}]
         /\ exception # Nothing
BY NothingAssumption
   DEF FromPythonError, Error, ClassifyPythonError, Codes

LEMMA FailuresAreResults ==
  ASSUME NEW error \in [code : Codes, exception : Exceptions \cup {Nothing}]
  PROVE  Failure(error) \in Results /\ Failure(error).error = error
         /\ Failure(error).hasValue = FALSE
BY DEF Failure, Results

LEMMA NoValueIsAResult == NoValue \in Results
BY FailuresAreResults DEF NoValue, NoError, Error, Codes

(* A failed conversion ends the call. *)
LEMMA FailedCallTyped ==
  ASSUME TypeOK, NEW step \in {"look-up", "scalar", "native", "hook"}
  PROVE  /\ Ended(step) \in Call
         /\ Ended(step).phase = "ended"
         /\ Ended(step).hook = call.hook
         /\ Ended(step).found = call.found
         /\ Ended(step).optional = call.optional
         /\ Ended(step).mode = call.mode
<1>1. call \in Call
  BY DEF TypeOK
<1>2. /\ Ended(step).phase = "ended"
      /\ Ended(step).hook = call.hook
      /\ Ended(step).found = call.found
      /\ Ended(step).optional = call.optional
      /\ Ended(step).mode = call.mode
  BY <1>1 DEF Ended, Call
<1>3. Ended(step) \in Call
  <2>1. <<>> \in Seq(ScriptArgument) /\ <<>> \in Seq(PyObject)
    OBVIOUS
  <2> QED
    BY <1>1, <2>1, Zenon DEF Ended, Call
<1> QED
  BY <1>2, <1>3

LEMMA HookResultTyped ==
  ASSUME NEW mode \in Modes, NEW object \in PyObject
  PROVE  (IF mode = "untyped" \/ object = None
            THEN NoValue ELSE ConvertReturnValue(mode, object)) \in Results
<1>1. CASE mode = "untyped" \/ object = None
  BY <1>1, NoValueIsAResult
<1>2. CASE ~(mode = "untyped" \/ object = None)
  <2>1. mode \in ReturnTypes
    BY <1>2 DEF Modes
  <2>2. Failure(Error("TypeMismatch", Nothing)) \in Results
    BY FailuresAreResults DEF Error, Codes
  <2>3. ASSUME Readable(mode, object)
        PROVE  Value(object.value) \in Results
    <3>1. object.value \in Booleans \cup Int64 \cup Numbers \cup Texts
      BY <2>1, <2>3 DEF PyObject, Readable, ReturnTypes
    <3> QED
      BY <3>1 DEF Value, Results, NoError, Error, Codes
  <2> QED
    BY <1>2, <2>1, <2>2, <2>3, ConversionIsExact
<1> QED
  BY <1>1, <1>2

(* What an accepted argument adds to a call. *)
LEMMA ConvertedTyped ==
  ASSUME TypeOK, NEW object \in PyObject,
         call' = [call EXCEPT !.phase = "converting", !.handle = "none",
                              !.converted = Append(@, object)]
  PROVE  /\ call' \in Call
         /\ call'.phase = "converting"
         /\ call'.converted = Append(call.converted, object)
         /\ call'.arguments = call.arguments
         /\ call'.hook = call.hook
         /\ call'.found = call.found
<1>1. call \in Call
  BY DEF TypeOK
<1>2. Append(call.converted, object) \in Seq(PyObject)
  <2>1. call.converted \in Seq(PyObject)
    BY CallFields
  <2> QED
    BY <2>1
<1>3. call' \in Call
  BY <1>1, <1>2, Zenon DEF Call
<1>4. call'.phase = "converting" /\ call'.converted = Append(call.converted, object)
  BY <1>1 DEF Call
<1>5. /\ call'.arguments = call.arguments /\ call'.hook = call.hook
      /\ call'.found = call.found
  BY <1>1 DEF Call
<1> QED
  BY <1>3, <1>4, <1>5

LEMMA NextArgumentTyped ==
  ASSUME TypeOK, NEW kinds, Converting(kinds)
  PROVE  /\ NextArgument \in ScriptArgument
         /\ NextArgument.kind \in kinds
         /\ NextArgument.kind # "native" /\ ~CastFails(NextArgument) =>
              Cast(NextArgument) \in PyObject
<1>1. NextArgument \in ScriptArgument
  <2>1. /\ call.converted \in Seq(PyObject)
        /\ call.arguments \in Seq(ScriptArgument)
        /\ Len(call.converted) < Len(call.arguments)
    BY CallFields DEF Converting
  <2> QED
    BY <2>1 DEF NextArgument
<1>2. NextArgument.kind # "native" => Cast(NextArgument) \in PyObject
  BY <1>1, RangeAssumption DEF ScriptArgument, Cast, PyObject, Int64
<1> QED
  BY <1>1, <1>2 DEF Converting

(* The module, the call and its result keep their types, whatever scripts, *)
(* hooks and converters do.                                                *)
THEOREM TypeCorrect == Spec => []TypeOK
<1>1. Init => TypeOK
  <2> SUFFICES ASSUME Init PROVE TypeOK
    OBVIOUS
  <2>1. <<>> \in Seq(ScriptArgument) /\ <<>> \in Seq(PyObject)
    OBVIOUS
  <2>2. call \in Call
    BY <2>1 DEF Init, Call, Modes, Endings, NotRun, Ending
  <2>3. indicator \in Exceptions \cup {Nothing}
    BY DEF Init
  <2> QED
    BY <2>2, <2>3, NoValueIsAResult DEF Init, TypeOK, Bindings, Answers
<1>2. TypeOK /\ [Next]_vars => TypeOK'
  <2> SUFFICES ASSUME TypeOK, [Next]_vars PROVE TypeOK'
    OBVIOUS
  <2> USE DEF TypeOK
  <2>1. ASSUME NEW name \in Names, NEW mode \in Modes,
               NEW optional \in BOOLEAN, NEW arguments \in ArgumentLists,
               BeginCall(name, mode, optional, arguments)
        PROVE  TypeOK'
    <3> DEFINE begun ==
          [phase |-> "converting", mode |-> mode, optional |-> optional,
           found |-> LookUp(name), arguments |-> arguments,
           converted |-> <<>>, handle |-> "none", hook |-> NotRun,
           endedBy |-> "look-up"]
    <3>1. LookUp(name) \in {"missing", "getattr raised", "object", "function"}
      BY DEF LookUp
    <3>2. arguments \in Seq(ScriptArgument)
      BY HostAssumption
    <3>3. begun \in Call
      <4>1. <<>> \in Seq(PyObject)
        OBVIOUS
      <4>2. NotRun \in Endings
        BY DEF NotRun, Ending, Endings
      <4> QED
        BY <3>1, <3>2, <4>1, <4>2, Zenon DEF Call
    <3>4. [begun EXCEPT !.phase = "ended", !.arguments = <<>>] \in Call
      <4>1. <<>> \in Seq(ScriptArgument)
        OBVIOUS
      <4> QED
        BY <3>3, <4>1, Zenon DEF Call
    <3>5. call' \in Call
      BY <2>1, <3>3, <3>4 DEF BeginCall
    <3>6. WithoutHook(LookUp(name), optional) \in Results
      BY FailuresAreResults, NoValueIsAResult DEF WithoutHook, Error, Codes
    <3>7. result' \in Results
      BY <2>1, <3>6, NoValueIsAResult DEF BeginCall
    <3> QED
      BY <2>1, <3>5, <3>7 DEF BeginCall
  <2>2. CASE ConvertScalar
    <3>1. CASE CastFails(NextArgument)
      <4>1. result' \in Results
        BY <2>2, <3>1, FailuresAreResults, RaisedErrors, ExceptionsAssumption
           DEF ConvertScalar, Fail
      <4>2. call' \in Call
        BY <2>2, <3>1, FailedCallTyped DEF ConvertScalar, Fail
      <4> QED
        BY <2>2, <4>1, <4>2 DEF ConvertScalar
    <3>2. CASE ~CastFails(NextArgument)
      <4>1. NextArgument.kind # "native"
        BY <2>2, NextArgumentTyped DEF ConvertScalar, ReturnTypes
      <4>2. call' \in Call
        BY <2>2, <3>2, <4>1, ConvertedTyped, NextArgumentTyped
           DEF ConvertScalar, Converted
      <4> QED
        BY <2>2, <3>2, <4>2 DEF ConvertScalar
    <3> QED
      BY <3>1, <3>2
  <2>3. CASE NoConverter
    <3>1. result' \in Results
      BY <2>3, FailuresAreResults DEF NoConverter, Fail, Error, Codes
    <3>2. call' \in Call
      BY <2>3, FailedCallTyped DEF NoConverter, Fail
    <3> QED
      BY <2>3, <3>1, <3>2 DEF NoConverter
  <2>4. ASSUME NEW outcome \in ConverterOutcomes, RunConverter(outcome)
        PROVE  TypeOK'
    <3>1. /\ outcome.thrown \in Exceptions \cup {Nothing}
          /\ outcome.left \in Exceptions \cup {Nothing}
          /\ UNCHANGED <<namespace, beyond>> /\ indicator' = outcome.left
      BY <2>4, ConverterAssumption, HostAssumption DEF RunConverter
    <3>2. CASE outcome.end = "raises"
      <4>1. outcome.thrown \in Exceptions
        BY <3>1, <3>2, ConverterAssumption
      <4>4. result' = Failure(FromPythonError(outcome.thrown))
        BY <2>4, <3>2 DEF RunConverter, Fail
      <4>2. result' \in Results
        BY <4>1, <4>4, FailuresAreResults, RaisedErrors
      <4>3. call' \in Call
        BY <2>4, <3>2, FailedCallTyped DEF RunConverter, Fail
      <4> QED
        BY <3>1, <4>2, <4>3
    <3>3. CASE outcome.end = "foreign"
      <4>1. result' = Failure(Error("exception", Nothing))
        BY <2>4, <3>3 DEF RunConverter, Fail
      <4>4. Error("exception", Nothing) \in
              [code : Codes, exception : Exceptions \cup {Nothing}]
        BY DEF Error, Codes
      <4>5. result' \in Results
        BY <4>1, <4>4, FailuresAreResults
      <4>2. call' \in Call
        BY <2>4, <3>3, FailedCallTyped DEF RunConverter, Fail
      <4> QED
        BY <3>1, <4>2, <4>5
    <3>4. CASE outcome.end \notin {"raises", "foreign"}
      <4>1. outcome.end \in {"object", "null", "throws"}
        BY <3>4, ConverterAssumption
      <4>2. call' = [call EXCEPT !.phase = "converter ended",
                                 !.handle = outcome.end]
        BY <2>4, <3>4 DEF RunConverter
      <4>3. call' \in Call
        BY <4>1, <4>2 DEF Call
      <4> QED
        BY <2>4, <3>1, <3>4, <4>3 DEF RunConverter
    <3> QED
      BY <3>2, <3>3, <3>4
  <2>5. CASE HandleOutcome
    <3>1. ASSUME Fail("native", Error("TypeMismatch", Nothing))
          PROVE  call' \in Call /\ result' \in Results
      BY <3>1, FailuresAreResults, FailedCallTyped DEF Fail, Error, Codes
    <3>2. ASSUME indicator # Nothing,
                 Fail("native", FromPythonError(indicator))
          PROVE  call' \in Call /\ result' \in Results
      BY <3>2, FailuresAreResults, RaisedErrors, FailedCallTyped DEF Fail
    <3>3. ASSUME Converted([type |-> "object", value |-> Nothing]),
                 UNCHANGED result
          PROVE  call' \in Call /\ result' \in Results
      <4>1. [type |-> "object", value |-> Nothing] \in PyObject
        BY DEF PyObject
      <4> QED
        BY <3>3, <4>1, ConvertedTyped DEF Converted
    <3> QED
      BY <2>5, <3>1, <3>2, <3>3 DEF HandleOutcome
  <2>6. CASE EnterHook
    BY <2>6 DEF EnterHook, Call
  <2>7. ASSUME NEW object \in PyObject, HookReturns(object)
        PROVE  TypeOK'
    <3>1. call' = [Ended("hook") EXCEPT
                     !.hook = Ending("returned", object, Nothing)]
      BY <2>7 DEF HookReturns, HookEnds
    <3>2. call' \in Call
      <4>1. Ending("returned", object, Nothing) \in Endings
        BY DEF Ending, Endings
      <4> QED
        BY <3>1, <4>1, FailedCallTyped, Zenon DEF Call
    <3>3. result' \in Results
      BY <2>7, HookResultTyped DEF HookReturns, HookEnds, Call
    <3> QED
      BY <2>7, <3>2, <3>3 DEF HookReturns, HookEnds
  <2>8. ASSUME NEW exception \in Raised, HookRaises(exception)
        PROVE  TypeOK'
    <3>0. exception \in Exceptions
      BY HostAssumption
    <3>1. call' = [Ended("hook") EXCEPT
                     !.hook = Ending("raised", Nothing, exception)]
      BY <2>8 DEF HookRaises, HookEnds
    <3>2. call' \in Call
      <4>1. Ending("raised", Nothing, exception) \in Endings
        BY <3>0 DEF Ending, Endings
      <4> QED
        BY <3>1, <4>1, FailedCallTyped, Zenon DEF Call
    <3>3. result' \in Results
      BY <2>8, <3>0, FailuresAreResults, RaisedErrors DEF HookRaises, HookEnds
    <3> QED
      BY <2>8, <3>2, <3>3 DEF HookRaises, HookEnds
  <2>9. ASSUME NEW name \in Keys, Rebind(name)
        PROVE  TypeOK'
    BY <2>9 DEF Rebind
  <2>10. CASE UNCHANGED vars
    BY <2>10 DEF vars
  <2>11. ASSUME call.converted # <<>> PROVE call.converted[1] \in PyObject
    <3>1. call.converted \in Seq(PyObject)
      BY CallFields
    <3> QED
      BY <2>11, <3>1
  <2> QED
    BY <2>1, <2>2, <2>3, <2>4, <2>5, <2>6, <2>7, <2>8, <2>9, <2>10, <2>11,
       HostAssumption DEF Next
<1> QED
  BY <1>1, <1>2, PTL DEF Spec

-----------------------------------------------------------------------------

(* Where converters leave no Python error behind when they throw something *)
(* the runtime does not catch, none is ever left for the next call.        *)
THEOREM IndicatorIsClear ==
  ASSUME CarefulConverters
  PROVE  Spec => []IndicatorClear
<1>1. Init => IndicatorClear
  BY DEF Init, IndicatorClear
<1>2. TypeOK /\ IndicatorClear /\ [Next]_vars => IndicatorClear'
  <2> SUFFICES ASSUME TypeOK, IndicatorClear, [Next]_vars
               PROVE  IndicatorClear'
    OBVIOUS
  <2> USE DEF IndicatorClear
  <2>1. ASSUME NEW outcome \in ConverterOutcomes, RunConverter(outcome)
        PROVE  IndicatorClear'
    <3>1. CASE outcome.end \in {"raises", "foreign"}
      BY <2>1, <3>1 DEF RunConverter, CarefulConverters
    <3>3. CASE outcome.end \notin {"raises", "foreign"}
      <4>1. call'.phase = "converter ended"
        BY <2>1, <3>3 DEF RunConverter, TypeOK, Call
      <4> QED
        BY <4>1
    <3> QED
      BY <3>1, <3>3
  <2>2. CASE HandleOutcome
    BY <2>2 DEF HandleOutcome
  <2>3. ASSUME indicator' = indicator, call.phase # "converter ended"
        PROVE  IndicatorClear'
    BY <2>3
  <2>4. ASSUME NEW name \in Names, NEW mode \in Modes,
               NEW optional \in BOOLEAN, NEW arguments \in ArgumentLists,
               BeginCall(name, mode, optional, arguments)
        PROVE  IndicatorClear'
    BY <2>3, <2>4 DEF BeginCall
  <2>5. CASE ConvertScalar \/ NoConverter \/ EnterHook
    BY <2>3, <2>5 DEF ConvertScalar, NoConverter, EnterHook, Converting
  <2>6. ASSUME NEW object, HookReturns(object) PROVE IndicatorClear'
    BY <2>3, <2>6 DEF HookReturns, HookEnds
  <2>7. ASSUME NEW exception, HookRaises(exception) PROVE IndicatorClear'
    BY <2>3, <2>7 DEF HookRaises, HookEnds
  <2>8. CASE UNCHANGED <<indicator, call>>
    BY <2>8
  <2>9. ASSUME NEW name \in Keys, Rebind(name) PROVE IndicatorClear'
    BY <2>8, <2>9 DEF Rebind
  <2>10. CASE UNCHANGED vars
    BY <2>8, <2>10 DEF vars
  <2> QED
    BY <2>1, <2>2, <2>4, <2>5, <2>6, <2>7, <2>9, <2>10 DEF Next
<1> QED
  BY <1>1, <1>2, TypeCorrect, PTL DEF Spec

-----------------------------------------------------------------------------

(* A call that is under way found a function, which has not run, and has   *)
(* converted its arguments in order, each to what the hook must see.       *)
Underway ==
  /\ call.phase # "ended" =>
       /\ call.found = "function" /\ call.hook = NotRun /\ result = NoValue
       /\ Len(call.converted) =< Len(call.arguments)
       /\ \A i \in 1..Len(call.converted) :
            PassedAs(call.converted[i], call.arguments[i])
  /\ call.phase = "converter ended" =>
       /\ Len(call.converted) < Len(call.arguments)
       /\ NextArgument.kind = "native" /\ NextArgument.converter
  /\ call.phase = "running" => Len(call.converted) = Len(call.arguments)

LEMMA UnderwayConverts ==
  ASSUME TypeOK, Underway, call.phase # "ended",
         Len(call.converted) < Len(call.arguments), UNCHANGED result,
         NEW object \in PyObject, PassedAs(object, NextArgument),
         Converted(object)
  PROVE  Underway'
<1>1. /\ call' \in Call /\ call'.phase = "converting"
      /\ call'.converted = Append(call.converted, object)
      /\ call'.arguments = call.arguments
      /\ call'.hook = call.hook /\ call'.found = call.found
  BY ConvertedTyped DEF Converted
<1>2. call.converted \in Seq(PyObject) /\ call.arguments \in Seq(ScriptArgument)
  BY CallFields
<1>3. /\ Len(call'.converted) = Len(call.converted) + 1
      /\ call'.converted[Len(call.converted) + 1] = object
      /\ \A i \in 1..Len(call.converted) :
           call'.converted[i] = call.converted[i]
      /\ Len(call.converted) \in Nat /\ Len(call.arguments) \in Nat
  BY <1>1, <1>2
<1>4. ASSUME NEW i \in 1..Len(call'.converted)
      PROVE  PassedAs(call'.converted[i], call'.arguments[i])
  <2>1. CASE i \in 1..Len(call.converted)
    BY <1>1, <1>3, <2>1 DEF Underway
  <2>2. CASE i = Len(call.converted) + 1
    BY <1>1, <1>3, <2>2 DEF NextArgument
  <2> QED
    BY <1>3, <1>4, <2>1, <2>2
<1>5. Len(call'.converted) =< Len(call'.arguments)
  BY <1>1, <1>3
<1>6. call'.found = "function" /\ call'.hook = NotRun /\ result' = NoValue
  BY <1>1 DEF Underway
<1> QED
  BY <1>1, <1>4, <1>5, <1>6 DEF Underway

LEMMA EndedIsUnderway ==
  ASSUME call'.phase = "ended"
  PROVE  Underway'
BY DEF Underway

LEMMA UnderwayIsInvariant == Spec => []Underway
<1>1. Init => Underway
  BY DEF Init, Underway
<1>2. TypeOK /\ Underway /\ [Next]_vars => Underway'
  <2> SUFFICES ASSUME TypeOK, Underway, [Next]_vars PROVE Underway'
    OBVIOUS
  <2>f. ASSUME NEW step, NEW error, Fail(step, error),
               step \in {"look-up", "scalar", "native", "hook"}
        PROVE  Underway'
    BY <2>f, FailedCallTyped, EndedIsUnderway DEF Fail
  <2>1. ASSUME NEW name \in Names, NEW mode \in Modes,
               NEW optional \in BOOLEAN, NEW arguments \in ArgumentLists,
               BeginCall(name, mode, optional, arguments)
        PROVE  Underway'
    <3>1. CASE LookUp(name) = "function"
      <4>1. /\ call'.phase = "converting" /\ call'.found = "function"
            /\ call'.converted = <<>> /\ call'.hook = NotRun
            /\ call'.arguments = arguments /\ result' = NoValue
        BY <2>1, <3>1 DEF BeginCall
      <4>2. Len(call'.converted) = 0 /\ Len(call'.arguments) \in Nat
        BY <4>1, HostAssumption
      <4>3. \A i \in 1..Len(call'.converted) :
              PassedAs(call'.converted[i], call'.arguments[i])
        BY <4>2
      <4>4. Len(call'.converted) =< Len(call'.arguments)
        BY <4>2
      <4> QED
        BY <4>1, <4>3, <4>4 DEF Underway
    <3>2. CASE LookUp(name) # "function"
      BY <2>1, <3>2, EndedIsUnderway DEF BeginCall
    <3> QED
      BY <3>1, <3>2
  <2>2. CASE ConvertScalar
    <3>1. CASE CastFails(NextArgument)
      BY <2>2, <3>1, <2>f DEF ConvertScalar
    <3>2. CASE ~CastFails(NextArgument)
      <4>1. NextArgument.kind # "native"
        BY <2>2, NextArgumentTyped DEF ConvertScalar, ReturnTypes
      <4>2. Cast(NextArgument) \in PyObject
        BY <2>2, <3>2, <4>1, NextArgumentTyped DEF ConvertScalar
      <4>3. PassedAs(Cast(NextArgument), NextArgument)
        BY <4>1 DEF PassedAs
      <4>4. /\ Converted(Cast(NextArgument)) /\ UNCHANGED result
            /\ call.phase # "ended"
            /\ Len(call.converted) < Len(call.arguments)
        BY <2>2, <3>2 DEF ConvertScalar, Converting
      <4> QED
        BY <4>2, <4>3, <4>4, UnderwayConverts
    <3> QED
      BY <3>1, <3>2
  <2>3. CASE NoConverter
    BY <2>3, <2>f DEF NoConverter
  <2>4. ASSUME NEW outcome \in ConverterOutcomes, RunConverter(outcome)
        PROVE  Underway'
    <3>1. CASE outcome.end \in {"raises", "foreign"}
      <4>1. \E error : Fail("native", error)
        BY <2>4, <3>1 DEF RunConverter
      <4> QED
        BY <4>1, <2>f
    <3>2. CASE outcome.end \notin {"raises", "foreign"}
      <4>1. /\ call' = [call EXCEPT !.phase = "converter ended",
                                    !.handle = outcome.end]
            /\ UNCHANGED result
            /\ Converting({"native"}) /\ NextArgument.converter
        BY <2>4, <3>2 DEF RunConverter
      <4>2. call \in Call
        BY DEF TypeOK
      <4>3. /\ call'.phase = "converter ended"
            /\ call'.converted = call.converted
            /\ call'.arguments = call.arguments
            /\ call'.hook = call.hook /\ call'.found = call.found
        BY <4>1, <4>2 DEF Call
      <4> QED
        BY <4>1, <4>3 DEF Underway, Converting, NextArgument
    <3> QED
      BY <3>1, <3>2
  <2>5. CASE HandleOutcome
    <3>1. ASSUME Converted([type |-> "object", value |-> Nothing]),
                 UNCHANGED result
          PROVE  Underway'
      <4>1. [type |-> "object", value |-> Nothing] \in PyObject
        BY DEF PyObject
      <4>2. PassedAs([type |-> "object", value |-> Nothing], NextArgument)
        BY <2>5 DEF Underway, HandleOutcome, PassedAs
      <4> QED
        BY <2>5, <3>1, <4>1, <4>2, UnderwayConverts
           DEF Underway, HandleOutcome
    <3> QED
      BY <2>5, <2>f, <3>1 DEF HandleOutcome
  <2>6. CASE EnterHook
    <3>1. /\ call'.phase = "running"
          /\ call'.converted = call.converted
          /\ call'.arguments = call.arguments
          /\ call'.hook = call.hook /\ call'.found = call.found
      BY <2>6 DEF EnterHook, TypeOK, Call
    <3> QED
      BY <2>6, <3>1 DEF EnterHook, Underway
  <2>7. ASSUME NEW ending, NEW r, HookEnds(ending, r) PROVE Underway'
    <3>1. Ended("hook") \in Call /\ Ended("hook").phase = "ended"
      BY FailedCallTyped
    <3>2. call'.phase = "ended"
      BY <2>7, <3>1 DEF HookEnds, Call
    <3> QED
      BY <3>2, EndedIsUnderway
  <2>8. CASE UNCHANGED <<call, result>>
    BY <2>8 DEF Underway, NextArgument
  <2>9. ASSUME NEW name \in Keys, Rebind(name) PROVE Underway'
    BY <2>8, <2>9 DEF Rebind
  <2>10. CASE UNCHANGED vars
    BY <2>8, <2>10 DEF vars
  <2> QED
    BY <2>1, <2>2, <2>3, <2>4, <2>5, <2>6, <2>7, <2>9, <2>10
       DEF Next, HookReturns, HookRaises
<1> QED
  BY <1>1, <1>2, TypeCorrect, PTL DEF Spec

(* A hook sees every argument the host passed, in its place, as the Python *)
(* value it stands for, whatever the converters before it did.             *)
THEOREM HooksGetTheirArguments == Spec => []HookGetsItsArguments
<1>1. Underway => HookGetsItsArguments
  BY DEF Underway, HookGetsItsArguments
<1> QED
  BY <1>1, UnderwayIsInvariant, PTL

-----------------------------------------------------------------------------

LEMMA NotRunEnds == NotRun.end = "not run"
BY DEF NotRun, Ending

(* Before the hook is entered, a call has no value to return. *)
LEMMA BeforeTheHook ==
  ASSUME call'.hook = NotRun, result'.hasValue = FALSE
  PROVE  ResultTellsOutcome'
<1>1. call'.hook.end = "not run"
  BY NotRunEnds
<1> QED
  BY <1>1 DEF ResultTellsOutcome

(* A conversion that fails ends the call with an error that is neither     *)
(* success nor a missing function.                                         *)
LEMMA FailureTells ==
  ASSUME TypeOK, Underway, call.phase # "ended",
         NEW step \in {"look-up", "scalar", "native", "hook"}, NEW error,
         error # NoError, error # Error("FunctionNotFound", Nothing),
         Fail(step, error)
  PROVE  ResultTellsOutcome' /\ SilenceIsOptional'
<1>1. call'.hook = NotRun
  BY FailedCallTyped DEF Fail, Underway
<1>2. result'.hasValue = FALSE /\ result'.error = error
  BY DEF Fail, Failure
<1>3. SilenceIsOptional'
  BY <1>2 DEF SilenceIsOptional
<1> QED
  BY <1>1, <1>2, <1>3, BeforeTheHook

LEMMA PythonErrorsTell ==
  ASSUME NEW exception \in Exceptions
  PROVE  /\ FromPythonError(exception) # NoError
         /\ FromPythonError(exception) # Error("FunctionNotFound", Nothing)
BY RaisedErrors DEF NoError, Error

LEMMA OtherErrorsTell ==
  ASSUME NEW code \in {"InvalidArgument", "TypeMismatch", "exception"}
  PROVE  /\ Error(code, Nothing) # NoError
         /\ Error(code, Nothing) # Error("FunctionNotFound", Nothing)
BY DEF NoError, Error

(* A call that goes on tells nothing yet. *)
LEMMA GoingOnTells ==
  ASSUME Underway, call.phase # "ended", UNCHANGED result,
         call'.phase # "ended", call'.hook = call.hook
  PROVE  ResultTellsOutcome' /\ SilenceIsOptional'
<1>1. call'.hook = NotRun /\ result'.hasValue = FALSE
  <2>1. call.hook = NotRun /\ result = NoValue
    BY DEF Underway
  <2>2. NoValue.hasValue = FALSE
    BY DEF NoValue, Failure
  <2> QED
    BY <2>1, <2>2
<1> QED
  BY <1>1, BeforeTheHook DEF SilenceIsOptional

LEMMA OutcomeIsTold == Spec => [](ResultTellsOutcome /\ SilenceIsOptional)
<1> DEFINE Told == ResultTellsOutcome /\ SilenceIsOptional
<1>1. Init => Told
  <2> SUFFICES ASSUME Init PROVE Told
    OBVIOUS
  <2>1. call.hook = NotRun /\ call.optional /\ call.found = "missing"
    BY DEF Init
  <2>2. result.error = NoError /\ ~result.hasValue
    BY DEF Init, NoValue, Failure
  <2>3. NoError # Error("FunctionNotFound", Nothing)
    BY DEF NoError, Error
  <2> QED
    BY <2>1, <2>2, <2>3, NotRunEnds DEF ResultTellsOutcome, SilenceIsOptional
<1>2. TypeOK /\ Underway /\ Told /\ [Next]_vars => Told'
  <2> SUFFICES ASSUME TypeOK, Underway, Told, [Next]_vars PROVE Told'
    OBVIOUS
  <2>1. ASSUME NEW name \in Names, NEW mode \in Modes,
               NEW optional \in BOOLEAN, NEW arguments \in ArgumentLists,
               BeginCall(name, mode, optional, arguments)
        PROVE  Told'
    <3>1. CASE LookUp(name) = "function"
      <4>1. /\ call'.phase = "converting" /\ call'.hook = NotRun
            /\ result' = NoValue
        BY <2>1, <3>1 DEF BeginCall
      <4>2. result'.hasValue = FALSE
        BY <4>1 DEF NoValue, Failure
      <4> QED
        BY <4>1, <4>2, BeforeTheHook DEF SilenceIsOptional
    <3>2. CASE LookUp(name) # "function"
      <4>1. /\ call'.hook = NotRun /\ call'.optional = optional
            /\ call'.found = LookUp(name)
            /\ result' = WithoutHook(LookUp(name), optional)
        BY <2>1, <3>2 DEF BeginCall
      <4>2. result'.hasValue = FALSE
        BY <4>1 DEF WithoutHook, NoValue, Failure
      <4>3. LookUp(name) \in {"missing", "getattr raised", "object"}
        BY <3>2 DEF LookUp
      <4>4. /\ result'.error = NoError =>
                 optional /\ LookUp(name) # "object"
            /\ result'.error = Error("FunctionNotFound", Nothing) => ~optional
        BY <4>1 DEF WithoutHook, NoValue, Failure, NoError, Error
      <4> QED
        BY <3>2, <4>1, <4>2, <4>3, <4>4, BeforeTheHook DEF SilenceIsOptional
    <3> QED
      BY <3>1, <3>2
  <2>2. CASE ConvertScalar
    <3>1. CASE CastFails(NextArgument)
      BY <2>2, <3>1, FailureTells, PythonErrorsTell, ExceptionsAssumption
         DEF ConvertScalar, Converting
    <3>2. CASE ~CastFails(NextArgument)
      <4>1. /\ Converted(Cast(NextArgument)) /\ UNCHANGED result
            /\ call.phase # "ended"
        BY <2>2, <3>2 DEF ConvertScalar, Converting
      <4>2. call'.phase # "ended" /\ call'.hook = call.hook
        BY <4>1 DEF Converted, TypeOK, Call
      <4> QED
        BY <4>1, <4>2, GoingOnTells
    <3> QED
      BY <3>1, <3>2
  <2>3. CASE NoConverter
    BY <2>3, FailureTells, OtherErrorsTell DEF NoConverter, Converting
  <2>4. ASSUME NEW outcome \in ConverterOutcomes, RunConverter(outcome)
        PROVE  Told'
    <3>1. CASE outcome.end = "raises"
      <4>1. outcome.thrown \in Exceptions
        BY <3>1, ConverterAssumption, HostAssumption
      <4>2. Fail("native", FromPythonError(outcome.thrown))
        BY <2>4, <3>1 DEF RunConverter
      <4>3. call.phase # "ended"
        BY <2>4 DEF RunConverter, Converting
      <4> QED
        BY <4>1, <4>2, <4>3, FailureTells, PythonErrorsTell
    <3>2. CASE outcome.end = "foreign"
      <4>1. Fail("native", Error("exception", Nothing))
        BY <2>4, <3>2 DEF RunConverter
      <4>2. call.phase # "ended"
        BY <2>4 DEF RunConverter, Converting
      <4> QED
        BY <4>1, <4>2, FailureTells, OtherErrorsTell
    <3>3. CASE outcome.end \notin {"raises", "foreign"}
      <4>1. /\ call' = [call EXCEPT !.phase = "converter ended",
                                    !.handle = outcome.end]
            /\ UNCHANGED result /\ call.phase # "ended"
        BY <2>4, <3>3 DEF RunConverter, Converting
      <4>2. call'.phase # "ended" /\ call'.hook = call.hook
        BY <4>1 DEF TypeOK, Call
      <4> QED
        BY <4>1, <4>2, GoingOnTells
    <3> QED
      BY <3>1, <3>2, <3>3
  <2>5. CASE HandleOutcome
    <3>0. call.phase # "ended"
      BY <2>5 DEF HandleOutcome
    <3>1. ASSUME Fail("native", Error("TypeMismatch", Nothing))
          PROVE  Told'
      BY <3>0, <3>1, FailureTells, OtherErrorsTell
    <3>2. ASSUME indicator # Nothing,
                 Fail("native", FromPythonError(indicator))
          PROVE  Told'
      <4>1. indicator \in Exceptions
        BY <3>2 DEF TypeOK
      <4> QED
        BY <3>0, <3>2, <4>1, FailureTells, PythonErrorsTell
    <3>3. ASSUME Converted([type |-> "object", value |-> Nothing]),
                 UNCHANGED result
          PROVE  Told'
      <4>1. call'.phase # "ended" /\ call'.hook = call.hook
        BY <3>3 DEF Converted, TypeOK, Call
      <4> QED
        BY <3>0, <3>3, <4>1, GoingOnTells
    <3> QED
      BY <2>5, <3>1, <3>2, <3>3 DEF HandleOutcome
  <2>6. CASE EnterHook
    <3>1. /\ call'.phase # "ended" /\ call'.hook = call.hook
          /\ call.phase # "ended" /\ UNCHANGED result
      BY <2>6 DEF EnterHook, TypeOK, Call
    <3> QED
      BY <3>1, GoingOnTells
  <2>7. ASSUME NEW object \in PyObject, HookReturns(object)
        PROVE  Told'
    <3>1. /\ call'.hook = Ending("returned", object, Nothing)
          /\ call'.mode = call.mode
      <4>1. Ended("hook") \in Call /\ Ended("hook").mode = call.mode
        BY FailedCallTyped
      <4> QED
        BY <2>7, <4>1 DEF HookReturns, HookEnds, Call
    <3>2. call.mode # "untyped" => call.mode \in ReturnTypes
      BY CallFields DEF Modes
    <3>3. result' = IF call.mode = "untyped" \/ object = None THEN NoValue
                    ELSE IF Readable(call.mode, object) THEN Value(object.value)
                    ELSE Failure(Error("TypeMismatch", Nothing))
      BY <2>7, <3>2, ConversionIsExact DEF HookReturns, HookEnds
    <3>4. call'.hook.end = "returned" /\ call'.hook.object = object
      BY <3>1 DEF Ending
    <3>5. call'.hook # NotRun
      BY <3>4, NotRunEnds
    <3>6. ResultTellsOutcome'
      BY <3>1, <3>3, <3>4, <3>5 DEF ResultTellsOutcome
    <3>7. result'.error \in {NoError, Error("TypeMismatch", Nothing)}
      BY <3>3 DEF NoValue, Value, Failure
    <3>8. /\ NoError # Error("FunctionNotFound", Nothing)
          /\ Error("TypeMismatch", Nothing) #
               Error("FunctionNotFound", Nothing)
      BY DEF NoError, Error
    <3> QED
      BY <3>5, <3>6, <3>7, <3>8 DEF SilenceIsOptional
  <2>8. ASSUME NEW exception \in Raised, HookRaises(exception)
        PROVE  Told'
    <3>1. exception \in Exceptions
      BY HostAssumption
    <3>2. call'.hook = Ending("raised", Nothing, exception)
      <4>1. Ended("hook") \in Call
        BY FailedCallTyped
      <4> QED
        BY <2>8, <4>1 DEF HookRaises, HookEnds, Call
    <3>3. /\ result'.error = FromPythonError(exception)
          /\ result'.hasValue = FALSE
      BY <2>8 DEF HookRaises, HookEnds, Failure
    <3>4. /\ call'.hook.end = "raised" /\ call'.hook.exception = exception
          /\ call'.hook # NotRun
      <4>1. call'.hook.end = "raised" /\ call'.hook.exception = exception
        BY <3>2 DEF Ending
      <4> QED
        BY <4>1, NotRunEnds
    <3>5. ResultTellsOutcome'
      BY <3>1, <3>3, <3>4, RaisedErrors DEF ResultTellsOutcome
    <3> QED
      BY <3>1, <3>3, <3>5, PythonErrorsTell DEF SilenceIsOptional
  <2>9. CASE UNCHANGED <<call, result>>
    BY <2>9 DEF ResultTellsOutcome, SilenceIsOptional
  <2>10. ASSUME NEW name \in Keys, Rebind(name) PROVE Told'
    BY <2>9, <2>10 DEF Rebind
  <2>11. CASE UNCHANGED vars
    BY <2>9, <2>11 DEF vars
  <2>12. ASSUME call.converted # <<>> PROVE call.converted[1] \in PyObject
    <3>1. call.converted \in Seq(PyObject)
      BY CallFields
    <3> QED
      BY <2>12, <3>1
  <2> QED
    BY <2>1, <2>2, <2>3, <2>4, <2>5, <2>6, <2>7, <2>8, <2>10, <2>11, <2>12,
       HostAssumption DEF Next
<1> QED
  BY <1>1, <1>2, TypeCorrect, UnderwayIsInvariant, PTL DEF Spec

(* The host learns of a hook what it did: its value, unchanged and of the  *)
(* type asked for, that it returned none, or the exception it raised.      *)
THEOREM ResultsTellOutcomes == Spec => []ResultTellsOutcome
BY OutcomeIsTold, PTL

(* Only an optional hook that is missing is passed over in silence, and a  *)
(* hook's own AttributeError is never mistaken for a missing hook by a     *)
(* host that looks at the exception.                                       *)
THEOREM OnlyOptionalHooksAreSilent == Spec => []SilenceIsOptional
BY OutcomeIsTold, PTL

(* What hasFunction() and listFunctions() say holds of the next call, or   *)
(* they say nothing: of a loaded object that is no module.                 *)
THEOREM IntrospectionForetells == Spec => []IntrospectionForetellsCall
<1>1. TypeOK => IntrospectionForetellsCall
  <2> SUFFICES ASSUME TypeOK, NEW name \in Names, CString[name] = name
               PROVE  /\ HasFunction(name) = Value(True) =>
                           LookUp(name) = "function"
                      /\ LookUp(name) = "function" =>
                           \/ HasFunction(name) = Value(True)
                           \/ /\ beyond[name] = "function"
                              /\ HasFunction(name) \in {Value(False), NotAModule}
                      /\ HasFunction(name).error.code = "TypeMismatch" =>
                           LookUp(name) = IF namespace[name] = "none"
                                            THEN "missing" ELSE "object"
                      /\ HasFunction(name) = NotAModule <=>
                           ListFunctions = NotAModule
                      /\ ListFunctions # NotAModule =>
                           (name \in ListFunctions.value <=>
                              /\ name \notin Private
                              /\ HasFunction(name) = Value(True))
    BY DEF IntrospectionForetellsCall
  <2> DEFINE mismatch == Failure(Error("TypeMismatch", Nothing))
             listed == {n \in Keys \ Private : Entry(n) = "function"}
  <2>1. /\ Value(True) # Value(False) /\ Value(True) # mismatch
        /\ Value(True).error.code # "TypeMismatch"
        /\ Value(False).error.code # "TypeMismatch"
    BY BooleansAssumption DEF Value, Failure, NoError, Error
  <2>2. /\ \A v : Value(v) # NotAModule /\ Value(v).value = v
        /\ mismatch # NotAModule /\ NotAModule.error.code # "TypeMismatch"
    BY DEF NotAModule, Value, Failure, NoError, Error
  <2>3. Entry(name) \in Bindings
    BY DEF TypeOK, Entry, Bindings
  <2>4. CASE namespace = NoNamespace
    <3>1. HasFunction(name) = NotAModule /\ ListFunctions = NotAModule
      BY <2>4 DEF HasFunction, ListFunctions
    <3>2. LookUp(name) = "function" => beyond[name] = "function"
      BY <2>4 DEF LookUp, Entry
    <3> QED
      BY <2>2, <3>1, <3>2
  <2>5. CASE namespace # NoNamespace
    <3>1. ListFunctions = Value(listed)
      BY <2>5 DEF ListFunctions
    <3>2. name \in listed <=> name \notin Private /\ Entry(name) = "function"
      BY <2>5 DEF Entry
    <3> HIDE DEF mismatch, listed
    <3>3. HasFunction(name) = IF Entry(name) = "absent" THEN Value(False)
                              ELSE IF Entry(name) = "function" THEN Value(True)
                              ELSE mismatch
      BY <2>5 DEF HasFunction, mismatch
    <3>4. HasFunction(name) # NotAModule /\ ListFunctions # NotAModule
      BY <2>2, <3>1, <3>3
    <3>5. /\ Entry(name) = "function" => LookUp(name) = "function"
          /\ LookUp(name) = "function" =>
               \/ Entry(name) = "function"
               \/ Entry(name) = "absent" /\ beyond[name] = "function"
          /\ Entry(name) \notin {"absent", "function"} =>
               LookUp(name) = IF namespace[name] = "none"
                                THEN "missing" ELSE "object"
      BY <2>3, <2>5 DEF LookUp, Entry, Bindings
    <3> QED
      BY <2>1, <2>2, <2>3, <3>1, <3>2, <3>3, <3>4, <3>5
  <2> QED
    BY <2>4, <2>5
<1> QED
  BY <1>1, TypeCorrect, PTL

=============================================================================
