---------------------------- MODULE PythonValues ----------------------------
(***************************************************************************)
(* Values crossing the call boundary, both ways: ScriptArgument to Python, *)
(* and a returned Python object to one of the four C++ scalar types; and   *)
(* what a raised exception is reported as (sources/ScriptRuntime.cpp:      *)
(* tryConvertReturnValue, convertReturnValue, convertArgument,             *)
(* classifyPythonError; headers/mais/Result.hpp).                          *)
(*                                                                         *)
(* A Python object is a record of its type and its payload.  An exception  *)
(* is known by those of the three tested classes it derives from.          *)
(***************************************************************************)
EXTENDS Integers, Sequences

CONSTANTS
  MinInt64, MaxInt64,   \* the range of std::int64_t
  True, False,          \* the two booleans
  Texts,                \* contents of strings, on either side
  NotUtf8,              \* those UTF-8 cannot carry, in either direction
  Numbers,              \* contents of floats
  Exceptions,           \* what Python code can raise
  DerivesFrom,          \* per exception, its classes among the three
  UnicodeError,         \* raised by a conversion that is not UTF-8
  Nothing               \* no payload, no exception, no value

ASSUME RangeAssumption ==
  /\ MinInt64 \in Int /\ MaxInt64 \in Int
  /\ MinInt64 =< -1 /\ -1 =< MaxInt64

ASSUME NotUtf8Assumption == NotUtf8 \subseteq Texts

Int64 == MinInt64..MaxInt64

Classes == {"ModuleNotFoundError", "AttributeError", "TypeError"}

ASSUME ExceptionsAssumption ==
  /\ DerivesFrom \in [Exceptions -> SUBSET Classes]
  /\ UnicodeError \in Exceptions
  /\ DerivesFrom[UnicodeError] = {}

Booleans == {True, False}

ASSUME BooleansAssumption == True # False

ASSUME NothingAssumption ==
  Nothing \notin Exceptions \cup Int \cup Booleans \cup Texts \cup Numbers

(* ScriptReturnType, by the name a script author gives it. *)
ReturnTypes == {"bool", "int", "float", "str"}

(* Any object that is none of the four scalars, None included. *)
PyObject ==
  [type : {"bool"}, value : Booleans]
    \cup [type : {"int"}, value : Int]
    \cup [type : {"float"}, value : Numbers]
    \cup [type : {"str"}, value : Texts]
    \cup [type : {"NoneType", "object"}, value : {Nothing}]

None == [type |-> "NoneType", value |-> Nothing]

(* Classes of CPython's own check macros: a bool is an int as well. *)
PyCheck(type, object) ==
  \/ object.type = type
  \/ type = "int" /\ object.type = "bool"

-----------------------------------------------------------------------------

(* PyLong_AsLongLongAndOverflow: -1 stands for an error or an overflow too. *)
AsLongLongAndOverflow(n) ==
  [number   |-> IF n \in Int64 THEN n ELSE -1,
   overflow |-> n \notin Int64]

Conversion(result, out) == [result |-> result, out |-> out]

(* Faulty variants are named for the mistake they make; the properties are *)
(* checked to notice them.                                                 *)
TryConvertInt_MinusOneIsAnError(object) ==
  LET long == AsLongLongAndOverflow(object.value)
  IN IF ~PyCheck("int", object) \/ PyCheck("bool", object) \/ long.number = -1
       THEN Conversion("WrongType", Nothing)
       ELSE Conversion("Converted", long.number)

TryConvertInt_IgnoresTheRange(object) ==
  IF ~PyCheck("int", object) \/ PyCheck("bool", object)
    THEN Conversion("WrongType", Nothing)
    ELSE Conversion("Converted", object.value)

(* No error is ever set here: the object is an int, only its size can be   *)
(* wrong.                                                                  *)
TryConvertInt(object) ==
  IF ~PyCheck("int", object) \/ PyCheck("bool", object)
    THEN Conversion("WrongType", Nothing)
    ELSE LET long == AsLongLongAndOverflow(object.value)
         IN IF long.overflow THEN Conversion("OutOfRange", Nothing)
                             ELSE Conversion("Converted", long.number)

TryConvertStr(object) ==
  IF ~PyCheck("str", object) \/ object.value \in NotUtf8
    THEN Conversion("WrongType", Nothing)
    ELSE Conversion("Converted", object.value)

(* bool and float are read as they are. *)
TryConvertExact(type, object) ==
  IF PyCheck(type, object) THEN Conversion("Converted", object.value)
                           ELSE Conversion("WrongType", Nothing)

TryConvertReturnValue(type, object) ==
  CASE type = "int" -> TryConvertInt(object)
    [] type = "str" -> TryConvertStr(object)
    [] OTHER        -> TryConvertExact(type, object)

-----------------------------------------------------------------------------

(* Error: a code, and the exception it was built from. *)
Error(code, exception) == [code |-> code, exception |-> exception]

NoError == Error("Ok", Nothing)

(* Result<T>; the untyped overloads return one that never has a value. *)
Failure(error) == [error |-> error, hasValue |-> FALSE, value |-> Nothing]

Value(v) == [error |-> NoError, hasValue |-> TRUE, value |-> v]

NoValue == Failure(NoError)

ConvertReturnValue(type, object) ==
  LET conversion == TryConvertReturnValue(type, object)
  IN IF conversion.result = "Converted"
       THEN Value(conversion.out)
       ELSE Failure(Error("TypeMismatch", Nothing))

(* classifyPythonError(), in the order it asks. *)
ClassifyPythonError(exception) ==
  IF "ModuleNotFoundError" \in DerivesFrom[exception] THEN "ModuleNotFound"
  ELSE IF "AttributeError" \in DerivesFrom[exception] THEN "FunctionNotFound"
  ELSE IF "TypeError" \in DerivesFrom[exception] THEN "TypeMismatch"
  ELSE "InvocationFailed"

(* fromPythonError(). *)
FromPythonError(exception) == Error(ClassifyPythonError(exception), exception)

-----------------------------------------------------------------------------

(* ScriptArgument: four scalars, or a native object with or without a      *)
(* converter.                                                              *)
ScriptArgument ==
  [kind : {"int"}, value : Int64]
    \cup [kind : {"float"}, value : Numbers]
    \cup [kind : {"bool"}, value : Booleans]
    \cup [kind : {"str"}, value : Texts]
    \cup [kind : {"native"}, converter : BOOLEAN]

(* py::cast() of a scalar; a string must be UTF-8. *)
CastFails(argument) == argument.kind = "str" /\ argument.value \in NotUtf8

Cast(argument) == [type |-> argument.kind, value |-> argument.value]

=============================================================================
