-------------------------- MODULE MCHookInvocation --------------------------
(***************************************************************************)
(* Small instance of HookInvocation: three-bit integers, a public name, a  *)
(* private one, and two names that are not UTF-8, one of them behind a NUL *)
(* after the public name.                                                  *)
(***************************************************************************)
EXTENDS HookInvocation

MCMinInt64 == -4

MCNames == {"f", "_f", "f_NUL_bad", "bad"}

MCCString == [n \in MCNames |-> IF n = "f_NUL_bad" THEN "f" ELSE n]

MCUndecodable == {"f_NUL_bad", "bad"}

CONSTANTS Text, Surrogate, Half

MCTexts == {Text, Surrogate}

MCNotUtf8 == {Surrogate}

MCNumbers == {Half}

Scalar(kind, value) == [kind |-> kind, value |-> value]

Native(converter) == [kind |-> "native", converter |-> converter]

(* Bounds of the range and the value that doubles as CPython's error mark, *)
(* each scalar kind, and failures before, after and between good arguments.*)
MCArgumentLists ==
  {<<>>, <<Scalar("int", -4)>>, <<Scalar("bool", True), Native(FALSE)>>,
   <<Scalar("str", Text)>>, <<Native(TRUE), Scalar("str", Surrogate)>>,
   <<Scalar("float", Half), Native(TRUE), Native(TRUE)>>}

MCReturnValues ==
  {None, [type |-> "bool", value |-> False], [type |-> "int", value |-> -1],
   [type |-> "int", value |-> 4], [type |-> "int", value |-> -5],
   [type |-> "str", value |-> Surrogate],
   [type |-> "object", value |-> Nothing]}

CONSTANTS ImportFails, Attribute, Type, Several, Unicode

MCExceptions == {ImportFails, Attribute, Type, Several, Unicode}

(* A script may define a class below several of the three. *)
MCDerivesFrom ==
  [e \in MCExceptions |->
     CASE e = ImportFails -> {"ModuleNotFoundError"}
       [] e = Attribute   -> {"AttributeError"}
       [] e = Type        -> {"TypeError"}
       [] e = Several     -> {"AttributeError", "TypeError"}
       [] e = Unicode     -> {}]

Outcome(end, thrown, left) == [end |-> end, thrown |-> thrown, left |-> left]

(* Careful ones, which nevertheless may leave an error when they return or *)
(* throw a std::exception.                                                 *)
MCConverterOutcomes ==
  {Outcome(end, Nothing, left) : end \in {"object", "null", "throws"},
                                 left \in {Nothing, Type}}
    \cup {Outcome("raises", Unicode, Nothing),
          Outcome("raises", Attribute, Nothing),
          Outcome("foreign", Nothing, Nothing)}

=============================================================================
