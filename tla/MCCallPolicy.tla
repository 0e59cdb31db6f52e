--------------------------- MODULE MCCallPolicy ---------------------------
(***************************************************************************)
(* CallPolicy on a small instance.  The two hooks have the same characters *)
(* in the same order, so only the separator keeps their keys apart; the    *)
(* failures include two that differ by their traceback alone (one failure  *)
(* for the accounting) and two that differ by their message alone.         *)
(***************************************************************************)
EXTENDS CallPolicy

Fail(code, type, message, traceback) ==
  [code |-> code, exceptionType |-> type, message |-> message,
   traceback |-> traceback]

MCCharacters == {"g", "h", "sep"}

MCHooks ==
  {[module |-> <<"g">>, function |-> <<"h", "g">>],
   [module |-> <<"g", "h">>, function |-> <<"g">>]}

MCFailures ==
  {Fail("InvocationFailed", "ValueError", "bad", "line 1"),
   Fail("InvocationFailed", "ValueError", "bad", "line 2"),
   Fail("InvocationFailed", "ValueError", "worse", "line 1")}

MCRejections ==
  {Fail("NotInitialized", "", "not running", ""),
   Fail("WrongThread", "", "other thread", "")}

MCNoError == Fail("Ok", "", "", "")

=============================================================================
