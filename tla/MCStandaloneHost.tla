-------------------------- MODULE MCStandaloneHost --------------------------
(***************************************************************************)
(* StandaloneHost with a directory that provides the script and another    *)
(* module for it to import, one whose name Python refuses and one that     *)
(* does not exist; hooks fail in two ways that differ by their message.    *)
(***************************************************************************)
EXTENDS StandaloneHost

Fail(code, message) ==
  [code |-> code, exceptionType |-> "", message |-> message, traceback |-> ""]

MCCharacters == {"h", "g", "x", "c", "s", "u", "d", "sep", "nul"}

MCHostName == <<"h">>

MCGameName == <<"g">>

MCScriptNames == {MCGameName, <<"x">>}

MCModuleNames == {MCHostName} \cup MCScriptNames

MCFunctionName ==
  [configure |-> <<"c">>, on_start |-> <<"s">>, on_update |-> <<"u">>,
   on_shutdown |-> <<"d">>]

MCHooks ==
  {[module |-> MCGameName, function |-> MCFunctionName[p]] :
     p \in DOMAIN MCFunctionName}

MCFailures ==
  {Fail("InvocationFailed", "bad"), Fail("InvocationFailed", "worse")}

MCPaths == {"scripts", "latin1", "missing"}

MCDirectories == {"scripts", "latin1"}

MCUnencodable == {"latin1"}

MCProvides ==
  [d \in MCDirectories |-> IF d = "scripts" THEN MCScriptNames ELSE {}]

MCNotUtf8Names == {}

MCLiberties == AllLiberties \ {"edited sys.modules"}

=============================================================================
