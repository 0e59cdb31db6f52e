-------------------------- MODULE MCScriptRuntime --------------------------
(***************************************************************************)
(* ScriptRuntime on a small instance: three names a host binds, one with a *)
(* NUL and one Python cannot decode, one script module found in one of     *)
(* three directories, one of which Python cannot be given, one hook in the *)
(* script, two threads.                                                    *)
(***************************************************************************)
EXTENDS ScriptRuntime, TLC

Fail(code) ==
  [code |-> code, exceptionType |-> "", message |-> code, traceback |-> ""]

MCCharacters == {"a", "b", "s", "f", "latin1", "sep", "nul"}

(* Python sees the second as "b", and cannot decode the third. *)
MCBindingNames == {<<"a">>, <<"b", "nul", "a">>, <<"latin1">>}

MCNotUtf8Names == {<<"latin1">>}

MCScriptNames == {<<"s">>}

(* The last is another name for the script. *)
MCModuleNames == MCBindingNames \cup MCScriptNames \cup {<<"s", "nul">>}

(* Fewer names, for the run that grants the liberties together. *)
MCFewNames == {<<"a">>} \cup MCScriptNames

MCHooks == {[module |-> <<"s">>, function |-> <<"f">>]}

MCFailures == {Fail("ModuleNotFound"), Fail("InvocationFailed")}

(* One that every way to fail can end with, for the run that grants the    *)
(* liberties together.                                                     *)
MCOneFailure == {Fail("ModuleNotFound")}

MCPaths == {"scripts", "lib", "latin1", "missing"}

MCDirectories == {"scripts", "lib", "latin1"}

MCProvides == [d \in MCDirectories |-> IF d = "scripts" THEN MCScriptNames ELSE {}]

(* One path, likewise. *)
MCOneDirectory == {"scripts"}

MCOneProvides == [d \in MCOneDirectory |-> MCScriptNames]

(* Threads are interchangeable; no property checked is a liveness one. *)
ThreadSymmetry == Permutations(Threads)

=============================================================================
