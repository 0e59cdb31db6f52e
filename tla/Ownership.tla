----------------------------- MODULE Ownership -----------------------------
(***************************************************************************)
(* What headers/mais/ScriptRuntime.hpp promises of threads, with no fields *)
(* to read and no GIL: one thread at a time owns the interpreter, the one  *)
(* that started it, and every other call is turned away at once.  Each     *)
(* call is decided in one step, by who owns the interpreter at that step.  *)
(* ThreadAffinity implements it.                                           *)
(***************************************************************************)

CONSTANTS Threads, Nobody

VARIABLES
  owner,   \* the thread that started the interpreter, or Nobody
  place    \* per thread, where it is: outside of the runtime, asking to be
           \* let in or to start the interpreter, or inside

vars == <<owner, place>>

Places == {"outside", "entering", "starting", "inside"}

Init ==
  /\ owner = Nobody
  /\ place = [t \in Threads |-> "outside"]

Moves(t, from, to) ==
  /\ place[t] = from
  /\ place' = [place EXCEPT ![t] = to]

Asks(t) ==
  /\ \/ Moves(t, "outside", "entering")
     \/ Moves(t, "outside", "starting")
  /\ UNCHANGED owner

(* The owner is always let in ... *)
Admitted(t) ==
  /\ t = owner
  /\ Moves(t, "entering", "inside")
  /\ UNCHANGED owner

(* ... and nobody else ever. *)
TurnedAway(t) ==
  /\ t # owner
  /\ Moves(t, "entering", "outside")
  /\ UNCHANGED owner

(* A thread becomes the owner when there is none and the last one is out.  *)
Starts(t) ==
  /\ owner = Nobody
  /\ \A u \in Threads : place[u] # "inside"
  /\ Moves(t, "starting", "inside")
  /\ owner' = t

(* initialize() fails, for this reason or another. *)
DoesNotStart(t) ==
  /\ Moves(t, "starting", "outside")
  /\ UNCHANGED owner

(* Only from inside, and only by its owner, is the interpreter given up.   *)
Stops(t) ==
  /\ t = owner /\ place[t] = "inside"
  /\ owner' = Nobody
  /\ UNCHANGED place

(* The destructor asks nobody: it runs on the owner's thread, or when the  *)
(* interpreter is gone.                                                    *)
Destroys(t) ==
  /\ owner \in {t, Nobody}
  /\ Moves(t, "outside", "inside")
  /\ UNCHANGED owner

Goes(t) ==
  /\ Moves(t, "inside", "outside")
  /\ UNCHANGED owner

Next ==
  \E t \in Threads :
    \/ Asks(t)
    \/ Admitted(t) \/ TurnedAway(t)
    \/ Starts(t) \/ DoesNotStart(t)
    \/ Stops(t) \/ Goes(t) \/ Destroys(t)

Spec == Init /\ [][Next]_vars

=============================================================================
