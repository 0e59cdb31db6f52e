--------------------------- MODULE FailureRecords ---------------------------
(***************************************************************************)
(* The per-hook failure counters of ScriptRuntime::Impl                    *)
(* (sources/ScriptRuntime.cpp: hookKey, failureSignature, FailureRecord,   *)
(* noteFailure, noteSuccess, noteOutcome), as operators over a table of    *)
(* records.  The specifications that keep such a table extend this module. *)
(*                                                                         *)
(* A name is a sequence of characters, because the key of a hook is built  *)
(* by concatenation and can be ambiguous; every other text is abstract.    *)
(*                                                                         *)
(* The table is total: in the code an absent entry and a default           *)
(* constructed FailureRecord behave alike (operator[] creates the latter), *)
(* and no entry with a zero count is ever left in the map.                 *)
(***************************************************************************)
EXTENDS Integers, Sequences

CONSTANTS
  Characters,   \* what a module or function name is made of
  Separator,    \* the unit separator hookKey() puts between the two names
  Hooks,        \* the hooks called: [module : name, function : name]
  Failures,     \* the errors a call that reached the hook can end with
  NoSignature   \* lastSignature of a default constructed record

Names == Seq(Characters)

ASSUME SeparatorIsACharacter == Separator \in Characters

ASSUME HooksAssumption == Hooks \subseteq [module : Names, function : Names]

-----------------------------------------------------------------------------

(* Faulty variants, here and below, are named for the mistake they make;   *)
(* the properties are checked to notice them.                              *)
HookKey_NoSeparator(h) == h.module \o h.function

(* The counters are keyed by one string per hook. *)
HookKey(h) == h.module \o <<Separator>> \o h.function

(* The two names can be read back from the key when neither holds the      *)
(* separator.                                                              *)
SeparatorFree(name) == \A i \in 1..Len(name) : name[i] # Separator

NamesAreUnambiguous ==
  \A h \in Hooks : SeparatorFree(h.module) /\ SeparatorFree(h.function)

Keys == {HookKey(h) : h \in Hooks}

(* Two failures are the same failure when code, exception type and message *)
(* agree; the traceback is left out.                                       *)
FailureSignature(e) ==
  [code |-> e.code, exceptionType |-> e.exceptionType, message |-> e.message]

Signatures == {FailureSignature(e) : e \in Failures}

ASSUME NoSignatureAssumption == NoSignature \notin Signatures

FailureRecord ==
  [consecutiveFailures : Nat, lastSignature : Signatures \cup {NoSignature}]

NoRecord == [consecutiveFailures |-> 0, lastSignature |-> NoSignature]

NoRecords == [k \in Keys |-> NoRecord]

Repeated_SameCodeOnly(records, h, e) ==
  LET last == records[HookKey(h)].lastSignature
  IN last # NoSignature /\ last.code = e.code

(* FailureVisit::repeated, read before the new signature is stored. *)
Repeated(records, h, e) ==
  FailureSignature(e) = records[HookKey(h)].lastSignature

(* FailureVisit::consecutiveFailures, read after the increment. *)
NextCount(records, h) == records[HookKey(h)].consecutiveFailures + 1

NoteFailure_KeepsWholeError(records, h, e) ==
  [records EXCEPT ![HookKey(h)] =
     [consecutiveFailures |-> NextCount(records, h), lastSignature |-> e]]

NoteFailure_KeepsFirstSignature(records, h, e) ==
  [records EXCEPT ![HookKey(h)] =
     [consecutiveFailures |-> NextCount(records, h),
      lastSignature |-> IF @.lastSignature = NoSignature
                          THEN FailureSignature(e) ELSE @.lastSignature]]

NoteFailure(records, h, e) ==
  [records EXCEPT ![HookKey(h)] =
     [consecutiveFailures |-> NextCount(records, h),
      lastSignature       |-> FailureSignature(e)]]

NoteSuccess_KeepsCount(records, h) ==
  [records EXCEPT ![HookKey(h)].lastSignature = NoSignature]

NoteSuccess_Decrements(records, h) ==
  [records EXCEPT ![HookKey(h)].consecutiveFailures = @ - 1]

NoteSuccess(records, h) == [records EXCEPT ![HookKey(h)] = NoRecord]

=============================================================================
