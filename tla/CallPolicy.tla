----------------------------- MODULE CallPolicy -----------------------------
(***************************************************************************)
(* Failure accounting of the call()/callOptional() overloads               *)
(* (sources/ScriptRuntime.cpp: callImpl, callTyped, callWithPolicy).  One  *)
(* step is the end of one call: the outcome of the Python side is known,   *)
(* the counters are booked and the report goes back to the host.  Calls    *)
(* nest (a hook calls the host, which calls a hook), but they end one at a *)
(* time, innermost first, so the interleaving of their ends is the order   *)
(* of these steps.                                                         *)
(*                                                                         *)
(* streak is a history variable: what the host was told of each failure    *)
(* since the hook last succeeded or the run began.                         *)
(***************************************************************************)
EXTENDS FailureRecords

CONSTANTS
  NoError,      \* Error::ok()
  Rejections,   \* errors of validateCall(): the hook never ran
  MaxStreak     \* bound: the longest streak explored

ASSUME NoErrorAssumption == NoError \notin Failures \cup Rejections

ASSUME MaxStreakAssumption == MaxStreak \in Nat \ {0}

VARIABLES
  failureRecords,   \* the table, by hook key
  streak,           \* history: per hook, the failures of its streak
  report            \* what the last call returned

vars == <<failureRecords, streak, report>>

Policies == {"Continue", "Stop", "ReportOnce"}

(* The overloads without a policy return an Error or a Result. *)
NoPolicy == "None"

StreakEntry == [signature : Signatures, told : BOOLEAN]

Report ==
  [call : {"none", "rejected", "ended"}, hook : Hooks,
   policy : Policies \cup {NoPolicy},
   error : Failures \cup Rejections \cup {NoError},
   consecutiveFailures : Nat, suppressed : BOOLEAN, stopRequested : BOOLEAN]

(* A CallReport as constructed, for a call of h. *)
Blank(call, h, policy) ==
  [call |-> call, hook |-> h, policy |-> policy, error |-> NoError,
   consecutiveFailures |-> 0, suppressed |-> FALSE, stopRequested |-> FALSE]

Init ==
  /\ failureRecords = NoRecords
  /\ streak = [h \in Hooks |-> <<>>]
  /\ \E h \in Hooks : report = Blank("none", h, NoPolicy)

-----------------------------------------------------------------------------

(* The history variable, after a call of h ended. *)
StreakContinues(h, e, told) ==
  /\ Len(streak[h]) < MaxStreak
  /\ streak' = [streak EXCEPT
       ![h] = Append(@, [signature |-> FailureSignature(e), told |-> told])]

StreakEnds(h) == streak' = [streak EXCEPT ![h] = <<>>]

HookSucceeds(h, policy) ==
  /\ failureRecords' = NoteSuccess(failureRecords, h)
  /\ report' = Blank("ended", h, policy)
  /\ StreakEnds(h)

(* callImpl() and callTyped(): a failure is always returned.  An absent    *)
(* optional hook, None and a converted value are successes; a value of the *)
(* wrong type is a failure like any other.                                 *)
ErrorReturningCall(h) ==
  \/ HookSucceeds(h, NoPolicy)
  \/ \E e \in Failures :
       /\ failureRecords' = NoteFailure(failureRecords, h, e)
       /\ report' = [Blank("ended", h, NoPolicy) EXCEPT !.error = e]
       /\ StreakContinues(h, e, TRUE)

IsSuppressed(policy, h, e) ==
  policy = "ReportOnce" /\ Repeated(failureRecords, h, e)

(* callWithPolicy(), for a call that reached the hook. *)
CallWithPolicy(policy, h) ==
  \/ HookSucceeds(h, policy)
  \/ \E e \in Failures :
       /\ failureRecords' = NoteFailure(failureRecords, h, e)
       /\ report' =
            [Blank("ended", h, policy) EXCEPT
               !.error = IF IsSuppressed(policy, h, e) THEN NoError ELSE e,
               !.consecutiveFailures = NextCount(failureRecords, h),
               !.suppressed = IsSuppressed(policy, h, e),
               !.stopRequested = (policy = "Stop")]
       /\ StreakContinues(h, e, ~IsSuppressed(policy, h, e))

(* A call refused by validateCall(): reported, never counted. *)
RejectedCall(policy, h) ==
  \E e \in Rejections :
    /\ report' = [Blank("rejected", h, policy) EXCEPT
                    !.error = e, !.stopRequested = (policy = "Stop")]
    /\ UNCHANGED <<failureRecords, streak>>

(* initialize() and stop() empty the table. *)
ClearRecords ==
  /\ failureRecords' = NoRecords
  /\ streak' = [h \in Hooks |-> <<>>]
  /\ \E h \in Hooks : report' = Blank("none", h, NoPolicy)

Next ==
  \/ \E h \in Hooks : ErrorReturningCall(h)
  \/ \E h \in Hooks, policy \in Policies : CallWithPolicy(policy, h)
  \/ \E h \in Hooks, policy \in Policies \cup {NoPolicy} :
       RejectedCall(policy, h)
  \/ ClearRecords

Spec == Init /\ [][Next]_vars

-----------------------------------------------------------------------------

(* The table, the history and the report have their types. *)
TypeOK ==
  /\ failureRecords \in [Keys -> FailureRecord]
  /\ streak \in [Hooks -> Seq(StreakEntry)]
  /\ report \in Report

(* The record a hook's key leads to describes that hook's own streak: as   *)
(* many failures as the hook had since its last success in this run, and   *)
(* the signature of the latest.  noteFailure() and noteSuccess() keep it   *)
(* so across every overload.                                               *)
RecordDescribesStreak ==
  \A h \in Hooks :
    LET record == failureRecords[HookKey(h)]
    IN /\ record.consecutiveFailures = Len(streak[h])
       /\ record.lastSignature =
            IF streak[h] = <<>> THEN NoSignature
                                ELSE streak[h][Len(streak[h])].signature

(* A failure is kept from the host only when the host was told of the very *)
(* same failure earlier in the same streak and nothing else happened to    *)
(* the hook in between (callWithPolicy under ReportOnce).                  *)
SuppressedOnlyAfterTold ==
  \A h \in Hooks : \A i \in 1..Len(streak[h]) :
    ~streak[h][i].told =>
      \E j \in 1..(i - 1) :
        /\ streak[h][j].told
        /\ \A k \in j..i : streak[h][k].signature = streak[h][i].signature

(* A step changes the record of a hook only when it ends a call of that    *)
(* hook that really ran, or clears them all: a rejected call, or another   *)
(* hook whose key reads alike, never disturbs the streak.                  *)
RecordsFollowTheirHook ==
  [][\A h \in Hooks :
       failureRecords'[HookKey(h)] # failureRecords[HookKey(h)] =>
         \/ report'.call = "ended" /\ report'.hook = h
         \/ report'.call = "none" /\ failureRecords' = NoRecords]_vars

-----------------------------------------------------------------------------

(* What the header promises of the reports, without keys or a table. *)
SignaturesOf(s) == [i \in 1..Len(s) |-> s[i].signature]

Promise == INSTANCE HookStreaks WITH
  streaks <- [h \in Hooks |-> SignaturesOf(streak[h])]

(* Every report this accounting produces is one the promise allows. *)
ImplementsHookStreaks == Promise!Spec

=============================================================================
