---------------------------- MODULE HookStreaks ----------------------------
(***************************************************************************)
(* What headers/mais/ScriptRuntime.hpp promises of failure reports, with   *)
(* no counter table behind it: a hook's streak is the sequence of failures *)
(* since it last succeeded in the current run, and the report of a call is *)
(* determined by the streak it extends or ends.  CallPolicy implements it. *)
(***************************************************************************)
EXTENDS Naturals, Sequences

CONSTANTS Hooks, Failures, NoError, Rejections, MaxStreak

VARIABLES
  streaks,   \* per hook, the identities of the failures of its streak
  report     \* the last report handed to the host

vars == <<streaks, report>>

Policies == {"Continue", "Stop", "ReportOnce"}

(* A failure is the same failure when these three agree. *)
Identity(e) ==
  [code |-> e.code, exceptionType |-> e.exceptionType, message |-> e.message]

Reported(call, h, policy, e, count, suppressed, stop) ==
  [call |-> call, hook |-> h, policy |-> policy, error |-> e,
   consecutiveFailures |-> count, suppressed |-> suppressed,
   stopRequested |-> stop]

NothingReported ==
  \E h \in Hooks :
    report' = Reported("none", h, "None", NoError, 0, FALSE, FALSE)

Init ==
  /\ streaks = [h \in Hooks |-> <<>>]
  /\ \E h \in Hooks :
       report = Reported("none", h, "None", NoError, 0, FALSE, FALSE)

(* A success ends the streak, whichever overload saw it. *)
Success(h, policy) ==
  /\ streaks' = [streaks EXCEPT ![h] = <<>>]
  /\ report' = Reported("ended", h, policy, NoError, 0, FALSE, FALSE)

RepeatsPrevious(h, e) ==
  streaks[h] # <<>> /\ streaks[h][Len(streaks[h])] = Identity(e)

(* A failure extends the streak and is reported, except for an identical   *)
(* repeat under ReportOnce.                                                *)
Failure(h, policy, e) ==
  LET suppressed == policy = "ReportOnce" /\ RepeatsPrevious(h, e)
  IN /\ Len(streaks[h]) < MaxStreak
     /\ streaks' = [streaks EXCEPT ![h] = Append(@, Identity(e))]
     /\ report' = Reported("ended", h, policy,
                           IF suppressed THEN NoError ELSE e,
                           Len(streaks[h]) + 1, suppressed, policy = "Stop")

(* The overloads without a policy report every failure, and no count. *)
PlainFailure(h, e) ==
  /\ Len(streaks[h]) < MaxStreak
  /\ streaks' = [streaks EXCEPT ![h] = Append(@, Identity(e))]
  /\ report' = Reported("ended", h, "None", e, 0, FALSE, FALSE)

(* A rejected call is reported and leaves every streak alone. *)
Rejected(h, policy, e) ==
  /\ report' = Reported("rejected", h, policy, e, 0, FALSE, policy = "Stop")
  /\ UNCHANGED streaks

(* A run starts and ends with no streak. *)
RunBoundary ==
  /\ streaks' = [h \in Hooks |-> <<>>]
  /\ NothingReported

Next ==
  \/ \E h \in Hooks, policy \in Policies \cup {"None"} : Success(h, policy)
  \/ \E h \in Hooks, policy \in Policies, e \in Failures :
       Failure(h, policy, e)
  \/ \E h \in Hooks, e \in Failures : PlainFailure(h, e)
  \/ \E h \in Hooks, policy \in Policies \cup {"None"}, e \in Rejections :
       Rejected(h, policy, e)
  \/ RunBoundary

Spec == Init /\ [][Next]_vars

=============================================================================
