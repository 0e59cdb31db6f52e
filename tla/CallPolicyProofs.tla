-------------------------- MODULE CallPolicyProofs --------------------------
(***************************************************************************)
(* Proofs about CallPolicy, for every set of hooks and failures.           *)
(*                                                                         *)
(* The keys of two hooks differ when no name holds the separator (see      *)
(* FailureRecordsProofs); with that, the table describes each hook's own   *)
(* streak, and every report is one HookStreaks promises.                   *)
(***************************************************************************)
EXTENDS CallPolicy, FailureRecordsProofs, TLAPS

-----------------------------------------------------------------------------

(* The reports handed back are CallReports. *)
LEMMA ReportTypes ==
  ASSUME NEW h \in Hooks, NEW policy \in Policies \cup {NoPolicy},
         NEW call \in {"none", "rejected", "ended"}
  PROVE  Blank(call, h, policy) \in Report
BY DEF Blank, Report

(* Every step keeps the types. *)
LEMMA TypeStep == TypeOK /\ [Next]_vars => TypeOK'
<1> SUFFICES ASSUME TypeOK, [Next]_vars PROVE TypeOK'
  OBVIOUS
<1>1. /\ failureRecords \in [Keys -> FailureRecord]
      /\ streak \in [Hooks -> Seq(StreakEntry)]
      /\ report \in Report
  BY DEF TypeOK
<1>2. ASSUME NEW h \in Hooks, NEW policy \in Policies \cup {NoPolicy},
             HookSucceeds(h, policy)
      PROVE  TypeOK'
  <2>1. failureRecords' \in [Keys -> FailureRecord]
    BY <1>1, <1>2, NoteTypes DEF HookSucceeds
  <2>2. streak' \in [Hooks -> Seq(StreakEntry)]
    BY <1>1, <1>2 DEF HookSucceeds, StreakEnds
  <2>3. report' \in Report
    BY <1>2, ReportTypes DEF HookSucceeds
  <2> QED BY <2>1, <2>2, <2>3 DEF TypeOK
<1>3. ASSUME NEW h \in Hooks, NEW e \in Failures, NEW told \in BOOLEAN,
             StreakContinues(h, e, told)
      PROVE  streak' \in [Hooks -> Seq(StreakEntry)]
  <2>1. [signature |-> FailureSignature(e), told |-> told] \in StreakEntry
    BY DEF StreakEntry, Signatures
  <2> QED BY <1>1, <1>3, <2>1 DEF StreakContinues
<1>4. ASSUME NEW h \in Hooks, ErrorReturningCall(h) PROVE TypeOK'
  <2>1. CASE HookSucceeds(h, NoPolicy)
    BY <1>2, <2>1
  <2>2. ASSUME NEW e \in Failures,
               failureRecords' = NoteFailure(failureRecords, h, e),
               report' = [Blank("ended", h, NoPolicy) EXCEPT !.error = e],
               StreakContinues(h, e, TRUE)
        PROVE  TypeOK'
    <3>1. report' \in Report
      BY <2>2, ReportTypes DEF Report
    <3>2. failureRecords' \in [Keys -> FailureRecord]
      BY <1>1, <2>2, NoteTypes
    <3> QED BY <1>3, <2>2, <3>1, <3>2 DEF TypeOK
  <2> QED BY <1>4, <2>1, <2>2 DEF ErrorReturningCall
<1>5. ASSUME NEW h \in Hooks, NEW policy \in Policies,
             CallWithPolicy(policy, h)
      PROVE  TypeOK'
  <2>1. CASE HookSucceeds(h, policy)
    BY <1>2, <2>1
  <2>2. ASSUME NEW e \in Failures,
               failureRecords' = NoteFailure(failureRecords, h, e),
               report' =
                 [Blank("ended", h, policy) EXCEPT
                    !.error = IF IsSuppressed(policy, h, e) THEN NoError ELSE e,
                    !.consecutiveFailures = NextCount(failureRecords, h),
                    !.suppressed = IsSuppressed(policy, h, e),
                    !.stopRequested = (policy = "Stop")],
               StreakContinues(h, e, ~IsSuppressed(policy, h, e))
        PROVE  TypeOK'
    <3>1. NextCount(failureRecords, h) \in Nat
      BY <1>1, NoteTypes
    <3>2. IsSuppressed(policy, h, e) \in BOOLEAN
      BY DEF IsSuppressed
    <3>3. report' \in Report
      BY <2>2, <3>1, <3>2 DEF Blank, Report
    <3>4. failureRecords' \in [Keys -> FailureRecord]
      BY <1>1, <2>2, NoteTypes
    <3> QED BY <1>3, <2>2, <3>2, <3>3, <3>4 DEF TypeOK
  <2> QED BY <1>5, <2>1, <2>2 DEF CallWithPolicy
<1>6. ASSUME NEW h \in Hooks, NEW policy \in Policies \cup {NoPolicy},
             RejectedCall(policy, h)
      PROVE  TypeOK'
  <2>1. PICK e \in Rejections :
          report' = [Blank("rejected", h, policy) EXCEPT
                       !.error = e, !.stopRequested = (policy = "Stop")]
    BY <1>6 DEF RejectedCall
  <2>2. report' \in Report
    BY <2>1 DEF Blank, Report
  <2> QED BY <1>1, <1>6, <2>2 DEF RejectedCall, TypeOK
<1>7. CASE ClearRecords
  <2>1. failureRecords' \in [Keys -> FailureRecord]
    BY <1>7 DEF ClearRecords, NoRecords, NoRecord, FailureRecord
  <2>2. streak' \in [Hooks -> Seq(StreakEntry)]
    BY <1>7 DEF ClearRecords
  <2>3. report' \in Report
    BY <1>7, ReportTypes DEF ClearRecords
  <2> QED BY <2>1, <2>2, <2>3 DEF TypeOK
<1>8. CASE UNCHANGED vars
  BY <1>8 DEF TypeOK, vars
<1> QED BY <1>4, <1>5, <1>6, <1>7, <1>8 DEF Next

(* The table, the history and the report keep their types, for every set   *)
(* of hooks and failures.                                                  *)
THEOREM TypeCorrect == Spec => []TypeOK
<1>1. Init => TypeOK
  <2> SUFFICES ASSUME Init PROVE TypeOK
    OBVIOUS
  <2>1. failureRecords \in [Keys -> FailureRecord]
    BY DEF Init, NoRecords, NoRecord, FailureRecord
  <2>2. streak \in [Hooks -> Seq(StreakEntry)]
    BY DEF Init
  <2>3. report \in Report
    BY ReportTypes DEF Init
  <2> QED BY <2>1, <2>2, <2>3 DEF TypeOK
<1> QED BY <1>1, TypeStep, PTL DEF Spec

-----------------------------------------------------------------------------

(* The sequence with one more element. *)
LEMMA AppendExtends ==
  ASSUME NEW S, NEW s \in Seq(S), NEW x \in S
  PROVE  /\ Append(s, x) \in Seq(S)
         /\ Len(Append(s, x)) = Len(s) + 1
         /\ Append(s, x) # <<>>
         /\ Append(s, x)[Len(Append(s, x))] = x
         /\ \A i \in 1..Len(s) : Append(s, x)[i] = s[i]
OBVIOUS

(* A call that succeeds or fails books only its own hook's record. *)
LEMMA NoteLocality ==
  ASSUME NamesAreUnambiguous,
         NEW records \in [Keys -> FailureRecord], NEW h \in Hooks
  PROVE  /\ NoteSuccess(records, h)[HookKey(h)] = NoRecord
         /\ \A e \in Failures :
              NoteFailure(records, h, e)[HookKey(h)] =
                [consecutiveFailures |-> NextCount(records, h),
                 lastSignature       |-> FailureSignature(e)]
         /\ \A g \in Hooks \ {h} :
              /\ NoteSuccess(records, h)[HookKey(g)] = records[HookKey(g)]
              /\ \A e \in Failures :
                   NoteFailure(records, h, e)[HookKey(g)] =
                     records[HookKey(g)]
<1>1. \A g \in Hooks : HookKey(g) \in Keys
  BY DEF Keys
<1>2. \A g \in Hooks \ {h} : HookKey(g) # HookKey(h)
  BY KeysIdentifyHooks
<1> QED BY <1>1, <1>2 DEF NoteSuccess, NoteFailure

(* One hook's share of RecordDescribesStreak. *)
Describes(record, s) ==
  /\ record.consecutiveFailures = Len(s)
  /\ record.lastSignature =
       IF s = <<>> THEN NoSignature ELSE s[Len(s)].signature

(* Every step keeps the records in line with the streaks. *)
LEMMA RecordStep ==
  ASSUME NamesAreUnambiguous, TypeOK, RecordDescribesStreak, [Next]_vars
  PROVE  RecordDescribesStreak'
<1>1. /\ failureRecords \in [Keys -> FailureRecord]
      /\ streak \in [Hooks -> Seq(StreakEntry)]
  BY DEF TypeOK
<1>2. \A h \in Hooks : Describes(failureRecords[HookKey(h)], streak[h])
  BY DEF RecordDescribesStreak, Describes
<1>3. SUFFICES ASSUME NEW g \in Hooks
               PROVE  Describes(failureRecords'[HookKey(g)], streak'[g])
  BY DEF RecordDescribesStreak, Describes
<1>4. ASSUME NEW h \in Hooks,
             failureRecords' = NoteSuccess(failureRecords, h), StreakEnds(h)
      PROVE  Describes(failureRecords'[HookKey(g)], streak'[g])
  <2>1. CASE g = h
    <3>1. failureRecords'[HookKey(g)] = NoRecord
      BY <1>1, <1>4, <2>1, NoteLocality
    <3>2. streak'[g] = <<>>
      BY <1>1, <1>4, <2>1 DEF StreakEnds
    <3> QED BY <3>1, <3>2 DEF Describes, NoRecord
  <2>2. CASE g # h
    <3>1. failureRecords'[HookKey(g)] = failureRecords[HookKey(g)]
      BY <1>1, <1>4, <2>2, NoteLocality
    <3>2. streak'[g] = streak[g]
      BY <1>1, <1>4, <2>2 DEF StreakEnds
    <3> QED BY <1>2, <3>1, <3>2
  <2> QED BY <2>1, <2>2
<1>5. ASSUME NEW h \in Hooks, NEW e \in Failures, NEW told \in BOOLEAN,
             failureRecords' = NoteFailure(failureRecords, h, e),
             StreakContinues(h, e, told)
      PROVE  Describes(failureRecords'[HookKey(g)], streak'[g])
  <2> DEFINE entry == [signature |-> FailureSignature(e), told |-> told]
  <2>1. CASE g = h
    <3>1. failureRecords'[HookKey(g)] =
            [consecutiveFailures |-> NextCount(failureRecords, h),
             lastSignature       |-> FailureSignature(e)]
      BY <1>1, <1>5, <2>1, NoteLocality
    <3>2. streak'[g] = Append(streak[g], entry)
      BY <1>1, <1>5, <2>1 DEF StreakContinues
    <3>3. entry \in StreakEntry
      BY DEF StreakEntry, Signatures
    <3>4. /\ Len(streak'[g]) = Len(streak[g]) + 1
          /\ streak'[g] # <<>>
          /\ streak'[g][Len(streak'[g])] = entry
      <4>1. streak[g] \in Seq(StreakEntry)
        BY <1>1
      <4> HIDE DEF entry
      <4> QED BY <3>2, <3>3, <4>1, AppendExtends
    <3>5. NextCount(failureRecords, h) = Len(streak[g]) + 1
      BY <1>2, <2>1 DEF NextCount, Describes
    <3> QED BY <3>1, <3>4, <3>5 DEF Describes
  <2>2. CASE g # h
    <3>1. failureRecords'[HookKey(g)] = failureRecords[HookKey(g)]
      BY <1>1, <1>5, <2>2, NoteLocality
    <3>2. streak'[g] = streak[g]
      BY <1>1, <1>5, <2>2 DEF StreakContinues
    <3> QED BY <1>2, <3>1, <3>2
  <2> QED BY <2>1, <2>2
<1>6. ASSUME NEW h \in Hooks, ErrorReturningCall(h)
      PROVE  Describes(failureRecords'[HookKey(g)], streak'[g])
  BY <1>4, <1>5, <1>6 DEF ErrorReturningCall, HookSucceeds
<1>7. ASSUME NEW h \in Hooks, NEW policy \in Policies,
             CallWithPolicy(policy, h)
      PROVE  Describes(failureRecords'[HookKey(g)], streak'[g])
  <2>1. CASE HookSucceeds(h, policy)
    BY <1>4, <2>1 DEF HookSucceeds
  <2>2. ASSUME NEW e \in Failures,
               failureRecords' = NoteFailure(failureRecords, h, e),
               StreakContinues(h, e, ~IsSuppressed(policy, h, e))
        PROVE  Describes(failureRecords'[HookKey(g)], streak'[g])
    BY <1>5, <2>2 DEF IsSuppressed
  <2> QED BY <1>7, <2>1, <2>2 DEF CallWithPolicy
<1>8. ASSUME NEW h \in Hooks, NEW policy \in Policies \cup {NoPolicy},
             RejectedCall(policy, h)
      PROVE  Describes(failureRecords'[HookKey(g)], streak'[g])
  BY <1>2, <1>8 DEF RejectedCall
<1>9. CASE ClearRecords
  <2>1. HookKey(g) \in Keys
    BY DEF Keys
  <2> QED BY <1>9, <2>1 DEF ClearRecords, NoRecords, NoRecord, Describes
<1>10. CASE UNCHANGED vars
  BY <1>2, <1>10 DEF vars
<1> QED BY <1>6, <1>7, <1>8, <1>9, <1>10 DEF Next

(* With names free of the separator, the record of a hook always describes *)
(* that hook's own streak: the count and the last signature noteFailure()  *)
(* reads are never another hook's, nor another run's.                      *)
THEOREM RecordsDescribeStreaks ==
  NamesAreUnambiguous => (Spec => []RecordDescribesStreak)
<1> SUFFICES ASSUME NamesAreUnambiguous
             PROVE  Spec => []RecordDescribesStreak
  OBVIOUS
<1>1. Init => RecordDescribesStreak
  BY DEF Init, NoRecords, NoRecord, Keys, RecordDescribesStreak
<1>2. TypeOK /\ RecordDescribesStreak /\ [Next]_vars => RecordDescribesStreak'
  BY RecordStep
<1> QED BY <1>1, <1>2, TypeCorrect, PTL DEF Spec

-----------------------------------------------------------------------------

(* Failure i of streak s was told, or follows a told failure with nothing  *)
(* but the same failure from there on.                                     *)
ToldOrRepeat(s, i) ==
  s[i].told \/
    \E j \in 1..(i - 1) :
      /\ s[j].told
      /\ \A k \in j..i : s[k].signature = s[i].signature

(* A repeat of the last failure of s is covered by what covers that one.   *)
LEMMA RepeatIsCovered ==
  ASSUME NEW s \in Seq(StreakEntry), NEW x \in StreakEntry,
         \A i \in 1..Len(s) : ToldOrRepeat(s, i),
         x.told \/ (s # <<>> /\ s[Len(s)].signature = x.signature)
  PROVE  \A i \in 1..Len(Append(s, x)) : ToldOrRepeat(Append(s, x), i)
<1> DEFINE t == Append(s, x)  n == Len(s)
<1>1. /\ Len(t) = n + 1  /\ t[n + 1] = x  /\ n \in Nat
      /\ \A i \in 1..n : t[i] = s[i]
  BY AppendExtends
<1> HIDE DEF t
<1>2. ASSUME NEW i \in 1..n PROVE ToldOrRepeat(t, i)
  <2>1. CASE s[i].told
    BY <1>1, <2>1 DEF ToldOrRepeat
  <2>2. CASE ~s[i].told
    <3>1. PICK j \in 1..(i - 1) :
            s[j].told /\ \A k \in j..i : s[k].signature = s[i].signature
      BY <2>2 DEF ToldOrRepeat
    <3>2. \A k \in j..i : k \in 1..n
      BY <1>1
    <3>3. t[j].told /\ \A k \in j..i : t[k].signature = t[i].signature
      BY <1>1, <3>1, <3>2
    <3> QED BY <3>3 DEF ToldOrRepeat
  <2> QED BY <2>1, <2>2
<1>3. ToldOrRepeat(t, n + 1)
  <2>1. CASE x.told
    BY <1>1, <2>1 DEF ToldOrRepeat
  <2>2. CASE ~x.told
    <3>1. n \in 1..n /\ s[n].signature = x.signature
      BY <1>1, <2>2
    <3>2. CASE s[n].told
      <4>1. t[n].told /\ \A k \in n..(n + 1) : t[k].signature = x.signature
        <5>1. \A k \in n..(n + 1) : k = n \/ k = n + 1
          BY <1>1
        <5> QED BY <1>1, <3>1, <3>2, <5>1
      <4> QED BY <1>1, <3>1, <4>1 DEF ToldOrRepeat
    <3>3. CASE ~s[n].told
      <4>1. PICK j \in 1..(n - 1) :
              s[j].told /\ \A k \in j..n : s[k].signature = s[n].signature
        BY <3>1, <3>3 DEF ToldOrRepeat
      <4>2. \A k \in j..(n + 1) : k \in j..n \/ k = n + 1
        BY <1>1
      <4>3. \A k \in j..n : k \in 1..n
        BY <1>1
      <4>4. \A k \in j..(n + 1) : t[k].signature = x.signature
        BY <1>1, <3>1, <4>1, <4>2, <4>3
      <4>5. j \in 1..((n + 1) - 1) /\ t[j].told
        BY <1>1, <4>1
      <4> QED BY <1>1, <4>4, <4>5 DEF ToldOrRepeat
    <3> QED BY <3>2, <3>3
  <2> QED BY <2>1, <2>2
<1>4. \A i \in 1..Len(t) : i \in 1..n \/ i = n + 1
  BY <1>1
<1> QED BY <1>2, <1>3, <1>4 DEF t

(* Suppression reads the last failure of the hook's own streak. *)
LEMMA SuppressedRepeatsLast ==
  ASSUME TypeOK, RecordDescribesStreak, NEW h \in Hooks, NEW e \in Failures
  PROVE  Repeated(failureRecords, h, e) <=>
           /\ streak[h] # <<>>
           /\ streak[h][Len(streak[h])].signature = FailureSignature(e)
<1>1. FailureSignature(e) \in Signatures
  BY DEF Signatures
<1> QED BY <1>1, NoSignatureAssumption DEF RecordDescribesStreak, Repeated

(* Every step keeps each suppressed failure covered by a told one. *)
LEMMA ToldStep ==
  ASSUME TypeOK, RecordDescribesStreak, SuppressedOnlyAfterTold, [Next]_vars
  PROVE  SuppressedOnlyAfterTold'
<1>1. streak \in [Hooks -> Seq(StreakEntry)]
  BY DEF TypeOK
<1>2. \A h \in Hooks : \A i \in 1..Len(streak[h]) : ToldOrRepeat(streak[h], i)
  BY DEF SuppressedOnlyAfterTold, ToldOrRepeat
<1>3. SUFFICES ASSUME NEW g \in Hooks
               PROVE  \A i \in 1..Len(streak'[g]) : ToldOrRepeat(streak'[g], i)
  BY DEF SuppressedOnlyAfterTold, ToldOrRepeat
<1>4. ASSUME NEW h \in Hooks, StreakEnds(h)
      PROVE  \A i \in 1..Len(streak'[g]) : ToldOrRepeat(streak'[g], i)
  <2>1. streak'[g] = IF g = h THEN <<>> ELSE streak[g]
    BY <1>1, <1>4 DEF StreakEnds
  <2> QED BY <1>2, <2>1
<1>5. ASSUME NEW h \in Hooks, NEW e \in Failures, NEW told \in BOOLEAN,
             told \/ Repeated(failureRecords, h, e),
             StreakContinues(h, e, told)
      PROVE  \A i \in 1..Len(streak'[g]) : ToldOrRepeat(streak'[g], i)
  <2> DEFINE entry == [signature |-> FailureSignature(e), told |-> told]
  <2>1. streak'[g] = IF g = h THEN Append(streak[g], entry) ELSE streak[g]
    BY <1>1, <1>5 DEF StreakContinues
  <2>2. /\ entry \in StreakEntry
        /\ entry.told = told
        /\ entry.signature = FailureSignature(e)
    BY DEF StreakEntry, Signatures
  <2>3. streak[h] \in Seq(StreakEntry)
    BY <1>1
  <2> HIDE DEF entry
  <2>4. \/ entry.told
        \/ /\ streak[h] # <<>>
           /\ streak[h][Len(streak[h])].signature = entry.signature
    BY <1>5, <2>2, SuppressedRepeatsLast
  <2>5. \A i \in 1..Len(Append(streak[h], entry)) :
          ToldOrRepeat(Append(streak[h], entry), i)
    BY <1>2, <2>2, <2>3, <2>4, RepeatIsCovered
  <2> QED BY <1>2, <2>1, <2>5
<1>6. ASSUME NEW h \in Hooks, ErrorReturningCall(h)
      PROVE  \A i \in 1..Len(streak'[g]) : ToldOrRepeat(streak'[g], i)
  BY <1>4, <1>5, <1>6 DEF ErrorReturningCall, HookSucceeds
<1>7. ASSUME NEW h \in Hooks, NEW policy \in Policies,
             CallWithPolicy(policy, h)
      PROVE  \A i \in 1..Len(streak'[g]) : ToldOrRepeat(streak'[g], i)
  <2>1. CASE HookSucceeds(h, policy)
    BY <1>4, <2>1 DEF HookSucceeds
  <2>2. ASSUME NEW e \in Failures,
               StreakContinues(h, e, ~IsSuppressed(policy, h, e))
        PROVE  \A i \in 1..Len(streak'[g]) : ToldOrRepeat(streak'[g], i)
    BY <1>5, <2>2 DEF IsSuppressed
  <2> QED BY <1>7, <2>1, <2>2 DEF CallWithPolicy
<1>8. ASSUME UNCHANGED streak
      PROVE  \A i \in 1..Len(streak'[g]) : ToldOrRepeat(streak'[g], i)
  BY <1>2, <1>8
<1>9. CASE ClearRecords
  BY <1>9 DEF ClearRecords
<1> QED BY <1>6, <1>7, <1>8, <1>9 DEF Next, RejectedCall, vars

(* The invariant the accounting keeps. *)
IInv == TypeOK /\ RecordDescribesStreak /\ SuppressedOnlyAfterTold

LEMMA InvariantHolds == NamesAreUnambiguous => (Spec => []IInv)
<1> SUFFICES ASSUME NamesAreUnambiguous PROVE Spec => []IInv
  OBVIOUS
<1>1. Init => SuppressedOnlyAfterTold
  BY DEF Init, SuppressedOnlyAfterTold
<1>2. TypeOK /\ RecordDescribesStreak /\ SuppressedOnlyAfterTold /\ [Next]_vars
        => SuppressedOnlyAfterTold'
  BY ToldStep
<1>3. Spec => []RecordDescribesStreak
  BY RecordsDescribeStreaks
<1> QED BY <1>1, <1>2, <1>3, TypeCorrect, PTL DEF Spec, IInv

(* A failure is kept from the host only when the host was told of that     *)
(* very failure before, in the same streak, with no other failure between. *)
THEOREM SuppressionIsEarned ==
  NamesAreUnambiguous => (Spec => []SuppressedOnlyAfterTold)
BY InvariantHolds, PTL DEF IInv

-----------------------------------------------------------------------------

(* Only the end of a call of the hook itself, or the end of a run, changes *)
(* the hook's record.                                                      *)
THEOREM RecordsAreNotShared ==
  NamesAreUnambiguous => (Spec => RecordsFollowTheirHook)
<1> SUFFICES ASSUME NamesAreUnambiguous
             PROVE  Spec => RecordsFollowTheirHook
  OBVIOUS
<1>1. ASSUME TypeOK, [Next]_vars, NEW g \in Hooks,
             failureRecords'[HookKey(g)] # failureRecords[HookKey(g)]
      PROVE  \/ report'.call = "ended" /\ report'.hook = g
             \/ report'.call = "none" /\ failureRecords' = NoRecords
  <2>1. failureRecords \in [Keys -> FailureRecord]
    BY <1>1 DEF TypeOK
  <2>2. ASSUME NEW h \in Hooks,
               \/ failureRecords' = NoteSuccess(failureRecords, h)
               \/ \E e \in Failures :
                    failureRecords' = NoteFailure(failureRecords, h, e)
        PROVE  h = g
    BY <1>1, <2>1, <2>2, NoteLocality
  <2>3. ASSUME NEW h \in Hooks, NEW policy \in Policies \cup {NoPolicy},
               \/ HookSucceeds(h, policy)
               \/ policy = NoPolicy /\ ErrorReturningCall(h)
               \/ policy # NoPolicy /\ CallWithPolicy(policy, h)
        PROVE  report'.call = "ended" /\ report'.hook = g
    <3>1. h = g
      <4>1. \/ failureRecords' = NoteSuccess(failureRecords, h)
            \/ \E e \in Failures :
                 failureRecords' = NoteFailure(failureRecords, h, e)
        BY <2>3 DEF HookSucceeds, ErrorReturningCall, CallWithPolicy
      <4> QED BY <2>2, <4>1
    <3>2. report'.call = "ended" /\ report'.hook = h
      <4>1. CASE HookSucceeds(h, policy) \/ HookSucceeds(h, NoPolicy)
        BY <4>1 DEF HookSucceeds, Blank
      <4>2. ASSUME NEW e \in Failures,
                   report' = [Blank("ended", h, NoPolicy) EXCEPT !.error = e]
            PROVE  report'.call = "ended" /\ report'.hook = h
        BY <4>2 DEF Blank
      <4>3. ASSUME NEW e \in Failures,
                   report' =
                     [Blank("ended", h, policy) EXCEPT
                        !.error = IF IsSuppressed(policy, h, e)
                                    THEN NoError ELSE e,
                        !.consecutiveFailures = NextCount(failureRecords, h),
                        !.suppressed = IsSuppressed(policy, h, e),
                        !.stopRequested = (policy = "Stop")]
            PROVE  report'.call = "ended" /\ report'.hook = h
        BY <4>3 DEF Blank
      <4> QED
        BY <2>3, <4>1, <4>2, <4>3 DEF ErrorReturningCall, CallWithPolicy
    <3> QED BY <3>1, <3>2
  <2>4. CASE ClearRecords
    BY <2>4 DEF ClearRecords, Blank
  <2>5. ASSUME NEW h \in Hooks, NEW policy \in Policies,
               CallWithPolicy(policy, h)
        PROVE  report'.call = "ended" /\ report'.hook = g
    BY <2>3, <2>5 DEF Policies, NoPolicy
  <2> QED BY <1>1, <2>3, <2>4, <2>5 DEF Next, RejectedCall, vars
<1>2. TypeOK /\ [Next]_vars =>
        [\A h \in Hooks :
           failureRecords'[HookKey(h)] # failureRecords[HookKey(h)] =>
             \/ report'.call = "ended" /\ report'.hook = h
             \/ report'.call = "none" /\ failureRecords' = NoRecords]_vars
  BY <1>1
<1> QED BY <1>2, TypeCorrect, PTL DEF Spec, RecordsFollowTheirHook

-----------------------------------------------------------------------------

(* The signatures of a streak, one per failure. *)
LEMMA SignaturesOfType ==
  ASSUME NEW s \in Seq(StreakEntry)
  PROVE  /\ SignaturesOf(s) \in Seq(Signatures)
         /\ Len(SignaturesOf(s)) = Len(s)
         /\ \A i \in 1..Len(s) : SignaturesOf(s)[i] = s[i].signature
<1> DEFINE n == Len(s)
<1>1. n \in Nat /\ \A i \in 1..n : s[i] \in StreakEntry
  OBVIOUS
<1>2. \A i \in 1..n : s[i].signature \in Signatures
  BY <1>1 DEF StreakEntry
<1> HIDE DEF n
<1>3. [i \in 1..n |-> s[i].signature] \in Seq(Signatures)
  BY <1>1, <1>2
<1>4. Len([i \in 1..n |-> s[i].signature]) = n
  BY <1>1
<1> QED BY <1>3, <1>4 DEF SignaturesOf, n

(* The signatures of a streak that grew by one failure. *)
LEMMA SignaturesOfAppend ==
  ASSUME NEW s \in Seq(StreakEntry), NEW x \in StreakEntry
  PROVE  /\ SignaturesOf(s) \in Seq(Signatures)
         /\ Len(SignaturesOf(s)) = Len(s)
         /\ SignaturesOf(Append(s, x)) = Append(SignaturesOf(s), x.signature)
<1>1. /\ SignaturesOf(s) \in Seq(Signatures)
      /\ Len(SignaturesOf(s)) = Len(s)
      /\ \A i \in 1..Len(s) : SignaturesOf(s)[i] = s[i].signature
  BY SignaturesOfType
<1>2. x.signature \in Signatures
  BY DEF StreakEntry
<1> DEFINE t == Append(s, x)
<1>3. /\ t \in Seq(StreakEntry)
      /\ Len(t) = Len(s) + 1
      /\ t[Len(s) + 1] = x
      /\ \A i \in 1..Len(s) : t[i] = s[i]
  BY AppendExtends
<1> HIDE DEF t
<1>4. /\ SignaturesOf(t) \in Seq(Signatures)
      /\ Len(SignaturesOf(t)) = Len(s) + 1
      /\ \A i \in 1..(Len(s) + 1) : SignaturesOf(t)[i] = t[i].signature
  BY <1>3, SignaturesOfType
<1> DEFINE u == Append(SignaturesOf(s), x.signature)
<1>5. /\ u \in Seq(Signatures)
      /\ Len(u) = Len(s) + 1
      /\ u[Len(s) + 1] = x.signature
      /\ \A i \in 1..Len(s) : u[i] = s[i].signature
  BY <1>1, <1>2, AppendExtends
<1> HIDE DEF u
<1>6. \A i \in 1..(Len(s) + 1) : SignaturesOf(t)[i] = u[i]
  <2>1. Len(s) \in Nat
    OBVIOUS
  <2>2. \A i \in 1..(Len(s) + 1) : i \in 1..Len(s) \/ i = Len(s) + 1
    BY <2>1
  <2> QED BY <1>3, <1>4, <1>5, <2>2
<1>7. SignaturesOf(t) = u
  BY <1>4, <1>5, <1>6
<1> QED BY <1>1, <1>7 DEF t, u

(* How the history moves, seen through the refinement mapping. *)
LEMMA MappedStreaks ==
  ASSUME TypeOK, NEW h \in Hooks
  PROVE  LET mapped == [g \in Hooks |-> SignaturesOf(streak[g])]
         IN /\ StreakEnds(h) =>
                 mapped' = [mapped EXCEPT ![h] = <<>>]
            /\ \A e \in Failures, told \in BOOLEAN :
                 StreakContinues(h, e, told) =>
                   /\ Len(mapped[h]) < MaxStreak
                   /\ mapped' =
                        [mapped EXCEPT ![h] = Append(@, FailureSignature(e))]
<1> DEFINE mapped == [g \in Hooks |-> SignaturesOf(streak[g])]
<1>1. \A g \in Hooks : streak[g] \in Seq(StreakEntry)
  BY DEF TypeOK
<1>2. streak \in [Hooks -> Seq(StreakEntry)]
  BY DEF TypeOK
<1>3. ASSUME StreakEnds(h) PROVE mapped' = [mapped EXCEPT ![h] = <<>>]
  <2>1. SignaturesOf(<<>>) = <<>>
    BY DEF SignaturesOf
  <2>2. \A g \in Hooks : streak'[g] = IF g = h THEN <<>> ELSE streak[g]
    BY <1>2, <1>3 DEF StreakEnds
  <2> QED BY <2>1, <2>2
<1>4. ASSUME NEW e \in Failures, NEW told \in BOOLEAN,
             StreakContinues(h, e, told)
      PROVE  /\ Len(mapped[h]) < MaxStreak
             /\ mapped' =
                  [mapped EXCEPT ![h] = Append(@, FailureSignature(e))]
  <2> DEFINE entry == [signature |-> FailureSignature(e), told |-> told]
  <2>1. \A g \in Hooks :
          streak'[g] = IF g = h THEN Append(streak[h], entry) ELSE streak[g]
    BY <1>2, <1>4 DEF StreakContinues
  <2>2. /\ entry \in StreakEntry
        /\ entry.signature = FailureSignature(e)
    BY DEF StreakEntry, Signatures
  <2> HIDE DEF entry
  <2>3. /\ Len(SignaturesOf(streak[h])) = Len(streak[h])
        /\ SignaturesOf(Append(streak[h], entry)) =
             Append(SignaturesOf(streak[h]), FailureSignature(e))
    BY <1>1, <2>2, SignaturesOfAppend
  <2>4. Len(streak[h]) < MaxStreak
    BY <1>4 DEF StreakContinues
  <2> QED BY <2>1, <2>3, <2>4
<1> QED BY <1>3, <1>4

(* Every step of the accounting is one the promise allows. *)
LEMMA RefinementStep ==
  ASSUME TypeOK, RecordDescribesStreak, [Next]_vars
  PROVE  [Promise!Next]_(Promise!vars)
<1> DEFINE mapped == [g \in Hooks |-> SignaturesOf(streak[g])]
<1>1. ASSUME NEW h \in Hooks, NEW policy \in Policies \cup {NoPolicy},
             HookSucceeds(h, policy)
      PROVE  Promise!Next
  <2>1. mapped' = [mapped EXCEPT ![h] = <<>>]
    BY <1>1, MappedStreaks DEF HookSucceeds
  <2>2. report' = Promise!Reported("ended", h, policy, NoError, 0, FALSE, FALSE)
    BY <1>1 DEF HookSucceeds, Blank, Promise!Reported
  <2>3. Promise!Success(h, policy)
    BY <2>1, <2>2 DEF Promise!Success
  <2> QED BY <2>3 DEF Promise!Next, Promise!Policies, Policies, NoPolicy
<1>2. ASSUME NEW h \in Hooks, ErrorReturningCall(h) PROVE Promise!Next
  <2>1. CASE HookSucceeds(h, NoPolicy)
    BY <1>1, <2>1
  <2>2. ASSUME NEW e \in Failures,
               report' = [Blank("ended", h, NoPolicy) EXCEPT !.error = e],
               StreakContinues(h, e, TRUE)
        PROVE  Promise!Next
    <3>1. report' = Promise!Reported("ended", h, "None", e, 0, FALSE, FALSE)
      BY <2>2 DEF Blank, NoPolicy, Promise!Reported
    <3>2. /\ Len(mapped[h]) < MaxStreak
          /\ mapped' = [mapped EXCEPT ![h] = Append(@, FailureSignature(e))]
      BY <2>2, MappedStreaks
    <3>3. Promise!PlainFailure(h, e)
      BY <3>1, <3>2
         DEF Promise!PlainFailure, Promise!Identity, FailureSignature
    <3> QED BY <3>3 DEF Promise!Next
  <2> QED BY <1>2, <2>1, <2>2 DEF ErrorReturningCall
<1>3. ASSUME NEW h \in Hooks, NEW policy \in Policies,
             CallWithPolicy(policy, h)
      PROVE  Promise!Next
  <2>1. CASE HookSucceeds(h, policy)
    BY <1>1, <2>1
  <2>2. ASSUME NEW e \in Failures,
               report' =
                 [Blank("ended", h, policy) EXCEPT
                    !.error = IF IsSuppressed(policy, h, e) THEN NoError ELSE e,
                    !.consecutiveFailures = NextCount(failureRecords, h),
                    !.suppressed = IsSuppressed(policy, h, e),
                    !.stopRequested = (policy = "Stop")],
               StreakContinues(h, e, ~IsSuppressed(policy, h, e))
        PROVE  Promise!Next
    <3>1. /\ Len(mapped[h]) < MaxStreak
          /\ mapped' = [mapped EXCEPT ![h] = Append(@, FailureSignature(e))]
      <4>1. (~IsSuppressed(policy, h, e)) \in BOOLEAN
        BY DEF IsSuppressed
      <4> QED BY <2>2, <4>1, MappedStreaks
    <3>2. /\ Len(mapped[h]) = Len(streak[h])
          /\ mapped[h] # <<>> <=> streak[h] # <<>>
          /\ streak[h] # <<>> =>
               mapped[h][Len(mapped[h])] = streak[h][Len(streak[h])].signature
      <4>1. streak[h] \in Seq(StreakEntry)
        BY DEF TypeOK
      <4> QED BY <4>1 DEF SignaturesOf
    <3>3. NextCount(failureRecords, h) = Len(mapped[h]) + 1
      BY <3>2 DEF NextCount, RecordDescribesStreak
    <3>4. IsSuppressed(policy, h, e) <=>
            policy = "ReportOnce" /\ Promise!RepeatsPrevious(h, e)
      BY <3>2, SuppressedRepeatsLast
         DEF IsSuppressed, Promise!RepeatsPrevious, Promise!Identity,
             FailureSignature
    <3>5. report' =
            [call |-> "ended", hook |-> h, policy |-> policy,
             error |-> IF IsSuppressed(policy, h, e) THEN NoError ELSE e,
             consecutiveFailures |-> NextCount(failureRecords, h),
             suppressed |-> IsSuppressed(policy, h, e),
             stopRequested |-> (policy = "Stop")]
      BY <2>2 DEF Blank
    <3>6. IsSuppressed(policy, h, e) =
            (policy = "ReportOnce" /\ Promise!RepeatsPrevious(h, e))
      BY <3>4 DEF IsSuppressed
    <3>7. report' =
            Promise!Reported("ended", h, policy,
              IF policy = "ReportOnce" /\ Promise!RepeatsPrevious(h, e)
                THEN NoError ELSE e,
              Len(mapped[h]) + 1,
              policy = "ReportOnce" /\ Promise!RepeatsPrevious(h, e),
              policy = "Stop")
      BY <3>3, <3>5, <3>6 DEF Promise!Reported
    <3>8. mapped' = [mapped EXCEPT ![h] = Append(@, Promise!Identity(e))]
      BY <3>1 DEF Promise!Identity, FailureSignature
    <3>9. Promise!Failure(h, policy, e)
      BY <3>1, <3>7, <3>8 DEF Promise!Failure
    <3> QED BY <3>9 DEF Promise!Next, Promise!Policies, Policies
  <2> QED BY <1>3, <2>1, <2>2 DEF CallWithPolicy
<1>4. ASSUME NEW h \in Hooks, NEW policy \in Policies \cup {NoPolicy},
             RejectedCall(policy, h)
      PROVE  Promise!Next
  <2>1. PICK e \in Rejections :
          /\ report' = [Blank("rejected", h, policy) EXCEPT
                          !.error = e, !.stopRequested = (policy = "Stop")]
          /\ UNCHANGED <<failureRecords, streak>>
    BY <1>4 DEF RejectedCall
  <2>2. report' = Promise!Reported("rejected", h, policy, e, 0, FALSE,
                                   policy = "Stop")
    BY <2>1 DEF Blank, Promise!Reported
  <2>3. Promise!Rejected(h, policy, e)
    BY <2>1, <2>2 DEF Promise!Rejected
  <2> QED BY <2>3 DEF Promise!Next, Promise!Policies, Policies, NoPolicy
<1>5. CASE ClearRecords
  <2>1. mapped' = [g \in Hooks |-> <<>>]
    BY <1>5 DEF ClearRecords, SignaturesOf
  <2>2. \E h \in Hooks :
          report' = Promise!Reported("none", h, "None", NoError, 0, FALSE, FALSE)
    BY <1>5 DEF ClearRecords, Blank, NoPolicy, Promise!Reported
  <2>3. Promise!RunBoundary
    BY <2>1, <2>2 DEF Promise!RunBoundary, Promise!NothingReported
  <2> QED BY <2>3 DEF Promise!Next
<1>6. CASE UNCHANGED vars
  BY <1>6 DEF vars, Promise!vars
<1> QED BY <1>2, <1>3, <1>4, <1>5, <1>6 DEF Next

(* Every report of the keyed accounting is one the header promises: it is  *)
(* the report HookStreaks gives for the hook's own failures since its last *)
(* success in the current run.                                             *)
THEOREM AccountingKeepsThePromise ==
  NamesAreUnambiguous => (Spec => ImplementsHookStreaks)
<1> SUFFICES ASSUME NamesAreUnambiguous
             PROVE  Spec => ImplementsHookStreaks
  OBVIOUS
<1>1. Init => Promise!Init
  <2> SUFFICES ASSUME Init PROVE Promise!Init
    OBVIOUS
  <2>1. [h \in Hooks |-> SignaturesOf(streak[h])] = [h \in Hooks |-> <<>>]
    BY DEF Init, SignaturesOf
  <2>2. \E h \in Hooks :
          report = Promise!Reported("none", h, "None", NoError, 0, FALSE, FALSE)
    BY DEF Init, Blank, NoPolicy, Promise!Reported
  <2> QED BY <2>1, <2>2 DEF Promise!Init
<1>2. TypeOK /\ RecordDescribesStreak /\ [Next]_vars
        => [Promise!Next]_(Promise!vars)
  BY RefinementStep
<1> QED BY <1>1, <1>2, TypeCorrect, RecordsDescribeStreaks, PTL
        DEF Spec, ImplementsHookStreaks, Promise!Spec

=============================================================================
