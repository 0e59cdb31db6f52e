------------------------ MODULE FailureRecordsProofs ------------------------
(***************************************************************************)
(* Two hooks have two keys when no name holds the separator, and booking   *)
(* an outcome keeps the table's type.                                      *)
(***************************************************************************)
EXTENDS FailureRecords, TLAPS

-----------------------------------------------------------------------------

(* Where the two names and the separator lie in a key. *)
HasLayout(key, m, f) ==
  /\ key[Len(m) + 1] = Separator
  /\ \A i \in 1..Len(m) : key[i] = m[i]
  /\ \A i \in 1..Len(f) : key[Len(m) + 1 + i] = f[i]
  /\ Len(key) = Len(m) + 1 + Len(f)

(* The concatenation in hookKey() lays the names out that way. *)
LEMMA KeyLayout ==
  ASSUME NEW m \in Seq(Characters), NEW f \in Seq(Characters)
  PROVE  HasLayout(m \o <<Separator>> \o f, m, f)
BY SeparatorIsACharacter DEF HasLayout

(* hookKey() does not merge two hooks whose names are free of the          *)
(* separator: the separator's position gives the first name's length.      *)
LEMMA HookKeyInjective ==
  ASSUME NEW h \in [module : Names, function : Names],
         NEW g \in [module : Names, function : Names],
         SeparatorFree(h.module), SeparatorFree(g.module),
         HookKey(h) = HookKey(g)
  PROVE  h = g
<1> DEFINE m == h.module  n == g.module  p == h.function  q == g.function
<1>1. /\ m \in Seq(Characters) /\ n \in Seq(Characters)
      /\ p \in Seq(Characters) /\ q \in Seq(Characters)
      /\ Separator \in Characters
  BY SeparatorIsACharacter DEF Names
<1> HIDE DEF m, n, p, q
<1>2. m \o <<Separator>> \o p = n \o <<Separator>> \o q
  BY DEF HookKey, m, n, p, q
<1>3. /\ \A i \in 1..Len(m) : m[i] # Separator
      /\ \A i \in 1..Len(n) : n[i] # Separator
  BY DEF SeparatorFree, m, n
<1> DEFINE key == m \o <<Separator>> \o p
<1>4. HasLayout(key, m, p)
  BY <1>1, KeyLayout
<1>5. HasLayout(key, n, q)
  BY <1>1, <1>2, KeyLayout
<1> HIDE DEF key
<1>6. Len(m) \in Nat /\ Len(n) \in Nat /\ Len(p) \in Nat /\ Len(q) \in Nat
  BY <1>1
<1>7. Len(m) = Len(n) /\ Len(p) = Len(q)
  <2>1. ASSUME Len(m) < Len(n) PROVE FALSE
    <3>1. Len(m) + 1 \in 1..Len(n)
      BY <1>6, <2>1
    <3> QED BY <1>3, <1>4, <1>5, <3>1 DEF HasLayout
  <2>2. ASSUME Len(n) < Len(m) PROVE FALSE
    <3>1. Len(n) + 1 \in 1..Len(m)
      BY <1>6, <2>2
    <3> QED BY <1>3, <1>4, <1>5, <3>1 DEF HasLayout
  <2> QED BY <1>4, <1>5, <1>6, <2>1, <2>2 DEF HasLayout
<1>8. m = n
  <2>1. \A i \in 1..Len(m) : m[i] = n[i]
    BY <1>4, <1>5, <1>7 DEF HasLayout
  <2> QED BY <1>1, <1>7, <2>1
<1>9. p = q
  <2>1. \A i \in 1..Len(p) : p[i] = q[i]
    BY <1>4, <1>5, <1>7 DEF HasLayout
  <2> QED BY <1>1, <1>7, <2>1
<1> QED BY <1>8, <1>9 DEF m, n, p, q

(* What that means for the hooks called. *)
LEMMA KeysIdentifyHooks ==
  ASSUME NamesAreUnambiguous, NEW h \in Hooks, NEW g \in Hooks,
         HookKey(h) = HookKey(g)
  PROVE  h = g
<1>1. /\ h \in [module : Names, function : Names]
      /\ g \in [module : Names, function : Names]
  BY HooksAssumption
<1>2. SeparatorFree(h.module) /\ SeparatorFree(g.module)
  BY DEF NamesAreUnambiguous
<1> QED BY <1>1, <1>2, HookKeyInjective

(* The table keeps its type whatever is booked in it. *)
LEMMA NoteTypes ==
  ASSUME NEW records \in [Keys -> FailureRecord], NEW h \in Hooks
  PROVE  /\ NoteSuccess(records, h) \in [Keys -> FailureRecord]
         /\ NextCount(records, h) \in Nat
         /\ \A e \in Failures :
              NoteFailure(records, h, e) \in [Keys -> FailureRecord]
<1>1. HookKey(h) \in Keys
  BY DEF Keys
<1>2. NoRecord \in FailureRecord
  BY DEF NoRecord, FailureRecord
<1>3. NoteSuccess(records, h) \in [Keys -> FailureRecord]
  BY <1>1, <1>2 DEF NoteSuccess
<1>4. NextCount(records, h) \in Nat
  BY <1>1 DEF NextCount, FailureRecord
<1>5. ASSUME NEW e \in Failures
      PROVE  NoteFailure(records, h, e) \in [Keys -> FailureRecord]
  <2>1. FailureSignature(e) \in Signatures
    BY DEF Signatures
  <2>2. [consecutiveFailures |-> NextCount(records, h),
         lastSignature |-> FailureSignature(e)] \in FailureRecord
    BY <1>4, <2>1 DEF FailureRecord
  <2> QED BY <1>1, <2>2 DEF NoteFailure
<1> QED BY <1>3, <1>4, <1>5

=============================================================================
