------------------------ MODULE ThreadAffinityProofs ------------------------
(***************************************************************************)
(* Proofs about ThreadAffinity for any number of threads and ids, under    *)
(* the host's rule that the owner of a running interpreter does not end,   *)
(* and about what becomes of a runtime whose owner does.                   *)
(*                                                                         *)
(* What the fields say at any moment is tied to who started the            *)
(* interpreter: they can disagree with it only while initialize() or       *)
(* stop() is between its writes, and then only by saying too little        *)
(* (initialize) or by naming the thread that is about to withdraw them     *)
(* (stop).  So a guard that reads its own id runs on the owner, whatever   *)
(* the order of the reads and the writes.                                  *)
(***************************************************************************)
EXTENDS ThreadAffinity, TLAPS

(* Living threads have ids of their own. *)
IdsDistinct ==
  \A t, u \in Threads : t # u /\ id[t] = id[u] => id[t] = NoId

(* Code runs on living threads, and only scripts start script threads. *)
LivesRight ==
  /\ \A t \in Threads : pc[t] # "idle" => id[t] # NoId
  /\ \A p \in ScriptThreads : id[p] # NoId => interpreter # NoThread
  /\ interpreter # NoThread => /\ interpreter \in HostThreads
                               /\ id[interpreter] # NoId

(* How far a thread can be in each operation. *)
OpsFit ==
  \A t \in Threads :
    /\ pc[t] # "idle" => op[t] \in Operations
    /\ pc[t] \in {"publishing", "configuring"} => op[t] = "initialize"
    /\ pc[t] \in {"finalizing", "withdrawing"} => op[t] # "call"

(* Past its guard only the owner is in the runtime, or the thread that has *)
(* just given the interpreter up.                                          *)
OwnerInside ==
  /\ \A t \in Threads :
       pc[t] \in {"publishing", "configuring", "entering", "inside",
                  "finalizing"} => t = interpreter
  /\ \A t \in Threads : pc[t] = "withdrawing" => interpreter = NoThread

(* The host serializes the calls that write the fields. *)
OneWriter ==
  \A t, u \in Threads : ChangesState(t) /\ ChangesState(u) => t = u

(* ownerThread names the owner, or the thread that is to withdraw it, and  *)
(* fails to name the owner only until initialize() wrote it.               *)
OwnerField ==
  /\ ownerThread # NoId =>
       \/ interpreter # NoThread /\ ownerThread = id[interpreter]
       \/ \E w \in Threads : /\ pc[w] = "withdrawing"
                             /\ "ownerThread" \in unwritten
                             /\ ownerThread = id[w]
  /\ interpreter # NoThread =>
       \/ ownerThread = id[interpreter]
       \/ pc[interpreter] = "publishing" /\ "ownerThread" \in unwritten

(* The same of running. *)
RunningField ==
  /\ running =>
       \/ interpreter # NoThread
       \/ \E w \in Threads : pc[w] = "withdrawing" /\ "running" \in unwritten
  /\ interpreter # NoThread =>
       \/ running
       \/ pc[interpreter] = "publishing" /\ "running" \in unwritten

(* What guards have read: who saw itself is the owner, and the owner has   *)
(* seen what it was to see in all it has read.                             *)
GuardsKnow ==
  /\ \A t \in sawRunning \cup sawItself : pc[t] = "reading"
  /\ \A t \in sawItself : t = interpreter
  /\ \A t \in Threads :
       t = interpreter /\ pc[t] = "reading" /\ op[t] # "initialize" =>
         /\ "running" \in unread[t] \/ t \in sawRunning
         /\ "ownerThread" \in unread[t] \/ t \in sawItself

Inv ==
  /\ TypeOK
  /\ IdsDistinct
  /\ LivesRight
  /\ OpsFit
  /\ OwnerInside
  /\ OneWriter
  /\ OwnerField
  /\ RunningField
  /\ GuardsKnow

-----------------------------------------------------------------------------

LEMMA InitTypeOK == Init => TypeOK
BY DEF Init, TypeOK, Points

(* Fields, threads and the GIL keep their types, whichever threads end. *)
LEMMA StepTypeOK ==
  ASSUME TypeOK, [Next]_vars
  PROVE  TypeOK'
<1> USE DEF TypeOK
<1>1. CASE UNCHANGED vars
  BY <1>1 DEF vars, fields, guards
<1>2. CASE Next
  <2>1. PICK t \in Threads :
          \/ ThreadStarts(t)
          \/ ThreadEnds(t)
          \/ \E p \in ScriptThreads : ScriptThreadStarts(t, p)
          \/ \E o \in Operations : Begin(t, o)
          \/ Destroys(t)
          \/ Yields(t)
          \/ Takes(t)
          \/ Continues(t)
          \/ PythonEnds(t)
    BY <1>2 DEF Next
  <2>2. CASE \/ ThreadStarts(t) \/ ThreadEnds(t)
             \/ \E p \in ScriptThreads : ScriptThreadStarts(t, p)
    BY <2>2
    DEF ThreadStarts, ThreadEnds, ScriptThreadStarts, Lives, fields, guards
  <2>3. CASE \E o \in Operations : Begin(t, o)
    BY <2>3 DEF Begin, Goto, Points, Fields, fields
  <2>16. CASE Destroys(t)
    BY <2>16 DEF Destroys, Goto, Points, Operations, guards
  <2>4. CASE Yields(t) \/ Takes(t) \/ ScriptThreadEnds(t)
    BY <2>4 DEF Yields, Takes, ScriptThreadEnds, fields, guards
  <2>5. CASE ReadRunning(t) \/ ReadOwner(t)
    BY <2>5 DEF ReadRunning, ReadOwner, Reads, OwnsInterpreter, fields
  <2>6. CASE Refused(t) \/ InitializeFails(t)
    BY <2>6 DEF Refused, InitializeFails, Decides, Leaves, Goto, Points, fields
  <2>7. CASE Accepted(t)
    BY <2>7 DEF Accepted, Decides, Goto, Points, fields
  <2>8. CASE StartInterpreter(t)
    BY <2>8 DEF StartInterpreter, Decides, Goto, Points
  <2>9. CASE PublishOwner(t) \/ PublishRunning(t)
    BY <2>9 DEF PublishOwner, PublishRunning, guards
  <2>10. CASE Published(t) \/ Enter(t)
    BY <2>10 DEF Published, Enter, Goto, Points, fields, guards
  <2>11. CASE Configured(t)
    BY <2>11 DEF Configured, Leaves, Goto, Points, fields, guards
  <2>12. CASE HookEnds(t)
    BY <2>12 DEF HookEnds, Leaves, Goto, Points, fields, guards
  <2>13. CASE Finalized(t)
    BY <2>13 DEF Finalized, Goto, Points, guards
  <2>14. CASE WithdrawRunning(t) \/ WithdrawOwner(t)
    BY <2>14 DEF WithdrawRunning, WithdrawOwner, guards
  <2>15. CASE Withdrawn(t)
    BY <2>15 DEF Withdrawn, Leaves, Goto, Points, fields, guards
  <2> QED
    BY <2>1, <2>2, <2>3, <2>4, <2>5, <2>6, <2>7, <2>8, <2>9, <2>10, <2>11,
       <2>12, <2>13, <2>14, <2>15, <2>16
    DEF Continues, PythonEnds
<1> QED  BY <1>1, <1>2

(* The variables have their types, whatever the host does. *)
THEOREM TypeCorrect == Spec => []TypeOK
BY InitTypeOK, StepTypeOK, PTL DEF Spec

-----------------------------------------------------------------------------

LEMMA ThreadStartsKeepsInv ==
  ASSUME Inv, TypeOK', NEW t \in Threads, ThreadStarts(t)
  PROVE  Inv'
<1>1. IdsDistinct'
  BY DEF Inv, IdsDistinct, ThreadStarts, Lives
<1>2. LivesRight'
  BY ThreadsAssumption DEF Inv, LivesRight, ThreadStarts, Lives, Alive
<1>3. OwnerField'
  BY DEF Inv, OwnerField, ThreadStarts, Lives, Alive, fields
<1>4. UNCHANGED <<running, ownerThread, interpreter, gil, op, pc, unread,
                  sawRunning, sawItself, unwritten>>
  BY DEF ThreadStarts, Lives, fields, guards
<1>5. /\ OpsFit'
      /\ OwnerInside'
      /\ OneWriter'
      /\ RunningField'
      /\ GuardsKnow'
  BY <1>4
  DEF Inv, OpsFit, OwnerInside, OneWriter, RunningField, GuardsKnow,
      ChangesState, At
<1> QED  BY <1>1, <1>2, <1>3, <1>4, <1>5 DEF Inv

LEMMA ThreadEndsKeepsInv ==
  ASSUME Inv, TypeOK', NEW t \in Threads, ThreadEnds(t), t # interpreter
  PROVE  Inv'
<1>1. IdsDistinct'
  BY DEF Inv, IdsDistinct, ThreadEnds
<1>2. LivesRight'
  BY DEF Inv, LivesRight, ThreadEnds, At
<1>3. OwnerField'
  BY DEF Inv, OwnerField, ThreadEnds, At, fields
<1>4. UNCHANGED <<running, ownerThread, interpreter, gil, op, pc, unread,
                  sawRunning, sawItself, unwritten>>
  BY DEF ThreadEnds, fields, guards
<1>5. /\ OpsFit'
      /\ OwnerInside'
      /\ OneWriter'
      /\ RunningField'
      /\ GuardsKnow'
  BY <1>4
  DEF Inv, OpsFit, OwnerInside, OneWriter, RunningField, GuardsKnow,
      ChangesState, At
<1> QED  BY <1>1, <1>2, <1>3, <1>4, <1>5 DEF Inv

LEMMA ScriptThreadStartsKeepsInv ==
  ASSUME Inv, TypeOK', NEW t \in Threads, NEW p \in ScriptThreads,
         ScriptThreadStarts(t, p)
  PROVE  Inv'
<1>1. IdsDistinct'
  BY DEF Inv, IdsDistinct, ScriptThreadStarts, Lives
<1>2. LivesRight'
  BY ThreadsAssumption
  DEF Inv, LivesRight, OwnerInside, ScriptThreadStarts, Lives, Alive
<1>3. OwnerField'
  BY DEF Inv, OwnerField, LivesRight, ScriptThreadStarts, Lives, Alive,
         fields
<1>4. UNCHANGED <<running, ownerThread, interpreter, gil, op, pc, unread,
                  sawRunning, sawItself, unwritten>>
  BY DEF ScriptThreadStarts, Lives, fields, guards
<1>5. /\ OpsFit'
      /\ OwnerInside'
      /\ OneWriter'
      /\ RunningField'
      /\ GuardsKnow'
  BY <1>4
  DEF Inv, OpsFit, OwnerInside, OneWriter, RunningField, GuardsKnow,
      ChangesState, At
<1> QED  BY <1>1, <1>2, <1>3, <1>4, <1>5 DEF Inv

LEMMA ScriptThreadEndsKeepsInv ==
  ASSUME Inv, TypeOK', NEW t \in Threads, ScriptThreadEnds(t)
  PROVE  Inv'
<1>1. IdsDistinct'
  BY DEF Inv, IdsDistinct, ScriptThreadEnds
<1>2. LivesRight'
  BY ThreadsAssumption DEF Inv, LivesRight, ScriptThreadEnds, At
<1>3. OwnerField'
  BY ThreadsAssumption
  DEF Inv, OwnerField, LivesRight, ScriptThreadEnds, At, fields
<1>4. UNCHANGED <<running, ownerThread, interpreter, op, pc, unread,
                  sawRunning, sawItself, unwritten>>
  BY DEF ScriptThreadEnds, fields, guards
<1>5. /\ OpsFit'
      /\ OwnerInside'
      /\ OneWriter'
      /\ RunningField'
      /\ GuardsKnow'
  BY <1>4
  DEF Inv, OpsFit, OwnerInside, OneWriter, RunningField, GuardsKnow,
      ChangesState, At
<1> QED  BY <1>1, <1>2, <1>3, <1>4, <1>5 DEF Inv

LEMMA YieldsKeepsInv ==
  ASSUME Inv, TypeOK', NEW t \in Threads, Yields(t)
  PROVE  Inv'
<1>1. UNCHANGED <<id, running, ownerThread, interpreter, op, pc, unread,
                  sawRunning, sawItself, unwritten>>
  BY DEF Yields, fields, guards
<1>2. /\ IdsDistinct'
      /\ LivesRight'
      /\ OpsFit'
      /\ OwnerInside'
      /\ OneWriter'
      /\ OwnerField'
      /\ RunningField'
      /\ GuardsKnow'
  BY <1>1
  DEF Inv, IdsDistinct, LivesRight, OpsFit, OwnerInside, OneWriter,
      OwnerField, RunningField, GuardsKnow, ChangesState, At
<1> QED  BY <1>1, <1>2 DEF Inv

LEMMA TakesKeepsInv ==
  ASSUME Inv, TypeOK', NEW t \in Threads, Takes(t)
  PROVE  Inv'
<1>1. UNCHANGED <<id, running, ownerThread, interpreter, op, pc, unread,
                  sawRunning, sawItself, unwritten>>
  BY DEF Takes, fields, guards
<1>2. /\ IdsDistinct'
      /\ LivesRight'
      /\ OpsFit'
      /\ OwnerInside'
      /\ OneWriter'
      /\ OwnerField'
      /\ RunningField'
      /\ GuardsKnow'
  BY <1>1
  DEF Inv, IdsDistinct, LivesRight, OpsFit, OwnerInside, OneWriter,
      OwnerField, RunningField, GuardsKnow, ChangesState, At
<1> QED  BY <1>1, <1>2 DEF Inv

LEMMA BeginKeepsInv ==
  ASSUME Inv, TypeOK', NEW t \in Threads, NEW o \in Operations, Begin(t, o)
  PROVE  Inv'
<1>1. LivesRight'
  BY DEF Inv, LivesRight, Begin, Alive, Goto
<1>2. OpsFit'
  BY DEF Inv, TypeOK, OpsFit, Begin, Goto
<1>3. OwnerInside'
  BY DEF Inv, OwnerInside, Begin, Goto
<1>4. OneWriter'
  BY DEF Inv, TypeOK, OneWriter, Begin, At, Goto, ChangesState
<1>5. OwnerField'
  BY DEF Inv, OwnerField, Begin, At, Goto, fields
<1>6. RunningField'
  BY DEF Inv, RunningField, Begin, At, Goto, fields
<1>7. GuardsKnow'
  BY DEF Inv, TypeOK, GuardsKnow, Begin, Goto, Fields
<1>8. UNCHANGED <<id, running, ownerThread, interpreter, gil, sawRunning,
                  sawItself, unwritten>>
  BY DEF Begin, fields
<1>9. IdsDistinct'
  BY <1>8 DEF Inv, IdsDistinct
<1> QED  BY <1>1, <1>2, <1>3, <1>4, <1>5, <1>6, <1>7, <1>8, <1>9 DEF Inv

LEMMA DestroysKeepsInv ==
  ASSUME Inv, TypeOK', NEW t \in Threads, Destroys(t)
  PROVE  Inv'
<1>1. t \in HostThreads /\ pc[t] = "idle" /\ id[t] # NoId
  BY DEF Destroys, Alive, At
<1>2. interpreter # NoThread => t = interpreter
  BY DEF Inv, LivesRight, Destroys, Alive
<1>3. \A u \in Threads : pc[u] \notin {"publishing", "withdrawing"}
  BY DEF Inv, OpsFit, Destroys, ChangesState, At, Operations
<1>4. /\ \A u \in Threads \ {t} : pc'[u] = pc[u] /\ op'[u] = op[u]
      /\ op'[t] = "destroy"
      /\ pc'[t] = IF interpreter = NoThread THEN "withdrawing" ELSE "finalizing"
      /\ unwritten' = IF interpreter = NoThread THEN Fields ELSE unwritten
  BY DEF Inv, TypeOK, Destroys, Goto
<1>5. UNCHANGED <<id, running, ownerThread, interpreter, gil, unread,
                  sawRunning, sawItself>>
  BY DEF Destroys, guards
<1>6. IdsDistinct' /\ LivesRight'
  BY <1>1, <1>4, <1>5 DEF Inv, IdsDistinct, LivesRight
<1>7. OpsFit'
  BY <1>4 DEF Inv, OpsFit, Operations
<1>8. OwnerInside'
  BY <1>2, <1>4, <1>5 DEF Inv, OwnerInside
<1>9. OneWriter'
  <2>1. \A u \in Threads \ {t} : ~ChangesState(u)'
    BY <1>4, <1>5 DEF Destroys, ChangesState, At
  <2> QED  BY <2>1 DEF OneWriter
<1>10. interpreter # NoThread => interpreter \in Threads
  BY DEF Inv, TypeOK
<1>11. OwnerField'
  <2>1. /\ ownerThread # NoId =>
             interpreter # NoThread /\ ownerThread = id[interpreter]
        /\ interpreter # NoThread => ownerThread = id[interpreter]
    BY <1>3, <1>10 DEF Inv, OwnerField
  <2> QED  BY <1>5, <2>1 DEF OwnerField
<1>12. RunningField'
  <2>1. running <=> interpreter # NoThread
    BY <1>3, <1>10 DEF Inv, TypeOK, RunningField
  <2> QED  BY <1>5, <2>1 DEF RunningField
<1>13. GuardsKnow'
  <2>1. \A u \in sawRunning \cup sawItself : u \in Threads \ {t}
    BY <1>1 DEF Inv, TypeOK, GuardsKnow
  <2>2. pc'[t] # "reading"
    BY <1>4
  <2> QED  BY <1>4, <1>5, <2>1, <2>2 DEF Inv, GuardsKnow
<1> QED
  BY <1>6, <1>7, <1>8, <1>9, <1>11, <1>12, <1>13 DEF Inv

LEMMA ReadRunningKeepsInv ==
  ASSUME Inv, TypeOK', NEW t \in Threads, ReadRunning(t)
  PROVE  Inv'
<1>1. GuardsKnow'
  BY ThreadsAssumption
  DEF Inv, GuardsKnow, RunningField, ReadRunning, Reads, At
<1>2. UNCHANGED <<id, running, ownerThread, interpreter, gil, op, pc,
                  sawItself, unwritten>>
  BY DEF ReadRunning, Reads, fields
<1>3. /\ IdsDistinct'
      /\ LivesRight'
      /\ OpsFit'
      /\ OwnerInside'
      /\ OneWriter'
      /\ OwnerField'
      /\ RunningField'
  BY <1>2
  DEF Inv, IdsDistinct, LivesRight, OpsFit, OwnerInside, OneWriter,
      OwnerField, RunningField, ChangesState, At
<1> QED  BY <1>1, <1>2, <1>3 DEF Inv

LEMMA ReadOwnerKeepsInv ==
  ASSUME Inv, TypeOK', NEW t \in Threads, ReadOwner(t)
  PROVE  Inv'
<1>1. GuardsKnow'
  BY ThreadsAssumption
  DEF Inv, TypeOK, GuardsKnow, OwnerField, IdsDistinct, LivesRight,
      ReadOwner, Reads, At, OwnsInterpreter
<1>2. UNCHANGED <<id, running, ownerThread, interpreter, gil, op, pc,
                  sawRunning, unwritten>>
  BY DEF ReadOwner, Reads, OwnsInterpreter, fields
<1>3. /\ IdsDistinct'
      /\ LivesRight'
      /\ OpsFit'
      /\ OwnerInside'
      /\ OneWriter'
      /\ OwnerField'
      /\ RunningField'
  BY <1>2
  DEF Inv, IdsDistinct, LivesRight, OpsFit, OwnerInside, OneWriter,
      OwnerField, RunningField, ChangesState, At
<1> QED  BY <1>1, <1>2, <1>3 DEF Inv

LEMMA RefusedKeepsInv ==
  ASSUME Inv, TypeOK', NEW t \in Threads, Refused(t)
  PROVE  Inv'
<1>1. LivesRight'
  BY DEF Inv, LivesRight, Refused, Decides, Leaves, Goto
<1>2. OpsFit'
  BY DEF Inv, TypeOK, OpsFit, Refused, Decides, Leaves, Goto
<1>3. OwnerInside'
  BY DEF Inv, OwnerInside, Refused, Decides, Leaves, Goto
<1>4. OneWriter'
  BY DEF Inv, TypeOK, OneWriter, Refused, Decides, At, Leaves, Goto,
         ChangesState
<1>5. OwnerField'
  BY DEF Inv, OwnerField, Refused, Decides, At, Leaves, Goto, fields
<1>6. RunningField'
  BY DEF Inv, RunningField, Refused, Decides, At, Leaves, Goto, fields
<1>7. GuardsKnow'
  BY DEF Inv, GuardsKnow, Refused, Decides, Leaves, Goto
<1>8. UNCHANGED <<id, running, ownerThread, interpreter, gil, unread,
                  unwritten>>
  BY DEF Refused, Decides, fields
<1>9. IdsDistinct'
  BY <1>8 DEF Inv, IdsDistinct
<1> QED  BY <1>1, <1>2, <1>3, <1>4, <1>5, <1>6, <1>7, <1>8, <1>9 DEF Inv

LEMMA AcceptedKeepsInv ==
  ASSUME Inv, TypeOK', NEW t \in Threads, Accepted(t)
  PROVE  Inv'
<1>1. LivesRight'
  BY DEF Inv, LivesRight, Accepted, Decides, At, Goto
<1>2. OpsFit'
  BY DEF Inv, OpsFit, Accepted, Decides, At, Goto
<1>3. OwnerInside'
  BY DEF Inv, OwnerInside, GuardsKnow, Accepted, Decides, Goto
<1>4. OneWriter'
  BY DEF Inv, OneWriter, Accepted, Decides, At, Goto, ChangesState
<1>5. OwnerField'
  BY DEF Inv, OwnerField, Accepted, Decides, At, Goto, fields
<1>6. RunningField'
  BY DEF Inv, RunningField, Accepted, Decides, At, Goto, fields
<1>7. GuardsKnow'
  BY DEF Inv, TypeOK, GuardsKnow, Accepted, Decides, Goto
<1>8. UNCHANGED <<id, running, ownerThread, interpreter, gil, op, unread,
                  unwritten>>
  BY DEF Accepted, Decides, fields
<1>9. IdsDistinct'
  BY <1>8 DEF Inv, IdsDistinct
<1> QED  BY <1>1, <1>2, <1>3, <1>4, <1>5, <1>6, <1>7, <1>8, <1>9 DEF Inv

LEMMA InitializeFailsKeepsInv ==
  ASSUME Inv, TypeOK', NEW t \in Threads, InitializeFails(t)
  PROVE  Inv'
<1>1. LivesRight'
  BY DEF Inv, LivesRight, InitializeFails, Decides, Leaves, Goto
<1>2. OpsFit'
  BY DEF Inv, TypeOK, OpsFit, InitializeFails, Decides, Leaves, Goto
<1>3. OwnerInside'
  BY DEF Inv, OwnerInside, InitializeFails, Decides, Leaves, Goto
<1>4. OneWriter'
  BY DEF Inv, OneWriter, InitializeFails, Decides, At, Leaves, Goto,
         ChangesState
<1>5. OwnerField'
  BY DEF Inv, OwnerField, InitializeFails, Decides, At, Leaves, Goto, fields
<1>6. RunningField'
  BY DEF Inv, RunningField, InitializeFails, Decides, At, Leaves, Goto,
         fields
<1>7. GuardsKnow'
  BY DEF Inv, TypeOK, GuardsKnow, InitializeFails, Decides, Leaves, Goto
<1>8. UNCHANGED <<id, running, ownerThread, interpreter, gil, unread,
                  unwritten>>
  BY DEF InitializeFails, Decides, fields
<1>9. IdsDistinct'
  BY <1>8 DEF Inv, IdsDistinct
<1> QED  BY <1>1, <1>2, <1>3, <1>4, <1>5, <1>6, <1>7, <1>8, <1>9 DEF Inv

LEMMA StartInterpreterKeepsInv ==
  ASSUME Inv, TypeOK', NEW t \in Threads, StartInterpreter(t)
  PROVE  Inv'
<1>1. LivesRight'
  BY DEF Inv, LivesRight, StartInterpreter, Decides, At, Goto, Threads
<1>2. OpsFit'
  BY DEF Inv, OpsFit, StartInterpreter, Decides, At, Goto
<1>3. OwnerInside'
  BY ThreadsAssumption
  DEF Inv, OwnerInside, OpsFit, OneWriter, StartInterpreter, Decides, At,
      Goto, Operations, ChangesState
<1>4. OneWriter'
  BY DEF Inv, OneWriter, StartInterpreter, Decides, At, Goto, ChangesState
<1>5. OwnerField'
  BY DEF Inv, TypeOK, OwnerField, StartInterpreter, Decides, At, Goto, Fields
<1>6. RunningField'
  BY DEF Inv, TypeOK, RunningField, StartInterpreter, Decides, At, Goto,
         Fields
<1>7. GuardsKnow'
  BY ThreadsAssumption
  DEF Inv, TypeOK, GuardsKnow, StartInterpreter, Decides, Goto
<1>8. UNCHANGED <<id, running, ownerThread, op, unread>>
  BY DEF StartInterpreter, Decides
<1>9. IdsDistinct'
  BY <1>8 DEF Inv, IdsDistinct
<1> QED  BY <1>1, <1>2, <1>3, <1>4, <1>5, <1>6, <1>7, <1>8, <1>9 DEF Inv

LEMMA PublishOwnerKeepsInv ==
  ASSUME Inv, TypeOK', NEW t \in Threads, PublishOwner(t)
  PROVE  Inv'
<1>1. OwnerField'
  BY ThreadsAssumption DEF Inv, OwnerField, OwnerInside, PublishOwner, At
<1>2. RunningField'
  BY DEF Inv, RunningField, PublishOwner
<1>3. UNCHANGED <<id, running, interpreter, gil, op, pc, unread, sawRunning,
                  sawItself>>
  BY DEF PublishOwner, guards
<1>4. /\ IdsDistinct'
      /\ LivesRight'
      /\ OpsFit'
      /\ OwnerInside'
      /\ OneWriter'
      /\ GuardsKnow'
  BY <1>3
  DEF Inv, IdsDistinct, LivesRight, OpsFit, OwnerInside, OneWriter,
      GuardsKnow, ChangesState, At
<1> QED  BY <1>1, <1>2, <1>3, <1>4 DEF Inv

LEMMA PublishRunningKeepsInv ==
  ASSUME Inv, TypeOK', NEW t \in Threads, PublishRunning(t)
  PROVE  Inv'
<1>1. OwnerField'
  BY DEF Inv, OwnerField, PublishRunning
<1>2. RunningField'
  BY ThreadsAssumption DEF Inv, RunningField, OwnerInside, PublishRunning, At
<1>3. UNCHANGED <<id, ownerThread, interpreter, gil, op, pc, unread,
                  sawRunning, sawItself>>
  BY DEF PublishRunning, guards
<1>4. /\ IdsDistinct'
      /\ LivesRight'
      /\ OpsFit'
      /\ OwnerInside'
      /\ OneWriter'
      /\ GuardsKnow'
  BY <1>3
  DEF Inv, IdsDistinct, LivesRight, OpsFit, OwnerInside, OneWriter,
      GuardsKnow, ChangesState, At
<1> QED  BY <1>1, <1>2, <1>3, <1>4 DEF Inv

LEMMA PublishedKeepsInv ==
  ASSUME Inv, TypeOK', NEW t \in Threads, Published(t)
  PROVE  Inv'
<1>1. LivesRight'
  BY DEF Inv, LivesRight, Published, At, Goto
<1>2. OpsFit'
  BY DEF Inv, OpsFit, Published, At, Goto
<1>3. OwnerInside'
  BY DEF Inv, OwnerInside, Published, At, Goto
<1>4. OneWriter'
  BY DEF Inv, OneWriter, Published, At, Goto, ChangesState
<1>5. OwnerField'
  BY DEF Inv, OwnerField, Published, fields
<1>6. RunningField'
  BY DEF Inv, RunningField, Published, fields
<1>7. GuardsKnow'
  BY DEF Inv, GuardsKnow, Published, At, Goto, guards
<1>8. UNCHANGED <<id, running, ownerThread, interpreter, gil, op, unread,
                  sawRunning, sawItself, unwritten>>
  BY DEF Published, fields, guards
<1>9. IdsDistinct'
  BY <1>8 DEF Inv, IdsDistinct
<1> QED  BY <1>1, <1>2, <1>3, <1>4, <1>5, <1>6, <1>7, <1>8, <1>9 DEF Inv

LEMMA ConfiguredKeepsInv ==
  ASSUME Inv, TypeOK', NEW t \in Threads, Configured(t)
  PROVE  Inv'
<1>1. LivesRight'
  BY DEF Inv, TypeOK, LivesRight, Configured, At, Leaves, Goto
<1>2. OpsFit'
  BY DEF Inv, TypeOK, OpsFit, Configured, At, Leaves, Goto
<1>3. OwnerInside'
  BY DEF Inv, TypeOK, OwnerInside, Configured, At, Leaves, Goto
<1>4. OneWriter'
  BY DEF Inv, TypeOK, OneWriter, Configured, At, Leaves, Goto, ChangesState
<1>5. OwnerField'
  BY DEF Inv, TypeOK, OwnerField, Configured, At, Leaves, Goto, fields
<1>6. RunningField'
  BY DEF Inv, TypeOK, RunningField, Configured, At, Leaves, Goto, fields
<1>7. GuardsKnow'
  BY DEF Inv, TypeOK, GuardsKnow, Configured, At, Leaves, Goto, guards
<1>8. UNCHANGED <<id, running, ownerThread, interpreter, gil, unread,
                  sawRunning, sawItself, unwritten>>
  BY DEF Configured, fields, guards
<1>9. IdsDistinct'
  BY <1>8 DEF Inv, IdsDistinct
<1> QED  BY <1>1, <1>2, <1>3, <1>4, <1>5, <1>6, <1>7, <1>8, <1>9 DEF Inv

LEMMA EnterKeepsInv ==
  ASSUME Inv, TypeOK', NEW t \in Threads, Enter(t)
  PROVE  Inv'
<1>1. LivesRight'
  BY DEF Inv, LivesRight, Enter, At, Goto
<1>2. OpsFit'
  BY DEF Inv, OpsFit, Enter, At, Goto
<1>3. OwnerInside'
  BY DEF Inv, OwnerInside, Enter, At, Goto
<1>4. OneWriter'
  BY DEF Inv, OneWriter, Enter, At, Goto, ChangesState
<1>5. OwnerField'
  BY DEF Inv, OwnerField, Enter, At, Goto, fields
<1>6. RunningField'
  BY DEF Inv, RunningField, Enter, At, Goto, fields
<1>7. GuardsKnow'
  BY DEF Inv, GuardsKnow, Enter, At, Goto, guards
<1>8. UNCHANGED <<id, running, ownerThread, interpreter, gil, op, unread,
                  sawRunning, sawItself, unwritten>>
  BY DEF Enter, fields, guards
<1>9. IdsDistinct'
  BY <1>8 DEF Inv, IdsDistinct
<1> QED  BY <1>1, <1>2, <1>3, <1>4, <1>5, <1>6, <1>7, <1>8, <1>9 DEF Inv

LEMMA HookEndsKeepsInv ==
  ASSUME Inv, TypeOK', NEW t \in Threads, HookEnds(t)
  PROVE  Inv'
<1>1. LivesRight'
  BY DEF Inv, LivesRight, HookEnds, Leaves, Goto
<1>2. OpsFit'
  BY DEF Inv, TypeOK, OpsFit, HookEnds, Leaves, Goto
<1>3. OwnerInside'
  BY DEF Inv, OwnerInside, HookEnds, Leaves, Goto
<1>4. OneWriter'
  BY DEF Inv, TypeOK, OneWriter, HookEnds, At, Leaves, Goto, ChangesState
<1>5. OwnerField'
  BY DEF Inv, OwnerField, HookEnds, At, Leaves, Goto, fields
<1>6. RunningField'
  BY DEF Inv, RunningField, HookEnds, At, Leaves, Goto, fields
<1>7. GuardsKnow'
  BY DEF Inv, GuardsKnow, HookEnds, At, Leaves, Goto, guards
<1>8. UNCHANGED <<id, running, ownerThread, interpreter, unread, sawRunning,
                  sawItself, unwritten>>
  BY DEF HookEnds, fields, guards
<1>9. IdsDistinct'
  BY <1>8 DEF Inv, IdsDistinct
<1> QED  BY <1>1, <1>2, <1>3, <1>4, <1>5, <1>6, <1>7, <1>8, <1>9 DEF Inv

LEMMA FinalizedKeepsInv ==
  ASSUME Inv, TypeOK', NEW t \in Threads, Finalized(t)
  PROVE  Inv'
<1>1. LivesRight'
  BY DEF Inv, LivesRight, Finalized, At, Alive, Goto
<1>2. OpsFit'
  BY DEF Inv, OpsFit, Finalized, At, Goto
<1>3. OwnerInside'
  BY DEF Inv, TypeOK, OwnerInside, Finalized, At, Goto
<1>4. OneWriter'
  BY ThreadsAssumption
  DEF Inv, OneWriter, OwnerInside, Finalized, At, Goto, ChangesState
<1>5. OwnerField'
  BY DEF Inv, TypeOK, OwnerField, OwnerInside, Finalized, At, Goto, Fields
<1>6. RunningField'
  BY DEF Inv, TypeOK, RunningField, Finalized, Goto, Fields
<1>7. GuardsKnow'
  BY ThreadsAssumption
  DEF Inv, GuardsKnow, OwnerInside, Finalized, At, Goto, guards
<1>8. UNCHANGED <<id, running, ownerThread, op, unread, sawRunning, sawItself>>
  BY DEF Finalized, guards
<1>9. IdsDistinct'
  BY <1>8 DEF Inv, IdsDistinct
<1> QED  BY <1>1, <1>2, <1>3, <1>4, <1>5, <1>6, <1>7, <1>8, <1>9 DEF Inv

LEMMA WithdrawRunningKeepsInv ==
  ASSUME Inv, TypeOK', NEW t \in Threads, WithdrawRunning(t)
  PROVE  Inv'
<1>1. OwnerField'
  BY DEF Inv, OwnerField, WithdrawRunning
<1>2. RunningField'
  BY DEF Inv, RunningField, OwnerInside, WithdrawRunning, At
<1>3. UNCHANGED <<id, ownerThread, interpreter, gil, op, pc, unread,
                  sawRunning, sawItself>>
  BY DEF WithdrawRunning, guards
<1>4. /\ IdsDistinct'
      /\ LivesRight'
      /\ OpsFit'
      /\ OwnerInside'
      /\ OneWriter'
      /\ GuardsKnow'
  BY <1>3
  DEF Inv, IdsDistinct, LivesRight, OpsFit, OwnerInside, OneWriter,
      GuardsKnow, ChangesState, At
<1> QED  BY <1>1, <1>2, <1>3, <1>4 DEF Inv

LEMMA WithdrawOwnerKeepsInv ==
  ASSUME Inv, TypeOK', NEW t \in Threads, WithdrawOwner(t)
  PROVE  Inv'
<1>1. OwnerField'
  BY DEF Inv, OwnerField, OwnerInside, WithdrawOwner, At
<1>2. RunningField'
  BY DEF Inv, RunningField, WithdrawOwner
<1>3. UNCHANGED <<id, running, interpreter, gil, op, pc, unread, sawRunning,
                  sawItself>>
  BY DEF WithdrawOwner, guards
<1>4. /\ IdsDistinct'
      /\ LivesRight'
      /\ OpsFit'
      /\ OwnerInside'
      /\ OneWriter'
      /\ GuardsKnow'
  BY <1>3
  DEF Inv, IdsDistinct, LivesRight, OpsFit, OwnerInside, OneWriter,
      GuardsKnow, ChangesState, At
<1> QED  BY <1>1, <1>2, <1>3, <1>4 DEF Inv

LEMMA WithdrawnKeepsInv ==
  ASSUME Inv, TypeOK', NEW t \in Threads, Withdrawn(t)
  PROVE  Inv'
<1>1. LivesRight'
  BY DEF Inv, LivesRight, Withdrawn, Leaves, Goto
<1>2. OpsFit'
  BY DEF Inv, TypeOK, OpsFit, Withdrawn, Leaves, Goto
<1>3. OwnerInside'
  BY DEF Inv, OwnerInside, Withdrawn, Leaves, Goto
<1>4. OneWriter'
  BY DEF Inv, TypeOK, OneWriter, Withdrawn, At, Leaves, Goto, ChangesState
<1>5. OwnerField'
  BY DEF Inv, OwnerField, Withdrawn, fields
<1>6. RunningField'
  BY DEF Inv, RunningField, Withdrawn, fields
<1>7. GuardsKnow'
  BY DEF Inv, GuardsKnow, Withdrawn, At, Leaves, Goto, guards
<1>8. UNCHANGED <<id, running, ownerThread, interpreter, gil, unread,
                  sawRunning, sawItself, unwritten>>
  BY DEF Withdrawn, fields, guards
<1>9. IdsDistinct'
  BY <1>8 DEF Inv, IdsDistinct
<1> QED  BY <1>1, <1>2, <1>3, <1>4, <1>5, <1>6, <1>7, <1>8, <1>9 DEF Inv

LEMMA InitInv == Init => Inv
<1> SUFFICES ASSUME Init PROVE Inv
  OBVIOUS
<1>1. TypeOK
  BY InitTypeOK
<1>2. IdsDistinct /\ LivesRight
  BY DEF Init, Threads, IdsDistinct, LivesRight
<1>3. OpsFit /\ OwnerInside /\ OneWriter
  BY DEF Init, OpsFit, OwnerInside, OneWriter, ChangesState
<1>4. OwnerField /\ RunningField /\ GuardsKnow
  BY DEF Init, OwnerField, RunningField, GuardsKnow
<1> QED  BY <1>1, <1>2, <1>3, <1>4 DEF Inv

LEMMA StepInv ==
  ASSUME Inv, [Next]_vars, ~ThreadEnds(interpreter)
  PROVE  Inv'
<1> TypeOK'
  BY StepTypeOK DEF Inv
<1>1. CASE Next
  <2>1. PICK t \in Threads :
          \/ ThreadStarts(t)
          \/ ThreadEnds(t)
          \/ \E p \in ScriptThreads : ScriptThreadStarts(t, p)
          \/ \E o \in Operations : Begin(t, o)
          \/ Destroys(t)
          \/ Yields(t)
          \/ Takes(t)
          \/ Continues(t)
          \/ PythonEnds(t)
    BY <1>1 DEF Next
  <2>2. CASE \/ ThreadStarts(t) \/ ThreadEnds(t)
             \/ Yields(t) \/ Takes(t)
    BY <2>2, Inv, ThreadStartsKeepsInv, ThreadEndsKeepsInv,
       YieldsKeepsInv, TakesKeepsInv
  <2>3. CASE \E p \in ScriptThreads : ScriptThreadStarts(t, p)
    BY <2>3, Inv, ScriptThreadStartsKeepsInv
  <2>4. CASE \E o \in Operations : Begin(t, o)
    BY <2>4, Inv, BeginKeepsInv
  <2>7. CASE Destroys(t)
    BY <2>7, Inv, DestroysKeepsInv
  <2>5. CASE Continues(t)
    BY <2>5, Inv, ReadRunningKeepsInv, ReadOwnerKeepsInv, RefusedKeepsInv,
       AcceptedKeepsInv, InitializeFailsKeepsInv, StartInterpreterKeepsInv,
       PublishOwnerKeepsInv, PublishRunningKeepsInv, PublishedKeepsInv,
       EnterKeepsInv, WithdrawRunningKeepsInv, WithdrawOwnerKeepsInv,
       WithdrawnKeepsInv
    DEF Continues
  <2>6. CASE PythonEnds(t)
    BY <2>6, Inv, ConfiguredKeepsInv, HookEndsKeepsInv, FinalizedKeepsInv,
       ScriptThreadEndsKeepsInv
    DEF PythonEnds
  <2> QED  BY <2>1, <2>2, <2>3, <2>4, <2>5, <2>6, <2>7
<1>2. CASE UNCHANGED vars
  <2>1. /\ IdsDistinct' /\ LivesRight' /\ OpsFit' /\ OwnerInside'
        /\ OneWriter'
    BY <1>2
    DEF Inv, vars, fields, guards, TypeOK, IdsDistinct, LivesRight, OpsFit,
        OwnerInside, OneWriter, ChangesState, At
  <2>2. OwnerField' /\ RunningField' /\ GuardsKnow'
    BY <1>2
    DEF Inv, vars, fields, guards, OwnerField, RunningField, GuardsKnow
  <2> QED  BY <2>1, <2>2 DEF Inv
<1> QED  BY <1>1, <1>2 DEF Inv

LEMMA InvAlways == OwnersStay /\ Spec => []Inv
<1>1. OwnersStay /\ Inv /\ [Next]_vars => Inv'
  BY StepInv DEF ThreadEnds
<1>2. OwnersStay => []OwnersStay
  <2>1. OwnersStay => OwnersStay'
    OBVIOUS
  <2> QED  BY <2>1, PTL
<1> QED  BY InitInv, <1>1, <1>2, PTL DEF Spec

-----------------------------------------------------------------------------

(* A thread gets past the guard of a call only if it started the           *)
(* interpreter: ownsInterpreter() keeps every other thread out, for any    *)
(* order of the unsynchronized reads and writes.                           *)
THEOREM ForeignThreadsStayOut == OwnersStay /\ Spec => []OnlyTheOwnerEnters
<1>1. Inv => OnlyTheOwnerEnters
  BY DEF Inv, OwnerInside, OnlyTheOwnerEnters
<1> QED  BY InvAlways, <1>1, PTL

(* Outside the writes of initialize() and stop() the two fields say who    *)
(* started the interpreter, across any number of restarts.                 *)
THEOREM OwnershipFollowsInitialize == OwnersStay /\ Spec => []FieldsNameTheOwner
<1>1. Inv => FieldsNameTheOwner
  BY DEF Inv, TypeOK, OwnerField, RunningField, FieldsNameTheOwner
<1> QED  BY InvAlways, <1>1, PTL

-----------------------------------------------------------------------------

(* Who holds the GIL is to give it up again ... *)
HolderFits ==
  \/ gil = NoThread
  \/ /\ interpreter # NoThread
     /\ \/ gil = interpreter
        \/ /\ gil \in ScriptThreads /\ id[gil] # NoId
           /\ pc[gil] \in {"idle", "reading"}

(* ... and the owner does so only for code of scripts. *)
OwnerHolds ==
  interpreter # NoThread
    /\ pc[interpreter] \notin {"configuring", "inside", "finalizing"}
  => gil = interpreter

LEMMA GilParts ==
  ASSUME Inv
  PROVE  GilHeldByOwnerOrScripts <=> HolderFits /\ OwnerHolds
BY ThreadsAssumption
DEF Inv, LivesRight, GilHeldByOwnerOrScripts, HolderFits, OwnerHolds,
    InPython, Alive

(* Who may take the GIL. *)
LEMMA PythonIsTheOwnersOrScripts ==
  ASSUME Inv, NEW t \in Threads, InPython(t) \/ At(t, "entering")
  PROVE  /\ interpreter # NoThread
         /\ t = interpreter \/ (t \in ScriptThreads /\ Alive(t) /\ At(t, "idle"))
BY ThreadsAssumption
DEF Inv, OwnerInside, LivesRight, InPython, At, Alive

LEMMA StepHolder ==
  ASSUME Inv, HolderFits, [Next]_vars
  PROVE  HolderFits'
<1> USE ThreadsAssumption DEF HolderFits, Alive, At
<1>1. CASE Next
  <2>1. PICK t \in Threads :
          \/ ThreadStarts(t)
          \/ ThreadEnds(t)
          \/ \E p \in ScriptThreads : ScriptThreadStarts(t, p)
          \/ \E o \in Operations : Begin(t, o)
          \/ Destroys(t)
          \/ Yields(t)
          \/ Takes(t)
          \/ Continues(t)
          \/ PythonEnds(t)
    BY <1>1 DEF Next
  <2>2. /\ id \in [Threads -> Ids \cup {NoId}] /\ pc \in [Threads -> Points]
        /\ ScriptThreads \subseteq Threads
    BY DEF Inv, TypeOK, Threads
  <2>3. CASE ThreadStarts(t) \/ \E p \in ScriptThreads : ScriptThreadStarts(t, p)
    <3>1. /\ UNCHANGED <<interpreter, gil, pc>>
          /\ \E u \in Threads, i \in Ids : id' = [id EXCEPT ![u] = i]
      BY <2>2, <2>3 DEF ThreadStarts, ScriptThreadStarts, Lives
    <3>2. \A u \in Threads : id[u] # NoId => id'[u] # NoId
      BY <2>2, <3>1, IdsAssumption
    <3> QED  BY <2>2, <3>1, <3>2
  <2>4. CASE ThreadEnds(t)
    BY <2>2, <2>4 DEF ThreadEnds, fields
  <2>5. CASE \E o \in Operations : Begin(t, o)
    BY <2>2, <2>5 DEF Begin, Goto
  <2>17. CASE Destroys(t)
    BY <2>2, <2>17 DEF Destroys, Goto
  <2>6. CASE Yields(t)
    BY <2>6 DEF Yields
  <2>7. CASE Takes(t)
    BY <2>7, PythonIsTheOwnersOrScripts DEF Takes
  <2>8. CASE ReadRunning(t) \/ ReadOwner(t)
    BY <2>8 DEF ReadRunning, ReadOwner, Reads
  <2>9. CASE Refused(t) \/ InitializeFails(t)
    BY <2>2, <2>9 DEF Refused, InitializeFails, Decides, Leaves, Goto
  <2>10. CASE Accepted(t) \/ Enter(t) \/ Configured(t) \/ Published(t)
    <3>1. t = interpreter /\ t \in HostThreads
      BY <2>10
      DEF Inv, OwnerInside, LivesRight, GuardsKnow, Accepted, Decides, Enter,
          Configured, Published
    <3>2. \A u \in Threads \ {t} : pc'[u] = pc[u]
      BY <2>2, <2>10
      DEF Accepted, Enter, Configured, Published, Leaves, Goto
    <3>3. UNCHANGED <<id, interpreter, gil>>
      BY <2>10 DEF Accepted, Enter, Configured, Published
    <3> QED  BY <3>1, <3>2, <3>3 DEF Threads
  <2>11. CASE StartInterpreter(t)
    BY <2>11 DEF StartInterpreter
  <2>12. CASE \/ PublishOwner(t) \/ PublishRunning(t)
              \/ WithdrawRunning(t) \/ WithdrawOwner(t)
    BY <2>12 DEF PublishOwner, PublishRunning, WithdrawRunning, WithdrawOwner
  <2>13. CASE Withdrawn(t)
    BY <2>2, <2>13 DEF Inv, OwnerInside, Withdrawn, Leaves, Goto
  <2>14. CASE HookEnds(t)
    BY <2>14 DEF Inv, OwnerInside, HookEnds
  <2>15. CASE Finalized(t)
    BY <2>15 DEF Finalized
  <2>16. CASE ScriptThreadEnds(t)
    BY <2>16 DEF ScriptThreadEnds
  <2> QED
    BY <2>1, <2>3, <2>4, <2>5, <2>6, <2>7, <2>8, <2>9, <2>10, <2>11, <2>12,
       <2>13, <2>14, <2>15, <2>16, <2>17
    DEF Continues, PythonEnds
<1>2. CASE UNCHANGED vars
  BY <1>2 DEF vars
<1> QED  BY <1>1, <1>2

LEMMA StepOwnerHolds ==
  ASSUME Inv, HolderFits, OwnerHolds, [Next]_vars
  PROVE  OwnerHolds'
<1> USE ThreadsAssumption DEF OwnerHolds, At
<1>1. CASE UNCHANGED vars
  BY <1>1 DEF vars
<1>2. CASE Next
  <2>1. PICK t \in Threads :
          \/ ThreadStarts(t)
          \/ ThreadEnds(t)
          \/ \E p \in ScriptThreads : ScriptThreadStarts(t, p)
          \/ \E o \in Operations : Begin(t, o)
          \/ Destroys(t)
          \/ Yields(t)
          \/ Takes(t)
          \/ Continues(t)
          \/ PythonEnds(t)
    BY <1>2 DEF Next
  <2>2. /\ pc \in [Threads -> Points]
        /\ interpreter \in HostThreads \cup {NoThread}
        /\ HostThreads \subseteq Threads
    BY DEF Inv, TypeOK, LivesRight, Threads
  <2>3. CASE UNCHANGED <<interpreter, gil, pc>>
    BY <2>3
  <2>4. CASE (\E o \in Operations : Begin(t, o)) \/ Destroys(t)
    BY <2>2, <2>4 DEF Begin, Destroys, Goto
  <2>5. CASE Yields(t)
    BY <2>2, <2>5 DEF Inv, OwnerInside, Yields, InPython
  <2>6. CASE Takes(t)
    BY <2>6, PythonIsTheOwnersOrScripts DEF Takes
  <2>7. CASE Refused(t) \/ InitializeFails(t) \/ Accepted(t)
    BY <2>2, <2>7
    DEF Refused, InitializeFails, Accepted, Decides, Leaves, Goto
  <2>8. CASE StartInterpreter(t) \/ Finalized(t)
    BY <2>8 DEF StartInterpreter, Finalized
  <2>9. CASE Published(t) \/ Enter(t) \/ Withdrawn(t)
    BY <2>2, <2>9
    DEF Inv, OwnerInside, Published, Enter, Withdrawn, Leaves, Goto
  <2>10. CASE Configured(t) \/ HookEnds(t)
    <3>1. t = interpreter
      BY <2>10 DEF Inv, OwnerInside, Configured, HookEnds
    <3> QED  BY <2>10, <3>1 DEF Configured, HookEnds
  <2>11. CASE ScriptThreadEnds(t)
    BY <2>2, <2>11 DEF ScriptThreadEnds
  <2>12. \/ UNCHANGED <<interpreter, gil, pc>>
         \/ \E o \in Operations : Begin(t, o)
         \/ Destroys(t)
         \/ Yields(t) \/ Takes(t)
         \/ Refused(t) \/ InitializeFails(t) \/ Accepted(t)
         \/ StartInterpreter(t) \/ Finalized(t)
         \/ Published(t) \/ Enter(t) \/ Withdrawn(t)
         \/ Configured(t) \/ HookEnds(t) \/ ScriptThreadEnds(t)
    BY <2>1
    DEF Continues, PythonEnds, ThreadStarts, ThreadEnds, ScriptThreadStarts,
        ReadRunning, ReadOwner, Reads, PublishOwner, PublishRunning,
        WithdrawRunning, WithdrawOwner
  <2> QED
    BY <2>3, <2>4, <2>5, <2>6, <2>7, <2>8, <2>9, <2>10, <2>11, <2>12
<1> QED  BY <1>1, <1>2

-----------------------------------------------------------------------------

(* When the owner of a running interpreter has ended, it took the GIL with *)
(* it for good.                                                            *)
OwnerGone ==
  /\ interpreter \in HostThreads /\ id[interpreter] = NoId
  /\ pc[interpreter] = "idle"
  /\ gil = interpreter

(* What it left in the fields, which only a thread with its id can match.  *)
IdLeft ==
  /\ running /\ ownerThread # NoId
  /\ \A t \in Threads : pc[t] \notin {"publishing", "withdrawing"}
  /\ \A t \in sawItself : pc[t] = "reading" /\ id[t] = ownerThread

(* What holds of a host that lets owners end, too. *)
AnyHost ==
  /\ TypeOK
  /\ (OwnerGone /\ IdLeft) \/ (Inv /\ HolderFits /\ OwnerHolds)

(* t goes on past the guard of its call, or has none to pass.              *)
GetsIn(t) == pc[t] \in {"idle", "reading"} /\ pc'[t] \notin {"idle", "reading"}

LEMMA OwnerStaysGone ==
  ASSUME TypeOK, OwnerGone, [Next]_vars
  PROVE  OwnerGone' /\ UNCHANGED <<interpreter, gil>>
<1>1. /\ interpreter # NoThread /\ interpreter \notin ScriptThreads
      /\ interpreter \in Threads
  BY ThreadsAssumption DEF OwnerGone, Threads
<1>2. CASE UNCHANGED vars
  BY <1>2 DEF vars, OwnerGone
<1>3. CASE Next
  <2>1. PICK t \in Threads :
          \/ ThreadStarts(t)
          \/ ThreadEnds(t)
          \/ \E p \in ScriptThreads : ScriptThreadStarts(t, p)
          \/ \E o \in Operations : Begin(t, o)
          \/ Destroys(t)
          \/ Yields(t)
          \/ Takes(t)
          \/ Continues(t)
          \/ PythonEnds(t)
    BY <1>3 DEF Next
  <2>2. id \in [Threads -> Ids \cup {NoId}] /\ pc \in [Threads -> Points]
    BY DEF TypeOK
  <2> USE DEF OwnerGone, At, Alive
  <2>3. CASE ThreadStarts(t)
    BY <2>2, <2>3 DEF ThreadStarts, Lives
  <2>4. CASE ThreadEnds(t)
    BY <2>2, <2>4 DEF ThreadEnds
  <2>5. CASE (\E o \in Operations : Begin(t, o)) \/ Destroys(t)
    BY <1>1, <2>2, <2>5 DEF Begin, Destroys, Goto
  <2>6. CASE \/ \E p \in ScriptThreads : ScriptThreadStarts(t, p)
             \/ Yields(t) \/ Takes(t) \/ PythonEnds(t)
    BY <1>1, <2>6
    DEF ScriptThreadStarts, Yields, Takes, InPython, PythonEnds, Configured,
        HookEnds, Finalized, ScriptThreadEnds
  <2>7. CASE \/ Refused(t) \/ Accepted(t) \/ InitializeFails(t)
             \/ Published(t) \/ Enter(t) \/ Withdrawn(t)
    BY <1>1, <2>2, <2>7
    DEF Refused, Accepted, InitializeFails, Published, Enter, Withdrawn,
        Decides, Leaves, Goto
  <2>8. CASE StartInterpreter(t)
    BY <1>1, <2>8 DEF StartInterpreter
  <2>9. CASE \/ ReadRunning(t) \/ ReadOwner(t)
             \/ PublishOwner(t) \/ PublishRunning(t)
             \/ WithdrawRunning(t) \/ WithdrawOwner(t)
    BY <2>9
    DEF ReadRunning, ReadOwner, Reads, PublishOwner, PublishRunning,
        WithdrawRunning, WithdrawOwner
  <2> QED
    BY <2>1, <2>3, <2>4, <2>5, <2>6, <2>7, <2>8, <2>9 DEF Continues
<1> QED  BY <1>2, <1>3

LEMMA IdStaysLeft ==
  ASSUME TypeOK, OwnerGone, IdLeft, [Next]_vars
  PROVE  /\ IdLeft'
         /\ UNCHANGED <<running, ownerThread>>
         /\ \A t \in Threads :
              GetsIn(t) => op'[t] = "destroy" \/ id[t] = ownerThread
<1>1. interpreter # NoThread /\ interpreter \notin ScriptThreads
  BY ThreadsAssumption DEF OwnerGone, Threads
<1>2. CASE UNCHANGED vars
  BY <1>2 DEF vars, fields, guards, IdLeft, GetsIn
<1>3. CASE Next
  <2>1. PICK t \in Threads :
          \/ ThreadStarts(t)
          \/ ThreadEnds(t)
          \/ \E p \in ScriptThreads : ScriptThreadStarts(t, p)
          \/ \E o \in Operations : Begin(t, o)
          \/ Destroys(t)
          \/ Yields(t)
          \/ Takes(t)
          \/ Continues(t)
          \/ PythonEnds(t)
    BY <1>3 DEF Next
  <2>2. /\ id \in [Threads -> Ids \cup {NoId}] /\ pc \in [Threads -> Points]
        /\ op \in [Threads -> Operations \cup {Outside}]
        /\ sawItself \subseteq Threads
    BY DEF TypeOK
  <2> USE DEF IdLeft, GetsIn, At, Alive
  <2>3. CASE ThreadStarts(t) \/ ThreadEnds(t)
    <3>1. UNCHANGED <<running, ownerThread, pc, sawItself>>
      BY <2>3 DEF ThreadStarts, ThreadEnds, fields, guards
    <3>2. \A u \in sawItself : id'[u] = id[u]
      <4>1. id[t] = NoId \/ pc[t] = "idle"
        BY <2>3 DEF ThreadStarts, ThreadEnds, Lives
      <4>2. \A u \in Threads \ {t} : id'[u] = id[u]
        BY <2>2, <2>3 DEF ThreadStarts, ThreadEnds, Lives
      <4> QED  BY <2>2, <4>1, <4>2
    <3> QED  BY <3>1, <3>2
  <2>4. CASE \E o \in Operations : Begin(t, o)
    <3>1. UNCHANGED <<id, running, ownerThread, sawItself>>
      BY <2>4 DEF Begin, fields
    <3>2. pc[t] = "idle" /\ pc' = [pc EXCEPT ![t] = "reading"]
      BY <2>4 DEF Begin, Goto
    <3> QED  BY <2>2, <3>1, <3>2
  <2>5. CASE Destroys(t)
    <3>1. UNCHANGED <<id, running, ownerThread, sawItself>>
      BY <2>5 DEF Destroys, guards
    <3>2. /\ pc[t] = "idle" /\ pc' = [pc EXCEPT ![t] = "finalizing"]
          /\ op' = [op EXCEPT ![t] = "destroy"]
      BY <1>1, <2>5 DEF Destroys, Goto
    <3> QED  BY <2>2, <3>1, <3>2
  <2>6. CASE \/ \E p \in ScriptThreads : ScriptThreadStarts(t, p)
             \/ Yields(t) \/ Takes(t) \/ PythonEnds(t) \/ Enter(t)
    BY <1>1, <2>6
    DEF ScriptThreadStarts, Yields, Takes, InPython, PythonEnds, Configured,
        HookEnds, Finalized, ScriptThreadEnds, Enter, OwnerGone
  <2>7. CASE Refused(t) \/ InitializeFails(t)
    <3>1. /\ UNCHANGED <<id, running, ownerThread>>
          /\ sawItself' = sawItself \ {t}
          /\ pc' = [pc EXCEPT ![t] = "idle"]
      BY <2>7 DEF Refused, InitializeFails, Decides, Leaves, Goto, fields
    <3> QED  BY <2>2, <3>1
  <2>8. CASE Accepted(t)
    <3>1. /\ UNCHANGED <<id, running, ownerThread>>
          /\ sawItself' = sawItself \ {t} /\ t \in sawItself
          /\ \E point \in {"entering", "finalizing"} :
               pc' = [pc EXCEPT ![t] = point]
      BY <2>8 DEF Accepted, Decides, Goto, fields
    <3> QED  BY <2>2, <3>1
  <2>9. CASE ReadRunning(t)
    BY <2>9 DEF ReadRunning, Reads, fields
  <2>10. CASE ReadOwner(t)
    BY <2>10 DEF ReadOwner, Reads, OwnsInterpreter, fields
  <2>11. CASE \/ StartInterpreter(t)
              \/ PublishOwner(t) \/ PublishRunning(t) \/ Published(t)
              \/ WithdrawRunning(t) \/ WithdrawOwner(t) \/ Withdrawn(t)
    BY <1>1, <2>11
    DEF StartInterpreter, PublishOwner, PublishRunning, Published,
        WithdrawRunning, WithdrawOwner, Withdrawn
  <2> QED
    BY <2>1, <2>3, <2>4, <2>5, <2>6, <2>7, <2>8, <2>9, <2>10, <2>11
    DEF Continues
<1> QED  BY <1>2, <1>3

(* An owner that ends leaves its id in ownerThread. *)
LEMMA OwnerGoes ==
  ASSUME Inv, OwnerHolds, ThreadEnds(interpreter), interpreter \in Threads
  PROVE  OwnerGone' /\ IdLeft' /\ ownerThread' = id[interpreter]
<1>1. interpreter # NoThread /\ pc[interpreter] = "idle"
  BY ThreadsAssumption DEF ThreadEnds, At, Threads
<1>2. OwnerGone'
  BY ThreadsAssumption
  DEF Inv, TypeOK, LivesRight, OwnerHolds, OwnerGone, ThreadEnds, At
<1>3. running /\ ownerThread = id[interpreter] /\ ownerThread # NoId
  BY <1>1 DEF Inv, OwnerField, RunningField, LivesRight
<1>4. /\ \A t \in Threads : pc[t] \notin {"publishing", "withdrawing"}
      /\ sawItself = {}
  BY <1>1 DEF Inv, OwnerInside, GuardsKnow
<1>5. UNCHANGED <<running, ownerThread, pc, sawItself>>
  BY DEF ThreadEnds, fields, guards
<1> QED  BY <1>2, <1>3, <1>4, <1>5 DEF IdLeft

(* Only the end of its thread takes an owner's id away. *)
LEMMA OnlyEndingKills ==
  ASSUME Inv, Next, interpreter # NoThread, id'[interpreter] = NoId
  PROVE  ThreadEnds(interpreter)
<1>1. /\ interpreter \in HostThreads /\ interpreter \in Threads
      /\ interpreter \notin ScriptThreads
      /\ id[interpreter] # NoId
      /\ id \in [Threads -> Ids \cup {NoId}]
  BY ThreadsAssumption DEF Inv, LivesRight, TypeOK, Threads
<1>2. PICK t \in Threads :
        \/ ThreadStarts(t)
        \/ ThreadEnds(t)
        \/ \E p \in ScriptThreads : ScriptThreadStarts(t, p)
        \/ \E o \in Operations : Begin(t, o)
        \/ Destroys(t)
        \/ Yields(t)
        \/ Takes(t)
        \/ Continues(t)
        \/ PythonEnds(t)
  BY DEF Next
<1>3. ~UNCHANGED id
  BY <1>1
<1>4. CASE ThreadStarts(t) \/ ThreadEnds(t) \/ ScriptThreadEnds(t)
  BY <1>1, <1>4 DEF ThreadStarts, ThreadEnds, ScriptThreadEnds, Lives, Alive
<1>5. CASE \E p \in ScriptThreads : ScriptThreadStarts(t, p)
  BY <1>1, <1>5 DEF ScriptThreadStarts, Lives, Alive
<1>6. ~(\/ \E o \in Operations : Begin(t, o)
        \/ Destroys(t) \/ Yields(t) \/ Takes(t) \/ Continues(t)
        \/ Configured(t) \/ HookEnds(t) \/ Finalized(t))
  BY <1>3
  DEF Begin, Destroys, Yields, Takes, Continues, ReadRunning, ReadOwner,
      Reads, Refused, Accepted, InitializeFails, StartInterpreter,
      PublishOwner, PublishRunning, Published, Enter, WithdrawRunning,
      WithdrawOwner, Withdrawn, Configured, HookEnds, Finalized
<1> QED  BY <1>2, <1>4, <1>5, <1>6 DEF PythonEnds

LEMMA AnyHostAlways == Spec => []AnyHost
<1>1. Init => AnyHost
  BY InitTypeOK, InitInv DEF Init, AnyHost, HolderFits, OwnerHolds
<1>2. AnyHost /\ [Next]_vars => AnyHost'
  <2> SUFFICES ASSUME AnyHost, [Next]_vars PROVE AnyHost'
    OBVIOUS
  <2>1. TypeOK'
    BY StepTypeOK DEF AnyHost
  <2>2. CASE OwnerGone /\ IdLeft
    BY <2>1, <2>2, OwnerStaysGone, IdStaysLeft DEF AnyHost
  <2>3. CASE Inv /\ HolderFits /\ OwnerHolds /\ ThreadEnds(interpreter)
    BY <2>1, <2>3, OwnerGoes DEF AnyHost, ThreadEnds, Threads
  <2>4. CASE Inv /\ HolderFits /\ OwnerHolds /\ ~ThreadEnds(interpreter)
    BY <2>1, <2>4, StepInv, StepHolder, StepOwnerHolds DEF AnyHost
  <2> QED  BY <2>2, <2>3, <2>4 DEF AnyHost
<1> QED  BY <1>1, <1>2, PTL DEF Spec

(* The GIL is free, or held where it is given up again: by the owner, or,  *)
(* while the owner is in Python, by a living thread of a script of its     *)
(* interpreter.                                                            *)
THEOREM NobodyElseHoldsTheGil ==
  OwnersStay /\ Spec => []GilHeldByOwnerOrScripts
<1>1. AnyHost => GilHeldByOwnerOrScripts
  BY GilParts DEF AnyHost, OwnerGone, GilHeldByOwnerOrScripts
<1> QED  BY AnyHostAlways, <1>1, PTL

(* An owner that ends leaves its id behind, and from then on no call on    *)
(* another thread stops the runtime or changes the interpreter, the GIL or *)
(* the fields; all are refused but the two kinds the header cannot see:    *)
(* the destructor, and calls on a thread that has got the id of the dead   *)
(* owner (shutdown, ownsInterpreter, stop).  What these do in stop() is    *)
(* undefined, and the theorem says nothing of a thread that is there.      *)
THEOREM NobodyElseStopsIt ==
  Spec => [][/\ /\ interpreter # NoThread /\ Alive(interpreter)
                /\ id'[interpreter] = NoId
                => ownerThread' = id[interpreter]
             /\ /\ interpreter # NoThread /\ ~Alive(interpreter)
                /\ \A t \in Threads : ~At(t, "finalizing")
                => /\ UNCHANGED <<interpreter, gil, running, ownerThread>>
                   /\ \A t \in Threads :
                        GetsIn(t) => op'[t] = "destroy" \/ id[t] = ownerThread
            ]_vars
<1> DEFINE LeavesItsId ==
             /\ interpreter # NoThread /\ Alive(interpreter)
             /\ id'[interpreter] = NoId
             => ownerThread' = id[interpreter]
           StaysAlone ==
             /\ interpreter # NoThread /\ ~Alive(interpreter)
             /\ \A t \in Threads : ~At(t, "finalizing")
             => /\ UNCHANGED <<interpreter, gil, running, ownerThread>>
                /\ \A t \in Threads :
                     GetsIn(t) => op'[t] = "destroy" \/ id[t] = ownerThread
<1>1. AnyHost /\ [Next]_vars => [LeavesItsId /\ StaysAlone]_vars
  <2> SUFFICES ASSUME AnyHost, Next PROVE LeavesItsId /\ StaysAlone
    OBVIOUS
  <2>1. CASE OwnerGone /\ IdLeft
    BY <2>1, OwnerStaysGone, IdStaysLeft DEF AnyHost, OwnerGone, Alive
  <2>2. CASE Inv /\ HolderFits /\ OwnerHolds
    <3>1. StaysAlone
      BY <2>2 DEF Inv, LivesRight, Alive
    <3>2. LeavesItsId
      <4> SUFFICES ASSUME interpreter # NoThread, Alive(interpreter),
                          id'[interpreter] = NoId
                   PROVE  ownerThread' = id[interpreter]
        OBVIOUS
      <4>1. ThreadEnds(interpreter)
        BY <2>2, OnlyEndingKills
      <4> QED  BY <2>2, <4>1, OwnerGoes DEF ThreadEnds, Threads
    <3> QED  BY <3>1, <3>2
  <2> QED  BY <2>1, <2>2 DEF AnyHost
<1> QED  BY AnyHostAlways, <1>1, PTL DEF Spec

(* No interleaving makes a guard refuse the owner. *)
THEOREM OwnerPasses == OwnersStay /\ Spec => OwnerIsNotRefused
<1> DEFINE Passes ==
      \A t \in Threads :
        t = interpreter /\ At(t, "reading") /\ op[t] # "initialize"
          => pc'[t] # "idle"
<1>1. AnyHost /\ [Next]_vars => [Passes]_vars
  <2> SUFFICES ASSUME AnyHost, Next, NEW u \in Threads, u = interpreter,
                      At(u, "reading"), op[u] # "initialize"
               PROVE  pc'[u] # "idle"
    OBVIOUS
  <2> Inv
    BY DEF AnyHost, OwnerGone, At
  <2>1. pc \in [Threads -> Points]
    BY DEF Inv, TypeOK
  <2>2. ~(Refused(u) \/ InitializeFails(u))
    BY DEF Inv, GuardsKnow, Refused, InitializeFails, Decides, At
  <2>3. PICK t \in Threads :
          \/ ThreadStarts(t)
          \/ ThreadEnds(t)
          \/ \E p \in ScriptThreads : ScriptThreadStarts(t, p)
          \/ \E o \in Operations : Begin(t, o)
          \/ Destroys(t)
          \/ Yields(t)
          \/ Takes(t)
          \/ Continues(t)
          \/ PythonEnds(t)
    BY DEF Next
  <2>4. CASE t # u
    <3>1. UNCHANGED pc \/ \E point \in Points : pc' = [pc EXCEPT ![t] = point]
      BY <2>3
      DEF Points, Continues, PythonEnds, ThreadStarts, ThreadEnds,
          ScriptThreadStarts, Begin, Destroys, Yields, Takes, Reads, ReadRunning,
          ReadOwner, Refused, Accepted, InitializeFails, StartInterpreter,
          PublishOwner, PublishRunning, Published, Enter, WithdrawRunning,
          WithdrawOwner, Withdrawn, Configured, HookEnds, Finalized,
          ScriptThreadEnds, Leaves, Goto
    <3> QED  BY <2>1, <2>4, <3>1 DEF At
  <2>5. CASE t = u
    BY <2>1, <2>2, <2>3, <2>5
    DEF Continues, PythonEnds, ThreadStarts, ThreadEnds, ScriptThreadStarts,
        Begin, Destroys, Yields, Takes, Reads, ReadRunning, ReadOwner, Accepted,
        StartInterpreter, PublishOwner, PublishRunning, Published, Enter,
        WithdrawRunning, WithdrawOwner, Withdrawn, Configured, HookEnds,
        Finalized, ScriptThreadEnds, Goto, At
  <2> QED  BY <2>4, <2>5
<1> QED  BY AnyHostAlways, <1>1, PTL DEF Spec, OwnerIsNotRefused

-----------------------------------------------------------------------------

LEMMA GuardInit == Init => Guard!Init
BY DEF Init, Guard!Init, Place

LEMMA PlacesStay ==
  ASSUME \A u \in Threads : Place(u)' = Place(u), UNCHANGED interpreter
  PROVE  UNCHANGED Guard!vars
BY DEF Guard!vars

(* When only t goes on, only t changes its place. *)
LEMMA OneMoves ==
  ASSUME Inv, NEW t \in Threads, NEW point \in Points,
         NEW o \in Operations \cup {Outside},
         Goto(t, point), op' = [op EXCEPT ![t] = o],
         NEW from, NEW to, Place(t) = from, Place(t)' = to
  PROVE  Guard!Moves(t, from, to)
<1>1. pc \in [Threads -> Points] /\ op \in [Threads -> Operations \cup {Outside}]
  BY DEF Inv, TypeOK
<1>2. \A u \in Threads \ {t} : pc'[u] = pc[u] /\ op'[u] = op[u]
  BY <1>1 DEF Goto
<1>3. \A u \in Threads \ {t} : Place(u)' = Place(u)
  BY <1>2 DEF Place
<1> QED  BY <1>3 DEF Guard!Moves

(* What each point of a call is there. *)
LEMMA PlaceOf ==
  ASSUME NEW t \in Threads
  PROVE  /\ pc[t] = "idle" => Place(t) = "outside"
         /\ pc[t] = "reading" /\ op[t] = "initialize" => Place(t) = "starting"
         /\ pc[t] = "reading" /\ op[t] # "initialize" => Place(t) = "entering"
         /\ pc[t] \notin {"idle", "reading"} => Place(t) = "inside"
BY DEF Place

LEMMA GuardStep ==
  ASSUME Inv, [Next]_vars
  PROVE  [Guard!Next]_(Guard!vars)
<1>1. CASE UNCHANGED vars
  BY <1>1, PlacesStay DEF vars, Place
<1>2. CASE Next
  <2>1. PICK t \in Threads :
          \/ ThreadStarts(t)
          \/ ThreadEnds(t)
          \/ \E p \in ScriptThreads : ScriptThreadStarts(t, p)
          \/ \E o \in Operations : Begin(t, o)
          \/ Destroys(t)
          \/ Yields(t)
          \/ Takes(t)
          \/ Continues(t)
          \/ PythonEnds(t)
    BY <1>2 DEF Next
  <2>2. pc \in [Threads -> Points] /\ op \in [Threads -> Operations \cup {Outside}]
    BY DEF Inv, TypeOK
  <2>3. CASE UNCHANGED <<interpreter, op, pc>>
    BY <2>3, PlacesStay DEF Place
  <2>4. CASE \E o \in Operations : Begin(t, o)
    <3>1. PICK o \in Operations : Begin(t, o)
      BY <2>4
    <3>2. Guard!Asks(t)
      <4>1. Place(t) = "outside" /\ Goto(t, "reading")
        BY <3>1, PlaceOf DEF Begin, At
      <4>2. Place(t)' \in {"starting", "entering"}
        BY <2>2, <3>1 DEF Begin, Goto, Place
      <4>3. Guard!Moves(t, "outside", Place(t)')
        BY <3>1, <4>1, OneMoves DEF Begin, Points
      <4> QED  BY <3>1, <4>2, <4>3 DEF Guard!Asks, Begin
    <3> QED  BY <3>2 DEF Guard!Next
  <2>13. CASE Destroys(t)
    <3>1. interpreter \in {t, NoThread}
      BY <2>13 DEF Inv, LivesRight, Destroys, Alive
    <3>2. Place(t) = "outside" /\ Place(t)' = "inside"
      BY <2>2, <2>13, PlaceOf DEF Destroys, At, Goto, Place
    <3>3. Guard!Moves(t, "outside", "inside")
      BY <2>13, <3>2, OneMoves DEF Destroys, Points, Operations
    <3> QED
      BY <2>13, <3>1, <3>3 DEF Destroys, Guard!Destroys, Guard!Next
  <2>5. CASE Refused(t)
    <3>1. Place(t) = "entering" /\ Place(t)' = "outside"
      BY <2>2, <2>5 DEF Refused, Decides, At, Leaves, Goto, Place
    <3>2. Guard!Moves(t, "entering", "outside")
      BY <2>5, <3>1, OneMoves DEF Refused, Leaves, Points
    <3>3. t # interpreter
      BY <2>5 DEF Inv, GuardsKnow, Refused, Decides, At
    <3> QED
      BY <2>5, <3>2, <3>3 DEF Refused, Guard!TurnedAway, Guard!Next
  <2>6. CASE Accepted(t)
    <3>1. Place(t) = "entering" /\ Place(t)' = "inside"
      BY <2>2, <2>6 DEF Accepted, Decides, At, Goto, Place
    <3>2. Guard!Moves(t, "entering", "inside")
      <4>1. op' = [op EXCEPT ![t] = op[t]] /\ op[t] \in Operations \cup {Outside}
        BY <2>2, <2>6 DEF Accepted
      <4>2. \E point \in Points : Goto(t, point)
        BY <2>6 DEF Accepted, Points
      <4> QED  BY <3>1, <4>1, <4>2, OneMoves
    <3>3. t = interpreter
      BY <2>6 DEF Inv, GuardsKnow, Accepted
    <3> QED
      BY <2>6, <3>2, <3>3 DEF Accepted, Guard!Admitted, Guard!Next
  <2>7. CASE InitializeFails(t)
    <3>1. Place(t) = "starting" /\ Place(t)' = "outside"
      BY <2>2, <2>7 DEF InitializeFails, Decides, At, Leaves, Goto, Place
    <3>2. Guard!Moves(t, "starting", "outside")
      BY <2>7, <3>1, OneMoves DEF InitializeFails, Leaves, Points
    <3> QED
      BY <2>7, <3>2 DEF InitializeFails, Guard!DoesNotStart, Guard!Next
  <2>8. CASE StartInterpreter(t)
    <3>1. Place(t) = "starting" /\ Place(t)' = "inside"
      BY <2>2, <2>8 DEF StartInterpreter, Decides, At, Goto, Place
    <3>2. Guard!Moves(t, "starting", "inside")
      <4>1. op' = [op EXCEPT ![t] = op[t]] /\ op[t] \in Operations \cup {Outside}
        BY <2>2, <2>8 DEF StartInterpreter
      <4> QED  BY <2>8, <3>1, <4>1, OneMoves DEF StartInterpreter, Points
    <3>3. \A u \in Threads : Place(u) # "inside"
      <4> SUFFICES ASSUME NEW u \in Threads, Place(u) = "inside" PROVE FALSE
        OBVIOUS
      <4>1. interpreter = NoThread /\ ChangesState(t)
        BY <2>8 DEF StartInterpreter, Decides, At, ChangesState
      <4>2. pc[u] = "withdrawing"
        BY <2>2, <4>1, PlaceOf, ThreadsAssumption DEF Inv, OwnerInside, Points
      <4>3. ChangesState(u)
        BY <4>2 DEF Inv, OpsFit, Operations, ChangesState, At
      <4>4. u = t
        BY <4>1, <4>3 DEF Inv, OneWriter
      <4> QED  BY <2>8, <4>2, <4>4 DEF StartInterpreter, Decides, At
    <3> QED
      BY <2>8, <3>2, <3>3 DEF StartInterpreter, Guard!Starts, Guard!Next
  <2>9. CASE \/ Published(t) \/ Enter(t)
             \/ Configured(t) /\ Goto(t, "finalizing") /\ UNCHANGED op
    <3>1. Place(t) = "inside" /\ Place(t)' = "inside"
      BY <2>2, <2>9, PlaceOf DEF Published, Enter, Configured, At, Goto, Place
    <3>2. \A u \in Threads \ {t} : pc'[u] = pc[u]
      BY <2>2, <2>9 DEF Published, Enter, Goto
    <3>3. UNCHANGED <<op, interpreter>>
      BY <2>9 DEF Published, Enter, Configured
    <3>4. \A u \in Threads : Place(u)' = Place(u)
      BY <3>1, <3>2, <3>3 DEF Place
    <3> QED  BY <3>3, <3>4, PlacesStay
  <2>10. CASE \/ Configured(t) /\ Leaves(t)
              \/ HookEnds(t) \/ Withdrawn(t)
    <3>1. Place(t) = "inside" /\ Place(t)' = "outside"
      BY <2>2, <2>10, PlaceOf
      DEF Configured, HookEnds, Withdrawn, At, Leaves, Goto, Place
    <3>2. Guard!Moves(t, "inside", "outside")
      BY <2>10, <3>1, OneMoves DEF HookEnds, Withdrawn, Leaves, Points
    <3> QED
      BY <2>10, <3>2
      DEF Configured, HookEnds, Withdrawn, Guard!Goes, Guard!Next
  <2>11. CASE Finalized(t)
    <3>1. t = interpreter /\ Place(t) = "inside"
      BY <2>11, PlaceOf DEF Inv, OwnerInside, Finalized, At
    <3>2. \A u \in Threads : Place(u)' = Place(u)
      BY <2>2, <2>11, PlaceOf DEF Finalized, At, Goto, Place
    <3> QED
      BY <2>11, <3>1, <3>2 DEF Finalized, Guard!Stops, Guard!Next
  <2>12. \/ UNCHANGED <<interpreter, op, pc>>
         \/ \E o \in Operations : Begin(t, o)
         \/ Destroys(t)
         \/ Refused(t) \/ Accepted(t) \/ InitializeFails(t)
         \/ StartInterpreter(t)
         \/ Published(t) \/ Enter(t)
         \/ Configured(t) /\ Leaves(t)
         \/ Configured(t) /\ Goto(t, "finalizing") /\ UNCHANGED op
         \/ HookEnds(t) \/ Withdrawn(t) \/ Finalized(t)
    BY <2>1
    DEF Continues, PythonEnds, ThreadStarts, ThreadEnds, ScriptThreadStarts,
        Yields, Takes, ReadRunning, ReadOwner, Reads, PublishOwner,
        PublishRunning, WithdrawRunning, WithdrawOwner, ScriptThreadEnds,
        Configured
  <2> QED
    BY <2>3, <2>4, <2>5, <2>6, <2>7, <2>8, <2>9, <2>10, <2>11, <2>12, <2>13
<1> QED  BY <1>1, <1>2

(* For any number of threads, any order of the field accesses and ids that *)
(* come back, every call is let in or turned away as one look at the owner *)
(* would decide, and the interpreter changes hands only when it is free.   *)
THEOREM GuardsDecideAtOnce == OwnersStay /\ Spec => ImplementsOwnership
<1>1. Inv /\ [Next]_vars => [Guard!Next]_(Guard!vars)
  BY GuardStep
<1> QED
  BY InvAlways, GuardInit, <1>1, PTL DEF Spec, ImplementsOwnership, Guard!Spec

=============================================================================
