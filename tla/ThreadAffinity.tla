--------------------------- MODULE ThreadAffinity ---------------------------
(***************************************************************************)
(* Which thread gets into Python: the plain fields running and ownerThread *)
(* of one runtime, read and written without synchronization, the GIL, and  *)
(* the threads of the host and of its scripts (sources/ScriptRuntime.cpp:  *)
(* ownsInterpreter, validateModule, initialize, shutdown, stop and the     *)
(* destructor).                                                            *)
(*                                                                         *)
(* Each access to a field is a step.  Two accesses of one thread that      *)
(* nothing orders for the others, two reads of a guard or the two writes   *)
(* that publish or withdraw an owner, may come in either order.            *)
(* ScriptRuntime models what the calls do; here a call either is refused   *)
(* or gets the GIL.                                                        *)
(***************************************************************************)
EXTENDS Naturals

CONSTANTS
  HostThreads,     \* threads the host starts
  ScriptThreads,   \* threads a script starts (threading.Thread)
  NoThread,
  Ids, NoId,       \* values of std::thread::id; std::thread::id()
  OwnersStay       \* the host's rule: no thread ends that owns a running
                   \* interpreter

Threads == HostThreads \cup ScriptThreads

ASSUME ThreadsAssumption ==
  /\ NoThread \notin Threads
  /\ HostThreads \cap ScriptThreads = {}

ASSUME IdsAssumption == NoId \notin Ids

ASSUME OwnersStayAssumption == OwnersStay \in BOOLEAN

VARIABLES
  id,             \* per thread, its std::thread::id while it lives
  running,        \* Impl::running
  ownerThread,    \* Impl::ownerThread
  interpreter,    \* the thread that started the interpreter, if there is one
  gil,            \* the thread that holds the GIL
  op,             \* per thread, the runtime's function it is in
  pc,             \* per thread, how far it got
  unread,         \* per thread, the fields its guard has yet to read
  sawRunning,     \* threads whose guard read running as true
  sawItself,      \* threads whose guard read their own id in ownerThread
  unwritten       \* fields still to be published or withdrawn

fields == <<running, ownerThread, unwritten>>
guards == <<unread, sawRunning, sawItself>>
vars   == <<id, fields, interpreter, gil, op, pc, guards>>

(* "call" stands for every function guarded like it: call(), loadModule(), *)
(* addSearchPath() on a running interpreter, hasFunction() and the rest.   *)
(* addSearchPath() looks at running once more before it asks for the GIL;  *)
(* a host that serializes it with the calls that write running, as the     *)
(* header asks, has it find there what its guard found.                    *)
Operations == {"call", "initialize", "shutdown", "destroy"}

Outside == "none"

Points ==
  {"idle", "reading", "publishing", "configuring", "entering", "inside",
   "finalizing", "withdrawing"}

Fields == {"running", "ownerThread"}

Init ==
  /\ id \in [Threads -> Ids \cup {NoId}]
  /\ \A t \in ScriptThreads : id[t] = NoId
  /\ \A t, u \in HostThreads : t # u /\ id[t] = id[u] => id[t] = NoId
  /\ running = FALSE /\ ownerThread = NoId /\ unwritten = {}
  /\ interpreter = NoThread /\ gil = NoThread
  /\ op = [t \in Threads |-> Outside]
  /\ pc = [t \in Threads |-> "idle"]
  /\ unread = [t \in Threads |-> {}]
  /\ sawRunning = {} /\ sawItself = {}

-----------------------------------------------------------------------------

Alive(t) == id[t] # NoId

At(t, point) == pc[t] = point

Goto(t, point) == pc' = [pc EXCEPT ![t] = point]

Leaves(t) == /\ Goto(t, "idle")
             /\ op' = [op EXCEPT ![t] = Outside]

(* A thread gets an id no living thread has; those of the dead come back. *)
Lives(t) ==
  /\ ~Alive(t)
  /\ \E i \in Ids : /\ \A u \in Threads : id[u] # i
                    /\ id' = [id EXCEPT ![t] = i]

(* The host starts a thread; one that died owning the GIL is gone for good. *)
ThreadStarts(t) ==
  /\ t \in HostThreads /\ t # interpreter
  /\ Lives(t)
  /\ UNCHANGED <<fields, interpreter, gil, op, pc, guards>>

ThreadEnds(t) ==
  /\ t \in HostThreads /\ Alive(t) /\ At(t, "idle")
  /\ OwnersStay => t # interpreter
  /\ id' = [id EXCEPT ![t] = NoId]
  /\ UNCHANGED <<fields, interpreter, gil, op, pc, guards>>

InPython_StopKeepsTheGil(t) ==
  \/ pc[t] \in {"configuring", "inside"}
  \/ t \in ScriptThreads /\ Alive(t) /\ At(t, "idle")

(* t executes Python code: a hook, a callback or exit handlers on the      *)
(* thread of a call, the target of a thread a script started.              *)
InPython(t) ==
  \/ pc[t] \in {"configuring", "inside", "finalizing"}
  \/ t \in ScriptThreads /\ Alive(t) /\ At(t, "idle")

ScriptThreadStarts(t, p) ==
  /\ pc[t] \in {"configuring", "inside"} /\ gil = t
  /\ p \in ScriptThreads
  /\ Lives(p)
  /\ UNCHANGED <<fields, interpreter, gil, op, pc, guards>>

ScriptThreadEnds(p) ==
  /\ p \in ScriptThreads /\ Alive(p) /\ At(p, "idle") /\ gil = p
  /\ id' = [id EXCEPT ![p] = NoId]
  /\ gil' = NoThread
  /\ UNCHANGED <<fields, interpreter, op, pc, guards>>

(* Python code gives the GIL up when it blocks or has run for a while.     *)
Yields(t) ==
  /\ InPython(t) /\ gil = t
  /\ gil' = NoThread
  /\ UNCHANGED <<id, fields, interpreter, op, pc, guards>>

(* Waiting for the GIL: to go on, or in gil_scoped_acquire. *)
Takes(t) ==
  /\ InPython(t) \/ At(t, "entering")
  /\ gil = NoThread
  /\ gil' = t
  /\ UNCHANGED <<id, fields, interpreter, op, pc, guards>>

-----------------------------------------------------------------------------

(* The calls that write the fields: the host serializes them, as the       *)
(* header asks.  A shutdown() on another thread than the owner's writes    *)
(* nothing.                                                                *)
ChangesState(t) ==
  /\ pc[t] # "idle"
  /\ \/ op[t] \in {"initialize", "destroy"}
     \/ op[t] = "shutdown" /\ (t = interpreter \/ At(t, "withdrawing"))

(* No thread of the host calls a runtime that is being destroyed.          *)
Begin(t, o) ==
  /\ Alive(t) /\ At(t, "idle")
  /\ o # "destroy"
  /\ t \in ScriptThreads => gil = t
  /\ t \in HostThreads => \A u \in Threads : op[u] # "destroy"
  /\ o = "initialize" \/ (o = "shutdown" /\ t = interpreter) =>
       \A u \in Threads : ~ChangesState(u)
  /\ op' = [op EXCEPT ![t] = o]
  /\ Goto(t, "reading")
  /\ unread' = [unread EXCEPT ![t] =
                  IF o = "initialize" THEN {"running"} ELSE Fields]
  /\ UNCHANGED <<id, fields, interpreter, gil, sawRunning, sawItself>>

(* ~ScriptRuntime(), which goes to stop() without a guard; the host makes  *)
(* a new runtime of it.  Its thread is the last in the runtime and, as the *)
(* header asks, the owner where that lives; where it has ended no thread   *)
(* can keep that rule.                                                     *)
Destroys(t) ==
  /\ t \in HostThreads /\ Alive(t)
  /\ \A u \in HostThreads : At(u, "idle")
  /\ \A u \in Threads : ~ChangesState(u)
  /\ interpreter # NoThread /\ Alive(interpreter) => t = interpreter
  /\ op' = [op EXCEPT ![t] = "destroy"]
  /\ IF interpreter = NoThread
     THEN unwritten' = Fields /\ Goto(t, "withdrawing")
     ELSE UNCHANGED unwritten /\ Goto(t, "finalizing")
  /\ UNCHANGED <<id, running, ownerThread, interpreter, gil, guards>>

Reads(t, field) ==
  /\ At(t, "reading") /\ field \in unread[t]
  /\ unread' = [unread EXCEPT ![t] = @ \ {field}]
  /\ UNCHANGED <<id, fields, interpreter, gil, op, pc>>

ReadRunning(t) ==
  /\ Reads(t, "running")
  /\ sawRunning' = IF running THEN sawRunning \cup {t} ELSE sawRunning
  /\ UNCHANGED sawItself

OwnsInterpreter_NotChecked(t) == TRUE

(* std::this_thread::get_id() == ownerThread *)
OwnsInterpreter(t) == id[t] = ownerThread

ReadOwner(t) ==
  /\ Reads(t, "ownerThread")
  /\ sawItself' = IF OwnsInterpreter(t) THEN sawItself \cup {t} ELSE sawItself
  /\ UNCHANGED sawRunning

(* The guard is through, and what it read is forgotten. *)
Decides(t) ==
  /\ At(t, "reading") /\ unread[t] = {}
  /\ sawRunning' = sawRunning \ {t} /\ sawItself' = sawItself \ {t}
  /\ UNCHANGED unread

(* NotInitialized or WrongThread. *)
Refused(t) ==
  /\ Decides(t)
  /\ op[t] # "initialize"
  /\ t \notin sawRunning \/ t \notin sawItself
  /\ Leaves(t)
  /\ UNCHANGED <<id, fields, interpreter, gil>>

(* The guard let the call pass. *)
Accepted(t) ==
  /\ Decides(t)
  /\ op[t] # "initialize"
  /\ t \in sawRunning /\ t \in sawItself
  /\ Goto(t, IF op[t] = "call" THEN "entering" ELSE "finalizing")
  /\ UNCHANGED <<id, fields, interpreter, gil, op>>

(* AlreadyInitialized, InterpreterFailure, or Python did not start. *)
InitializeFails(t) ==
  /\ Decides(t)
  /\ op[t] = "initialize"
  /\ Leaves(t)
  /\ UNCHANGED <<id, fields, interpreter, gil>>

(* The interpreter leaves its GIL with the thread that starts it. *)
StartInterpreter(t) ==
  /\ Decides(t)
  /\ op[t] = "initialize"
  /\ t \notin sawRunning /\ interpreter = NoThread
  /\ interpreter' = t /\ gil' = t
  /\ unwritten' = Fields
  /\ Goto(t, "publishing")
  /\ UNCHANGED <<id, running, ownerThread, op>>

PublishOwner_Creator(t) ==
  /\ At(t, "publishing") /\ "ownerThread" \in unwritten
  /\ \E u \in HostThreads : Alive(u) /\ ownerThread' = id[u]
  /\ unwritten' = unwritten \ {"ownerThread"}
  /\ UNCHANGED <<id, running, interpreter, gil, op, pc, guards>>

(* initialize() names the owner ... *)
PublishOwner(t) ==
  /\ At(t, "publishing") /\ "ownerThread" \in unwritten
  /\ ownerThread' = id[t]
  /\ unwritten' = unwritten \ {"ownerThread"}
  /\ UNCHANGED <<id, running, interpreter, gil, op, pc, guards>>

(* ... and lets calls in. *)
PublishRunning(t) ==
  /\ At(t, "publishing") /\ "running" \in unwritten
  /\ running' = TRUE
  /\ unwritten' = unwritten \ {"running"}
  /\ UNCHANGED <<id, ownerThread, interpreter, gil, op, pc, guards>>

Published(t) ==
  /\ At(t, "publishing") /\ unwritten = {}
  /\ Goto(t, "configuring")
  /\ UNCHANGED <<id, fields, interpreter, gil, op, guards>>

(* Paths and bindings are applied, or one fails and stop() follows. *)
Configured(t) ==
  /\ At(t, "configuring") /\ gil = t
  /\ Leaves(t) \/ (Goto(t, "finalizing") /\ UNCHANGED op)
  /\ UNCHANGED <<id, fields, interpreter, gil, guards>>

(* gil_scoped_acquire is through. *)
Enter(t) ==
  /\ At(t, "entering") /\ gil = t
  /\ Goto(t, "inside")
  /\ UNCHANGED <<id, fields, interpreter, gil, op, guards>>

HookEnds_LetsGo(t) ==
  /\ At(t, "inside") /\ gil = t
  /\ gil' = NoThread
  /\ Leaves(t)
  /\ UNCHANGED <<id, fields, interpreter, guards>>

(* The call returns: the owner keeps the GIL, anyone else lets go of it.   *)
HookEnds(t) ==
  /\ At(t, "inside") /\ gil = t
  /\ gil' = IF t = interpreter THEN t ELSE NoThread
  /\ Leaves(t)
  /\ UNCHANGED <<id, fields, interpreter, guards>>

(* stop(): Python waits for the threads its scripts started.  stop() asks  *)
(* for no GIL: what it does on a thread that passes for an owner that has  *)
(* ended, or destroys what such an owner left, is undefined, and the model *)
(* follows that thread no further.                                         *)
Finalized(t) ==
  /\ At(t, "finalizing") /\ gil = t
  /\ \A p \in ScriptThreads : ~Alive(p)
  /\ interpreter' = NoThread /\ gil' = NoThread
  /\ unwritten' = Fields
  /\ Goto(t, "withdrawing")
  /\ UNCHANGED <<id, running, ownerThread, op, guards>>

WithdrawRunning(t) ==
  /\ At(t, "withdrawing") /\ "running" \in unwritten
  /\ running' = FALSE
  /\ unwritten' = unwritten \ {"running"}
  /\ UNCHANGED <<id, ownerThread, interpreter, gil, op, pc, guards>>

WithdrawOwner_Kept(t) ==
  /\ At(t, "withdrawing") /\ "ownerThread" \in unwritten
  /\ unwritten' = unwritten \ {"ownerThread"}
  /\ UNCHANGED <<id, running, ownerThread, interpreter, gil, op, pc, guards>>

WithdrawOwner(t) ==
  /\ At(t, "withdrawing") /\ "ownerThread" \in unwritten
  /\ ownerThread' = NoId
  /\ unwritten' = unwritten \ {"ownerThread"}
  /\ UNCHANGED <<id, running, interpreter, gil, op, pc, guards>>

Withdrawn(t) ==
  /\ At(t, "withdrawing") /\ unwritten = {}
  /\ Leaves(t)
  /\ UNCHANGED <<id, fields, interpreter, gil, guards>>

-----------------------------------------------------------------------------

(* What the runtime's own code does next on a thread that is in it. *)
Continues(t) ==
  \/ ReadRunning(t) \/ ReadOwner(t)
  \/ Refused(t) \/ Accepted(t)
  \/ InitializeFails(t) \/ StartInterpreter(t)
  \/ PublishOwner(t) \/ PublishRunning(t) \/ Published(t)
  \/ Enter(t)
  \/ WithdrawRunning(t) \/ WithdrawOwner(t) \/ Withdrawn(t)

(* What Python code comes to once it has had the GIL for long enough. *)
PythonEnds(t) ==
  Configured(t) \/ HookEnds(t) \/ Finalized(t) \/ ScriptThreadEnds(t)

Next ==
  \E t \in Threads :
    \/ ThreadStarts(t)
    \/ ThreadEnds(t)
    \/ \E p \in ScriptThreads : ScriptThreadStarts(t, p)
    \/ \E o \in Operations : Begin(t, o)
    \/ Destroys(t)
    \/ Yields(t)
    \/ Takes(t)
    \/ Continues(t)
    \/ PythonEnds(t)

(* Threads that are in the runtime are scheduled; CPython passes the GIL   *)
(* on, to every thread that waits for it in the end; and the code of hooks *)
(* and script threads ends.                                                *)
Fairness ==
  \A t \in Threads :
    /\ WF_vars(Continues(t))
    /\ WF_vars(Yields(t))
    /\ SF_vars(Takes(t))
    /\ SF_vars(PythonEnds(t))

Spec == Init /\ [][Next]_vars /\ Fairness

-----------------------------------------------------------------------------

(* Fields, threads and the GIL have their types. *)
TypeOK ==
  /\ id \in [Threads -> Ids \cup {NoId}]
  /\ running \in BOOLEAN
  /\ ownerThread \in Ids \cup {NoId}
  /\ interpreter \in Threads \cup {NoThread}
  /\ gil \in Threads \cup {NoThread}
  /\ op \in [Threads -> Operations \cup {Outside}]
  /\ pc \in [Threads -> Points]
  /\ unread \in [Threads -> SUBSET Fields]
  /\ sawRunning \subseteq Threads
  /\ sawItself \subseteq Threads
  /\ unwritten \subseteq Fields

(* A call from any other thread than the one that started the interpreter  *)
(* is refused instead of blocking on the GIL, even one that reads the      *)
(* fields in the middle of initialize() or stop() (ownsInterpreter).  The  *)
(* destructor refuses nobody.                                              *)
OnlyTheOwnerEnters ==
  \A t \in Threads :
    pc[t] \in {"entering", "inside", "finalizing"} /\ op[t] # "destroy"
      => t = interpreter

(* Between the calls that write them, the fields name the thread that      *)
(* started the interpreter, or no thread when there is none: ownership     *)
(* follows each initialize(), also on another thread (initialize, stop).   *)
FieldsNameTheOwner ==
  (\A t \in Threads : pc[t] \notin {"publishing", "withdrawing"}) =>
    /\ running <=> interpreter # NoThread
    /\ ownerThread = IF interpreter = NoThread THEN NoId ELSE id[interpreter]

(* The owner itself is never refused, whatever other threads are doing     *)
(* (validateModule, shutdown).                                             *)
OwnerIsNotRefused ==
  [][\A t \in Threads :
       t = interpreter /\ At(t, "reading") /\ op[t] # "initialize"
         => pc'[t] # "idle"]_vars

(* The GIL is free, with the owner, or with a living thread of a script    *)
(* whose code comes to its end, and between its calls the owner has it:    *)
(* whoever waits for it waits for scripts only, never for another thread   *)
(* of the host or an interpreter that is gone, and scripts run only while  *)
(* the owner is in Python (ownsInterpreter, initialize, call, stop).       *)
GilHeldByOwnerOrScripts ==
  /\ \/ gil = NoThread
     \/ /\ interpreter # NoThread
        /\ \/ gil = interpreter
           \/ /\ gil \in ScriptThreads /\ Alive(gil)
              /\ pc[gil] \in {"idle", "reading"}
  /\ interpreter # NoThread /\ ~InPython(interpreter) => gil = interpreter

(* Where the runtime's functions put their threads: a guard that is being  *)
(* read has decided nothing yet.                                           *)
Place(t) ==
  CASE pc[t] = "idle" -> "outside"
    [] pc[t] = "reading" ->
         IF op[t] = "initialize" THEN "starting" ELSE "entering"
    [] OTHER -> "inside"

Guard ==
  INSTANCE Ownership
    WITH Nobody <- NoThread,
         owner  <- interpreter,
         place  <- [t \in Threads |-> Place(t)]

(* Reading and writing the fields one at a time, in any order, decides     *)
(* each call as one look at the owner would (ownsInterpreter, initialize,  *)
(* stop; the header's promises on threads).                                *)
ImplementsOwnership == Guard!Spec

(* No call waits forever: not for the GIL, which the owner keeps between   *)
(* calls, and not for threads that scripts started, as long as those end.  *)
EveryCallReturns ==
  \A t \in Threads : pc[t] # "idle" ~> pc[t] = "idle"

=============================================================================
