--------------------------- MODULE TracebackFrames ---------------------------
(***************************************************************************)
(* How the diagnostics of an Error are taken from a raised Python          *)
(* exception (sources/ScriptRuntime.cpp: fromPythonError, formatTraceback, *)
(* extractFrames, unicodeToUtf8; headers/mais/Error.hpp: Error::Frame).    *)
(*                                                                         *)
(* The text and the frames are two arguments of one constructor call, so   *)
(* either may come first.  Formatting runs Python code, which may change   *)
(* the chain of the traceback; the walk that copies the frames runs none.  *)
(***************************************************************************)
EXTENDS Integers, Sequences

CONSTANTS
  MaxFrames,     \* Error::maxFrames
  Names,         \* file and function names, as a pair that code carries
  NotUtf8,       \* those UTF-8 cannot carry
  NoName,        \* the empty string
  Lines,         \* line numbers Python may report, negative ones included
  Tracebacks     \* chains of entries an exception may carry

ASSUME MaxFramesAssumption == MaxFrames \in Nat \ {0}

ASSUME NamesAssumption == NotUtf8 \subseteq Names /\ NoName \notin Names

ASSUME LinesAssumption == Lines \subseteq Int

(* A traceback entry: tb_lineno, and of its frame's code object, unless    *)
(* there is none, its name and the line PyCode_Addr2Line finds.            *)
Entry ==
  [lineno : Lines, hasCode : {TRUE}, name : Names, located : Lines]
    \cup [lineno : Lines, hasCode : {FALSE}]

ASSUME TracebacksAssumption == Tracebacks \subseteq Seq(Entry)

(* Error::Frame. *)
Frame == [name : (Names \ NotUtf8) \cup {NoName}, line : Nat]

VARIABLES
  traceback,   \* the chain of entries, outermost first
  pending,     \* arguments of the Error that are still to be evaluated
  entry,       \* the entry the walk is at
  window,      \* the deque of the walk
  frames,      \* what extractFrames() returned
  hasText      \* whether formatTraceback() returned a text

vars == <<traceback, pending, entry, window, frames, hasText>>

Init ==
  /\ traceback = <<>>
  /\ pending = {}
  /\ entry = 1
  /\ window = <<>>
  /\ frames = <<>>
  /\ hasText = FALSE

-----------------------------------------------------------------------------

(* unicodeToUtf8() *)
UnicodeToUtf8(name) == IF name \in NotUtf8 THEN NoName ELSE name

FrameOf_TrustsTheLine(e) ==
  IF e.hasCode
    THEN [name |-> UnicodeToUtf8(e.name), line |-> e.lineno]
    ELSE [name |-> NoName, line |-> e.lineno]

(* One turn of the loop: a negative tb_lineno stands for a line that is    *)
(* still to be looked up in the code object.                               *)
FrameOf(e) ==
  LET line == IF e.hasCode /\ e.lineno < 0 THEN e.located ELSE e.lineno
  IN [name |-> IF e.hasCode THEN UnicodeToUtf8(e.name) ELSE NoName,
      line |-> IF line > 0 THEN line ELSE 0]

(* fromPythonError() is handed an exception; a traceback may be missing. *)
Raised(t) ==
  /\ pending = {}
  /\ traceback' = t
  /\ pending' = {"text", "frames"}
  /\ entry' = 1 /\ window' = <<>> /\ frames' = <<>> /\ hasText' = FALSE

(* formatTraceback(): no text without the traceback module or when         *)
(* formatting raises.  An exception's __str__ can cut the chain short.     *)
FormatTraceback ==
  /\ "text" \in pending
  /\ entry = 1 /\ window = <<>>
  /\ pending' = pending \ {"text"}
  /\ hasText' \in BOOLEAN
  /\ \E n \in 0..Len(traceback) : traceback' = SubSeq(traceback, 1, n)
  /\ UNCHANGED <<entry, window, frames>>

Walking == "frames" \in pending /\ entry =< Len(traceback)

CopyEntry_KeepsTheOutermost ==
  /\ Walking
  /\ window' = IF Len(window) < MaxFrames
                 THEN Append(window, FrameOf(traceback[entry]))
                 ELSE window
  /\ entry' = entry + 1
  /\ UNCHANGED <<traceback, pending, frames, hasText>>

CopyEntry_AdvancesPastCodeOnly ==
  /\ Walking
  /\ LET pushed == Append(window, FrameOf(traceback[entry]))
     IN window' = IF Len(pushed) > MaxFrames THEN Tail(pushed) ELSE pushed
  /\ entry' = IF traceback[entry].hasCode THEN entry + 1 ELSE entry
  /\ UNCHANGED <<traceback, pending, frames, hasText>>

(* push_back(), then pop_front() when the deque has grown too long. *)
CopyEntry ==
  /\ Walking
  /\ LET pushed == Append(window, FrameOf(traceback[entry]))
     IN window' = IF Len(pushed) > MaxFrames THEN Tail(pushed) ELSE pushed
  /\ entry' = entry + 1
  /\ UNCHANGED <<traceback, pending, frames, hasText>>

(* extractFrames() is done with the frames it returns. *)
Extracted(result) ==
  /\ frames' = result
  /\ pending' = pending \ {"frames"}
  /\ entry' = 1 /\ window' = <<>>
  /\ UNCHANGED <<traceback, hasText>>

WalkEnds == "frames" \in pending /\ entry > Len(traceback) /\ Extracted(window)

(* A copy throws, out of memory: frames are best-effort. *)
WalkThrows == Walking /\ Extracted(<<>>)

Next ==
  \/ \E t \in Tracebacks : Raised(t)
  \/ FormatTraceback
  \/ CopyEntry
  \/ WalkEnds
  \/ WalkThrows

(* The constructor's arguments are evaluated by the thread that reports. *)
Fairness ==
  WF_vars(FormatTraceback) /\ WF_vars(CopyEntry) /\ WF_vars(WalkEnds)

Spec == Init /\ [][Next]_vars /\ Fairness

-----------------------------------------------------------------------------

(* Names are UTF-8 and lines are unsigned; no Error has too many frames. *)
TypeOK ==
  /\ traceback \in Seq(Entry)
  /\ pending \subseteq {"text", "frames"}
  /\ entry \in Nat \ {0}
  /\ window \in Seq(Frame)
  /\ frames \in Seq(Frame)
  /\ hasText \in BOOLEAN

(* What a host may read off a frame: the line the tb_lineno getter of      *)
(* Python reports, or 0, and the name, or nothing.                         *)
Describes(frame, e) ==
  /\ \/ frame.line = e.lineno
     \/ e.lineno < 0 /\ e.hasCode /\ frame.line = e.located
     \/ frame.line = 0 /\ ~(e.lineno > 0)
                      /\ (e.lineno < 0 /\ e.hasCode => ~(e.located > 0))
  /\ frame.name # NoName => e.hasCode /\ frame.name = e.name
  /\ e.hasCode /\ e.name \notin NotUtf8 => frame.name = e.name

(* s holds the last MaxFrames of the first n entries, or all of them if    *)
(* there are fewer, in order.                                              *)
Innermost(s, n) ==
  /\ Len(s) = IF n < MaxFrames THEN n ELSE MaxFrames
  /\ \A i \in 1..Len(s) : Describes(s[i], traceback[n - Len(s) + i])

(* An Error shows the innermost frames of its exception's traceback, at    *)
(* most MaxFrames, outermost first, and the raise site last; or none, when *)
(* copying failed, but never a part of them (extractFrames).               *)
FramesAreInnermost ==
  [][/\ "frames" \in pending  /\ "frames" \notin pending' /\ frames' # <<>>
     => Innermost(frames, Len(traceback))']_vars

(* Turns of the walk and arguments of the Error that are still to come. *)
StepsLeft ==
  (IF "text" \in pending THEN 1 ELSE 0)
    + (IF "frames" \in pending THEN Len(traceback) + 2 - entry ELSE 0)

(* Every step towards an Error brings it nearer, whichever argument comes  *)
(* first and however formatting cuts the chain: neither the loop nor the   *)
(* formatting can go on for ever (extractFrames, formatTraceback).         *)
EachStepIsProgress ==
  [][pending # {} => StepsLeft' \in Nat /\ StepsLeft' < StepsLeft]_vars

(* Every exception is reported: neither the walk nor the formatting of the *)
(* traceback keeps the host waiting for its Error (fromPythonError).       *)
EveryErrorIsReported == pending # {} ~> pending = {}

=============================================================================
