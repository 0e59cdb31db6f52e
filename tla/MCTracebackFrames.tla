------------------------- MODULE MCTracebackFrames -------------------------
(***************************************************************************)
(* TracebackFrames with room for two frames and tracebacks of up to four   *)
(* entries, so that the deque is full, overflows and overflows again.      *)
(***************************************************************************)
EXTENDS TracebackFrames

MCNames == {"file", "surrogate"}

MCLines == {-1, 0, 3, 5}

Coded(lineno, name, located) ==
  [lineno |-> lineno, hasCode |-> TRUE, name |-> name, located |-> located]

(* A plain entry, one whose line Python looks up late, one whose line it   *)
(* cannot find, and one without a code object.                             *)
MCEntries ==
  {Coded(3, "file", 0), Coded(-1, "surrogate", 5), Coded(-1, "file", -1),
   [lineno |-> -1, hasCode |-> FALSE]}

MCTracebacks == UNION {[1..n -> MCEntries] : n \in 0..4}

=============================================================================
