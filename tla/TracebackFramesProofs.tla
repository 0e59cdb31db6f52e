------------------------ MODULE TracebackFramesProofs ------------------------
(***************************************************************************)
(* The frames of an Error, for any limit and any traceback.                *)
(***************************************************************************)
EXTENDS TracebackFrames, TLAPS

LEMMA FrameOfIsAFrame ==
  ASSUME NEW e \in Entry
  PROVE  FrameOf(e) \in Frame
<1>1. CASE e.hasCode
  <2>1. e.lineno \in Int /\ e.located \in Int /\ e.name \in Names
    BY <1>1, LinesAssumption DEF Entry
  <2> QED
    BY <1>1, <2>1 DEF FrameOf, Frame, UnicodeToUtf8
<1>2. CASE ~e.hasCode
  <2>1. e.lineno \in Int
    BY LinesAssumption DEF Entry
  <2> QED
    BY <1>2, <2>1 DEF FrameOf, Frame
<1> QED
  BY <1>1, <1>2

(* A frame tells what Python would tell of its entry, or nothing. *)
LEMMA FrameOfDescribes ==
  ASSUME NEW e \in Entry
  PROVE  Describes(FrameOf(e), e)
<1>1. CASE e.hasCode
  <2>1. e.lineno \in Int /\ e.located \in Int /\ e.name \in Names
    BY <1>1, LinesAssumption DEF Entry
  <2> QED
    BY <1>1, <2>1 DEF FrameOf, Describes, UnicodeToUtf8
<1>2. CASE ~e.hasCode
  <2>1. e.lineno \in Int
    BY LinesAssumption DEF Entry
  <2> QED
    BY <1>2, <2>1 DEF FrameOf, Describes
<1> QED
  BY <1>1, <1>2

(* One turn of the loop, seen from the deque. *)
Pushed(w, f) ==
  IF Len(Append(w, f)) > MaxFrames THEN Tail(Append(w, f)) ELSE Append(w, f)

LEMMA EmptyIsTyped == <<>> \in Seq(Frame) /\ <<>> \in Seq(Entry)
OBVIOUS

LEMMA OneIsPositive == 1 \in Nat \ {0}
OBVIOUS

LEMMA PushedIsTyped ==
  ASSUME NEW w \in Seq(Frame), NEW f \in Frame
  PROVE  Pushed(w, f) \in Seq(Frame)
<1>1. Append(w, f) \in Seq(Frame)
  OBVIOUS
<1>2. Append(w, f) # <<>>
  <2>1. Len(Append(w, f)) = Len(w) + 1 /\ Len(w) \in Nat
    OBVIOUS
  <2>2. Len(<<>>) = 0
    OBVIOUS
  <2> QED
    BY <2>1, <2>2
<1>3. Tail(Append(w, f)) \in Seq(Frame)
  BY <1>1, <1>2
<1> QED
  BY <1>1, <1>3 DEF Pushed

(* The frames and the deque hold Error::Frames only: UTF-8 names and       *)
(* unsigned lines (extractFrames).                                         *)
THEOREM TypeCorrect == Spec => []TypeOK
<1>1. Init => TypeOK
  BY EmptyIsTyped, Zenon, OneIsPositive DEF Init, TypeOK
<1>2. TypeOK /\ [Next]_vars => TypeOK'
  <2> SUFFICES ASSUME TypeOK, [Next]_vars PROVE TypeOK'
    OBVIOUS
  <2> USE DEF TypeOK
  <2>1. ASSUME NEW t \in Tracebacks, Raised(t) PROVE TypeOK'
    <3>1. traceback' \in Seq(Entry)
      BY <2>1, TracebacksAssumption DEF Raised
    <3> QED
      BY <2>1, <3>1, EmptyIsTyped, OneIsPositive, Zenon DEF Raised
  <2>2. CASE FormatTraceback
    <3>1. traceback' \in Seq(Entry)
      BY <2>2 DEF FormatTraceback
    <3> QED
      BY <2>2, <3>1 DEF FormatTraceback
  <2>3. CASE CopyEntry
    <3>1. traceback[entry] \in Entry
      BY <2>3 DEF CopyEntry, Walking
    <3>2. window' = Pushed(window, FrameOf(traceback[entry]))
      BY <2>3 DEF CopyEntry, Pushed
    <3>3. window' \in Seq(Frame)
      BY <3>1, <3>2, FrameOfIsAFrame, PushedIsTyped
    <3> QED
      BY <2>3, <3>3 DEF CopyEntry
  <2>4. CASE WalkEnds
    BY <2>4 DEF WalkEnds, Extracted
  <2>5. CASE WalkThrows
    BY <2>5 DEF WalkThrows, Extracted
  <2>6. CASE UNCHANGED vars
    BY <2>6 DEF vars
  <2> QED
    BY <2>1, <2>2, <2>3, <2>4, <2>5, <2>6 DEF Next
<1> QED
  BY <1>1, <1>2, PTL DEF Spec

-----------------------------------------------------------------------------

(* The loop invariant of the walk. *)
WindowInv ==
  /\ Innermost(window, entry - 1)
  /\ entry =< Len(traceback) + 1

(* Pushing the next frame and dropping the oldest of too many leaves the   *)
(* innermost ones.                                                         *)
LEMMA WalkAdvances ==
  ASSUME TypeOK, WindowInv, CopyEntry
  PROVE  WindowInv'
<1> DEFINE f == FrameOf(traceback[entry])
           w == Append(window, f)
<1>1. /\ window \in Seq(Frame) /\ traceback \in Seq(Entry)
      /\ entry \in Nat \ {0} /\ entry =< Len(traceback)
  BY DEF TypeOK, CopyEntry, Walking
<1>2. /\ entry' = entry + 1 /\ traceback' = traceback
      /\ window' = IF Len(w) > MaxFrames THEN Tail(w) ELSE w
  BY DEF CopyEntry
<1>3. traceback[entry] \in Entry
  BY <1>1
<1>4. f \in Frame /\ Describes(f, traceback[entry])
  BY <1>3, FrameOfIsAFrame, FrameOfDescribes
<1>5. /\ w \in Seq(Frame) /\ Len(w) = Len(window) + 1
      /\ \A i \in 1..Len(window) : w[i] = window[i]
      /\ w[Len(window) + 1] = f
  BY <1>1, <1>4
<1> HIDE DEF w
<1>6. Len(window) = IF entry - 1 < MaxFrames THEN entry - 1 ELSE MaxFrames
  BY DEF WindowInv, Innermost
<1>7. \A i \in 1..Len(w) : Describes(w[i], traceback[entry - Len(w) + i])
  <2> SUFFICES ASSUME NEW i \in 1..Len(w)
               PROVE  Describes(w[i], traceback[entry - Len(w) + i])
    OBVIOUS
  <2>1. CASE i = Len(w)
    <3>1. entry - Len(w) + i = entry
      BY <1>1, <1>5, <2>1
    <3> QED
      BY <1>4, <1>5, <2>1, <3>1
  <2>2. CASE i # Len(w)
    <3>1. i \in 1..Len(window)
      BY <1>1, <1>5, <2>2
    <3>2. entry - Len(w) + i = entry - 1 - Len(window) + i
      BY <1>1, <1>5, <3>1
    <3>3. Describes(window[i], traceback[entry - 1 - Len(window) + i])
      BY <3>1 DEF WindowInv, Innermost
    <3> QED
      BY <1>5, <3>1, <3>2, <3>3
  <2> QED
    BY <2>1, <2>2
<1>8. entry' =< Len(traceback') + 1
  BY <1>1, <1>2
<1>9. CASE Len(w) > MaxFrames
  <2>1. /\ Len(window) = MaxFrames /\ Len(window') = MaxFrames
        /\ entry > MaxFrames
    BY <1>1, <1>2, <1>5, <1>6, <1>9, MaxFramesAssumption
  <2>2. \A i \in 1..Len(window') : window'[i] = w[i + 1]
    BY <1>2, <1>5, <1>9
  <2>3. ASSUME NEW i \in 1..Len(window')
        PROVE  Describes(window'[i], traceback'[entry' - 1 - Len(window') + i])
    <3>1. i + 1 \in 1..Len(w)
      BY <1>1, <1>5, <2>1, <2>3
    <3>2. entry - Len(w) + (i + 1) = entry' - 1 - Len(window') + i
      <4> DEFINE kept == Len(window')
                 all  == Len(w)
      <4>1. all = kept + 1 /\ kept \in Nat /\ i \in Int
        BY <1>1, <1>5, <2>1
      <4> HIDE DEF kept, all
      <4>2. entry' = entry + 1
        BY <1>2
      <4>3. entry - all + (i + 1) = entry' - 1 - kept + i
        BY <1>1, <4>1, <4>2
      <4> QED BY <4>3, Zenon DEF kept, all
    <3> QED
      BY <1>2, <1>7, <2>2, <3>1, <3>2
  <2>4. Len(window') = IF entry' - 1 < MaxFrames THEN entry' - 1 ELSE MaxFrames
    BY <1>1, <1>2, <2>1, MaxFramesAssumption
  <2> QED
    BY <1>8, <2>3, <2>4 DEF WindowInv, Innermost
<1>10. CASE ~(Len(w) > MaxFrames)
  <2>1. window' = w
    BY <1>2, <1>10
  <2>2. Len(w) = entry /\ entry =< MaxFrames
    BY <1>1, <1>5, <1>6, <1>10, MaxFramesAssumption
  <2>3. ASSUME NEW i \in 1..Len(window')
        PROVE  Describes(window'[i], traceback'[entry' - 1 - Len(window') + i])
    <3>1. entry' - 1 - Len(window') + i = entry - Len(w) + i
      BY <1>1, <1>2, <2>1, <2>2
    <3> QED
      BY <1>2, <1>7, <2>1, <3>1
  <2>4. Len(window') = IF entry' - 1 < MaxFrames THEN entry' - 1 ELSE MaxFrames
    BY <1>1, <1>2, <2>1, <2>2, MaxFramesAssumption
  <2> QED
    BY <1>8, <2>3, <2>4 DEF WindowInv, Innermost
<1> QED
  BY <1>9, <1>10

LEMMA WindowIsInnermost == Spec => []WindowInv
<1>1. Init => WindowInv
  BY MaxFramesAssumption DEF Init, WindowInv, Innermost
<1>2. TypeOK /\ WindowInv /\ [Next]_vars => WindowInv'
  <2> SUFFICES ASSUME TypeOK, WindowInv, [Next]_vars PROVE WindowInv'
    OBVIOUS
  <2>1. ASSUME window' = <<>>, entry' = 1, traceback' \in Seq(Entry)
        PROVE  WindowInv'
    <3>1. Len(window') = 0 /\ Len(traceback') \in Nat /\ entry' - 1 = 0
      BY <2>1
    <3> QED
      BY <2>1, <3>1, MaxFramesAssumption DEF WindowInv, Innermost
  <2>2. ASSUME NEW t \in Tracebacks, Raised(t) PROVE WindowInv'
    BY <2>1, <2>2, TracebacksAssumption DEF Raised
  <2>3. CASE FormatTraceback
    <3>1. traceback' \in Seq(Entry)
      BY <2>3 DEF FormatTraceback, TypeOK
    <3> QED
      BY <2>1, <2>3, <3>1 DEF FormatTraceback
  <2>4. CASE CopyEntry
    BY <2>4, WalkAdvances
  <2>5. CASE WalkEnds
    BY <2>1, <2>5 DEF WalkEnds, Extracted, TypeOK
  <2>6. CASE WalkThrows
    BY <2>1, <2>6 DEF WalkThrows, Extracted, TypeOK
  <2>7. CASE UNCHANGED vars
    BY <2>7 DEF vars, WindowInv, Innermost
  <2> QED
    BY <2>2, <2>3, <2>4, <2>5, <2>6, <2>7 DEF Next
<1> QED
  BY <1>1, <1>2, TypeCorrect, PTL DEF Spec

(* Whatever the depth of the traceback, an Error keeps its innermost       *)
(* frames, in order, up to the raise site (extractFrames).                 *)
THEOREM RaiseSiteIsKept == Spec => FramesAreInnermost
<1> DEFINE Step ==
      "frames" \in pending /\ "frames" \notin pending' /\ frames' # <<>>
        => Innermost(frames, Len(traceback))'
<1>1. TypeOK /\ WindowInv /\ [Next]_vars => [Step]_vars
  <2> SUFFICES ASSUME TypeOK, WindowInv, Next,
                      "frames" \in pending, "frames" \notin pending',
                      frames' # <<>>
               PROVE  Innermost(frames, Len(traceback))'
    OBVIOUS
  <2>1. ASSUME NEW t \in Tracebacks, Raised(t) PROVE FALSE
    BY <2>1 DEF Raised
  <2>2. CASE FormatTraceback
    BY <2>2 DEF FormatTraceback
  <2>3. CASE CopyEntry
    BY <2>3 DEF CopyEntry
  <2>4. CASE WalkThrows
    BY <2>4 DEF WalkThrows, Extracted
  <2>5. CASE WalkEnds
    <3>1. frames' = window /\ traceback' = traceback
      BY <2>5 DEF WalkEnds, Extracted
    <3>2. entry - 1 = Len(traceback)
      <4>1. traceback \in Seq(Entry) /\ entry \in Nat \ {0}
        BY DEF TypeOK
      <4> QED
        BY <2>5, <4>1 DEF WalkEnds, WindowInv
    <3> QED
      BY <3>1, <3>2 DEF WindowInv, Innermost
  <2> QED
    BY <2>1, <2>2, <2>3, <2>4, <2>5 DEF Next
<1> QED
  BY <1>1, TypeCorrect, WindowIsInnermost, PTL
     DEF Spec, FramesAreInnermost

(* For any traceback the steps that are left to an Error are counted, and  *)
(* each one taken is one fewer: at most one text and one turn of the loop  *)
(* for each entry (extractFrames, formatTraceback).                        *)
THEOREM EveryErrorIsNear == Spec => EachStepIsProgress
<1> DEFINE Step == pending # {} => StepsLeft' \in Nat /\ StepsLeft' < StepsLeft
<1>1. TypeOK /\ WindowInv /\ WindowInv' /\ TypeOK' /\ [Next]_vars => [Step]_vars
  <2> SUFFICES ASSUME TypeOK, TypeOK', WindowInv, WindowInv', Next,
                      pending # {}
               PROVE  StepsLeft' \in Nat /\ StepsLeft' < StepsLeft
    OBVIOUS
  <2> DEFINE n == Len(traceback)
             m == Len(traceback')
  <2>1. /\ n \in Nat /\ entry \in Nat \ {0} /\ entry =< n + 1
        /\ m \in Nat /\ entry' \in Nat \ {0} /\ entry' =< m + 1
    BY DEF TypeOK, WindowInv
  <2>2. StepsLeft = (IF "text" \in pending THEN 1 ELSE 0)
                      + (IF "frames" \in pending THEN n + 2 - entry ELSE 0)
    BY DEF StepsLeft
  <2>3. StepsLeft' = (IF "text" \in pending' THEN 1 ELSE 0)
                       + (IF "frames" \in pending' THEN m + 2 - entry' ELSE 0)
    BY DEF StepsLeft
  <2> HIDE DEF n, m
  <2>4. ASSUME NEW t \in Tracebacks, Raised(t) PROVE FALSE
    BY <2>4 DEF Raised
  <2>5. CASE FormatTraceback
    <3>1. m =< n
      BY <2>5 DEF FormatTraceback, TypeOK, n, m
    <3>2. /\ entry' = entry /\ pending' = pending \ {"text"}
          /\ "text" \in pending
      BY <2>5 DEF FormatTraceback
    <3> QED  BY <2>1, <2>2, <2>3, <3>1, <3>2
  <2>6. CASE CopyEntry
    BY <2>1, <2>2, <2>3, <2>6 DEF CopyEntry, Walking, n, m
  <2>7. CASE WalkEnds \/ WalkThrows
    <3>1. "frames" \in pending /\ pending' = pending \ {"frames"}
      BY <2>7 DEF WalkEnds, WalkThrows, Walking, Extracted
    <3> QED  BY <2>1, <2>2, <2>3, <3>1
  <2> QED
    BY <2>4, <2>5, <2>6, <2>7 DEF Next
<1> QED
  BY <1>1, TypeCorrect, WindowIsInnermost, PTL DEF Spec, EachStepIsProgress

=============================================================================
