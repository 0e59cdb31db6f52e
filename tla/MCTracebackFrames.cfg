SPECIFICATION Spec
CONSTANTS
  MaxFrames = 2
  Names <- MCNames
  NotUtf8 = {"surrogate"}
  NoName = ""
  Lines <- MCLines
  Tracebacks <- MCTracebacks
INVARIANT TypeOK
PROPERTIES
  FramesAreInnermost
  EachStepIsProgress
  EveryErrorIsReported
