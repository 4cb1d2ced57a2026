SPECIFICATION DispatchSpec
CONSTANTS
  Sinks = {s1, s2, s3}
  NoSink = NoSink
  Names = {n1, n2}
  MaxDepth = 3
  MaxGeneration = 5
SYMMETRY Symmetry
CHECK_DEADLOCK FALSE
INVARIANTS SinksSafe CalledAsOwed
