CONSTANTS
  NL = "nl"  CR = "cr"  Blank = " "
  Streams <- SomeStreams
  Allowed = {"m", "n", "1", "."}
  Ints <- MCInts
  Floats <- MCFloats
  MinLen = 5
  MaxToken = 9
  Deadline = 2
SPECIFICATION FairSpec
INVARIANTS LinesFaithful MetricNeverCut
PROPERTIES TimeoutEarned ConnectionEnds
CHECK_DEADLOCK FALSE
