SPECIFICATION ReaderSpec
CONSTANTS
  Block = 8
  Step = 3
  Silence = Silence
  MaxLength = 20
INVARIANTS
  LastSampleIsAnalysed
PROPERTIES
  ReaderBlocksSpec
CHECK_DEADLOCK FALSE
