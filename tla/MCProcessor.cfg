SPECIFICATION Spec
CONSTANTS
  Block = 8
  Step = 2
  Silence = Silence
  Quantum = 1
  Resampled <- MCResampled
  AtNull <- MCAtNull
  HeapTop = 12
  MaxSamples = 26
INVARIANTS
  StaysInArray
PROPERTIES
  BlocksSpec
  AudioGoesOn
