SPECIFICATION Spec
CONSTANTS
  MaxStarts = 2
  MaxMessages = 2
  MaxFrames = 2
  None = None
INVARIANTS
  TypeOK
  MicrophoneIsHeld
  ShownMatchesAreOwn
  PatienceIsEnough
PROPERTIES
  ClockStops
CHECK_DEADLOCK FALSE
