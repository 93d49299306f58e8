SPECIFICATION Spec
CONSTANTS
  Wrap = 16
  QueueBound = 2
  MaxFrames = 6
  MaxResets = 2
INVARIANTS NoJumpAfterReset
