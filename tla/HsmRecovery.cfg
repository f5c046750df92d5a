SPECIFICATION LinkSpec
CONSTANTS
  NUM_SLOTS = 3
  FIFO_DEPTH = 4
  Size <- MCSize
  Held <- MCHeld
  Known <- MCKnown
  Permitted <- MCPermitted
  MaxEvents = 4
  Ciphertext <- MCCiphertext
CHECK_DEADLOCK FALSE
INVARIANT TroubleIsOver
