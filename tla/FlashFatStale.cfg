SPECIFICATION FlashSpec
CONSTANTS
  NUM_SLOTS = 1
  long = long
  empty = empty
  Files = {long, empty}
  DataOf <- MCDataOf
  PeerImages <- WholeImages
  Blank = Blank
  Mixed = Mixed
  Resets = TRUE
INVARIANTS
  FatNeverMisnames
