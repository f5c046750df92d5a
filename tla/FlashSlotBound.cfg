SPECIFICATION FlashSpec
CONSTANTS
  NUM_SLOTS = 1
  long = long
  empty = empty
  Files = {long, empty}
  DataOf <- MCDataOf
  PeerImages <- NoImages
  Blank = Blank
  Mixed = Mixed
  Resets = FALSE
INVARIANTS
  StoredInSlots
