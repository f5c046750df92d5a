SPECIFICATION FlashSpec
CONSTANTS
  NUM_SLOTS = 1
  long = long
  empty = empty
  Files = {long, empty}
  DataOf <- MCDataOf
  PeerImages <- AllImages
  Blank = Blank
  Mixed = Mixed
  Resets = TRUE
INVARIANTS
  FlashTypeOK
  NoMix
  SuccessIsDurable
  PeersAreAlike
  QueriesAgree
  WritesNeverMisname
PROPERTIES
  ImplementsFileStore
