SPECIFICATION DeploySpec
CONSTANTS
  h1 = h1
  h2 = h2
  g1 = g1
  g2 = g2
  Hsms = {h1, h2}
  Groups = {g1, g2}
  Slots = {0}
  Contents = {"text"}
  Permissions <- MCPermissions
  OwnerPins <- MCOwnerPins
  MaxGenerations = 2
  MaxBoots = 2
SYMMETRY MCSymmetry
INVARIANTS
  DeployTypeOK
  ReadsBack
  OfferedIsReceivable
CHECK_DEADLOCK FALSE
