SPECIFICATION Spec
CONSTANTS
  c1 = c1
  c2 = c2
  c3 = c3
  a = a
  Commands <- MCThreeCommands
  Kinds <- MCMixedKinds
  Items <- MCOneItem
  MaxBackground = 0
  MaxCrashes = 1
  MaxFaults = 1
SYMMETRY MCSymmetry
INVARIANTS OneEffect AnswersAreKept CommittedDecisionsHold CleanupRecoverable FilesAccounted
PROPERTY OnlyCleanupsAbandon
