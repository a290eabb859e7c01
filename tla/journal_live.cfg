SPECIFICATION FairSpec
CONSTANTS
  c1 = c1
  c2 = c2
  c3 = c3
  a = a
  Commands <- MCTwoCommands
  Kinds <- MCKeptKinds
  Items <- MCOneItem
  MaxBackground = 1
  MaxCrashes = 1
  MaxFaults = 0
INVARIANTS NoLostDecision
PROPERTIES RefinesLedger CommandsAnswered CleanupsEnd
