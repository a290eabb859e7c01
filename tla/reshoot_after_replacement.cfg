SPECIFICATION Spec
CONSTANTS
  c1 = c1
  c2 = c2
  s1 = s1
  s2 = s2
  t1 = t1
  t2 = t2
  b1 = b1
  r1 = r1
  r2 = r2
  u1 = u1
  v1 = v1
  v2 = v2
  NoContract = NoContract
  NoShot = NoShot
  NoTake = NoTake
  NoSubject = NoSubject
  NoBuild = NoBuild
  Contracts <- MCOneContract
  Shots <- MCOneShot
  Takes <- MCTwoTakes
  Builds <- MCOneBuild
  Subjects <- MCOneSubject
  References <- MCTwoReferences
  Versions <- MCVersions
  Bundle <- MCSame
  AuditionTakes = 1
  Limits <- MCAmple
  Walls <- MCNoWall
  MaxCrashes = 0
  MaxDamage = 0
SYMMETRY MCSymmetry
INVARIANT CompletionsRegister
CHECK_DEADLOCK FALSE
