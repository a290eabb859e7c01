SPECIFICATION Spec
CONSTANTS
  c1 = c1
  c2 = c2
  s1 = s1
  s2 = s2
  t1 = t1
  t2 = t2
  b1 = b1
  r1 = r1
  r2 = r2
  u1 = u1
  v1 = v1
  v2 = v2
  NoContract = NoContract
  NoShot = NoShot
  NoTake = NoTake
  NoSubject = NoSubject
  NoBuild = NoBuild
  Contracts <- MCTwoContracts
  Shots <- MCTwoShots
  Takes <- MCTwoTakes
  Builds <- MCOneBuild
  Subjects <- MCOneSubject
  References <- MCOneReference
  Versions <- MCVersions
  Bundle <- MCRevision
  AuditionTakes = 1
  Limits <- MCAmple
  Walls <- MCNoWall
  MaxCrashes = 1
  MaxDamage = 0
SYMMETRY MCSymmetry
INVARIANTS TypeOK StateValidates FreshBuildsAreCurrent FreshTakesMatchInputs ReviewsAreOpen EventsAreAwaited AuditionsWithinContract
CHECK_DEADLOCK FALSE
