CONSTANTS
  p1 = p1 p2 = p2 p3 = p3 t1 = t1 t2 = t2 c1 = c1 c2 = c2 c3 = c3
  catcher = catcher squatter = squatter victim = victim
  Candidates = {catcher, squatter, victim}
  NoCandidate = NoCandidate
  Reruns = 2
  ForceShim = FALSE
  Pairs = {p1, p2, p3}
  NoPair = NoPair
  Targets = {t1, t2}
  Ignored = {}
  MaxTargets = 2
  PerTarget = 2
  LatentMode = TRUE
  Modes = {"bugs", "ladder"}
  Projects = {project}
  Commits = {c1, c2, c3}
  FreshClone = FALSE
  Habit <- MCHabit
  Kind <- MCKind
  Changed <- MCChanged
  Score <- MCScore
  Bugs <- MCBugs
  Project <- MCProject
  Needs <- MCNeeds
  OnBranches <- MCOnBranches
  Fetchable <- MCFetchable
  Merges <- MCMerges
  Thresholds <- MCThresholds
  i1 = i1 i2 = i2 i3 = i3 x1 = x1 r1 = r1 r2 = r2 src1 = src1 node1 = node1
  s1 = s1 s2 = s2 s3 = s3 q1 = q1 q2 = q2 q3 = q3
  Instances = {i1, i2, i3}
  NoInstance = NoInstance
  Manifest = {i1, i2}
  Fixtures = {x1}
  FixtureOf <- MCFixtureOf
  Revisions = {r1, r2}
  BaseCommit <- MCBaseCommit
  Patches = {s1, s2, s3, q1, q2, q3}
  Solution <- MCSolution
  TestPatch <- MCTestPatch
  Donor <- MCDonor
  FailToPass <- MCNodes
  PassToPass <- MCNodes
  DefaultNode = DefaultNode
  Headers <- MCHeaders
  SourceFiles = {src1}
  NoFile = NoFile
SPECIFICATION MCSpec
INVARIANTS CatchNeedsTheChange AttemptsAccounted RevisionsArePresent ArmIsItsPatch
CHECK_DEADLOCK FALSE
