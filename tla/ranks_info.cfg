SPECIFICATION Spec
CONSTANTS
  Ranks = {r1, r2}
  Builds = {"kernel-loader", "simgrid"}
  MaxStarts = 4
SYMMETRY Permuted
INVARIANTS
  TypeOK
  LoneRankLives
  InfoFits
PROPERTIES
  FirstGetsIn
\* The bound on processes is used up.
CHECK_DEADLOCK FALSE
