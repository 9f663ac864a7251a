SPECIFICATION FairSpec
CONSTANTS
  Jobs = {j1, j2}
  Tips = {s1, s2}
  MaxStarts = 2
  Capacity = 2
  None = None
INVARIANTS WitnessedJobIsFlushed
PROPERTIES StaleJobLeaves FlushesOnlyAfterChange
