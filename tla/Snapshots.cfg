\* Two opens of one snapshot by the inspector and a restore of it; and a restore
\* from every front end, with every strategy and state of the Admin API.
SPECIFICATION LiveSpec
CONSTANTS
  Inspection = {i1, i2}
  Restoration = {r1}
  Nobody = Nobody
  Front = {"window", "command"}
  Api = {"none", "down", "up"}
  Strategy = {"overwrite", "skip", "merge"}
INVARIANTS NothingDecryptedLeft WritesOnlyVerified NothingMeansNothing SeenIsTyped
PROPERTIES NoneIsOrphaned 
CHECK_DEADLOCK FALSE
