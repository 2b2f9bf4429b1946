\* Two opens of one snapshot by the inspector and a restore of it.
CONSTANTS
  Inspection = {i1, i2}
  Restoration = {r1}
  Nobody = Nobody
SPECIFICATION Spec
INVARIANT OwnsItsFiles
CHECK_DEADLOCK FALSE
