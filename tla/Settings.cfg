SPECIFICATION Spec
CONSTANTS
  Proc = {window, command}
  MaxCalls = 2
  MaxKeyCalls = 3
  MaxUpsets = 2
  Default = default
  Place = {default, disk, share}
  Nowhere = nowhere
  MaxMoves = 2
  MaxSaves = 2
  MaxLinks = 1
SYMMETRY Symmetry
INVARIANTS WholeSomewhere FoundAgain
PROPERTIES FailedEditsLeaveNoTrace ForgottenWhenGone
CHECK_DEADLOCK FALSE
