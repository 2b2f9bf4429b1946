\* One batch of two realms, from the window and from a command; any save of
\* either record may fail.
CONSTANTS
  Batch = {b1}
  Realms = 2
  Unsaved = {1, 2}
  Fronts = {"watching", "waiting"}
SPECIFICATION LiveSpec
INVARIANTS NothingParkedWhileUploading CheckpointIsDurable CollectedIsNotLost
PROPERTIES EveryJobSettles CancelEndsTheWait
CHECK_DEADLOCK FALSE
