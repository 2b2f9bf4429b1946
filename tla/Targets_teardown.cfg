SPECIFICATION Spec
CONSTANTS
  Job = {j1}
  Restores = {}
  Proc = {p1}
  MaxAttempts = 2
  MaxFaults = 1
  MaxSweeps = 0
  Options = {"http"}
  maxExportAttempts = 3
  UserCounts = {9}
  Patience = {3}
  Sizes = {0}
  UsersPerFileMin = 2
  UsersPerFileDefault = 4
  Radix = 2
  UserFileDigits = 2
  MaxGrabs = 0
  File = {a}
  MaxSize = 0
  MaxBreaks = 0
  MaxUnanswered = 0
INVARIANT TransientIsSurvived
CHECK_DEADLOCK FALSE
