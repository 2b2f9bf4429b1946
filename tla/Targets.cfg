SPECIFICATION LiveSpec
CONSTANTS
  Job = {j1, j2}
  Restores = {j2}
  Proc = {p1}
  MaxAttempts = 2
  MaxFaults = 1
  MaxSweeps = 1
  Options = {"http", "management"}
  maxExportAttempts = 3
  UserCounts = {9}
  Patience = {3}
  Sizes = {0, 1}
  UsersPerFileMin = 2
  UsersPerFileDefault = 4
  Radix = 2
  UserFileDigits = 2
  MaxGrabs = 3
  File = {a, b, c}
  MaxSize = 2
  MaxBreaks = 2
  MaxUnanswered = 2
INVARIANTS CleanMeansGone GivesUpOnlyWhenItMust StagedIsExported FetchedIsWhole OkMeansPossible
PROPERTIES SparesOwnJobs AccountedFor
CHECK_DEADLOCK FALSE
