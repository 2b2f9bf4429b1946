\* Two processes, two jobs: a sweeper beside a runner.
CONSTANTS
  Proc = {p1, p2}
  Job = {j1, j2}
  Nobody = Nobody
SPECIFICATION LiveSpec
INVARIANTS SweepSparesClaimants ClaimedJobsAreIntact
PROPERTIES OpeningEnds
