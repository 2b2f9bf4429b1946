\* Two Resume calls beside a Discard, purges, crashes and restarts.
CONSTANTS Call = {c1, c2}
          Backends = {"disk", "s3", "azure", "sftp"}
SPECIFICATION LiveSpec
INVARIANT CompletedHasBundle
PROPERTIES BundleIsKept ResumedSettles
CHECK_DEADLOCK FALSE
