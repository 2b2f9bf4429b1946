CONSTANTS Call = {c1, c2}
          Backends = {"disk", "s3", "azure", "sftp"}
SPECIFICATION Spec
PROPERTY ResumesAcrossRestart
CHECK_DEADLOCK FALSE
