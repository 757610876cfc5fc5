SPECIFICATION Spec
CONSTANTS
  c1 = c1
  c2 = c2
  s1 = s1
  s2 = s2
  Commands = {c1, c2}
  Sessions = {s1, s2}
  Paths = {"f", "m", "d.zip"}
  None = none
  Workloads <- MCWorkloads
INVARIANTS TypeOK LikeAShell PanicExplained FailureReported NoResidue
PROPERTIES UserFilesKept
CHECK_DEADLOCK FALSE
