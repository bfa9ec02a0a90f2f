CONSTANTS
  Job = {j1}
  Latest = latest
  Version = {v1}
  Vpc = {FALSE}
  MaxBuild = 2
  MaxCheck = 2
SPECIFICATION Spec
INVARIANTS AppMigrated
