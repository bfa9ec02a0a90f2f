CONSTANTS
  Job = {j1, j2}
  Latest = latest
  Version = {v1}
  Vpc = {TRUE, FALSE}
  MaxBuild = 2
  MaxCheck = 2
SPECIFICATION FairSpec
INVARIANTS TypeOK ChecksItsOwn
PROPERTIES StartsMigrated ScriptsAdvance ScriptsEnd
