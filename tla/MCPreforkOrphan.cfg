SPECIFICATION FairSpec
CONSTANTS
  MAX_POOL = 2
  Pid <- MCPid
  SigFlags <- MCMeant
  SigMask = {TRUE, FALSE}
  MaxDeaths = 0
  MaxTerm = 1
INVARIANT KillsAll
\* The server ends, or waits for ever when no child dies.
CHECK_DEADLOCK FALSE
