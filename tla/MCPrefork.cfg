SPECIFICATION FairSpec
CONSTANTS
  MAX_POOL = 2
  Pid <- MCPid
  SigFlags <- MCFlags
  SigMask = {TRUE, FALSE}
  MaxDeaths = 2
  MaxTerm = 1
INVARIANT TableTrue
INVARIANT KillHitsChild
PROPERTY Reforked
PROPERTY TermEnds
\* The server ends, or waits for ever when no child dies.
CHECK_DEADLOCK FALSE
