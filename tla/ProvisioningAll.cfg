SPECIFICATION FairSpec
CONSTANTS
  VM = {v1, v2}
  Steps <- MCSteps
  Copy = TRUE
  Retries = 2
  Cmds = {"wait", "exec", "run"}
  MaxFaults = 2
INVARIANT TypeOK
INVARIANT StepsInOrder
INVARIANT SuccessMeansAll
INVARIANT ContainerRemoved
INVARIANT ExitStatusKept
PROPERTY WaitEnds
PROPERTY CancelEnds
PROPERTY RsyncFailureEnds
PROPERTY ContainerExitSeen
