\* A pause between the scheduler's read of `paused` and the slot it then spends.
SPECIFICATION FairSpec
CONSTANTS
  Intervals = {2}
  NoDeadline = NoDeadline
  MaxWall = 4
  MaxBack = 0
  MaxBackSteps = 0
  MaxRestarts = 0
PROPERTY PauseHolds
