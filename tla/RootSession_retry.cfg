SPECIFICATION FairSpec
CONSTANTS
  MaxDeaths = 1
  MaxTaps = 2
PROPERTY RetryConnects
CHECK_DEADLOCK FALSE
