SPECIFICATION FairSpec
CONSTANTS
    MaxSignals = 3
    MaxSkipped = 1
    MaxInbox = 2
PROPERTY DialReturns
CHECK_DEADLOCK FALSE
