SPECIFICATION JobsFairSpec
CONSTANTS
    Scanners = {"timer", "manual"}
    Kickoffs = {1, 4}
    Leads = {0, 2}
    FirstDelay = 1
    Behind = 3
    MaxTime = 5
    MaxEdits = 1
PROPERTIES JobsFollowScans BettingLocks
CHECK_DEADLOCK FALSE
