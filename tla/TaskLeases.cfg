SPECIFICATION FairSpec
CONSTANTS
    d1 = d1
    d2 = d2
    c1 = c1
    daemon = daemon
    terminal = terminal
    NoRun = NoRun
    Runs <- MCRuns
    Processes = {daemon, terminal}
    Daemon = daemon
    Home <- MCHome
    Interval = 1
    Lag = 1
    TTL = 3
    Stale = 3
    MaxAttempts = 2
    MaxCrashes = 1
CHECK_DEADLOCK FALSE

    
PROPERTIES
    
    AbandonedNoticed
