\* Starts, stops, kills and failures of a daemon with two clients.
SPECIFICATION FairLifecycleSpec
CONSTANTS
    c1 = c1
    c2 = c2
    Client = {c1, c2}
    SocketOf <- MCSocketOf
    Second = 1
    WatchdogSet = TRUE
    WatchdogUsec = 4
    DefaultPeriod = 4
    Slack = 1
    MaxCalls = 2
    MaxStarts = 2
    MaxFaults = 1
INVARIANTS WatchdogFed OneLateAccept LatecomerUnserved ListenersReachable
PROPERTIES NoAcceptAfterStopping StopTerminates QueuedIsTaken
CHECK_DEADLOCK FALSE
