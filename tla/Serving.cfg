\* One command running, one queued and one that finds the queue full; one
\* stream; deadlines of one tick for the server and two for main.
SPECIFICATION LiveSpec
CONSTANTS
    r1 = r1
    r2 = r2
    r3 = r3
    Requests <- Commands
    Waits <- Waiting
    Capacity = 1
    None = None
    s1 = s1
    s2 = s2
    Streams <- Clients
    MaxVersion = 3
    Workloads <- Mixes
    Drain = 1
    Unwind = 2
    Dashboards = {TRUE, FALSE}
INVARIANTS NoLostWakeup ViewsAreWhole
PROPERTIES CommandsAreSerial ShutdownIsOrderly CallersHear
