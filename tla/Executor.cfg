SPECIFICATION FairSpec
CONSTANTS
    h1 = h1
    p1 = p1
    p2 = p2
    p3 = p3
    t1 = t1
    t2 = t2
    None = None
    Worker = Worker
    Hosts <- MCHosts
    Tasks <- MCTasks
    Timers <- MCTimers
INVARIANTS TypeOK StopWaitsForTheWorker TimersTracked NoTimerAfterCancel
PROPERTIES ImplementsSerialQueue EveryJobRuns StopReturns
