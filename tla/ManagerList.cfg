SPECIFICATION Spec
CONSTANTS
    Ips = {a, b}
    Machines <- AnyMachine
    Rates = {1, 5}
    MaxServers = 3
    MaxTasks = 1
INVARIANTS TypeOK StoreMatches ViewAgrees ConnectedOnce
PROPERTIES RestartKeepsList FirstPollBeforeUi
