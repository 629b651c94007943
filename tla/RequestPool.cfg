SPECIFICATION FairSpec
CONSTANTS
    Requests = {1, 2, 3}
    Kinds <- Mixed
    Threads = 2
    PoolSize = 1
INVARIANTS TypeOK EnoughForAll ServedOnceConnected
PROPERTIES EveryoneFinishes
