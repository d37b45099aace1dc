\* Docker and a monitor probe while PostgreSQL and Redis come and go.
SPECIFICATION FairSpec
CONSTANTS
    docker = docker
    monitor = monitor
    Threads <- TwoThreads
    Docker = docker
    MaxAge = 2
    KeyTimeout = 1
    Retries = 2
INVARIANTS TypeOK DatabaseOkRecent CacheErrorExplained OneFailurePerOutage
PROPERTIES OutageNoticed RecoveryNoticed
