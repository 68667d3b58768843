CONSTANTS
    boot = boot
    idle = idle
    Other = {t1, t2, t3}
    Task <- MCTask
    NULL = NULL
    BootTask = boot
    Idle = idle
    MaxThreads = 5
    Windows <- MarkedWindow
    Killable <- AnyThread
    EarlyExec = FALSE
SPECIFICATION FairSpec
INVARIANTS
    TypeOK
    LinkedOnce
    NoUseAfterFree
    StateMatchesQueue
    ExitedNeverRuns
    IdleAvailable
    ReapIsMasked
    RunsInUserMode
    NoThreadLost
PROPERTIES
    NoOvertaking
    EveryThreadRuns
    ZombiesReaped
