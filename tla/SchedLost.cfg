CONSTANTS
    boot = boot
    idle = idle
    Other = {t1, t2}
    Task <- MCTask
    NULL = NULL
    BootTask = boot
    Idle = idle
    MaxThreads = 4
    Windows <- ExitWindows
    Killable <- AnyThread
    EarlyExec = FALSE
SPECIFICATION Spec
INVARIANT NoThreadLost
