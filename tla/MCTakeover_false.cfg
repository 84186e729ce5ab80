\* Two executions, no dispatch sent twice.
SPECIFICATION Spec
CONSTANTS
    Worker = {k1}
    Watcher = {w1}
    Resends <- OnceEach
    MaxExec = 2
    DeleteOffered = FALSE
INVARIANT SuccessIsEarned
CHECK_DEADLOCK FALSE
