\* A finished task, run once more.
SPECIFICATION Spec
CONSTANTS
    Worker = {k1}
    Watcher = {w1}
    Resends <- OnceEach
    MaxExec = 3
    DeleteOffered = FALSE
INVARIANT AnswerIsOwn
CHECK_DEADLOCK FALSE
