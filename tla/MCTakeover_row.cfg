\* Two executions of one document's task, the first dispatched twice; the task
\* may be deleted.
SPECIFICATION FairSpec
CONSTANTS
    Worker = {k1}
    Watcher = {w1}
    Resends <- FirstTwice
    MaxExec = 2
    DeleteOffered = TRUE
INVARIANT TypeOK
PROPERTIES
    OwnTraceOnly
    
    Unlocked
\* With every execution handed out and the document unlocked nothing moves.
CHECK_DEADLOCK FALSE
