SPECIFICATION MCSpec
CONSTANTS
    Executors = {e1, e2}
    NoExecutor = NoExecutor
    r1 = r1
    r2 = r2
    r3 = r3
    Requests = {r1, r2, r3}
    Asked <- MCAsked
    Script <- MCScript
    Limit <- MCLimit
    Supported = 1
    Created = 0
    Free = Free
    Closing = Closing
INVARIANTS OneSession NoOverlap RetryIsSafe
PROPERTY NothingHangs
CHECK_DEADLOCK FALSE
