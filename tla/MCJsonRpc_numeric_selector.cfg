CONSTANTS
    Callers = {c1, c2}
    MaxRpcHead = 2
    MaxPosts = 1
SPECIFICATION RpcSpec
INVARIANTS NamedBlockIsAnswered
CHECK_DEADLOCK FALSE
