\* Half a lease just covers a reply, a dispatch and a delete.
SPECIFICATION Spec
CONSTANTS
    LeaseTtl = 6
    BatchSize = 3
    QueueSize = 2
    MaxReply = 1
    MaxDispatch = 1
    MaxFlush = 1
    MaxRecycles = 1
    MaxTime = 9
INVARIANT BufferedKeepLease
CHECK_DEADLOCK FALSE
