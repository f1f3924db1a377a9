SPECIFICATION Spec
CONSTANTS
    NotNumber = NotNumberV
    NotSocket = NotSocketV
    NotNumberV = NotNumberV
    NotSocketV = NotSocketV
    ProcDir <- MCProcDir
    FdTarget <- MCFdTarget
    TcpInodes <- MCTcpInodes
    IntBits <- MCIntBits
    FdLimit <- MCFdLimit
    Readable <- MCReadable
    MAX_PROCESS <- MCMaxProcess
    MAX_INODES <- MCMaxInodes
    MAX_FD_BUFF <- MCMaxFdBuff
INVARIANT TypeOK Completeness
\* dir.c main returns after one pass
CHECK_DEADLOCK FALSE
