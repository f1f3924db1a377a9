\* Three tracked sockets, two of them sharing an inode, and room for two: the
\* table's structure under every interleaving of the kernel with the scan
\* loop, chunked reads and calloc failures, and aging, also of a record whose
\* inode was reused, under a fair scan loop.
CONSTANTS
    Sockets <- MCSocketsBusy
    c1 = c1
    c2 = c2
    c3 = c3
    c4 = c4
    Conns <- MCConnsTwo
    ProtoSel <- MCProtoSel
    TupleWord <- MCTupleWord
    Bucket <- MCBucket
    NULL = NULL
SPECIFICATION FairSpec
INVARIANT TypeOK IndexConsistent DualIndex
PROPERTY DeadConnectionEvicted 
