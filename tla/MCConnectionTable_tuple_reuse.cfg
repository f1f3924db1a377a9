\* a reused tuple makes connection_remove unlink the wrong entry
CONSTANTS
    Sockets <- MCSocketsTupleReuse
    c1 = c1
    c2 = c2
    c3 = c3
    c4 = c4
    Conns <- MCConns
    ProtoSel <- MCProtoSel
    TupleWord <- MCTupleWord
    Bucket <- MCBucket
    NULL = NULL
SPECIFICATION Spec
SYMMETRY MCSymmetry
INVARIANT IndexConsistent
