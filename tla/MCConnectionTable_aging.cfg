\* a connection seen by two consecutive updates is dropped by the second
CONSTANTS
    Sockets <- MCSocketsDistinct
    c1 = c1
    c2 = c2
    c3 = c3
    c4 = c4
    Conns <- MCConns
    ProtoSel <- MCProtoSel
    TupleWord <- MCTupleWord
    Bucket <- MCBucket
    NULL = NULL
SPECIFICATION Spec
SYMMETRY MCSymmetry
INVARIANT PresentIsTracked
