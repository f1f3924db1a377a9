------------------------ MODULE MCConnectionTable ------------------------
(***************************************************************************)
(* Model-checking instance of ConnectionTable.                             *)
(* Inodes are small naturals; a tuple is a natural >= 10 that stands for   *)
(* struct tuple, and TupleWord gives its first unsigned long.              *)
(***************************************************************************)
EXTENDS ConnectionTable, TLC

CONSTANTS c1, c2, c3, c4

\* A TCP connection, an unconnected UDP socket, a TCP listener: each inode
\* with one tuple and each tuple with one inode
MCSocketsDistinct ==
    {[ino |-> 1, tup |-> 11, st |-> "ESTABLISHED", proto |-> "TCP"],
     [ino |-> 2, tup |-> 12, st |-> "CLOSE", proto |-> "UDP"],
     [ino |-> 3, tup |-> 13, st |-> "LISTEN", proto |-> "TCP"]}

\* Three tracked sockets, for a heap with room for two: the kernel reuses
\* inode 1 for a second TCP connection, tuple 15
MCSocketsBusy ==
    {[ino |-> 1, tup |-> 11, st |-> "ESTABLISHED", proto |-> "TCP"],
     [ino |-> 2, tup |-> 12, st |-> "CLOSE", proto |-> "UDP"],
     [ino |-> 1, tup |-> 15, st |-> "ESTABLISHED", proto |-> "TCP"]}

\* A UDP port is closed and bound again: tuple 12 comes back with inode 4
MCSocketsTupleReuse ==
    {[ino |-> 1, tup |-> 11, st |-> "ESTABLISHED", proto |-> "TCP"],
     [ino |-> 2, tup |-> 12, st |-> "CLOSE", proto |-> "UDP"],
     [ino |-> 4, tup |-> 12, st |-> "CLOSE", proto |-> "UDP"]}

MCConns == {c1, c2, c3, c4}
\* a heap with room for two connection_t
MCConnsTwo == {c1, c2}
MCProtoSel == {"TCP", "UDP"}

\* no tuple's first word equals an inode
MCTupleWord(t) == t * 256
\* a single chain: every key collides with every other
MCBucket(kind, key) == 0

MCSymmetry == Permutations(MCConns)
=============================================================================
