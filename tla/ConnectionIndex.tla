-------------------------- MODULE ConnectionIndex --------------------------
(***************************************************************************)
(* What the connection table promises its users (specification 4.B and   *)
(* section 3): a set of connections in which an inode and a tuple each    *)
(* name at most one connection, so that get_by_inode and get_by_tuple     *)
(* reach the same record; a connection is tracked or untracked as a whole *)
(* and keeps its inode and tuple while tracked.                           *)
(***************************************************************************)
CONSTANTS
    Inodes,
    Tuples

VARIABLE conns   \* the tracked connections, as [inode, tuple]

Conn == [inode : Inodes, tuple : Tuples]

\* no two tracked connections share an inode or a tuple
Keyed(S) == \A a, b \in S : a # b => a.inode # b.inode /\ a.tuple # b.tuple

Init == conns = {}

Track(x) ==
    /\ x \notin conns
    /\ Keyed(conns \cup {x})
    /\ conns' = conns \cup {x}

Untrack(x) ==
    /\ x \in conns
    /\ conns' = conns \ {x}

Next == \E x \in Conn : Track(x) \/ Untrack(x)

Spec == Init /\ [][Next]_conns

=============================================================================
