-------------------------- MODULE ConnectionTable --------------------------
(***************************************************************************)
(* The connection table of netproc (src/src/connection.c).                 *)
(*                                                                         *)
(* One generic hashtable, ht_connections, holds TWO entries per            *)
(* connection_t: one keyed by the socket inode, one keyed by the tuple.    *)
(* The global key_type selects, before every hashtable call, whether the   *)
(* hash/compare callbacks read an inode or a tuple.  connection_update     *)
(* reads /proc/net/tcp and /proc/net/udp line by line, marks known inodes  *)
(* active, allocates and double-inserts new ones, and then ages the table  *)
(* with hashtable_foreach(remove_dead_conn), which visits every ENTRY,     *)
(* hence every connection twice.                                           *)
(*                                                                         *)
(* The kernel is the environment: it opens and closes sockets at any time, *)
(* also between two reads of the program.  A file is read from the         *)
(* snapshot taken when it is opened.                                       *)
(*                                                                         *)
(* hashtable.c is not part of the sources given; its get/set/remove/       *)
(* foreach/destroy are modelled from the specification (section 4.A):      *)
(* set adds an entry, get and remove act on one matching entry of the      *)
(* key's bucket (the chain order is not known, so any match may be the     *)
(* first), remove and destroy call the free callback on the value of the   *)
(* entry they drop, foreach does not visit entries removed before their    *)
(* turn.                                                                   *)
(***************************************************************************)
EXTENDS Integers, Sequences, FiniteSets

CONSTANTS
    Sockets,       \* socket lines the kernel may list: [ino, tup, st, proto]
    Conns,         \* heap slots a connection_t can be calloc'ed in
    ProtoSel,      \* the proto flags given to connection_update
    TupleWord(_),  \* a tuple's first unsigned long, as read under KEY_INODE
    Bucket(_, _),  \* Bucket(kind, key): the chain a key hashes to
    NULL           \* a null pointer / no entry

Kinds == {"inode", "tuple"}                \* KEY_INODE, KEY_TUPLE
Skipped == {"TIME_WAIT", "LISTEN"}         \* states connection_update_ ignores
Protos == <<"TCP", "UDP">>                 \* order connection_update reads them
ProtoOrder == SelectSeq(Protos, LAMBDA p : p \in ProtoSel)

ASSUME ProtoSel \subseteq {"TCP", "UDP"}

VARIABLES
    kernel,   \* the sockets currently listed in /proc/net/{tcp,udp}
    mem,      \* mem[c]: the connection_t in slot c, or NULL when free
    table,    \* the entries of ht_connections: [kind, key, val]
    pc,       \* where the scan loop is
    pending,  \* protocols connection_update has still to read
    file,     \* lines of the open file not read yet
    listed,   \* the sockets the kernel listed when the current chunk was made
    visit,    \* entries hashtable_foreach has still to visit
    \* observability variables
    seen,     \* lines with a tracked state read by the latest update
    lastOk,   \* the latest connection_update returned 1
    fault     \* a freed connection_t was read or written

vars == <<kernel, mem, table, pc, pending, file, listed, visit, seen, lastOk,
          fault>>

ConnRec == [inode : {s.ino : s \in Sockets}, tuple : {s.tup : s \in Sockets},
            active : BOOLEAN, use : 1..2]
Entry == [kind : Kinds, key : {s.ino : s \in Sockets} \cup {s.tup : s \in Sockets},
          val : Conns]

TypeOK ==
    /\ kernel \subseteq Sockets
    /\ mem \in [Conns -> ConnRec \cup {NULL}]
    /\ table \subseteq Entry
    /\ pc \in {"idle", "open", "read", "foreach", "destroy", "exited"}
    /\ pending \in Seq({"TCP", "UDP"})
    /\ file \subseteq Sockets
    /\ listed \subseteq Sockets
    /\ visit \subseteq Entry
    /\ seen \subseteq Sockets
    /\ lastOk \in BOOLEAN
    /\ fault \in BOOLEAN

(***************************************************************************)
(* The hashtable as connection.c drives it.                                *)
(***************************************************************************)

\* KEY_INODE / KEY_TUPLE: the field of a connection_t an entry is keyed by
KeyOf(kind, conn) == IF kind = "inode" THEN conn.inode ELSE conn.tuple

\* ht_cb_compare under key_type = kind, comparing a key with an entry's key.
\* Under KEY_INODE both keys are read as unsigned long, so a tuple entry
\* compares by its first word.  Under KEY_TUPLE an inode entry is read as
\* sizeof(struct tuple) bytes from &conn->inode: taken as never equal.
Compare(kind, key, e) ==
    IF kind = "inode"
    THEN \/ e.kind = "inode" /\ e.key = key
         \/ e.kind = "tuple" /\ TupleWord(e.key) = key
    ELSE e.kind = "tuple" /\ e.key = key

\* The entries of key's chain that ht_cb_compare accepts
Matches(t, kind, key) ==
    {e \in t : Bucket(e.kind, e.key) = Bucket(kind, key) /\ Compare(kind, key, e)}

\* hashtable_get / hashtable_remove act on the first match, or on none
FirstMatch(t, kind, key) ==
    IF Matches(t, kind, key) = {} THEN {NULL} ELSE Matches(t, kind, key)

\* What hashtable_get(ht_connections, key) may return under key_type = kind
Get(kind, key) == {IF e = NULL THEN NULL ELSE e.val : e \in FirstMatch(table, kind, key)}

connection_get_by_inode(i) == Get("inode", i)
connection_get_by_tuple(tp) == Get("tuple", tp)

\* mutant: the callback decrements but never frees
ht_cb_free_NoFree(m, c) ==
    IF m[c] = NULL THEN [mem |-> m, bad |-> TRUE]
    ELSE [mem |-> [m EXCEPT ![c].use = @ - 1], bad |-> FALSE]

\* ht_cb_free: the free callback hashtable_remove/destroy call on a value
ht_cb_free(m, c) ==
    IF m[c] = NULL THEN [mem |-> m, bad |-> TRUE]
    ELSE IF m[c].use - 1 = 0 THEN [mem |-> [m EXCEPT ![c] = NULL], bad |-> FALSE]
    ELSE [mem |-> [m EXCEPT ![c].use = @ - 1], bad |-> FALSE]

\* hashtable_remove of entry e (or of nothing) from memory m
RemoveEntry(m, e) ==
    IF e = NULL THEN [mem |-> m, bad |-> FALSE] ELSE ht_cb_free(m, e.val)

FreeSlots == {c \in Conns : mem[c] = NULL}

(***************************************************************************)
(* The kernel: sockets come and go at any time.  At any instant a nonzero  *)
(* inode names one socket, and a tuple one socket of its protocol.         *)
(***************************************************************************)

KernelOpen(s) ==
    /\ s \notin kernel
    /\ \A k \in kernel : /\ s.ino # 0 => k.ino # s.ino
                         /\ ~(k.tup = s.tup /\ k.proto = s.proto)
    /\ kernel' = kernel \cup {s}
    /\ UNCHANGED <<mem, table, pc, pending, file, listed, visit, seen, lastOk, fault>>

KernelClose(s) ==
    /\ s \in kernel
    /\ kernel' = kernel \ {s}
    /\ UNCHANGED <<mem, table, pc, pending, file, listed, visit, seen, lastOk, fault>>

(***************************************************************************)
(* connection_update(proto): connection_update_ on each selected file,     *)
(* then hashtable_foreach(remove_dead_conn) if every file was read.        *)
(***************************************************************************)

connection_update ==
    /\ pc = "idle"
    /\ pc' = "open"
    /\ pending' = ProtoOrder
    /\ seen' = {}
    /\ lastOk' = FALSE
    /\ UNCHANGED <<kernel, mem, table, file, listed, visit, fault>>

\* the sockets of protocol p the kernel lists now
Listing(p) == {s \in kernel : s.proto = p}

\* the protocol of the file being read
CurProto == ProtoOrder[Len(ProtoOrder) - Len(pending)]

\* fopen and the header getline succeed: the first chunk lists the kernel's
\* sockets
OpenFile ==
    /\ pc = "open"
    /\ pending # <<>>
    /\ file' = Listing(Head(pending))
    /\ listed' = Listing(Head(pending))
    /\ pending' = Tail(pending)
    /\ pc' = "read"
    /\ UNCHANGED <<kernel, mem, table, visit, seen, lastOk, fault>>

\* getline needs the next chunk of the file: the kernel generates it from the
\* sockets listed now, resuming at a line position.  When sockets opened or
\* closed since the previous chunk, the lines left may skip some of them or
\* repeat lines already read.
ReadChunk ==
    /\ pc = "read"
    /\ Listing(CurProto) # listed
    /\ \E rest \in SUBSET Listing(CurProto) : file' = rest
    /\ listed' = Listing(CurProto)
    /\ UNCHANGED <<kernel, mem, table, pc, pending, visit, seen, lastOk, fault>>

\* fopen or the header getline fails: return 0, connection_update returns 0
\* before hashtable_foreach
OpenFail ==
    /\ pc = "open"
    /\ pending # <<>>
    /\ pc' = "idle"
    /\ UNCHANGED <<kernel, mem, table, pending, file, listed, visit, seen, lastOk, fault>>

\* create_new_conn: the calloc'ed record (use 0) with the line's inode and
\* tuple, active; the sscanf of the hex addresses the line's own sscanf
\* matched cannot fail
create_new_conn(l) == [inode |-> l.ino, tuple |-> l.tup, active |-> TRUE, use |-> 0]

\* mutant: connection_insert forgets connection_insert_by_tuple
connection_insert_NoTuple(t, n, l) ==
    t \cup {[kind |-> "inode", key |-> l.ino, val |-> n]}

\* connection_insert: use = 2, insert by inode, insert by tuple
connection_insert(t, n, l) ==
    t \cup {[kind |-> "inode", key |-> l.ino, val |-> n],
            [kind |-> "tuple", key |-> l.tup, val |-> n]}

\* One line of the while(getline) loop whose state is not skipped: look the
\* inode up; mark a hit active, else create_new_conn and connection_insert
ReadLine ==
    /\ pc = "read"
    /\ \E l \in file :
        /\ file' = file \ {l}
        /\ IF l.st \in Skipped
           THEN UNCHANGED <<mem, table, seen, fault>>
           ELSE /\ seen' = seen \cup {l}
                /\ \E c \in connection_get_by_inode(l.ino) :
                     IF c # NULL
                     THEN /\ mem' = IF mem[c] = NULL THEN mem
                                    ELSE [mem EXCEPT ![c].active = TRUE]
                          /\ fault' = (fault \/ mem[c] = NULL)
                          /\ UNCHANGED table
                     ELSE \E n \in FreeSlots :
                          /\ mem' = [mem EXCEPT ![n] =
                                         [create_new_conn(l) EXCEPT !.use = 2]]
                          /\ table' = connection_insert(table, n, l)
                          /\ UNCHANGED fault
    /\ UNCHANGED <<kernel, pc, pending, listed, visit, lastOk>>

\* create_new_conn: calloc returns NULL, as it may on any call and must when
\* no slot is free; connection_update_ returns 0
AllocFail ==
    /\ pc = "read"
    /\ \E l \in file :
        /\ l.st \notin Skipped
        /\ connection_get_by_inode(l.ino) = {NULL}
        /\ file' = file \ {l}
        /\ seen' = seen \cup {l}
    /\ pc' = "idle"
    /\ UNCHANGED <<kernel, mem, table, pending, listed, visit, lastOk, fault>>

\* getline returns -1: the file is done; the next one, or the aging pass
EndOfFile ==
    /\ pc = "read"
    /\ file = {}
    /\ pc' = IF pending = <<>> THEN "foreach" ELSE "open"
    /\ visit' = IF pending = <<>> THEN table ELSE visit
    /\ UNCHANGED <<kernel, mem, table, pending, file, listed, seen, lastOk, fault>>

\* mutant: connection_remove forgets connection_remove_by_tuple
connection_remove_InodeOnly(m, c) ==
    \E e1 \in FirstMatch(table, "inode", m[c].inode) :
      LET r1 == RemoveEntry(m, e1) IN
      /\ table' = table \ {e1}
      /\ mem' = [r1.mem EXCEPT ![c] = NULL]
      /\ fault' = (fault \/ r1.bad)

\* connection_remove(conn) with conn->use already 0: remove by inode, remove
\* by tuple (each calls ht_cb_free on the value of the entry it unlinks),
\* then free(conn)
connection_remove(m, c) ==
    \E e1 \in FirstMatch(table, "inode", m[c].inode) :
      LET t1 == table \ {e1}
          r1 == RemoveEntry(m, e1)
      IN \E e2 \in FirstMatch(t1, "tuple", m[c].tuple) :
           LET r2 == RemoveEntry(r1.mem, e2)
           IN /\ table' = t1 \ {e2}
              /\ mem' = [r2.mem EXCEPT ![c] = NULL]
              /\ fault' = (fault \/ r1.bad \/ r2.bad \/ r2.mem[c] = NULL)

\* mutant: a visit to an active connection also restores its use to 2
remove_dead_conn_RestoreUse(c) ==
    IF ~mem[c].active
    THEN IF mem[c].use - 1 = 0
         THEN connection_remove([mem EXCEPT ![c].use = 0], c)
         ELSE /\ mem' = [mem EXCEPT ![c].use = @ - 1]
              /\ UNCHANGED <<table, fault>>
    ELSE /\ mem' = [mem EXCEPT ![c].active = FALSE, ![c].use = 2]
         /\ UNCHANGED <<table, fault>>

\* remove_dead_conn(value): the hashtable_foreach callback on a live value
remove_dead_conn(c) ==
    IF ~mem[c].active
    THEN IF mem[c].use - 1 = 0
         THEN connection_remove([mem EXCEPT ![c].use = 0], c)
         ELSE /\ mem' = [mem EXCEPT ![c].use = @ - 1]
              /\ UNCHANGED <<table, fault>>
    ELSE /\ mem' = [mem EXCEPT ![c].active = FALSE]
         /\ UNCHANGED <<table, fault>>

\* hashtable_foreach visits one entry it has not visited yet; reading the
\* value of an entry whose connection_t was freed is a fault
ForeachVisit ==
    /\ pc = "foreach"
    /\ \E e \in visit \cap table :
        /\ visit' = visit \ {e}
        /\ IF mem[e.val] = NULL
           THEN /\ fault' = TRUE
                /\ UNCHANGED <<mem, table>>
           ELSE remove_dead_conn(e.val)
    /\ UNCHANGED <<kernel, pc, pending, file, listed, seen, lastOk>>

\* hashtable_foreach has visited every entry: connection_update returns 1
EndForeach ==
    /\ pc = "foreach"
    /\ visit \cap table = {}
    /\ pc' = "idle"
    /\ lastOk' = TRUE
    /\ UNCHANGED <<kernel, mem, table, pending, file, listed, visit, seen, fault>>

(***************************************************************************)
(* connection_free: hashtable_destroy calls ht_cb_free on every entry.     *)
(***************************************************************************)

connection_free ==
    /\ pc = "idle"
    /\ pc' = "destroy"
    /\ UNCHANGED <<kernel, mem, table, pending, file, listed, visit, seen, lastOk, fault>>

DestroyEntry ==
    /\ pc = "destroy"
    /\ \E e \in table :
        LET r == ht_cb_free(mem, e.val) IN
        /\ table' = table \ {e}
        /\ mem' = r.mem
        /\ fault' = (fault \/ r.bad)
    /\ UNCHANGED <<kernel, pc, pending, file, listed, visit, seen, lastOk>>

DestroyDone ==
    /\ pc = "destroy"
    /\ table = {}
    /\ pc' = "exited"
    /\ UNCHANGED <<kernel, mem, table, pending, file, listed, visit, seen, lastOk, fault>>

(***************************************************************************)
(* Specification                                                           *)
(***************************************************************************)

Init ==
    /\ kernel \in SUBSET Sockets
    /\ \A s, k \in kernel : s # k => /\ s.ino # 0 => k.ino # s.ino
                                     /\ ~(k.tup = s.tup /\ k.proto = s.proto)
    /\ mem = [c \in Conns |-> NULL]
    /\ table = {}
    /\ pc = "idle"
    /\ pending = <<>>
    /\ file = {}
    /\ listed = {}
    /\ visit = {}
    /\ seen = {}
    /\ lastOk = FALSE
    /\ fault = FALSE

Kernel == \E s \in Sockets : KernelOpen(s) \/ KernelClose(s)

\* the scan loop's steps when nothing fails
Scan ==
    \/ connection_update \/ OpenFile \/ ReadLine \/ EndOfFile
    \/ ForeachVisit \/ EndForeach

Next ==
    \/ Kernel
    \/ Scan
    \/ ReadChunk
    \/ OpenFail \/ AllocFail
    \/ connection_free \/ DestroyEntry \/ DestroyDone

Spec == Init /\ [][Next]_vars

\* The scan loop runs on a timer and never stops by itself, and
\* hashtable_destroy runs to its end once called; the kernel and the
\* failures get no fairness
FairSpec == Spec /\ WF_vars(Scan) /\ WF_vars(DestroyEntry \/ DestroyDone)


(***************************************************************************)
(* Properties                                                              *)
(***************************************************************************)

Live == {c \in Conns : mem[c] # NULL}
InTable(i) == \E c \in Live : mem[c].inode = i
InKernel(i) == \E s \in kernel : s.ino = i

\* Every entry of ht_connections points at an allocated connection_t whose
\* own inode (tuple) is the entry's key: connection_remove, ht_cb_free and
\* slot reuse by calloc never leave an entry dangling or pointing at another
\* connection (outside hashtable_destroy, which tears the table down).
IndexConsistent ==
    pc # "destroy" =>
        \A e \in table : mem[e.val] # NULL /\ KeyOf(e.kind, mem[e.val]) = e.key

\* Specification 8.1: for every connection in the table, get_by_inode of its
\* inode and get_by_tuple of its tuple both return exactly that connection
\* (connection_insert's two entries, found through ht_cb_compare).
DualIndex ==
    pc # "destroy" =>
        \A c \in Live : /\ connection_get_by_inode(mem[c].inode) = {c}
                        /\ connection_get_by_tuple(mem[c].tuple) = {c}

\* Specification 8.4: after a connection_update that returned 1, every
\* connection it read with a tracked state is in the table (the aging in
\* remove_dead_conn only drops connections the update did not see).
PresentIsTracked ==
    (pc = "idle" /\ lastOk) =>
        \A l \in seen : connection_get_by_inode(l.ino) # {NULL}

\* No step of connection.c reads or writes a connection_t after free().
NoUseAfterFree == ~fault

\* The table implements the connection index of ConnectionIndex: its live
\* connection_t records, seen as (inode, tuple) pairs, change one at a time
\* by a create_new_conn or a free(), keep their key while they live, and
\* never two share an inode or a tuple.  The last clause holds only while
\* no tuple comes back under a new inode before its old record is freed:
\* connection_update_ looks a line up by inode alone, so a returning tuple
\* gets a second live record (the conn_tuple_reuse configuration).
Index == INSTANCE ConnectionIndex WITH
    Inodes <- {s.ino : s \in Sockets},
    Tuples <- {s.tup : s \in Sockets},
    conns  <- {[inode |-> mem[c].inode, tuple |-> mem[c].tuple] : c \in Live}

Tracked(s) == \E c \in Live : mem[c].inode = s.ino /\ mem[c].tuple = s.tup

\* Aging (specification 4.F, data-model invariant 5): as long as updates
\* keep completing, a connection, an (inode, tuple) pair, that the kernel no
\* longer lists leaves the table unless the kernel lists it again.  This
\* includes a socket whose inode the kernel has given to a new socket:
\* connection_update_ finds the old record by inode and marks it active
\* without comparing the tuple (the TODO at connection.c:252).
DeadConnectionEvicted ==
    ([]<>lastOk) =>
        \A s \in Sockets :
            (Tracked(s) /\ s \notin kernel) ~> (~Tracked(s) \/ s \in kernel)

=============================================================================
