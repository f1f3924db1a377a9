------------------------------ MODULE Resolver ------------------------------
(***************************************************************************)
(* The fd -> connection resolver prototype, src/dir.c.                     *)
(*                                                                         *)
(* main lists the numeric entries of /proc (get_numeric_directory), reads  *)
(* the inode column of /proc/net/tcp (get_inodes), and then, for every     *)
(* process and every fd of it, from the last fd down to the first, calls   *)
(* readlink once per inode and prints (pid, inode) when the link target    *)
(* equals "socket:[%d]" of that inode.                                     *)
(*                                                                         *)
(* The processes of the system are the environment: they may close a      *)
(* descriptor at any moment, between the listing of /proc/<pid>/fd and     *)
(* any readlink of it.  Names are abstracted: a directory entry is a       *)
(* number or NotNumber, a link target is the unsigned inode of a socket    *)
(* or NotSocket.  Neither get_numeric_directory nor get_inodes closes      *)
(* what it opens, so every opendir and fopen holds one of netproc's own    *)
(* descriptors (nfds) until exit.                                          *)
(***************************************************************************)
EXTENDS Integers, Sequences, SequencesExt

CONSTANTS
    ProcDir,      \* readdir order of /proc: pids and NotNumber entries
    NotNumber,    \* a name that is not all digits ("self", ".", "net" ...)
    FdTarget,     \* FdTarget[p][fd]: link target of each fd open at start
    NotSocket,    \* a target that is not socket:[N] (a file, a pipe ...)
    TcpInodes,    \* the inode column of /proc/net/tcp, in file order
    IntBits,      \* width of int and unsigned int
    FdLimit,      \* RLIMIT_NOFILE of netproc; 3 are taken by stdio
    Readable,     \* pids whose fd directory netproc's user may open
    MAX_PROCESS, MAX_INODES, MAX_FD_BUFF   \* 1024, 1024, 1000 in dir.c

Pids == DOMAIN FdTarget

VARIABLES
    open,            \* <<pid, fd>> still open in the system
    nfds,            \* descriptors netproc holds
    pc,
    process_pids, inodes, fds_process_buff,
    i, j,            \* the loop indices of main (i counts from 1 here)
    tot_fd_in_process,
    temp_buff,       \* the target the last successful readlink stored
    printed          \* the (pid, inode) pairs main printed

vars == <<open, nfds, pc, process_pids, inodes, fds_process_buff, i, j,
          tot_fd_in_process, temp_buff, printed>>

InitOpen == UNION {{<<p, fd>> : fd \in DOMAIN FdTarget[p]} : p \in Pids}

\* an unsigned of IntBits bits printed with %d
ToSigned(x) == IF x >= 2^(IntBits - 1) THEN x - 2^IntBits ELSE x

Targets == {NotSocket} \cup 0..2^IntBits - 1

TypeOK ==
    /\ open \subseteq InitOpen
    /\ nfds \in 3..FdLimit
    /\ pc \in {"start", "inodes", "procs", "fds", "done", "crashed"}
    /\ process_pids \in Seq(Pids) /\ Len(process_pids) <= MAX_PROCESS
    /\ inodes \in Seq(0..2^IntBits - 1) /\ Len(inodes) <= MAX_INODES
    /\ fds_process_buff \in Seq(Nat) /\ Len(fds_process_buff) <= MAX_FD_BUFF
    /\ tot_fd_in_process \in 0..Len(fds_process_buff)
    /\ temp_buff \in Targets
    /\ printed \subseteq Pids \X (0..2^IntBits - 1)

\* is_number: every character is a digit
is_number(name) == name # NotNumber

\* mutant: the cap is tested with <= and one entry too many is stored
get_numeric_directory_OffByOne(entries, lenght) ==
    LET nums == SelectSeq(entries, is_number)
    IN  SubSeq(nums, 1, IF Len(nums) < lenght + 1 THEN Len(nums) ELSE lenght + 1)

\* the numeric entries of a directory listing, at most lenght of them
get_numeric_directory(entries, lenght) ==
    LET nums == SelectSeq(entries, is_number)
    IN  SubSeq(nums, 1, IF Len(nums) < lenght THEN Len(nums) ELSE lenght)

\* opendir/fopen obtain a descriptor
CanOpen == nfds < FdLimit

\* opendir("/proc/<p>/fd/"): also refused (EACCES) for another user's process
CanOpenFdDir(p) == CanOpen /\ p \in Readable

\* /proc/<p>/fd: ".", "..", then the open fds in ascending order
FdDir(p) ==
    <<NotNumber, NotNumber>>
        \o SetToSortSeq({fd \in DOMAIN FdTarget[p] : <<p, fd>> \in open}, <)

\* strcmp of "socket:[%d]" of inode with the kernel's "socket:[%u]"
SameName(target, inode) == target = ToSigned(inode)

\* temp_buff is an uninitialised stack array: its bytes are taken to spell
\* no socket:[N] name, so only a readlink of this run can put one there
Init ==
    /\ open = InitOpen
    /\ nfds = 3
    /\ pc = "start"
    /\ process_pids = <<>> /\ inodes = <<>> /\ fds_process_buff = <<>>
    /\ i = 1 /\ j = 1 /\ tot_fd_in_process = 0
    /\ temp_buff = NotSocket
    /\ printed = {}

\* get_numeric_directory(PROCESS_DIR, process_pids, MAX_PROCESS)
ScanProc ==
    /\ pc = "start"
    /\ process_pids' = IF CanOpen
                       THEN get_numeric_directory(ProcDir, MAX_PROCESS)
                       ELSE <<>>
    /\ nfds' = IF CanOpen THEN nfds + 1 ELSE nfds
    /\ pc' = "inodes"
    /\ UNCHANGED <<open, inodes, fds_process_buff, i, j, tot_fd_in_process,
                   temp_buff, printed>>

\* get_inodes: fopen, skip the header, one inode per line up to the cap
get_inodes ==
    /\ pc = "inodes"
    /\ inodes' = IF CanOpen
                 THEN SubSeq(TcpInodes, 1, IF Len(TcpInodes) < MAX_INODES
                                           THEN Len(TcpInodes) ELSE MAX_INODES)
                 ELSE <<>>
    /\ nfds' = IF CanOpen THEN nfds + 1 ELSE nfds
    /\ pc' = "procs"
    /\ UNCHANGED <<open, process_pids, fds_process_buff, i, j,
                   tot_fd_in_process, temp_buff, printed>>

\* the first getline reallocs the uninitialised pointer line: the build
\* may abort there instead
GetlineCrash ==
    /\ pc = "inodes"
    /\ CanOpen
    /\ nfds' = nfds + 1
    /\ pc' = "crashed"
    /\ UNCHANGED <<open, process_pids, inodes, fds_process_buff, i, j,
                   tot_fd_in_process, temp_buff, printed>>

\* mutant: the loop starts one past the last fd
OpenFdDir_OffByOne ==
    /\ pc = "procs"
    /\ i <= Len(process_pids)
    /\ fds_process_buff' =
           IF CanOpenFdDir(process_pids[i])
           THEN get_numeric_directory(FdDir(process_pids[i]), MAX_FD_BUFF)
           ELSE <<>>
    /\ nfds' = IF CanOpenFdDir(process_pids[i]) THEN nfds + 1 ELSE nfds
    /\ tot_fd_in_process' = IF Len(fds_process_buff') > 0
                            THEN Len(fds_process_buff') - 1 ELSE 0
    /\ j' = 1
    /\ pc' = "fds"
    /\ UNCHANGED <<open, process_pids, inodes, i, temp_buff, printed>>

\* for process i: get_numeric_directory("/proc/<pid>/fd/", ..., 1000)
OpenFdDir ==
    /\ pc = "procs"
    /\ i <= Len(process_pids)
    /\ fds_process_buff' =
           IF CanOpenFdDir(process_pids[i])
           THEN get_numeric_directory(FdDir(process_pids[i]), MAX_FD_BUFF)
           ELSE <<>>
    /\ nfds' = IF CanOpenFdDir(process_pids[i]) THEN nfds + 1 ELSE nfds
    /\ tot_fd_in_process' = Len(fds_process_buff')
    /\ j' = 1
    /\ pc' = "fds"
    /\ UNCHANGED <<open, process_pids, inodes, i, temp_buff, printed>>

\* inner loop, inode j: readlink, then strncmp(socket, temp_buff, len_link).
\* When the fd is gone readlink returns -1 and leaves temp_buff as it was;
\* strncmp with (size_t)-1 then compares the whole stale string.
ReadLink ==
    /\ pc = "fds"
    /\ tot_fd_in_process > 0
    /\ j <= Len(inodes)
    /\ LET p   == process_pids[i]
           fd  == fds_process_buff[tot_fd_in_process]
           buf == IF <<p, fd>> \in open THEN FdTarget[p][fd] ELSE temp_buff
       IN  /\ temp_buff' = buf
           /\ printed' = IF SameName(buf, inodes[j])
                         THEN printed \cup {<<p, inodes[j]>>} ELSE printed
    /\ j' = j + 1
    /\ UNCHANGED <<open, nfds, pc, process_pids, inodes, fds_process_buff, i,
                   tot_fd_in_process>>

\* tot_fd_in_process--: on to the previous fd
NextFd ==
    /\ pc = "fds"
    /\ tot_fd_in_process > 0
    /\ j > Len(inodes)
    /\ tot_fd_in_process' = tot_fd_in_process - 1
    /\ j' = 1
    /\ UNCHANGED <<open, nfds, pc, process_pids, inodes, fds_process_buff, i,
                   temp_buff, printed>>

\* while (tot_fd_in_process) ends: next process
NextProc ==
    /\ pc = "fds"
    /\ tot_fd_in_process = 0
    /\ i' = i + 1
    /\ pc' = "procs"
    /\ UNCHANGED <<open, nfds, process_pids, inodes, fds_process_buff, j,
                   tot_fd_in_process, temp_buff, printed>>

\* the for loop over processes ends and main returns
Finish ==
    /\ pc = "procs"
    /\ i > Len(process_pids)
    /\ pc' = "done"
    /\ UNCHANGED <<open, nfds, process_pids, inodes, fds_process_buff, i, j,
                   tot_fd_in_process, temp_buff, printed>>

\* a process of the system closes one of its descriptors
EnvClose ==
    /\ pc \notin {"done", "crashed"}
    /\ \E x \in open : open' = open \ {x}
    /\ UNCHANGED <<nfds, pc, process_pids, inodes, fds_process_buff, i, j,
                   tot_fd_in_process, temp_buff, printed>>

Next ==
    \/ ScanProc \/ get_inodes \/ GetlineCrash
    \/ OpenFdDir \/ ReadLink \/ NextFd \/ NextProc \/ Finish
    \/ EnvClose

Spec == Init /\ [][Next]_vars

(***************************************************************************)
(* Properties                                                              *)
(***************************************************************************)

\* Every pair main prints is real: the process held a descriptor on that
\* socket.  A readlink that fails on a descriptor closed since the fd
\* directory was listed must not report what an earlier readlink stored.
ReportsAreOwned ==
    \A r \in printed :
        \E fd \in DOMAIN FdTarget[r[1]] : FdTarget[r[1]][fd] = r[2]

\* When main returns, every descriptor still open in a listed process whose
\* fd directory netproc may read, on a socket listed in /proc/net/tcp, has
\* been printed: the walk from the last fd down to the first and the loop
\* over the inodes miss none, although the processes close descriptors
\* between the listing and the readlinks.  (Checked with enough
\* descriptors and inodes below 2^(IntBits-1): the descriptor leak of
\* get_numeric_directory and the %d formatting are outside this claim.)
Completeness ==
    pc = "done" =>
        \A x \in open :
            LET target == FdTarget[x[1]][x[2]] IN
            x[1] \in ToSet(process_pids) \cap Readable /\ target \in ToSet(inodes)
                => <<x[1], target>> \in printed

=============================================================================
