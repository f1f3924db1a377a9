----------------------------- MODULE MCResolver -----------------------------
EXTENDS Resolver, TLC

CONSTANTS NotNumberV, NotSocketV

\* /proc lists four processes between other names; MAX_PROCESS keeps three
MCProcDir == <<NotNumberV, 1, NotNumberV, 4, 2, 3>>

\* process 1: a socket and a file; process 2: a socket and a pipe, walked
\* after process 1, so a failed readlink of its pipe sees process 1's
\* socket 11 in temp_buff; process 4: another user's, sharing socket 12
\* with process 2 (inherited across fork); process 3 is not scanned
MCFdTarget ==
    1 :> (3 :> 11 @@ 4 :> NotSocketV)
 @@ 2 :> (3 :> 12 @@ 5 :> NotSocketV)
 @@ 3 :> (3 :> 13)
 @@ 4 :> (3 :> 12)

\* netproc runs as the owner of processes 1, 2 and 3, not of process 4
MCReadable == {1, 2, 3}

\* a TIME_WAIT line of /proc/net/tcp has inode 0
MCTcpInodes == <<11, 0, 12>>

\* stdio, /proc, /proc/net/tcp and the two fd directories it can open
MCFdLimit == 7

MCIntBits == 8
MCMaxProcess == 3
MCMaxInodes == 3
MCMaxFdBuff == 2

=============================================================================
