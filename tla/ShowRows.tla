------------------------------ MODULE ShowRows ------------------------------
(***************************************************************************)
(* The rows one show_process call draws (src/src/show.c): the loop over    *)
(* the processes in show_process and, for each, show_conections.          *)
(*                                                                         *)
(* A process is drawn when it has traffic (tot_Bps_rx || tot_Bps_tx); its  *)
(* connections follow when the user asked for them and the process has an *)
(* average rate.  show_conections draws connections until one is the last: *)
(* the last of the list, or one whose successor has zeroed statistics      *)
(* (connections arrive sorted in decreasing order), marks that one with    *)
(* the corner glyph, breaks, and adds a blank line.  tot_rows counts the   *)
(* lines; it is the bound the selection of module Show is clamped to.      *)
(*                                                                         *)
(* Statistics are abstracted to zero or non-zero; the text of a row to     *)
(* what it shows: a process, a connection with its glyph, or the blank.    *)
(***************************************************************************)
EXTENDS Integers, Sequences, SequencesExt

CONSTANTS
    Stats,         \* the net_stat values of a connection, as records
    MaxProcs,      \* most processes in one call
    MaxConns       \* most connections of one process

Zero(s) == s.avg_Bps_rx = 0 /\ s.avg_Bps_tx = 0 /\ s.tot_Bps_rx = 0 /\ s.tot_Bps_tx = 0

\* a process as show_process reads it; connections sorted decreasing, so
\* those with zeroed statistics come last
Process ==
    { p \in [traffic : BOOLEAN, avg : BOOLEAN, conection : SeqOf(Stats, MaxConns)] :
        \A a, b \in DOMAIN p.conection :
            a < b /\ Zero(p.conection[a]) => Zero(p.conection[b]) }

Row == [kind : {"proc", "conn", "blank"}, p : Nat, c : Nat,
        glyph : {"none", "ltee", "llcorner"}]

VARIABLES
    processes, view_conections,   \* the call's arguments
    pc, i, ci, last_con,
    tot_rows,
    rows                          \* the lines written to the pad

vars == <<processes, view_conections, pc, i, ci, last_con, tot_rows, rows>>

TypeOK ==
    /\ processes \in SeqOf(Process, MaxProcs)
    /\ view_conections \in BOOLEAN
    /\ pc \in {"proc", "conn", "end_conn", "done"}
    /\ i \in 1..Len(processes) + 1
    /\ ci \in 0..MaxConns + 1
    /\ last_con \in BOOLEAN
    /\ tot_rows \in 0..MaxProcs * (MaxConns + 2)
    /\ rows \in Seq(Row)

ProcRow(k) == [kind |-> "proc", p |-> k, c |-> 0, glyph |-> "none"]
ConnRow(k, c, last) ==
    [kind |-> "conn", p |-> k, c |-> c,
     glyph |-> IF last THEN "llcorner" ELSE "ltee"]
BlankRow(k) == [kind |-> "blank", p |-> k, c |-> 0, glyph |-> "none"]

Init ==
    /\ processes \in SeqOf(Process, MaxProcs)
    /\ view_conections \in BOOLEAN
    /\ pc = "proc" /\ i = 1 /\ ci = 0 /\ last_con = FALSE
    /\ tot_rows = 0
    /\ rows = <<>>

\* show_process, process i without traffic: not drawn
SkipProcess ==
    /\ pc = "proc"
    /\ i <= Len(processes)
    /\ ~processes[i].traffic
    /\ i' = i + 1
    /\ UNCHANGED <<processes, view_conections, pc, ci, last_con, tot_rows, rows>>

\* show_process, process i with traffic: tot_rows++, its line, and
\* show_conections when asked for and the process has an average rate
DrawProcess ==
    /\ pc = "proc"
    /\ i <= Len(processes)
    /\ processes[i].traffic
    /\ tot_rows' = tot_rows + 1
    /\ rows' = Append(rows, ProcRow(i))
    /\ IF view_conections /\ processes[i].avg
       THEN pc' = "conn" /\ ci' = 1 /\ last_con' = FALSE /\ UNCHANGED i
       ELSE i' = i + 1 /\ UNCHANGED <<pc, ci, last_con>>
    /\ UNCHANGED <<processes, view_conections>>

\* the 'last connection' test of show_conections as written: connection ci
\* of cs is the last one, or the next one has zeroed statistics, where
\* tot_Bps_rx is tested twice and tot_Bps_tx never
LastConn(cs, k) ==
    \/ k = Len(cs)
    \/ /\ k < Len(cs)
       /\ cs[k + 1].avg_Bps_rx = 0 /\ cs[k + 1].avg_Bps_tx = 0
       /\ cs[k + 1].tot_Bps_rx = 0 /\ cs[k + 1].tot_Bps_rx = 0

\* mutant: the loop lacks its break
DrawConn_NoBreak ==
    /\ pc = "conn"
    /\ ci <= Len(processes[i].conection)
    /\ LET last == last_con \/ LastConn(processes[i].conection, ci)
       IN  /\ last_con' = last
           /\ rows' = Append(rows, ConnRow(i, ci, last))
           /\ ci' = ci + 1
    /\ tot_rows' = tot_rows + 1
    /\ UNCHANGED <<processes, view_conections, pc, i>>

\* mutant: a connection line is counted twice
DrawConn_CountTwice ==
    /\ pc = "conn"
    /\ ci <= Len(processes[i].conection)
    /\ LET last == last_con \/ LastConn(processes[i].conection, ci)
       IN  /\ last_con' = last
           /\ rows' = Append(rows, ConnRow(i, ci, last))
           /\ ci' = ci + 1
           /\ pc' = IF last THEN "end_conn" ELSE "conn"
    /\ tot_rows' = tot_rows + 2
    /\ UNCHANGED <<processes, view_conections, i>>

\* show_conections, connection ci: tot_rows++, the 'last connection' test,
\* the line with its glyph, and the break after the last one
DrawConn ==
    /\ pc = "conn"
    /\ ci <= Len(processes[i].conection)
    /\ LET last == last_con \/ LastConn(processes[i].conection, ci)
       IN  /\ last_con' = last
           /\ rows' = Append(rows, ConnRow(i, ci, last))
           /\ ci' = ci + 1
           /\ pc' = IF last THEN "end_conn" ELSE "conn"
    /\ tot_rows' = tot_rows + 1
    /\ UNCHANGED <<processes, view_conections, i>>

\* the for loop of show_conections runs out (no connection at all)
ConnLoopEnd ==
    /\ pc = "conn"
    /\ ci > Len(processes[i].conection)
    /\ pc' = "end_conn"
    /\ UNCHANGED <<processes, view_conections, i, ci, last_con, tot_rows, rows>>

\* mutant: the blank line after the connections is not counted
EndConn_NoCount ==
    /\ pc = "end_conn"
    /\ rows' = IF last_con THEN Append(rows, BlankRow(i)) ELSE rows
    /\ UNCHANGED tot_rows
    /\ pc' = "proc"
    /\ i' = i + 1
    /\ UNCHANGED <<processes, view_conections, ci, last_con>>

\* after the loop: a blank line and tot_rows++ if connections were drawn
EndConn ==
    /\ pc = "end_conn"
    /\ rows' = IF last_con THEN Append(rows, BlankRow(i)) ELSE rows
    /\ tot_rows' = IF last_con THEN tot_rows + 1 ELSE tot_rows
    /\ pc' = "proc"
    /\ i' = i + 1
    /\ UNCHANGED <<processes, view_conections, ci, last_con>>

\* the loop over processes ends (wclrtobot and the refresh follow)
Done ==
    /\ pc = "proc"
    /\ i > Len(processes)
    /\ pc' = "done"
    /\ UNCHANGED <<processes, view_conections, i, ci, last_con, tot_rows, rows>>

Next ==
    \/ SkipProcess \/ DrawProcess
    \/ DrawConn \/ ConnLoopEnd \/ EndConn
    \/ Done

Spec == Init /\ [][Next]_vars

(***************************************************************************)
(* Properties                                                              *)
(***************************************************************************)

\* tot_rows counts exactly the lines drawn so far, so the selection
\* clamped to it in show_process always lies on a drawn line.
RowsCounted == tot_rows = Len(rows)

\* In the drawn tree a connection line carries the corner glyph exactly
\* when it closes its process's block: the line after it is the blank one,
\* and every other connection line is followed by one of the same process.
TreeWellFormed ==
    \A k \in 1..Len(rows) - 1 :
        rows[k].kind = "conn" =>
            IF rows[k].glyph = "llcorner"
            THEN rows[k + 1] = BlankRow(rows[k].p)
            ELSE rows[k + 1].kind = "conn" /\ rows[k + 1].p = rows[k].p

\* When the call ends, every connection with a non-zero statistic of a
\* process whose connections are shown has a line: the block stops only
\* at a connection whose successor has all its statistics zeroed.
NoActiveConnectionHidden ==
    pc = "done" =>
        \A k \in 1..Len(processes) :
            processes[k].traffic /\ processes[k].avg /\ view_conections =>
                \A c \in DOMAIN processes[k].conection :
                    ~Zero(processes[k].conection[c]) =>
                        \E r \in ToSet(rows) : r.kind = "conn" /\ r.p = k /\ r.c = c

=============================================================================
