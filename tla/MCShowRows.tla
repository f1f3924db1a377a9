----------------------------- MODULE MCShowRows -----------------------------
EXTENDS ShowRows, TLC

StatOf(arx, atx, trx, ttx) ==
    [avg_Bps_rx |-> arx, avg_Bps_tx |-> atx, tot_Bps_rx |-> trx, tot_Bps_tx |-> ttx]

\* idle, busy both ways, and a connection that only sent during this tick
MCStats == {StatOf(0, 0, 0, 0), StatOf(1, 1, 1, 1), StatOf(0, 0, 0, 1)}

MCMaxProcs == 2
MCMaxConns == 2

=============================================================================
