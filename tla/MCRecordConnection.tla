-------------------------- MODULE MCRecordConnection --------------------------
(***************************************************************************)
(* An instance of RecordConnection for TLC.                                *)
(***************************************************************************)
EXTENDS RecordConnection, TLC

Connection(window, host, port, rejected) ==
    [window |-> window, host |-> host, port |-> port, rejected |-> rejected]

\* A scan of host 1, mail to hosts 1 and 2, a fan-out over four hosts, failures,
\* and a second window.  Port 25 is a mail port.
UserConnections ==
    {Connection(1, 1, 25, FALSE), Connection(1, 1, 80, TRUE),
     Connection(1, 2, 25, FALSE), Connection(1, 2, 25, TRUE),
     Connection(1, 3, 80, FALSE), Connection(1, 4, 80, TRUE),
     Connection(2, 2, 80, FALSE)}

\* Consumers are interchangeable.
ConsumerSymmetry == Permutations(Consumers)

===============================================================================
