------------------------------ MODULE MCLogger ------------------------------
(***************************************************************************)
(* The logger with one or two log devices, with and without compression    *)
(* and worker threads; a worker may have nothing to log.                   *)
(***************************************************************************)
EXTENDS Logger

\* n workers, f devices, compression, logger threads, transactions of core 0 and of the rest,
\* and whether a core waits for its transactions to be durable.
C(n, f, c, t, a, b, w, e) ==
    [g_nworkers |-> n, nfds |-> f, compress |-> c, threads |-> t, waits |-> w, ticks |-> e,
     txns |-> [k \in Cores |-> IF k = 0 THEN a ELSE b]]

SomeConfigs ==
    {C(1, 2, FALSE, TRUE, 2, 0, FALSE, 2), C(2, 1, TRUE, TRUE, 2, 0, FALSE, 2),
     C(1, 2, FALSE, TRUE, 0, 1, TRUE, 3), C(2, 2, TRUE, FALSE, 3, 0, TRUE, 3)}
=============================================================================
