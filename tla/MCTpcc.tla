------------------------------- MODULE MCTpcc -------------------------------
(***************************************************************************)
(* TPC-C on kvdb, with two workers on one warehouse.                       *)
(***************************************************************************)
EXTENDS Tpcc

Shared == [scale_factor |-> 1, nthreads |-> 2, ops_per_worker |-> 1, kvdb |-> TRUE,
           fast |-> FALSE, retry |-> FALSE, timed |-> FALSE]

SharedConfigs == {Shared}
=============================================================================
