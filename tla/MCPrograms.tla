----------------------------- MODULE MCPrograms -----------------------------
(***************************************************************************)
(* The group-commit logger and the programs on top of the database, the    *)
(* memcached front end and TPC-C with its driver.  They share no state;    *)
(* `which' says whose behaviour this is, the variables of the other two    *)
(* are off.                                                                *)
(***************************************************************************)
EXTENDS Logger

CONSTANTS HeadLen, Streams, Connections, NumCores,
          NumDistrictsPerWarehouse, NumCustomersPerDistrict, NumItems, NumLastNames,
          FirstNewOrder, LoadedLines, NumLines, Quantities, StockLevels, Payments,
          ScanLimits, txn_max_batch_size, MaxOrderId, TpccConfigs

VARIABLES which,
          phase, warm, cpu_index, cpu, stream, arrived, buf_, done, sent, ran,
          tconf, tables, load, barrier_a, running, th, last_no_o_ids, district_ids, locks,
          failed

serverVars == <<phase, warm, cpu_index, cpu, stream, arrived, buf_, done, sent, ran>>
tpccVars == <<tconf, tables, load, barrier_a, running, th, last_no_o_ids, district_ids,
              locks, failed>>

Server == INSTANCE Memcached
Bench == INSTANCE Tpcc WITH conf <- tconf, db <- tables, Configs <- TpccConfigs

-----------------------------------------------------------------------------
off == "off"

LoggerOff ==
  /\ current_tick = off /\ last_tick_inclusive = off /\ pinned = off /\ conf = off
  /\ all_buffers_ = off /\ persist_buffers_ = off /\ horizon_ = off /\ txn = off
  /\ ending = off /\ epochs_ = off /\ system_sync_epoch_ = off /\ wr = off /\ ps = off
  /\ waiter = off /\ commits = off /\ log = off

ServerOff ==
  /\ phase = off /\ warm = off /\ cpu_index = off /\ cpu = off /\ stream = off
  /\ arrived = off /\ buf_ = off /\ done = off /\ sent = off /\ ran = off

TpccOff ==
  /\ tconf = off /\ tables = off /\ load = off /\ barrier_a = off /\ running = off
  /\ th = off /\ last_no_o_ids = off /\ district_ids = off /\ locks = off
  /\ failed = off

MCInit ==
  \/ which = "logger" /\ Init /\ ServerOff /\ TpccOff
  \/ which = "server" /\ Server!Init /\ LoggerOff /\ TpccOff
  \/ which = "tpcc" /\ Bench!Init /\ LoggerOff /\ ServerOff

LoggerStep == which = "logger" /\ Next /\ UNCHANGED <<which, serverVars, tpccVars>>
ServerStep == which = "server" /\ Server!Next /\ UNCHANGED <<which, lgvars, tpccVars>>
TpccStep == which = "tpcc" /\ Bench!Next /\ UNCHANGED <<which, lgvars, serverVars>>

MCSpec ==
  MCInit /\ [][LoggerStep \/ ServerStep \/ TpccStep]_<<which, lgvars, serverVars, tpccVars>>

-----------------------------------------------------------------------------
(* The log of a core on disk is a prefix of its commits, through every     *)
(* round trip of the buffers between core and logger, and when a logger    *)
(* has written, its cores are on disk through the epoch it is about to     *)
(* store for them.                                                         *)
LogsAreTrue == which = "logger" => LogIsPrefix /\ WriterClaimsTrue

(* However the network cuts the stream, every complete request of a        *)
(* connection is processed once, whole and in order, and answered.         *)
RequestsAnswered == which = "server" => Server!RequestsAnswered

(* Between TPC-C transactions warehouses, districts and customers agree on *)
(* what was paid and delivered.                                            *)
MoneyAgrees == which = "tpcc" => Bench!MoneyAgrees

(* Between TPC-C transactions every order has its lines, its index entry   *)
(* and its place in new_order.                                             *)
OrdersWhole == which = "tpcc" => Bench!OrdersWhole

(* No ALWAYS_ASSERT and no sanity check of the TPC-C transactions fails.   *)
AssertsHold == which = "tpcc" => Bench!AssertsHold

(* TPC-C workers never wait for partition locks in a circle. *)
NoDeadlyEmbrace == which = "tpcc" => Bench!NoDeadlyEmbrace

-----------------------------------------------------------------------------
(* Constants. *)
C(n, f, c, t, a, b, x, e) ==
  [g_nworkers |-> n, nfds |-> f, compress |-> c, threads |-> t, waits |-> x, ticks |-> e,
   txns |-> [k \in Cores |-> IF k = 0 THEN a ELSE b]]

LoggerConfigs ==
  {C(1, 2, FALSE, TRUE, 3, 0, FALSE, 2), C(2, 1, TRUE, TRUE, 3, 0, FALSE, 2),
   C(1, 2, FALSE, TRUE, 0, 1, TRUE, 3), C(2, 2, TRUE, FALSE, 3, 0, TRUE, 3)}

R(op, body) == [op |-> op, body |-> body]

SomeStreams ==
  {<<R("GET", 1), R("SET", 2), R("GETQ", 0)>>, <<R("FLUSH", 0), R("junk", 1)>>,
   <<R("SETQ", 1), R("QUIT", 0), R("STAT", 0)>>}

(* TPC-C on ndb with two workers on one warehouse, and on kvdb with one    *)
(* worker for each of two warehouses.                                      *)
Ndb == [scale_factor |-> 1, nthreads |-> 2, ops_per_worker |-> 2, kvdb |-> FALSE,
        fast |-> FALSE, retry |-> TRUE, timed |-> FALSE]
Kvdb == [scale_factor |-> 2, nthreads |-> 2, ops_per_worker |-> 1, kvdb |-> TRUE,
         fast |-> FALSE, retry |-> FALSE, timed |-> TRUE]
Shared == [Kvdb EXCEPT !.scale_factor = 1]
BothConfigs == {Ndb, [Ndb EXCEPT !.fast = TRUE, !.timed = TRUE, !.ops_per_worker = 1], Kvdb, Shared}
=============================================================================
