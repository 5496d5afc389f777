------------------------------- MODULE MCRcu --------------------------------
(***************************************************************************)
(* Two parts of the store that must go on under fair scheduling, each on   *)
(* its own: RCU on a few cores sharing a few objects (Rcu), and short      *)
(* transactions that scan, insert and cross each other's locks (Txn).      *)
(* `which' says whose behaviour this is; the other rests.  The properties  *)
(* of RCU are those of its module.                                         *)
(***************************************************************************)
EXTENDS Rcu

CONSTANTS NMAXCORES, NumIds, ReadOnlyEpochMultiplier, Keys, NTuples, read_own_writes

VARIABLES which,
          txn_tick, txn_last_tick, txn_pinned,   \* the clock of the transactions
          tree, leaf_version, heap, limbo, tx, last_commit_tid, gc, workload,
          serial, committed

txnVars == <<txn_tick, txn_last_tick, txn_pinned, tree, leaf_version, heap, limbo, tx,
             last_commit_tid, gc, workload, serial, committed>>

MCCores == 0 .. NMAXCORES - 1

(* Writers that cross each other's inserts and locks; one key is loaded. *)
Puts ==
  [keys |-> Keys, loaded |-> {CHOOSE k \in Keys : TRUE}, readonly |-> {}, MaxTicks |-> 1,
   ops |-> [c \in MCCores |-> {"put"}],
   MaxTxns |-> [c \in MCCores |-> 1], MaxOps |-> [c \in MCCores |-> 2]]

(* A transaction that scans an empty table and writes, next to one that    *)
(* scans, inserts or gives up.                                             *)
ScanInsert ==
  [Puts EXCEPT !.loaded = {},
     !.ops = [c \in MCCores |-> IF c = 0 THEN {"scan", "put"} ELSE {"scan", "insert", "abort"}],
     !.MaxOps = [c \in MCCores |-> IF c = 0 THEN 2 ELSE 1]]

Scans == INSTANCE Txn WITH Workloads <- {ScanInsert, Puts}, current_tick <- txn_tick,
                           last_tick_inclusive <- txn_last_tick, pinned <- txn_pinned

off == "off"

TxnsOff ==
  /\ txn_tick = off /\ txn_last_tick = off /\ txn_pinned = off /\ tree = off
  /\ leaf_version = off /\ heap = off /\ limbo = off /\ tx = off
  /\ last_commit_tid = off /\ gc = off /\ workload = off /\ serial = off /\ committed = off

MCInit ==
  /\ Init
  /\ \/ which = "rcu" /\ TxnsOff
     \/ which = "scans" /\ Scans!Init

RcuStep == which = "rcu" /\ Next /\ UNCHANGED <<which, txnVars>>
ScansStep == which = "scans" /\ Scans!Next /\ UNCHANGED <<which, vars>>

MCSpec ==
  /\ MCInit /\ [][RcuStep \/ ScansStep]_<<which, vars, txnVars>>
  /\ WF_vars(which = "rcu" /\ ClockStep)
  /\ \A c \in Cores :
       /\ WF_vars(which = "rcu" /\ RegionBegin(c) /\ depth[c] = 0)
       /\ SF_vars(which = "rcu" /\ RegionEnd(c, TRUE))
       /\ SF_vars(which = "rcu" /\ RegionEnd(c, TRUE) /\ depth[c] = 1)
       /\ WF_vars(which = "rcu" /\ free_with_fn(c))
       /\ WF_vars(which = "rcu" /\ CleanStep(c))
       /\ WF_txnVars(which = "scans" /\ Scans!Progress(c) /\ UNCHANGED workload)

-----------------------------------------------------------------------------
(* No phantom: a scan of an empty table that another transaction inserts   *)
(* into is validated away, and committed transactions are serializable in  *)
(* the order of their commits.                                             *)
ScansSerializable == which = "scans" => Scans!Serializable

(* Every commit or abort that has begun ends, although inserts hold their  *)
(* locks from the moment they run.                                         *)
CommitsEnd ==
  \A c \in Cores : (which = "scans" /\ tx[c].pc \in {"lock", "undo"}) ~>
                     (which = "scans" /\ tx[c].pc = "idle")
=============================================================================
