------------------------------ MODULE TxnState ------------------------------
(***************************************************************************)
(* txn.h, txn_impl.h, txn_proto2_impl.h, tuple.h, base_txn_btree.h: the    *)
(* state of the transactions of protocol 2 over one table, and what the    *)
(* steps of several phases of a transaction share.                         *)
(*                                                                         *)
(* Every core runs transactions one after the other.  A read-write         *)
(* transaction reads tuples and leaf versions, inserts the tuples of new   *)
(* keys at once (locked, with version MAX_TID), and at commit locks what   *)
(* it overwrites in address order, draws a commit tid, validates its reads *)
(* (TxnRun) and installs its writes (TxnInstall).  A read-only transaction *)
(* reads the versions that were current at the end of a read-only tick.    *)
(* When a transaction has ended, its core collects the versions no         *)
(* snapshot can reach (TxnCollect).                                        *)
(*                                                                         *)
(* A step is one access to shared memory under the tuple's header          *)
(* protocol: the stable read of one tuple, one lock, one validation, one   *)
(* record write.  The index is one leaf with a version that every          *)
(* insertion changes (Masstree is external).  RCU appears as what Rcu      *)
(* shows of it: a released tuple is freed once the regions that were open  *)
(* at its release have ended.                                              *)
(***************************************************************************)
EXTENDS EpochClock, Tid, FiniteSets, FiniteSetsExt, Sequences

CONSTANTS Keys,
          NTuples,          \* bound on the tuples in memory
          Workloads,        \* what the cores may be asked to do
          read_own_writes,  \* Traits::read_own_writes
          None              \* no key, tuple, version or value

OpKinds == {"get", "scan", "put", "insert", "remove", "abort"}

(* A workload: the keys in use and those the load transaction wrote, what  *)
(* the transactions of each core may do, which cores run                   *)
(* TXN_FLAG_READ_ONLY transactions, and bounds on the transactions of each *)
(* core, on the operations of one transaction and on the ticks.            *)
Workload ==
  [keys : SUBSET Keys, loaded : SUBSET Keys, ops : [Cores -> SUBSET OpKinds], readonly : SUBSET Cores,
   MaxTxns : [Cores -> Nat], MaxOps : [Cores -> Nat], MaxTicks : 1 .. MaxTick]

ASSUME TxnAssumption ==
  /\ Cores = 0 .. NMAXCORES - 1
  /\ NumIds > 1
  /\ IsFiniteSet(Keys)
  /\ NTuples \in Nat /\ NTuples >= Cardinality(Keys)
  /\ Workloads \subseteq Workload
  /\ read_own_writes \in BOOLEAN
  /\ None \notin Nat \cup Keys

Tuples == 1 .. NTuples

MIN_TID == 0
MAX_TID == MakeTid(0, 0, MaxTick + 1)

VARIABLES tree,             \* the tuple a key leads to
          leaf_version,     \* the version of the leaf
          heap,             \* the tuples
          limbo,            \* tuples given to rcu::free_with_fn
          tx,               \* the transaction of each core
          last_commit_tid,  \* threadctx::last_commit_tid_
          gc,               \* threadctx::queue_, scratch_ and last_reaped_epoch_
          workload,         \* what the cores do, fixed from the start
          serial,           \* the transactions in the order of their serialization,
                            \* those that went on to abort included
          committed         \* the ids of those that can no longer abort

dbVars == <<tree, leaf_version, heap, limbo>>
histVars == <<serial, committed>>
vars == <<clockVars, dbVars, tx, last_commit_tid, gc, workload, histVars>>

(* A value is the transaction that wrote it and the position of the write  *)
(* in its write set; None is the value of a removed or absent key.         *)
Load == <<0, 0>>
LoadTid == MakeTid(0, 1, 1)

FreeTuple == [alive |-> FALSE, owner |-> None, write_intent |-> FALSE,
              latest |-> FALSE, deleting |-> FALSE, version |-> MIN_TID,
              val |-> None, next |-> None]

Embryo == [pc |-> "idle", n |-> 0, ops |-> 0, snap |-> MIN_TID,
           read_set |-> <<>>, absent |-> None, write_set |-> <<>>,
           todo |-> <<>>, key |-> None, val |-> None,
           order |-> <<>>, i |-> 1, tid |-> MIN_TID, head |-> None,
           obs |-> {}, own |-> {}]

-----------------------------------------------------------------------------
(* The transaction object *)

Id(c) == <<c, tx[c].n>>
At(c, p) == tx[c].pc = p
IsSnapshot(c) == c \in workload.readonly
Become(c, t) == tx' = [tx EXCEPT ![c] = t]

(* The positions of a tuple in a write set. *)
Positions(ws, x) == {j \in DOMAIN ws : ws[j].tuple = x}

DidInsert(t, x) == \E j \in Positions(t.write_set, x) : t.write_set[j].insert

(* The entries marked do_write: every insert, and the last entry of each   *)
(* tuple.                                                                  *)
DoWrite(ws) == {j \in DOMAIN ws :
                  ws[j].insert \/ j = Max(Positions(ws, ws[j].tuple))}

(* The writes that a transaction has not come to yet. *)
WriteNext(c) == {j \in DoWrite(tx[c].write_set) : j >= tx[c].i}

-----------------------------------------------------------------------------
(* Tuples and their locks *)

Fresh == CHOOSE x \in Tuples :
           ~heap[x].alive /\ \A y \in Tuples : ~heap[y].alive => x <= y

CanAlloc == \E x \in Tuples : ~heap[x].alive

(* Mutant: a tentative insert is waited for like any tuple. *)
TentativeNever(x) == FALSE

(* Another transaction's tentative insert must not be waited for. *)
Tentative(x) == heap[x].version = MAX_TID

Acquire(c, x, intent) == [heap[x] EXCEPT !.owner = c, !.write_intent = intent]
Release(h) == [h EXCEPT !.owner = None, !.write_intent = FALSE]

(* Mutant: the locks of inserted tuples are forgotten. *)
HeldButInserts(c) ==
  {j \in DOMAIN tx[c].order :
     heap[tx[c].order[j]].owner = c /\ ~DidInsert(tx[c], tx[c].order[j])}

(* The positions of the tuples that the transaction has locked, and the    *)
(* tuple it lets go of next.                                               *)
Held(c) == {j \in DOMAIN tx[c].order : heap[tx[c].order[j]].owner = c}

FirstHeld(c) == tx[c].order[Min(Held(c))]

(* What a tuple may hold. *)
Values == [id : Cores \X Nat, pos : Nat] \cup {None}
=============================================================================
