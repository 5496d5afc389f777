-------------------------------- MODULE Txn ---------------------------------
(***************************************************************************)
(* txn_impl.h, txn_proto2_impl.h, tuple.h, base_txn_btree.h: the           *)
(* transactions of protocol 2 over one table, all phases together with the *)
(* clock of the epochs, and what they promise.                             *)
(***************************************************************************)
EXTENDS TxnRun, TxnInstall, TxnCollect

(* The load transaction of core 0 has committed in epoch 1.  It placed the *)
(* tuples in some order of addresses; the operations treat all keys alike. *)
Init ==
  /\ ClockInit
  /\ workload \in Workloads
  /\ LET n == Cardinality(workload.loaded)
         at == CHOOSE f \in [workload.loaded -> 1 .. n] :
                 \A j, k \in workload.loaded : f[j] = f[k] => j = k
     IN /\ tree = [k \in Keys |-> IF k \in workload.loaded THEN at[k] ELSE None]
        /\ heap = [x \in Tuples |->
                    IF x \in 1 .. n
                    THEN [FreeTuple EXCEPT !.alive = TRUE, !.latest = TRUE,
                            !.version = LoadTid,
                            !.val = [id |-> Load, pos |-> 1]]
                    ELSE FreeTuple]
  /\ leaf_version = 0
  /\ limbo = {}
  /\ tx = [c \in Cores |-> Embryo]
  /\ last_commit_tid = [c \in Cores |-> IF c = 0 THEN LoadTid ELSE MIN_TID]
  /\ gc = [c \in Cores |-> [queue |-> {}, scratch |-> {}, last_reaped_epoch |-> 0]]
  /\ serial = << [id |-> Load, ro |-> FALSE, tid |-> LoadTid, obs |-> {},
                  writes |-> [k \in workload.loaded |-> [id |-> Load, pos |-> 1]]] >>
  /\ committed = {Load}

-----------------------------------------------------------------------------
Operation(c) ==
  \/ Abort(c) \/ do_search_range_call(c)
  \/ \E k \in workload.keys : do_search(c, k) \/ \E op \in OpKinds : do_tree_put(c, k, op)
  \/ commit(c)

(* What a core does by itself once a transaction, an operation or a commit *)
(* has begun.                                                              *)
Progress(c) ==
  \/ TakeSnapshot(c) \/ do_tuple_read(c) \/ PutFind(c) \/ try_insert_new_tuple(c)
  \/ handle_last_tuple_in_group(c) \/ gen_commit_tid(c)
  \/ ValidateRead(c) \/ ValidateAbsent(c)
  \/ \E fits \in BOOLEAN : WriteRecord(c, fits)
  \/ Replace(c) \/ Unlock(c) \/ Undo(c) \/ UndoEnd(c) \/ End(c)
  \/ on_post_rcu_region_completion(c)
  \/ \E e \in gc[c].scratch : CleanVersion(c, e) \/ CleanDelete(c, e)
  \/ CleanRemoved(c) \/ CleanEnd(c)

Next ==
  /\ \/ ClockStep
     \/ \E c \in Cores : Begin(c) \/ Operation(c) \/ Progress(c)
     \/ \E l \in limbo : RcuFree(l)
  /\ UNCHANGED workload

Spec == Init /\ [][Next]_vars

(* A core that has begun something goes on with it. *)
FairSpec == Spec /\ \A c \in Cores : WF_vars(Progress(c) /\ UNCHANGED workload)

-----------------------------------------------------------------------------
(* The types of the database and of the transactions.  Every tid, drawn or *)
(* stored, is below the MAX_TID that marks a tentative insert.             *)
TypeOK ==
  /\ ClockTypeOK /\ workload \in Workloads
  /\ tree \in [Keys -> Tuples \cup {None}]
  /\ leaf_version \in Nat
  /\ heap \in [Tuples -> [alive : BOOLEAN, owner : Cores \cup {None},
                          write_intent : BOOLEAN, latest : BOOLEAN,
                          deleting : BOOLEAN, version : 0 .. MAX_TID,
                          val : Values, next : Tuples \cup {None}]]
  /\ limbo \subseteq [tuple : Tuples, waits : SUBSET Cores]
  /\ \A c \in Cores :
       /\ last_commit_tid[c] < MAX_TID
       /\ gc[c].queue \cup gc[c].scratch
            \subseteq [tuple : Tuples, key : Keys \cup {None}, tick : Nat]
       /\ gc[c].last_reaped_epoch \in Nat
       /\ tx[c].tid < MAX_TID

(* The transactions of a set of positions of the serial order. *)
LastWrite(S, k) ==
  LET W == {i \in S : k \in DOMAIN serial[i].writes}
  IN IF W = {} THEN None ELSE serial[Max(W)].writes[k]

Committed == {i \in DOMAIN serial : serial[i].id \in committed}

(* Every committed read-write transaction saw, in every key it read, what  *)
(* the transactions serialized before it left there, as if they had run    *)
(* one after the other at the points where they drew their tids (or, with  *)
(* nothing to write, began to validate).                                   *)
Serializable ==
  \A i \in Committed : ~serial[i].ro =>
    \A o \in serial[i].obs :
      o.val = LastWrite({j \in Committed : j < i /\ ~serial[j].ro}, o.key)

Snapshot(tid) == {j \in Committed : ~serial[j].ro /\ serial[j].tid <= tid}

(* A read-only transaction sees the state that the transactions up to its  *)
(* snapshot tid left behind, while it runs and ever after: none of them is *)
(* still installing, and none commits below the snapshot later.            *)
SnapshotConsistent ==
  /\ \A i \in Committed : serial[i].ro =>
       \A o \in serial[i].obs : o.val = LastWrite(Snapshot(serial[i].tid), o.key)
  /\ \A c \in workload.readonly : tx[c].pc # "snapshot" =>
       \A o \in tx[c].obs : o.val = LastWrite(Snapshot(tx[c].snap), o.key)

(* Tids of committed writers are unique, their epochs never go down along  *)
(* the serial order, and a writer's tid is above that of every transaction *)
(* whose writes it read or wrote over: a prefix of epochs is a consistent  *)
(* state to recover.                                                       *)
TidsFollowSerialOrder ==
  TypeOK /\ \A i, j \in Committed :
    (/\ i < j /\ ~serial[i].ro /\ ~serial[j].ro
     /\ serial[i].tid # MIN_TID /\ serial[j].tid # MIN_TID) =>
      /\ serial[i].tid # serial[j].tid
      /\ EpochId(serial[i].tid) <= EpochId(serial[j].tid)
      /\ (\/ DOMAIN serial[i].writes \cap DOMAIN serial[j].writes # {}
          \/ \E o \in serial[j].obs : o.val # None /\ o.val.id = serial[i].id)
           => serial[i].tid < serial[j].tid

(* The tuples a core may still dereference. *)
Pointers(c) ==
  {tx[c].todo[j].tuple : j \in DOMAIN tx[c].todo}
    \cup {tx[c].read_set[j].tuple : j \in DOMAIN tx[c].read_set}
    \cup {tx[c].write_set[j].tuple : j \in DOMAIN tx[c].write_set}
    \cup {e.tuple : e \in gc[c].queue \cup gc[c].scratch}
    \cup ({tx[c].head} \ {None})

(* No transaction and no collector is left with a pointer to a freed       *)
(* tuple: neither clean_up_to_including, which frees superseded versions   *)
(* without RCU, nor RCU itself frees what a reader on a chain can reach.   *)
NoDanglingPointer ==
  /\ \A k \in Keys : tree[k] # None => heap[tree[k]].alive
  /\ \A c \in Cores : \A x \in Pointers(c) : heap[x].alive

(* A key leads to the latest tuple of its chain, or to one whose owner is  *)
(* about to replace it, and a latest tuple that is not locked can be       *)
(* reached: the ALWAYS_ASSERT(did_remove) of the collector and of the      *)
(* undoing of an insert holds.                                             *)
TreeLeadsToLatest ==
  /\ \A k \in Keys : tree[k] # None =>
       heap[tree[k]].latest \/ heap[tree[k]].owner # None
  /\ \A x \in Tuples :
       heap[x].latest /\ heap[x].owner = None => \E k \in Keys : tree[k] = x

(* The cores a core spins on: the holder of the tuple it reads, locks for  *)
(* writing or locks to collect it.                                         *)
WaitsFor(c) ==
  LET Holder(x) == {heap[x].owner} \ {None, c}
  IN CASE At(c, "read") /\ ~IsSnapshot(c) ->
            LET x == Head(tx[c].todo).tuple
            IN IF heap[x].write_intent /\ ~Tentative(x) THEN Holder(x) ELSE {}
       [] At(c, "lock") /\ tx[c].i <= Len(tx[c].order) ->
            LET x == tx[c].order[tx[c].i]
            IN IF Tentative(x) \/ DidInsert(tx[c], x) THEN {} ELSE Holder(x)
       [] At(c, "clean") -> UNION {Holder(e.tuple) : e \in gc[c].scratch}
       [] OTHER -> {}

(* Cores never spin on each other in a circle, although inserts hold their *)
(* locks from the moment they run and out of address order.                *)
NoWaitCycle ==
  \A S \in (SUBSET Cores) \ {{}} : \E c \in S : WaitsFor(c) \cap S = {}

(* read_own_writes: "if we read a key which we previous put(), are we      *)
(* guaranteed to read our latest (uncommited) values?"  They are not:      *)
(* after two puts of a key, find_write_set finds the first.                *)
ReadsOwnLatestWrite ==
  \A c \in Cores : \A r \in tx[c].own : r.got = r.last

(* The tree walk of unsafe_purge leaves a removed tuple alone because it   *)
(* is "enqueued already to background gc by the writer of the delete".     *)
(* One that was left by the remove of an absent key is not.                *)
RemovedTuplesAreQueued ==
  \A k \in Keys : LET x == tree[k] IN
    x # None /\ heap[x].deleting /\ heap[x].owner = None =>
      \E c \in Cores : \E e \in gc[c].queue \cup gc[c].scratch : e.tuple = x

(* "assumption: rcu_ticks can only go up!": the ticks a core's collector   *)
(* queue is given never go down, be they commit epochs or, for a deletion  *)
(* queued again, the tick of the moment.                                   *)
GcTicksGoUp ==
  [][\A c \in Cores : \A e \in gc'[c].queue \ gc[c].queue : \A f \in gc[c].queue :
       f.tick <= e.tick]_vars

(* What has begun to commit or to abort comes to an end. *)
CommitsEnd ==
  \A c \in Cores : (tx[c].pc \in {"lock", "undo"}) ~> (tx[c].pc = "idle")
=============================================================================
