------------------------------- MODULE MCTxn --------------------------------
(* Instances of Txn for TLC. *)
EXTENDS Txn, TxnInv, TLC

CONSTANTS k1, k2

MCCores == 0 .. NMAXCORES - 1

Each(x) == [c \in MCCores |-> x]
Core01(x, y) == [c \in MCCores |-> IF c = 0 THEN x ELSE y]

Base == [keys |-> Keys, loaded |-> {k1}, ops |-> Each({"get", "put"}), readonly |-> {},
         MaxTxns |-> Each(1), MaxOps |-> Each(2), MaxTicks |-> 1]

(* Two transactions on a loaded and an absent key. *)
ReadWrite == [Base EXCEPT !.ops = Core01({"get", "put", "remove"}, {"get", "put"})]

(* Two transactions that both remove. *)
Removes == [Base EXCEPT !.ops = Core01({"remove"}, {"get", "remove"})]

(* A commit on either side of a change of epoch, next to a single write. *)
TwoEpochs == [Base EXCEPT !.loaded = {k1, k2}, !.MaxTicks = 2,
                          !.ops = Core01({"get", "put"}, {"put"}), !.MaxOps = Core01(2, 1)]

(* Core 0 scans an empty table and writes, core 1 inserts or gives up. *)
ScanInsert == [Base EXCEPT !.loaded = {}, !.MaxOps = Core01(2, 1),
                           !.ops = Core01({"scan", "put"}, {"insert", "abort"})]

(* Core 0 writes, one operation at a time, and core 1 takes snapshots. *)
WriterAndReader ==
  [Base EXCEPT !.keys = {k1}, !.ops = Core01({"put", "remove"}, {"get"}), !.readonly = {1},
               !.MaxTxns = Core01(2, 1), !.MaxOps = Each(1), !.MaxTicks = 5]

(* One core writes and collects. *)
WriterAlone ==
  [Base EXCEPT !.keys = {k1}, !.ops = Each({"put", "remove"}), !.MaxTxns = Core01(3, 0),
               !.MaxOps = Each(1), !.MaxTicks = 6]

(* Readers and writers of two keys in a late tick. *)
LateTick == [Base EXCEPT !.loaded = {k1, k2}, !.MaxTicks = 5]

CommitWorkloads == {ReadWrite, Removes, TwoEpochs, ScanInsert, WriterAndReader, WriterAlone}
CollectWorkloads == {LateTick}

(* "This class implements a serializable, multi-version b-tree": in some   *)
(* order, every committed read-write transaction saw what the ones before  *)
(* it left behind.                                                         *)
SerializableInSomeOrder ==
  LET RW == {i \in Committed : ~serial[i].ro}
  IN Serializable \/
     \E at \in Permutations(RW) : \A i \in RW : \A o \in serial[i].obs :
       LET W == {j \in RW : at[j] < at[i] /\ o.key \in DOMAIN serial[j].writes}
       IN o.val = IF W = {} THEN None
                  ELSE serial[CHOOSE j \in W : \A m \in W : at[m] <= at[j]].writes[o.key]

(* Core 0 has loaded k1 and k2 and removed k1, all in epoch 1.  Four ticks *)
(* later it comes to collect the removed tuple.                            *)
RemoveTid == MakeTid(0, 2, 1)

RemovedInit ==
  /\ workload \in Workloads
  /\ current_tick = 5 /\ last_tick_inclusive = 4
  /\ pinned = [c \in Cores |-> 0]
  /\ tree = (k1 :> 1 @@ k2 :> 2)
  /\ leaf_version = 2
  /\ LET loaded == [FreeTuple EXCEPT !.alive = TRUE, !.latest = TRUE,
                       !.version = LoadTid, !.val = [id |-> Load, pos |-> 1]]
     IN heap = [x \in Tuples |->
                  CASE x = 1 -> [loaded EXCEPT !.version = RemoveTid, !.val = None,
                                               !.deleting = TRUE]
                    [] x = 2 -> loaded
                    [] OTHER -> FreeTuple]
  /\ limbo = {}
  /\ tx = [c \in Cores |-> IF c = 0 THEN [Embryo EXCEPT !.n = 1, !.pc = "collect"]
                           ELSE Embryo]
  /\ last_commit_tid = [c \in Cores |-> IF c = 0 THEN RemoveTid ELSE MIN_TID]
  /\ gc = [c \in Cores |->
             [queue |-> IF c = 0 THEN {[tuple |-> 1, key |-> k1, tick |-> 0]} ELSE {},
              scratch |-> {}, last_reaped_epoch |-> 0]]
  /\ serial = << [id |-> Load, ro |-> FALSE, tid |-> LoadTid, obs |-> {},
                  writes |-> [k \in Keys |-> [id |-> Load, pos |-> 1]]],
                 [id |-> <<0, 1>>, ro |-> FALSE, tid |-> RemoveTid, obs |-> {},
                  writes |-> (k1 :> None)] >>
  /\ committed = {Load, <<0, 1>>}

RemovedSpec == RemovedInit /\ [][Next]_vars
=============================================================================
