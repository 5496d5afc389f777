------------------------------ MODULE TxnProofs ------------------------------
(***************************************************************************)
(* TxnInv is an invariant of the transactions, the collector and the clock *)
(* together, and what follows from it for every behaviour.                 *)
(***************************************************************************)
EXTENDS TxnTypeProofs, TxnRunProofs, TxnInstallProofs

(* An operation of a transaction that runs preserves the invariant. *)
LEMMA OperationInv ==
  ASSUME TxnInv, UNCHANGED workload, NEW c \in Cores, Operation(c)
  PROVE  TxnInv'
<1>1. TxnTypes /\ PcOK(c) /\ workload \in Workload
  BY InvParts, SMTT(40)
<1>2. CASE Abort(c)
  BY <1>1, <1>2, AbortTypes, AbortOp, Zenon
<1>3. CASE do_search_range_call(c)
  <2>1. \A S \in SUBSET Keys :
          LET f == CHOOSE f \in [1 .. Cardinality(S) -> S] :
                     \A a, b \in DOMAIN f : a # b => f[a] # f[b]
          IN  f \in [1 .. Cardinality(S) -> S]
    BY SomeOrder, Zenon
  <2>2. TxnTypes'
    BY <1>1, <1>3, ScanTypes, Zenon
  <2> QED BY <1>3, <2>1, <2>2, ScanStep, Zenon
<1>4. ASSUME NEW k \in workload.keys, do_search(c, k)
      PROVE  TxnInv'
  <2>1. k \in Keys
    BY <1>1, SMTT(40) DEF Workload
  <2> QED BY <1>1, <1>4, <2>1, SearchTypes, SearchStep, Zenon
<1>5. ASSUME NEW k \in workload.keys, NEW op \in OpKinds, do_tree_put(c, k, op)
      PROVE  TxnInv'
  <2>1. k \in Keys
    BY <1>1, SMTT(40) DEF Workload
  <2> QED BY <1>1, <1>5, <2>1, TreePutTypes, TreePutStep, Zenon
<1>6. CASE commit(c)
  <2>1. tx[c].write_set \in Seq(WriteRec)
    BY <1>1, TxFields, SMTT(40) DEF TxnTypes
  <2>2. SortFacts(tx[c].write_set)
    BY <2>1, SortedTuplesFacts, Zenon DEF SortFacts
  <2> QED BY <1>1, <1>6, <2>2, CommitTypes, CommitStep, Zenon
<1> QED BY <1>2, <1>3, <1>4, <1>5, <1>6, Zenon DEF Operation

(* The write of one record preserves the invariant. *)
LEMMA WriteRecordInv ==
  ASSUME TxnInv, UNCHANGED workload, NEW c \in Cores, NEW fits, WriteRecord(c, fits)
  PROVE  TxnInv'
<1>1. TxnTypes /\ PcOK(c)
  BY InvParts, SMTT(40)
<1>2. TxnTypes'
  BY <1>1, WriteTypes, Zenon
<1>3. PICK j \in WriteNext(c) :
         /\ \A i \in WriteNext(c) : j <= i
         /\ WInsert(c, j) \/ WInPlace(c, j) \/ WSpill(c, j) \/ WChain(c, j)
  BY <1>1, WriteCases, Zenon
<1>4. NextWrite(c, j)
  <2>1. WriteNext(c) = Ahead(tx[c])
    BY DEF WriteNext, Ahead
  <2>2. ~tx[c].write_set[j].insert =>
          \A a \in Ahead(tx[c]) : a # j => tx[c].write_set[a].tuple # WTuple(c, j)
    BY <1>1, <1>3, <2>1, WriteNextLast, Zenon DEF WTuple
  <2> QED BY <1>3, <2>1, <2>2, Zenon DEF NextWrite, WriteRecord, At
<1>5. UNCHANGED <<clockVars, tree, limbo, workload>>
  BY Zenon DEF WriteRecord
<1>6. CanAlloc => Fresh \in Tuples /\ ~heap[Fresh].alive
  BY FreshIsFree, SMTT(40)
<1>7. CASE WChain(c, j)
  BY <1>2, <1>4, <1>5, <1>6, <1>7, ChainStep, Zenon
<1>8. CASE WInsert(c, j) \/ WInPlace(c, j) \/ WSpill(c, j)
  BY <1>2, <1>4, <1>5, <1>6, <1>8, WriteStep, Zenon
<1> QED BY <1>3, <1>7, <1>8, SMTT(40)

(* What a core does by itself preserves the invariant. *)
LEMMA ProgressInv ==
  ASSUME TxnInv, UNCHANGED workload, NEW c \in Cores, Progress(c)
  PROVE  TxnInv'
<1>1. TxnTypes /\ PcOK(c)
  BY InvParts, SMTT(40)
<1>2. CASE TakeSnapshot(c)
  BY <1>1, <1>2, TakeSnapshotTypes, TakeSnapshotStep, Zenon
<1>3. CASE do_tuple_read(c)
  <2>1. AfterSnapshot
    BY ReadOnlyTidNat, AboveSnapshot, Zenon DEF AfterSnapshot
  <2>2. TxnTypes'
    BY <1>1, <1>3, TupleReadTypes, Zenon
  <2> QED BY <1>3, <2>1, <2>2, TupleReadStep, Zenon
<1>4. CASE PutFind(c)
  BY <1>1, <1>4, PutFindTypes, PutFindStep, Zenon
<1>5. CASE try_insert_new_tuple(c)
  BY <1>1, <1>5, FreshIsFree, InsertTypes, InsertStep, Zenon
<1>6. CASE handle_last_tuple_in_group(c)
  BY <1>1, <1>6, LockTypes, LockStep, Zenon
<1>7. CASE gen_commit_tid(c)
  <2>1. /\ EpochId(NewTid(c)) = current_tick
        /\ Become(c, [tx[c] EXCEPT !.pc = "validate", !.tid = NewTid(c), !.i = 1])
    BY <1>1, <1>7, GenTid, Zenon
  <2>2. /\ tx[c].pc = "lock" /\ tx[c].i > Len(tx[c].order)
        /\ UNCHANGED <<clockVars, dbVars, gc, workload>>
    BY <1>7, SMTT(40) DEF gen_commit_tid, At
  <2>3. TxnTypes'
    BY <1>1, <1>7, GenTypes, Zenon
  <2> QED BY <2>1, <2>2, <2>3, GenStep, Zenon
<1>8. CASE ValidateRead(c)
  BY <1>1, <1>8, ValidateReadTypes, ValidateReadStep, Zenon
<1>9. CASE ValidateAbsent(c)
  BY <1>1, <1>9, ValidateAbsentTypes, ValidateAbsentStep, Zenon
<1>10. ASSUME NEW fits \in BOOLEAN, WriteRecord(c, fits)
       PROVE  TxnInv'
  BY <1>10, WriteRecordInv, Zenon
<1>11. CASE Replace(c)
  BY <1>1, <1>11, ReplaceTypes, ReplaceStep, Zenon
<1>12. CASE Unlock(c)
  BY <1>1, <1>12, FirstHeldFacts, UnlockTypes, UnlockStep, Zenon
<1>13. CASE Undo(c)
  BY <1>1, <1>13, FirstHeldFacts, UndoTypes, UndoStep, Zenon
<1>14. CASE UndoEnd(c)
  BY <1>1, <1>14, UndoEndTypes, UndoEndStep, Zenon
<1>15. CASE End(c)
  BY <1>1, <1>15, EndTypes, EndStep, Zenon
<1>16. CASE on_post_rcu_region_completion(c)
  BY <1>1, <1>16, CollectTypes, CollectStep, Zenon
<1>17. ASSUME NEW e \in gc[c].scratch, CleanVersion(c, e)
       PROVE  TxnInv'
  BY <1>1, <1>17, CleanVersionTypes, CleanVersionStep, Zenon
<1>18. ASSUME NEW e \in gc[c].scratch, CleanDelete(c, e)
       PROVE  TxnInv'
  BY <1>1, <1>18, CleanDeleteTypes, CleanDeleteStep, Zenon
<1>19. CASE CleanRemoved(c)
  BY <1>1, <1>19, CleanRemovedTypes, CleanRemovedStep, Zenon
<1>20. CASE CleanEnd(c)
  BY <1>1, <1>20, CleanEndTypes, CleanEndStep, Zenon
<1> QED
  BY <1>2, <1>3, <1>4, <1>5, <1>6, <1>7, <1>8, <1>9, <1>10, <1>11, <1>12, <1>13, <1>14, <1>15,
     <1>16, <1>17, <1>18, <1>19, <1>20, ZenonT(40) DEF Progress

(* Every step preserves the invariant. *)
LEMMA NextInv ==
  ASSUME TxnInv, [Next]_vars
  PROVE  TxnInv'
<1>1. CASE UNCHANGED vars
  BY <1>1, Stutters, SMTT(40)
<1>2. CASE Next
  <2>1. UNCHANGED workload /\ TxnTypes
    BY <1>2, InvParts, Zenon DEF Next
  <2>2. CASE ClockStep
    BY <2>1, <2>2, ClockStepTypes, ClockSteps, Zenon
  <2>3. ASSUME NEW c \in Cores, Begin(c)
        PROVE  TxnInv'
    BY <2>1, <2>3, BeginTypes, BeginStep, Zenon
  <2>4. ASSUME NEW c \in Cores, Operation(c)
        PROVE  TxnInv'
    BY <2>1, <2>4, OperationInv, Zenon
  <2>5. ASSUME NEW c \in Cores, Progress(c)
        PROVE  TxnInv'
    BY <2>1, <2>5, ProgressInv, Zenon
  <2>6. ASSUME NEW l \in limbo, RcuFree(l)
        PROVE  TxnInv'
    BY <2>1, <2>6, RcuFreeTypes, RcuFreeStep, Zenon
  <2> QED BY <1>2, <2>2, <2>3, <2>4, <2>5, <2>6, Zenon DEF Next
<1> QED BY <1>1, <1>2, SMTT(40)

(* TxnInv is an invariant of the transactions, the collector and the clock *)
(* together.                                                               *)
THEOREM Invariant == Spec => []TxnInv
<1>1. Init => TxnInv
  BY InitInv, SMTT(40)
<1>2. TxnInv /\ [Next]_vars => TxnInv'
  BY NextInv, SMTT(40)
<1> QED BY <1>1, <1>2, PTL DEF Spec

(* Every variable of the database keeps its type, and every tid is below   *)
(* MAX_TID.                                                                *)
THEOREM Types == Spec => []TypeOK
<1>1. TxnInv => TypeOK
  BY InvTypes, Zenon
<1> QED BY <1>1, Invariant, PTL

(* A key leads to the latest tuple of its chain or to one whose owner is   *)
(* about to replace it, and a latest tuple nobody holds is in the tree.    *)
THEOREM TreeLeads == Spec => []TreeLeadsToLatest
<1>1. TxnInv => TreeLeadsToLatest
  BY InvTree, Zenon
<1> QED BY <1>1, Invariant, PTL

(* Neither the collector, which frees superseded versions without RCU, nor *)
(* RCU itself frees a tuple that the tree, a transaction or a queue still  *)
(* points to.                                                              *)
THEOREM NothingDangles == Spec => []NoDanglingPointer
<1>1. TxnInv => NoDanglingPointer
  BY InvAlive, Zenon
<1> QED BY <1>1, Invariant, PTL

(* Cores never wait for each other in a circle: whoever is waited for and  *)
(* waits itself is locking its write set, in the order of addresses.       *)
THEOREM NoCycle == Spec => []NoWaitCycle
<1>1. TxnInv => NoWaitCycle
  BY InvNoCycle, Zenon
<1> QED BY <1>1, Invariant, PTL

(* "rcu_ticks can only go up": what is put into a collector's queue, be it *)
(* by a commit or by the collector itself, never has a lower tick than     *)
(* what is there.                                                          *)
THEOREM TicksGoUp == Spec => GcTicksGoUp
<1>1. TxnInv /\ [Next]_vars
        => [\A c \in Cores : \A e \in gc'[c].queue \ gc[c].queue : \A f \in gc[c].queue :
              f.tick <= e.tick]_vars
  BY NextGoesUp, Zenon
<1> QED BY <1>1, Invariant, PTL DEF Spec, GcTicksGoUp

==============================================================================
