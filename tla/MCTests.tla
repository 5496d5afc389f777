------------------------------- MODULE MCTests -------------------------------
(***************************************************************************)
(* The tests of btree.cc on trees of at most three keys per node, and the   *)
(* transaction tests of txn_btree.cc on small tables.  They share no state; *)
(* `which' says which of the two runs, the variables of the other are off.  *)
(***************************************************************************)
EXTENDS MCBtree

CONSTANTS TxnTestNames, niters, naccounts, amount_per_person, NDoctors, range_begin, range_end, absent

VARIABLES which, test, db, version, snap, w, failed

txnVars == <<test, db, version, snap, w, failed>>

Txns == INSTANCE TxnTests WITH Tests <- TxnTestNames

off == "off"

TxnsOff == test = off /\ db = off /\ version = off /\ snap = off /\ w = off /\ failed = off
BtreeOff == nodes = off /\ root_ = off /\ th = off /\ map = off /\ hist = off /\ reads = off /\ early = off

MCInit ==
    \/ which = "btree" /\ Init /\ TxnsOff
    \/ which = "txn" /\ Txns!Init /\ BtreeOff

BtreeStep == which = "btree" /\ Next /\ UNCHANGED <<which, txnVars>>
TxnStep == which = "txn" /\ Txns!Next /\ UNCHANGED <<which, vars>>

MCSpec == MCInit /\ [][BtreeStep \/ TxnStep]_<<which, vars, txnVars>>

(***************************************************************************)
(* Of the B-tree the properties below are claimed until a thread has used   *)
(* the new leaf of a split before its min_key_ was set (`early', see        *)
(* SplitTests for what can happen then); a lookup may miss a key that stays *)
(* if its leaf has changed meanwhile (see LookupTests); and node versions   *)
(* protect what was read while the nodes are part of the tree (see          *)
(* MergedTests).                                                            *)
(***************************************************************************)

\* insert, insert_if_absent and remove of the B-tree find their key exactly when a map would.
BtreeWritesRight == which = "btree" /\ ~early => WritesRight

\* A lookup returns only values its key has had, and misses a key that stays only if the
\* leaf it has read has changed; a scan delivers in order, and leaves out no key of its
\* range that stays.
BtreeReadsRight == which = "btree" /\ ~early => LookupsMissOnlyWhenChanged /\ ScansRight

\* While the nodes a lookup or scan has read are in the tree and their versions unchanged,
\* its result still holds.
BtreeVersionsProtect == which = "btree" /\ ~early => VersionsProtectInTree

\* When no call is under way the tree is well formed and holds the map.
BtreeIsMap == which = "btree" /\ ~early => TreeIsMap

\* No assertion of a multi-threaded transaction test fails.
ConcurrentTestsPass == which = "txn" => Txns!ConcurrentTestsPass

\* Of two transactions of a single-threaded test at least one commits, and what commits is
\* as if they had run one after the other.
RacesSerial == which = "txn" => Txns!RacesSerial

-----------------------------------------------------------------------------
(* Constants. *)
MCWrites == {ins(K(i)) : i \in {1, 3, 5}} \cup {rm(K(i)) : i \in {2, 4, 6}}

MCReads == {get(K(i)) : i \in {4, 6, 8}} \cup {scan(K(3), NoUpper)}

\* Calls that meet a leaf which is merged, and those that merge it.
MCMergedOps == {scan(K(i), NoUpper) : i \in {5, 8}} \cup {get(K(8)), get(K(9)), ins(K(7)), rm(K(8))}

MCMerges == {rm(K(6)), rm(K(8)), ins(K(7)), ins(K(9))}

\* A tree of three levels whose leaves and internal nodes have one key.
MCTall == Each(ins, Step2(2, 13)) \o Each(rm, <<K(2), K(4), K(8), K(10), K(14), K(16)>>)

MCTallOps == {rm(K(6)), rm(K(12)), rm(K(18)), ins(K(7)), ins(K(23)), ins(K(25))}

\* Keys of two layers; the layer of slice 1 has more keys than a leaf holds.
MCLayers == Each(ins, <<L(1, 1), L(1, 3), L(1, 5), L(1, 7), K(1), L(2, 2)>>)

MCLayerOps == {ins(L(1, 2)), ins(L(1, 9)), rm(L(1, 3)), rm(L(1, 7)), ins(L(2, 3)), rm(K(1))}

MCTests ==
    TestConcurrentBtreeFast \cup test5
    \cup {test6, mp_test1, mp_test2, mp_test3, mp_test4(3, 2),
          mp_test6(<<K(0), K(2), K(4)>>, <<K(1), K(3), K(5)>>), mp_test7(K(2)), mp_test8, mp_test_long_keys,
          Seq1(<<ins(K(1)), scan(K(2), K(1))>>)}
    \cup mp_test5(MCEvens, [1 .. 1 -> MCWrites \cup MCReads], [1 .. 2 -> MCWrites])
    \cup mp_test5(MergedSetup, [1 .. 1 -> MCMergedOps], [1 .. 2 -> MCMerges])
    \cup mp_test5(SplitSetup, [1 .. 1 -> {ins(K(14)), ins(K(15)), rm(K(16)), get(K(16)), get(K(20)), scan(K(4), NoUpper)}],
                  SplitCalls)
    \cup mp_test5(MCTall, [1 .. 1 -> MCTallOps], [1 .. 2 -> MCTallOps])
    \cup mp_test5(MCLayers, [1 .. 1 -> MCLayerOps \cup {scan(L(1, 4), NoUpper)}], [1 .. 2 -> MCLayerOps])

AllTests == {"mp_test1", "mp_test2", "mp_test3 scan", "mp_test3 1by1", "mp_test_simple_write_skew",
             "mp_test_batch_processing", "stale", "insert", "scan", "own", "test_absent_key_race",
             "test_multi_btree", "test_read_only_snapshot", "test_insert_same_key"}

Iters == [count |-> 2, mutate |-> 6, read |-> 2, transfer |-> 2, sum |-> 1, doctor |-> 3,
          report |-> 3, receipt |-> 2, incr |-> 2, once |-> 1]
=============================================================================
