------------------------------ MODULE TxnTests ------------------------------
(***************************************************************************)
(* The programs of txn_btree.cc: the multi-threaded tests, whose workers    *)
(* assert what serializable transactions and consistent snapshots give      *)
(* them, and the pairs of transactions of the single-threaded tests, which  *)
(* the tests interleave by hand in one way and which run here in every way. *)
(*                                                                          *)
(* The store below them is a tree per table, of one leaf whose version      *)
(* counts insertions, with the read, absent and write sets of the           *)
(* transactions.  commit locks the write set in one step, validates in one  *)
(* and writes in one; Txn takes these apart and has the version chains,     *)
(* epochs and tids that are left out here.  A read-only transaction reads a *)
(* snapshot.                                                                *)
(***************************************************************************)
EXTENDS Integers, Sequences, FiniteSets, SequencesExt, FiniteSetsExt, Functions

CONSTANTS Tests,          \* the tests to run
          niters,         \* bound on the transactions of a worker, by its role
          naccounts, amount_per_person,
          NDoctors,
          range_begin, range_end,
          absent          \* no value

VARIABLES test,     \* the test that runs
          db,       \* key -> its tuple
          version,  \* tree -> the version of its leaf
          snap,     \* key -> value at the latest snapshot
          w,        \* the workers
          failed    \* whether an assertion has failed

ttvars == <<test, db, version, snap, w, failed>>

\* Keys are <<tree, i, j>>.
K(i) == <<0, i, 0>>
K1(i) == <<1, i, 0>>
Receipt(bid, rid) == <<1, bid, rid>>
Tree(k) == k[1]

ctr_key == K(0)
ctrl == K(0)          \* the record of the ctrl tree

put(f, k, v) == [x \in DOMAIN f \cup {k} |-> IF x = k THEN v ELSE f[x]]

Interval(a, b) == [i \in 1 .. b - a + 1 |-> a + i - 1]
Keys(a, b) == [i \in 1 .. b - a + 1 |-> K(a + i - 1)]

(***************************************************************************)
(* A tuple: its value (absent if it is deleted), the tid of its latest      *)
(* version, which tuple of the key it is (a key that was removed from the   *)
(* tree gets another one), whether the tree leads to it ("no", "new" for a  *)
(* tuple that its transaction has inserted and not committed, whose version *)
(* is MAX_TID, or "yes"), and the worker that holds its lock.               *)
(***************************************************************************)
Tuple(v) ==
    [val |-> v, tid |-> IF v = absent THEN 0 ELSE 1, id |-> 0, tree |-> IF v = absent THEN "no" ELSE "yes", lock |-> 0]

-----------------------------------------------------------------------------
(* control_rec of mp_test2: the keys of the range that are present, ascending. *)

ctl_insert(s, v) == SelectSeq(s, LAMBDA x : x <= v) \o <<v>> \o SelectSeq(s, LAMBDA x : x > v)

ctl_remove(s, v) == SelectSeq(s, LAMBDA x : x # v)

Range0 == SelectSeq(Interval(range_begin, range_end - 1), LAMBDA k : k % 2 = 0)

Receipts == {Receipt(bid, rid) : bid \in 0 .. niters["incr"] + 1, rid \in 0 .. niters["receipt"] - 1}

Worker(role, d, ro, scans) ==
    [role |-> role, d |-> d, ro |-> ro, scans |-> scans, n |-> 0, mem |-> <<>>, pc |-> "idle", in |-> <<>>,
     vals |-> <<>>, seen |-> absent, read_set |-> <<>>, absent_set |-> <<>>, write_set |-> <<>>, ids |-> <<>>]

Test(load, workers) == [load |-> load, w |-> workers]

(* The values a test starts with, and its workers.  The code has 4 workers in     *)
(* mp_test1, 3 readers in mp_test2 (one scans backwards, over the same snapshot), *)
(* 4 transfers and 4 summing workers in mp_test3, which run in two mixes here,    *)
(* and two workers for a doctor.                                                  *)
mp_test1 == Test([k \in {K(0)} |-> absent], [x \in 1 .. 3 |-> Worker("count", 0, FALSE, FALSE)])

mp_test2 ==
    Test([k \in {ctr_key} \cup {K(i) : i \in range_begin .. range_end - 1} |->
             IF k = ctr_key THEN Range0 ELSE IF Contains(Range0, k[2]) THEN k[2] ELSE absent],
         <<Worker("mutate", 0, FALSE, FALSE), Worker("read", 0, TRUE, TRUE)>>)

mp_test3(workers) == Test([k \in {K(i) : i \in 0 .. naccounts - 1} |-> amount_per_person], workers)

Transfer == Worker("transfer", 0, FALSE, FALSE)
Sum(ro, by_scan) == Worker("sum", 0, ro, by_scan)

mp_test_simple_write_skew ==
    Test([k \in {K(i) : i \in 0 .. NDoctors - 1} |-> IF k[2] < 2 THEN 1 ELSE 0],
         [x \in 1 .. NDoctors |-> Worker("doctor", x - 1, FALSE, x = NDoctors)])

mp_test_batch_processing ==
    Test([k \in {ctrl} \cup Receipts |-> IF k = ctrl THEN 1 ELSE absent],
         <<Worker("report", 0, FALSE, TRUE), Worker("receipt", 0, FALSE, FALSE), Worker("incr", 0, FALSE, FALSE)>>)

(* The pairs of transactions of the single-threaded tests: what each of them looks up  *)
(* or scans, and then writes.  Of several puts of one key the last is what is written. *)
looks(ks, f) == Worker("once", [keys |-> ks, writes |-> f], FALSE, FALSE)
scans(ks, f) == Worker("once", [keys |-> ks, writes |-> f], FALSE, TRUE)
snapshot(ks) == Worker("once", [keys |-> ks, writes |-> <<>>], TRUE, FALSE)

Race(load, t0, t1) == Test([k \in {K(i) : i \in 0 .. 3} \cup {K1(0)} |-> load[k]], <<t0, t1>>)

Empty == [k \in {K(i) : i \in 0 .. 3} \cup {K1(0)} |-> absent]

\* A read that goes stale, racy insert, racy scan, an insert into the transaction's own scan.
test1 ==
    [stale |-> Race(put(Empty, K(0), 0), looks(<<K(0)>>, put(<<>>, K(0), 1)), looks(<<K(0)>>, <<>>)),
     insert |-> Race(put(Empty, K(0), 1), looks(<<K(0)>>, put(<<>>, K(0), 2)), looks(<<K(0)>>, put(<<>>, K(0), 3))),
     scan |-> Race(put(Empty, K(0), 2), scans(<<K(1), K(2), K(3)>>, put(<<>>, K(0), 0)), looks(<<>>, put(<<>>, K(2), 4))),
     own |-> Race(Empty, scans(<<K(1), K(2), K(3)>>, put(<<>>, K(2), 5)), looks(<<>>, put(<<>>, K(0), 1)))]

test_absent_key_race == Race(Empty, looks(<<K(0)>>, put(<<>>, K(0), 1)), looks(<<K(0)>>, put(<<>>, K(0), 1)))

test_multi_btree ==
    Race(Empty, looks(<<>>, put(put(<<>>, K(0), 123), K1(0), 123)), looks(<<K(0), K1(0)>>, <<>>))

test_read_only_snapshot ==
    Race(put(Empty, K(0), 0), looks(<<K(0)>>, put(<<>>, K(0), 1)), snapshot(<<K(0)>>))

test_insert_same_key == Race(Empty, looks(<<>>, put(<<>>, K(0), 3)), looks(<<>>, put(<<>>, K(0), 5)))

-----------------------------------------------------------------------------
(* The transactions of the workers.  p.vals is what a transaction has read; it *)
(* ends in [writes, inside, after, mem]: the choices of what it writes, what it *)
(* asserts within the transaction and once it has committed, and what the       *)
(* worker remembers.                                                            *)

\* The keys a transaction reads, in order.
KeysOf(p) ==
    CASE p.role = "count" -> <<K(0)>>
      [] p.role = "mutate" -> <<ctr_key, K(range_begin + (p.n % (range_end - range_begin)))>>
      [] p.role = "read" -> <<ctr_key>> \o Keys(range_begin, range_end - 1)
      [] p.role = "transfer" -> <<K(p.in[1]), K(p.in[2])>>
      [] p.role = "sum" -> Keys(0, naccounts - 1)
      [] p.role = "doctor" -> IF p.n % 2 = 0 THEN Keys(0, NDoctors - 1) ELSE <<>>
      [] p.role = "report" ->
            <<ctrl>> \o (IF p.vals = <<>> THEN <<>>
                         ELSE [r \in 1 .. niters["receipt"] |-> Receipt(p.vals[1] - 1, r - 1)])
      [] p.role = "once" -> p.d.keys
      [] OTHER -> <<ctrl>>

\* How many of them it looks up one by one before it scans the others.
Searches(p) == IF ~p.scans THEN Len(KeysOf(p)) ELSE IF p.role \in {"read", "report"} THEN 1 ELSE 0

AllFound(s) == \A i \in DOMAIN s : s[i] # absent

SumOf(s) == FoldLeft(LAMBDA a, b : IF b = absent THEN a ELSE a + b, 0, s)

End(p, writes, inside, after) == [writes |-> writes, inside |-> inside, after |-> after, mem |-> p.mem]

Count(p) ==
    End(p, {put(<<>>, K(0), IF p.vals[1] = absent THEN 1 ELSE p.vals[1] + 1)}, TRUE, TRUE)

mutate_worker(p) ==
    LET c == p.vals[1]
        k == KeysOf(p)[2]
        i == k[2]
        found == p.vals[2] # absent
    IN  End(p, {IF found THEN put(put(<<>>, k, absent), ctr_key, ctl_remove(c, i))
                ELSE put(put(<<>>, k, i), ctr_key, ctl_insert(c, i))},
            Len(c) > 1 /\ (found => p.vals[2] = i /\ Contains(c, i)), TRUE)

reader_worker(p) ==
    End(p, {<<>>}, \A i \in 2 .. Len(p.vals) : p.vals[i] \in {absent, KeysOf(p)[i][2]},
        SelectSeq(Tail(p.vals), LAMBDA x : x # absent) = p.vals[1])

transfer_worker(p) ==
    LET a == p.vals[1] b == p.vals[2]
    IN  End(p, {put(put(<<>>, K(p.in[1]), a - xfer), K(p.in[2]), b + xfer) :
                   xfer \in IF a > 1 THEN 1 .. a - 1 ELSE {1}}, AllFound(p.vals), TRUE)

\* An account with nothing on it is left alone: t.abort().
GivesUp(p) == p.role = "transfer" /\ p.vals[1] = 0

invariant_worker(p) ==
    End(p, {<<>>}, AllFound(p.vals), SumOf(p.vals) = naccounts * amount_per_person)

OnCall(p) == Cardinality({i \in DOMAIN p.vals : p.vals[i] = 1})

\* Takes doctor d off call if there is another one, or places d on call.
doctor_worker(p) ==
    End(p, {IF p.n % 2 = 1 THEN put(<<>>, K(p.d), 1)
            ELSE IF OnCall(p) = 2 THEN put(<<>>, K(p.d), 0) ELSE <<>>},
        AllFound(p.vals), p.n % 2 = 0 => OnCall(p) >= 1)

\* Two doctors on call are enough; else the transaction reads on.
Reading(p) ==
    /\ Len(p.vals) < Len(KeysOf(p))
    /\ p.role = "doctor" => OnCall(p) < 2

report_worker(p) ==
    LET bid == p.vals[1] - 1
        sum == SumOf(Tail(p.vals))
        again == bid \in DOMAIN p.mem
    IN  [End(p, {<<>>}, TRUE, again => p.mem[bid] = sum) EXCEPT
            !.mem = IF again THEN @ ELSE put(@, bid, sum)]

new_receipt_worker(p) ==
    LET bid == p.vals[1]
        rid == IF p.mem = <<>> \/ p.mem[1] # bid THEN 0 ELSE p.mem[2] + 1
    IN  [End(p, {put(<<>>, Receipt(bid, rid), 1)}, TRUE, TRUE) EXCEPT !.mem = <<bid, rid>>]

incr_worker(p) == End(p, {put(<<>>, ctrl, p.vals[1] + 1)}, TRUE, TRUE)

once(p) == [End(p, {p.d.writes}, TRUE, TRUE) EXCEPT !.mem = <<p.vals>>]

EndOf(p) ==
    CASE p.role = "count" -> Count(p)
      [] p.role = "mutate" -> mutate_worker(p)
      [] p.role = "read" -> reader_worker(p)
      [] p.role = "transfer" -> transfer_worker(p)
      [] p.role = "sum" -> invariant_worker(p)
      [] p.role = "doctor" -> doctor_worker(p)
      [] p.role = "report" -> report_worker(p)
      [] p.role = "receipt" -> new_receipt_worker(p)
      [] p.role = "incr" -> incr_worker(p)
      [] p.role = "once" -> once(p)

-----------------------------------------------------------------------------
(* The store. *)

MIN_TID == 0

TestOf(t) ==
    CASE t = "mp_test1" -> mp_test1
      [] t = "mp_test2" -> mp_test2
      [] t = "mp_test3 scan" -> mp_test3(<<Transfer, Transfer, Sum(FALSE, TRUE)>>)
      [] t = "mp_test3 1by1" -> mp_test3(<<Transfer, Sum(FALSE, FALSE), Sum(TRUE, FALSE)>>)
      [] t = "mp_test_simple_write_skew" -> mp_test_simple_write_skew
      [] t = "mp_test_batch_processing" -> mp_test_batch_processing
      [] t = "test_absent_key_race" -> test_absent_key_race
      [] t = "test_multi_btree" -> test_multi_btree
      [] t = "test_read_only_snapshot" -> test_read_only_snapshot
      [] t = "test_insert_same_key" -> test_insert_same_key
      [] OTHER -> test1[t]

Races == {"stale", "insert", "scan", "own", "test_absent_key_race", "test_multi_btree",
          "test_read_only_snapshot", "test_insert_same_key"}

Init ==
    /\ test \in Tests
    /\ db = [k \in DOMAIN TestOf(test).load |-> Tuple(TestOf(test).load[k])]
    /\ version = [t \in 0 .. 1 |-> 0]
    /\ snap = TestOf(test).load          \* after txn_epoch_sync::sync
    /\ w = TestOf(test).w
    /\ failed = FALSE

Committed == [k \in DOMAIN db |-> IF db[k].tree = "yes" THEN db[k].val ELSE absent]

\* A new snapshot becomes visible to read-only transactions.
Snapshot ==
    /\ \E x \in DOMAIN w : w[x].ro /\ w[x].n < niters[w[x].role]
    /\ snap # Committed /\ snap' = Committed
    /\ UNCHANGED <<test, db, version, w, failed>>

\* The collector takes a deleted tuple out of the tree.
Collect(k) ==
    /\ db[k].tree = "yes" /\ db[k].val = absent /\ db[k].lock = 0
    /\ db' = [db EXCEPT ![k] = [Tuple(absent) EXCEPT !.id = db[k].id + 1]]
    /\ UNCHANGED <<test, version, snap, w, failed>>

Idle(p) == [Worker(p.role, p.d, p.ro, p.scans) EXCEPT !.n = p.n, !.mem = p.mem]

\* The workers try again; a transaction of a pair has only one try.
Aborted(p) == IF p.role = "once" THEN [Idle(p) EXCEPT !.n = 1] ELSE Idle(p)

\* x gives back its locks, and the tuples ks it has inserted leave the tree again.
abort_impl(x, ks) ==
    /\ db' = [k \in DOMAIN db |->
                 IF k \in ks THEN [Tuple(absent) EXCEPT !.id = db[k].id + 1]
                 ELSE IF db[k].lock = x THEN [db[k] EXCEPT !.lock = 0] ELSE db[k]]
    /\ w' = [w EXCEPT ![x] = Aborted(@)]

Inserted(x) == {k \in DOMAIN db : db[k].tree = "new" /\ db[k].lock = x}

\* The versions of the leaves after the keys ks have been inserted.
Bumped(ks) == [t \in DOMAIN version |-> version[t] + Cardinality({k \in ks : Tree(k) = t})]

AbortNow(x) == abort_impl(x, Inserted(x)) /\ UNCHANGED version

Begin(x) ==
    /\ w[x].pc = "idle" /\ w[x].n < niters[w[x].role]
    /\ \E in \in IF w[x].role = "transfer" THEN {<<a, b>> : a, b \in 0 .. naccounts - 1} ELSE {<<>>} :
          /\ w[x].role = "transfer" => in[1] # in[2]
          /\ w' = [w EXCEPT ![x].pc = "read", ![x].in = in]
    /\ UNCHANGED <<test, db, version, snap, failed>>

ReadSnapshot(x) ==
    LET p == w[x]
    IN  /\ p.pc = "read" /\ p.ro /\ Reading(p)
        /\ w' = [w EXCEPT ![x].vals = [i \in DOMAIN KeysOf(p) |-> snap[KeysOf(p)[i]]]]
        /\ UNCHANGED <<test, db, version, snap, failed>>

\* p has read the leaf of tree t, and all is as before (else do_node_read aborts).
SameNode(p, t) == t \in DOMAIN p.absent_set => p.absent_set[t] = version[t]

\* Not found, or a scan begins: the version of the leaf goes into the absent set.
do_node_read(x, t, p) ==
    IF SameNode(p, t) THEN /\ w' = [w EXCEPT ![x] = [p EXCEPT !.absent_set = put(@, t, version[t])]]
                           /\ UNCHANGED <<db, version>>
    ELSE AbortNow(x)

\* A tuple that is being inserted, or has left the tree since the scan read the leaf, is
\* empty and never valid; one that is locked is waited for.
do_tuple_read(x, k, id) ==
    LET there == db[k].tree = "yes" /\ db[k].id = id
    IN  /\ there => db[k].lock = 0
        /\ w' = [w EXCEPT ![x].vals = Append(@, IF there THEN db[k].val ELSE absent),
                          ![x].read_set = put(@, k, [id |-> id, tid |-> IF there THEN db[k].tid ELSE MIN_TID])]
        /\ UNCHANGED <<db, version>>

do_search(x, k) ==
    IF db[k].tree # "no" THEN do_tuple_read(x, k, db[k].id)
    ELSE do_node_read(x, Tree(k), [w[x] EXCEPT !.vals = Append(@, absent)])

\* A scan reads the leaf, and then the tuples it has found there.
do_search_range_call(x, k) ==
    LET p == w[x]
    IN  IF p.seen = absent
        THEN do_node_read(x, Tree(k), [p EXCEPT !.seen = [j \in {i \in DOMAIN db : db[i].tree # "no"} |-> db[j].id]])
        ELSE IF k \in DOMAIN p.seen THEN do_tuple_read(x, k, p.seen[k])
        ELSE /\ w' = [w EXCEPT ![x].vals = Append(@, absent)]
             /\ UNCHANGED <<db, version>>

Read(x) ==
    LET p == w[x]
        i == Len(p.vals) + 1
    IN  /\ p.pc = "read" /\ ~p.ro /\ Reading(p)
        /\ IF i <= Searches(p) THEN do_search(x, KeysOf(p)[i]) ELSE do_search_range_call(x, KeysOf(p)[i])
        /\ UNCHANGED <<test, snap, failed>>

\* The puts of the transaction: a key that is not in the tree is inserted at once, locked
\* and with no version; the transaction's own change of a leaf is not held against it.
do_tree_put(x, f) ==
    LET p == w[x]
        new == {k \in DOMAIN f : db[k].tree = "no"}
    IN  IF \A k \in new : SameNode(p, Tree(k))
        THEN /\ db' = [k \in DOMAIN db |-> IF k \in new THEN [db[k] EXCEPT !.tree = "new", !.lock = x] ELSE db[k]]
             /\ version' = Bumped(new)
             /\ w' = [w EXCEPT ![x].pc = IF f = <<>> THEN "locked" ELSE "put",
                               ![x].write_set = f, ![x].ids = [k \in DOMAIN f |-> db[k].id],
                               ![x].absent_set = [t \in DOMAIN @ |->
                                   IF \E k \in new : Tree(k) = t THEN version'[t] ELSE @[t]]]
        ELSE abort_impl(x, new) /\ version' = Bumped(new)

Put(x) ==
    LET p == w[x]
        e == EndOf(p)
    IN  /\ p.pc = "read" /\ ~Reading(p)
        /\ failed' = (failed \/ ~e.inside)
        /\ \/ /\ GivesUp(p)
              /\ w' = [w EXCEPT ![x] = [Idle(p) EXCEPT !.n = p.n + 1]]
              /\ UNCHANGED <<db, version>>
           \/ ~GivesUp(p) /\ \E f \in e.writes : do_tree_put(x, f)
        /\ UNCHANGED <<test, snap>>

\* The tuples of the write set are locked, except those it has inserted and holds.  A tuple
\* that another transaction is inserting, or that has left the tree, means abort.
LockWrites(x) ==
    LET p == w[x]
        ks == DOMAIN p.write_set \ Inserted(x)
        latest(k) == db[k].tree = "yes" /\ db[k].id = p.ids[k]
    IN  /\ p.pc = "put"
        /\ IF \A k \in ks : latest(k)
           THEN /\ \A k \in ks : db[k].lock = 0
                /\ db' = [k \in DOMAIN db |-> IF k \in ks THEN [db[k] EXCEPT !.lock = x] ELSE db[k]]
                /\ w' = [w EXCEPT ![x].pc = "locked"]
                /\ UNCHANGED version
           ELSE AbortNow(x)
        /\ UNCHANGED <<test, snap, failed>>

(* Mutant: validation does not mind that another transaction holds the lock. *)
stable_is_latest_any(x, k, r) == db[k].tree = "yes" /\ db[k].id = r.id /\ db[k].tid <= r.tid

\* is_latest_version for the tuples x has locked, stable_is_latest_version for the others.
stable_is_latest_version(x, k, r) ==
    db[k].tree = "yes" /\ db[k].id = r.id /\ db[k].tid <= r.tid /\ db[k].lock \in {0, x}

(* Mutant: the absent set is not checked. *)
NodesAny(p) == TRUE

\* The leaves in which p has not found something are unchanged.
NodesSame(p) == \A t \in DOMAIN p.absent_set : SameNode(p, t)

\* The transaction of x has committed.
Committing(x) ==
    LET p == w[x]
    IN  /\ w' = [w EXCEPT ![x] = [Idle(p) EXCEPT !.n = p.n + 1, !.mem = EndOf(p).mem]]
        /\ failed' = (failed \/ ~EndOf(p).after)

Validate(x) ==
    LET p == w[x]
        valid == (\A k \in DOMAIN p.read_set : stable_is_latest_version(x, k, p.read_set[k])) /\ NodesSame(p)
    IN  /\ p.pc = "locked"
        /\ \/ valid /\ p.write_set # <<>> /\ w' = [w EXCEPT ![x].pc = "valid"] /\ UNCHANGED <<db, version, failed>>
           \/ valid /\ p.write_set = <<>> /\ Committing(x) /\ UNCHANGED <<db, version>>
           \/ ~valid /\ AbortNow(x) /\ UNCHANGED failed
        /\ UNCHANGED <<test, snap>>

WriteRecords(x) ==
    LET f == w[x].write_set
    IN  /\ w[x].pc = "valid"
        /\ db' = [k \in DOMAIN db |->
                     IF k \in DOMAIN f THEN [db[k] EXCEPT !.val = f[k], !.tid = @ + 1, !.tree = "yes", !.lock = 0]
                     ELSE db[k]]
        /\ Committing(x)
        /\ UNCHANGED <<test, version, snap>>

\* The workers have been joined.
Finished == \A x \in DOMAIN w : w[x].pc = "idle" /\ w[x].n = niters[w[x].role]

Next ==
    \/ Snapshot
    \/ \E k \in DOMAIN db : Collect(k)
    \/ \E x \in DOMAIN w :
          \/ Begin(x) \/ ReadSnapshot(x) \/ Read(x) \/ Put(x)
          \/ LockWrites(x) \/ Validate(x) \/ WriteRecords(x)      \* commit
    \/ Finished /\ UNCHANGED ttvars

Spec == Init /\ [][Next]_ttvars

-----------------------------------------------------------------------------
\* No assertion of a multi-threaded test fails, however its workers interleave:
\* no update of the counters is lost, the control record lists exactly the keys a
\* scan meets, transfers keep the sum, a doctor stays on call, a closed batch does
\* not change.
ConcurrentTestsPass ==
    /\ ~failed
    /\ test = "mp_test1" /\ Finished => db[K(0)].val = niters["count"] * Len(w)

\* The transactions of s, run one after the other, read what they have read and leave
\* behind what is in the database.
Fits(s) ==
    LET after(i) == FoldLeft(LAMBDA f, x : [k \in DOMAIN f |-> IF k \in DOMAIN w[x].d.writes THEN w[x].d.writes[k]
                                                               ELSE f[k]],
                             TestOf(test).load, SubSeq(s, 1, i))
    IN  /\ \A i \in DOMAIN s : w[s[i]].mem = <<[j \in DOMAIN w[s[i]].d.keys |-> after(i - 1)[w[s[i]].d.keys[j]]]>>
        /\ Committed = after(Len(s))

\* Whatever order the steps of the two transactions of a single-threaded test come in: one
\* of them commits, a read-only one always does, and what has committed is as if they had
\* run one after the other.
RacesSerial ==
    test \in Races /\ Finished =>
        LET done == {x \in DOMAIN w : w[x].mem # <<>>}
        IN  /\ done # {}
            /\ \A x \in DOMAIN w : w[x].ro => x \in done
            /\ \E s \in SetToSeqs(done) : Fits(s)
=============================================================================
