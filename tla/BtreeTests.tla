----------------------------- MODULE BtreeTests ------------------------------
(***************************************************************************)
(* The tests of btree.cc: what main and the workers call.  The sizes follow *)
(* NKeysPerNode where the tests do, else they are scaled down.  An insert   *)
(* stores 1, an overwriting one 2 and insert_if_absent 3 instead of a value *)
(* made from the key.  A worker that loops while the test runs makes a few  *)
(* calls.  The assertions on what a call returns are WritesRight,           *)
(* LookupsRight and ScansRight; invariant_checker(), size() and the         *)
(* searches after join() are TreeIsMap.                                     *)
(***************************************************************************)
EXTENDS Btree

CONSTANTS w0, w1, w2    \* the workers

K(i) == <<<<i, 8>>>>                \* u64_varkey(i)
S(i, len) == <<<<i, len>>>>         \* a key of len < 8 bytes
L(i, j) == <<<<i, 9>>, <<j, 8>>>>   \* a sixteen-byte key: slice i, then j in the next layer

ins(k) == [op |-> "insert", k |-> k, v |-> 1]
set(k) == [op |-> "insert", k |-> k, v |-> 2]
ins_if_absent(k) == [op |-> "insert_if_absent", k |-> k, v |-> 3]
rm(k) == [op |-> "remove", k |-> k]
get(k) == [op |-> "search", k |-> k]
size == [op |-> "size", k |-> <<<<0, 8>>>>]
scan(k, u) == [op |-> "scan", k |-> k, upper |-> u]

Up(a, b) == [i \in 1 .. b - a + 1 |-> K(a + i - 1)]
Step2(a, n) == [i \in 1 .. n |-> K(a + 2 * (i - 1))]
Each(F(_), ks) == [i \in DOMAIN ks |-> F(ks[i])]
\* Every change is followed by a search for its key.
Checked(F(_), ks) == FlattenSeq([i \in DOMAIN ks |-> <<F(ks[i]), get(ks[i])>>])

Mp(setup, p0, p1, p2) == (main :> setup) @@ (w0 :> p0) @@ (w1 :> p1) @@ (w2 :> p2)
Seq1(prog) == Mp(prog, <<>>, <<>>, <<>>)

\* Fill the root leaf, split it, fill the new root, split that.
test1 ==
    LET n == NKeysPerNode + NKeysPerNode * NMinKeysPerNode
    IN  Seq1(Checked(ins, Up(0, NKeysPerNode - 1)) \o <<size, ins(K(NKeysPerNode)), size>>
             \o Each(get, Up(0, NKeysPerNode)) \o Checked(ins, Up(NKeysPerNode + 1, n - 1))
             \o <<size, ins(K(n)), size>> \o Each(get, Up(0, n)))

\* The even keys, then the odd ones.
test2 == Seq1(Checked(ins, Step2(0, 5)) \o Checked(ins, Step2(1, 5)))

\* Fill two leaves and empty them: upwards, downwards, from the middle.
test3 ==
    LET m == NKeysPerNode * 2
        fill == Checked(ins, Up(0, m - 1))
    IN  Seq1(fill \o Checked(rm, Up(0, m - 1)) \o fill \o Checked(rm, Reverse(Up(0, m - 1)))
             \o fill \o Checked(rm, Reverse(Up(0, NKeysPerNode)))
             \o Checked(rm, Up(NKeysPerNode + 1, m - 1)))

\* Remove keys in any order, some twice.
test4 == {Seq1(Each(ins, Up(0, 4)) \o Checked(rm, ks)) : ks \in [1 .. 3 -> {K(i) : i \in 0 .. 4}]}

\* Insert and remove in any order.
test5 ==
    {Seq1(Checked(ins, p) \o Checked(rm, q) \o Each(rm, Up(0, 3))) :
        p \in [1 .. 4 -> {K(i) : i \in 0 .. 3}], q \in {Up(0, 3), Reverse(Up(0, 3)), Step2(0, 2)}}

test6 == Seq1(Each(ins, Up(0, 9)) \o <<scan(K(5), K(6)), scan(K(5), K(8)), scan(K(5), NoUpper)>>)

test7 ==
    Seq1(<<rm(K(0)), ins(K(0)), set(K(0)), get(K(0)), ins_if_absent(K(0)), get(K(0)), rm(K(0)),
           ins_if_absent(K(0)), get(K(0))>>)

VarlenTest(ks) == Seq1(Each(ins, ks) \o <<size>> \o Each(get, ks) \o Each(rm, ks) \o <<size>>)

test_varlen_single_layer == VarlenTest([i \in 1 .. 5 |-> S(i, i)])

test_varlen_multi_layer ==
    VarlenTest(<<S(1, 7), K(2), <<<<2, 9>>, <<1, 1>>>>, <<<<2, 9>>, <<2, 2>>>>, <<<<2, 9>>, <<3, 3>>>>,
                 [i \in 1 .. 6 |-> <<2, IF i < 6 THEN 9 ELSE 8>>]>>)

test_two_layer == Seq1(<<ins(<<<<2, 9>>, <<1, 1>>>>), ins(<<<<2, 9>>, <<2, 2>>>>), size>>)

test_two_layer_range_scan ==
    Seq1(Each(ins, <<S(1, 1), K(2), <<<<2, 9>>, <<1, 1>>>>, <<<<2, 9>>, <<2, 2>>>>,
                     <<<<2, 9>>, <<3, 3>>>>>> \o [i \in 1 .. 6 |-> S(2 + i, 1)])
         \o <<scan(S(0, 0), NoUpper)>>)

\* One key of 40 bytes, scanned from just after it to a key of the same prefix.
test_multi_layer_scan ==
    LET prefix == <<<<1, 9>>, <<2, 9>>, <<3, 9>>>>
    IN  Seq1(<<ins(prefix \o <<<<0, 9>>, <<0, 8>>>>),
               scan(prefix \o <<<<0, 9>>, <<0, 9>>, <<0, 1>>>>, prefix \o <<<<255, 9>>, <<255, 8>>>>)>>)

\* Keys of zero bytes only; as many lengths of one slice as fit a leaf that can be split.
test_null_keys ==
    LET ks == <<S(0, 0), S(0, 1), <<<<0, 9>>, <<0, 1>>>>, <<<<0, 9>>, <<0, 2>>>>>>
        nulls == SubSeq(ks, 1, NKeysPerNode - 2) \o SubSeq(ks, 3, 4)
    IN  Seq1(Each(ins, nulls) \o Each(get, nulls) \o Each(ins, Up(1, 5)) \o Each(get, nulls)
             \o Each(get, Up(1, 5)))

\* Prefixes, each followed by zero bytes.
test_null_keys_2 ==
    LET ks == <<S(0, 1), <<<<0, 9>>, <<0, 1>>>>, <<<<0, 9>>, <<0, 2>>>>, S(1, 2), <<<<1, 9>>, <<0, 1>>>>,
                <<<<1, 9>>, <<0, 8>>>>, <<<<1, 9>>, <<0, 9>>, <<0, 1>>>>>>
    IN  Seq1(Each(ins, ks) \o Each(get, ks) \o <<scan(Head(ks), NoUpper)>> \o Each(rm, ks))

RandomKeys == {S(0, 0), K(1), L(1, 1), L(1, 2), L(2, 1)}

test_random_keys ==
    {Seq1(Each(ins, ks) \o Each(get, ks) \o <<scan(S(0, 0), NoUpper)>> \o Each(rm, ks)) :
        ks \in SetToSeqs(RandomKeys)}

test_insert_remove_mix ==
    {Seq1(Each(ins, p) \o FlattenSeq([i \in 1 .. 3 |-> <<rm(p[i]), ins(<<K(4), L(1, 3), L(5, 1)>>[i])>>])) :
        p \in SetToSeqs({K(1), L(1, 2), K(3)})}

-----------------------------------------------------------------------------
mp_test1 == Mp(<<>>, Each(ins, Up(0, 1)), Each(ins, Up(2, 4)), <<>>)

mp_test2 == Mp(Each(ins, Up(0, 5)), Each(rm, Up(0, 2)), Each(rm, Up(3, 5)), <<>>)

mp_test3 == Mp(Each(ins, Step2(0, 4)), Each(rm, Step2(0, 3)), Each(ins, Step2(1, 3)), <<>>)

\* n even keys stay; the first m odd ones are inserted, and removed and inserted again.
mp_test4(n, m) ==
    Mp(Each(ins, Step2(0, n)), Each(get, Step2(0, n)), Each(ins, Step2(1, m)),
       FlattenSeq([i \in 1 .. m |-> <<rm(K(2 * i - 1)), ins(K(2 * i - 1))>>]))

\* Every worker inserts or removes its own keys, over and over.
mp_test_pinning ==
    Mp(<<>>, <<ins(K(0)), ins(K(1)), rm(K(0))>>, <<ins(K(2)), ins(K(3)), rm(K(2))>>, <<>>)

\* The third phase: inserts and removes of the same keys.
mp_test_inserts_removes ==
    Mp(Each(ins, Up(0, 3)) \o Each(rm, Up(0, 3)), Each(ins, Up(0, 1)), Each(rm, Up(0, 1)), <<ins(K(2))>>)

\* Random searches, inserts and removes by two workers; setup stands for earlier ones.
mp_test5(setup, ps, qs) == {Mp(setup, p, q, <<>>) : p \in ps, q \in qs}

mp_test6(inserted, removed) == Mp(Each(ins, removed), Each(ins, inserted), Each(rm, removed), <<>>)

\* Some keys stay and are looked up and scanned while others come and go.
mp_test7(k) ==
    Mp(Each(ins, <<K(0), K(2), K(3), K(6)>>), <<get(k)>>, <<scan(K(3), NoUpper)>>,
       <<ins(K(1)), rm(K(4)), ins(K(5)), rm(K(1)), ins(K(4)), rm(K(5))>>)

mp_test8 == mp_test6(<<S(3, 2), L(1, 2)>>, <<S(0, 0), K(1), L(1, 1)>>)

\* Every key has at least nine bytes; a scan must find those that stay.
mp_test_long_keys ==
    Mp(Each(ins, <<L(1, 1), L(2, 4), L(1, 3), L(2, 5)>>), <<ins(L(1, 2)), ins(L(3, 1))>>,
       <<rm(L(2, 5))>>, <<scan(S(0, 0), NoUpper)>>)

TestConcurrentBtreeFast ==
    {test1, test2, test3, test7, test_varlen_single_layer, test_varlen_multi_layer, test_two_layer,
     test_two_layer_range_scan, test_multi_layer_scan, test_null_keys, test_null_keys_2,
     mp_test_pinning, mp_test_inserts_removes}
    \cup test4 \cup test_random_keys \cup test_insert_remove_mix
=============================================================================
