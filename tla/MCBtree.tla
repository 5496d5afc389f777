------------------------------- MODULE MCBtree -------------------------------
(***************************************************************************)
(* Tests of btree.cc in which its assertions, or what btree.h says of a     *)
(* scan, do not hold, on trees of at most three keys per node.              *)
(***************************************************************************)
EXTENDS BtreeTests

\* Keys that stay are looked up while others come and go.
LookupTests == {mp_test4(3, 2)} \cup {mp_test7(k) : k \in {K(0), K(2), K(3), K(6)}}

MCEvens == Each(ins, Step2(2, 4))

\* Two leaves are merged while a scan is on its way to the second one.
MergedSetup == MCEvens \o Each(rm, <<K(2), K(4)>>)

MergedTests == mp_test5(MergedSetup, {<<scan(K(8), NoUpper)>>}, {<<rm(K(6)), ins(K(9))>>})

\* An insert that walks left meets the new leaf of a split before its min_key_ is set.
SplitSetup == Each(ins, <<K(4), K(8), K(10), K(12), K(16), K(20)>>) \o Each(rm, <<K(8), K(10)>>)

SplitCalls == {<<rm(K(4)), rm(K(12)), ins(K(17)), ins(K(18)), ins(K(12))>>}

SplitTests == mp_test5(SplitSetup, {<<ins(K(14))>>}, SplitCalls)
=============================================================================
