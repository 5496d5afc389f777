---------------------------- MODULE TxnTypeProofs ----------------------------
(***************************************************************************)
(* What the layout of transaction ids gives, for any widths of its fields: *)
(* the fields can be read back, tids are ordered by epoch first, then by   *)
(* number, then by core, and the tid of a snapshot separates the epochs    *)
(* before its read-only tick from the rest.  Every action of Txn keeps the *)
(* types of the variables.  TxnInv holds in the initial states, and        *)
(* implies the properties of Txn.                                          *)
(***************************************************************************)
EXTENDS Txn, TxnInv, Integers, FiniteSets, FiniteSetsExt, FiniteSetTheorems, TLAPS

-----------------------------------------------------------------------------
(* Transaction ids *)

(* A number cut into a quotient and a remainder can be read back. *)
LEMMA DivMod ==
  ASSUME NEW n \in Nat \ {0}, NEW r \in 0 .. n - 1, NEW q \in Nat
  PROVE  (r + n * q) \div n = q /\ (r + n * q) % n = r
  BY Z3

(* Every number is cut that way. *)
LEMMA DivModOf ==
  ASSUME NEW n \in Nat \ {0}, NEW v \in Nat
  PROVE  /\ v \div n \in Nat /\ v % n \in 0 .. n - 1
         /\ v = (v % n) + n * (v \div n)
  BY Z3

(* The quotient decides the order, then the remainder. *)
LEMMA HighPartFirst ==
  ASSUME NEW n \in Nat \ {0}, NEW r \in 0 .. n - 1, NEW s \in 0 .. n - 1,
         NEW p \in Nat, NEW q \in Nat
  PROVE  r + n * p < s + n * q <=> p < q \/ (p = q /\ r < s)
<1>1. CASE p < q
  <2>1. PICK d \in Nat : q = p + 1 + d BY <1>1
  <2>2. n * q = n * p + n + n * d BY <2>1
  <2>3. n * d >= 0 OBVIOUS
  <2> QED BY <1>1
<1>2. CASE p = q BY <1>2
<1>3. CASE q < p
  <2>1. PICK d \in Nat : p = q + 1 + d BY <1>3
  <2>2. n * p = n * q + n + n * d BY <2>1
  <2>3. n * d >= 0 OBVIOUS
  <2> QED BY <1>3
<1> QED OBVIOUS

(* The fields of a tid fit below the epoch. *)
LEMMA LowPart ==
  ASSUME NEW core \in 0 .. NMAXCORES - 1, NEW num \in 0 .. NumIds - 1, NEW epoch \in Nat
  PROVE  /\ NMAXCORES * NumIds \in Nat \ {0}
         /\ core + NMAXCORES * num \in 0 .. NMAXCORES * NumIds - 1
         /\ MakeTid(core, num, epoch)
              = (core + NMAXCORES * num) + (NMAXCORES * NumIds) * epoch
         /\ num + NumIds * epoch \in Nat
         /\ MakeTid(core, num, epoch) \in Nat
<1> USE TidAssumption
<1>1. PICK d \in Nat : NumIds = num + 1 + d OBVIOUS
<1>2. NMAXCORES * NumIds = NMAXCORES * num + NMAXCORES + NMAXCORES * d BY <1>1
<1>3. NMAXCORES * d >= 0 /\ NMAXCORES * num >= 0 OBVIOUS
<1>4. NMAXCORES * (num + NumIds * epoch) = NMAXCORES * num + (NMAXCORES * NumIds) * epoch
  BY Z3
<1>5. NumIds * epoch \in Nat /\ (NMAXCORES * NumIds) * epoch \in Nat OBVIOUS
<1> QED BY DEF MakeTid

(* CoreId, NumId and EpochId give back what MakeTid was given: two commits *)
(* of different cores never share a tid.                                   *)
THEOREM TidFields ==
  ASSUME NEW core \in 0 .. NMAXCORES - 1, NEW num \in 0 .. NumIds - 1, NEW epoch \in Nat
  PROVE  LET v == MakeTid(core, num, epoch)
         IN  CoreId(v) = core /\ NumId(v) = num /\ EpochId(v) = epoch
<1> DEFINE high == num + NumIds * epoch
           low == core + NMAXCORES * num
<1>1. high \in Nat /\ low \in 0 .. NMAXCORES * NumIds - 1
      /\ NMAXCORES * NumIds \in Nat \ {0}
  BY LowPart, Zenon
<1>2. MakeTid(core, num, epoch) = core + NMAXCORES * high BY DEF MakeTid
<1>3. MakeTid(core, num, epoch) = low + (NMAXCORES * NumIds) * epoch BY LowPart
<1> HIDE DEF high, low
<1>4. MakeTid(core, num, epoch) % NMAXCORES = core
      /\ MakeTid(core, num, epoch) \div NMAXCORES = high
  <2>1. (core + NMAXCORES * high) \div NMAXCORES = high
        /\ (core + NMAXCORES * high) % NMAXCORES = core
    BY <1>1, DivMod, TidAssumption, Zenon
  <2> QED BY <1>2, <2>1, Zenon
<1>5. high % NumIds = num BY TidAssumption, SMTT(40) DEF high
<1>6. MakeTid(core, num, epoch) \div (NMAXCORES * NumIds) = epoch
  BY <1>1, <1>3, SMTT(40)
<1> QED BY <1>4, <1>5, <1>6, ZenonT(40) DEF CoreId, NumId, EpochId

(* Tids are ordered by epoch, then by number, then by core. *)
THEOREM TidOrder ==
  ASSUME NEW core \in 0 .. NMAXCORES - 1, NEW num \in 0 .. NumIds - 1, NEW epoch \in Nat,
         NEW core2 \in 0 .. NMAXCORES - 1, NEW num2 \in 0 .. NumIds - 1, NEW epoch2 \in Nat
  PROVE  MakeTid(core, num, epoch) < MakeTid(core2, num2, epoch2)
           <=> \/ epoch < epoch2
               \/ epoch = epoch2 /\ num < num2
               \/ epoch = epoch2 /\ num = num2 /\ core < core2
<1> USE TidAssumption
<1>1. num + NumIds * epoch \in Nat /\ num2 + NumIds * epoch2 \in Nat BY LowPart, Zenon
<1>2. MakeTid(core, num, epoch) < MakeTid(core2, num2, epoch2)
        <=> \/ num + NumIds * epoch < num2 + NumIds * epoch2
            \/ num + NumIds * epoch = num2 + NumIds * epoch2 /\ core < core2
  BY DEF MakeTid
<1>3. num + NumIds * epoch < num2 + NumIds * epoch2
        <=> epoch < epoch2 \/ (epoch = epoch2 /\ num < num2)
  OBVIOUS
<1>4. num2 + NumIds * epoch2 < num + NumIds * epoch
        <=> epoch2 < epoch \/ (epoch2 = epoch /\ num2 < num)
  OBVIOUS
<1>5. num + NumIds * epoch = num2 + NumIds * epoch2 <=> epoch = epoch2 /\ num = num2
  OBVIOUS
<1> QED BY <1>2, <1>3, <1>5, ZenonT(40)

(* A snapshot taken at a tick holds exactly the commits of the read-only   *)
(* ticks before that tick's own: no read-only tick is cut in two.          *)
THEOREM SnapshotEndsReadOnlyTick ==
  ASSUME NEW core \in 0 .. NMAXCORES - 1, NEW num \in 0 .. NumIds - 1,
         NEW epoch \in Nat \ {0}, NEW tick_ex \in Nat
  PROVE  MakeTid(core, num, epoch) <= ComputeReadOnlyTid(tick_ex)
           <=> to_read_only_tick(epoch) < to_read_only_tick(tick_ex)
<1> USE TidAssumption
<1> DEFINE R == ReadOnlyEpochMultiplier
           T == to_read_only_tick(tick_ex)
           E == to_read_only_tick(epoch)
           b == T * R
<1>1. T \in Nat /\ E \in Nat /\ epoch % R \in 0 .. R - 1 /\ epoch = (epoch % R) + R * E
  BY DivModOf, Zenon DEF to_read_only_tick
<1> HIDE DEF T, E
<1>2. b \in Nat /\ b = 0 + R * T BY <1>1, Z3
<1>3. epoch < b <=> E < T
  <2>1. (epoch % R) + R * E < 0 + R * T <=> E < T \/ (E = T /\ epoch % R < 0)
    BY <1>1
  <2>2. epoch < 0 + R * T <=> E < T BY <1>1
  <2> QED BY <1>2, <2>2
<1> HIDE DEF b
<1>4. MakeTid(core, num, epoch) \in Nat BY LowPart, Zenon
<1>5. CASE b = 0
  <2>1. ComputeReadOnlyTid(tick_ex) = MakeTid(0, 0, 0)
    BY <1>5 DEF ComputeReadOnlyTid, b, T
  <2>2. MakeTid(0, 0, 0) < MakeTid(core, num, epoch) BY TidOrder
  <2>3. MakeTid(0, 0, 0) \in Nat BY LowPart
  <2> QED BY <1>3, <1>4, <1>5, <2>1, <2>2, <2>3, SMTT(40) DEF T, E
<1>6. CASE b # 0
  <2>1. b - 1 \in Nat BY <1>2, <1>6
  <2>2. ComputeReadOnlyTid(tick_ex) = MakeTid(NMAXCORES - 1, NumIds - 1, b - 1)
    BY <1>6 DEF ComputeReadOnlyTid, b, T
  <2>3. MakeTid(NMAXCORES - 1, NumIds - 1, b - 1) \in Nat
    <3>1. NMAXCORES - 1 \in 0 .. NMAXCORES - 1 /\ NumIds - 1 \in 0 .. NumIds - 1
      OBVIOUS
    <3> QED BY <2>1, <3>1, LowPart, ZenonT(40)
  <2>4. MakeTid(NMAXCORES - 1, NumIds - 1, b - 1) < MakeTid(core, num, epoch)
          <=> b - 1 < epoch
    <3>1. MakeTid(NMAXCORES - 1, NumIds - 1, b - 1) < MakeTid(core, num, epoch)
            <=> \/ b - 1 < epoch
                \/ b - 1 = epoch /\ NumIds - 1 < num
                \/ b - 1 = epoch /\ NumIds - 1 = num /\ NMAXCORES - 1 < core
      BY <2>1, TidOrder, SMTT(40)
    <3> QED BY <3>1
  <2> QED BY <1>2, <1>3, <1>4, <2>2, <2>3, <2>4, SMTT(40) DEF T, E
<1> QED BY <1>5, <1>6, Zenon

(* A set of numbers that is not empty has a least element. *)
LEMMA MinOfNats ==
  ASSUME NEW S \in SUBSET Nat, S # {}
  PROVE  Min(S) \in S /\ \A y \in S : Min(S) <= y
<1>1. PICK m \in S : \A y \in S : ~ (<<y, m>> \in OpToRel(<, Nat))
  BY WFMin, NatLessThanWellFounded, Zenon
<1>2. ASSUME NEW y \in S PROVE m <= y
  <2>1. m \in Nat /\ y \in Nat OBVIOUS
  <2>2. <<y, m>> \notin {ss \in Nat \X Nat : ss[1] < ss[2]}
    BY <1>1, Zenon DEF OpToRel
  <2>3. ~ (y < m) BY <2>2
  <2> QED BY <2>3
<1>3. \E x \in S : \A y \in S : x =< y
  BY <1>2, Zenon
<1> QED
  BY <1>3, Zenon DEF Min

(* A bounded one has a greatest element. *)
LEMMA MaxOfNats ==
  ASSUME NEW n \in Nat, NEW S \in SUBSET (0 .. n), S # {}
  PROVE  Max(S) \in S /\ \A y \in S : Max(S) >= y
<1> DEFINE D == {d \in Nat : n - d \in S}
<1>1. D # {} /\ D \in SUBSET Nat
  <2>1. PICK s \in S : TRUE BY Zenon
  <2>2. s \in Int /\ 0 <= s /\ s <= n OBVIOUS
  <2>3. n - s \in Nat /\ n - (n - s) = s OBVIOUS
  <2>4. n - s \in D BY <2>1
  <2> QED BY <2>4, Zenon
<1>2. Min(D) \in D /\ \A y \in D : Min(D) <= y
  BY <1>1, MinOfNats, SMTT(40)
<1>3. PICK d \in D : \A y \in D : d <= y
  BY <1>2
<1>4. d \in Nat /\ n - d \in S OBVIOUS
<1>5. ASSUME NEW y \in S PROVE n - d >= y
  <2>1. y \in Int /\ 0 <= y /\ y <= n OBVIOUS
  <2>2. n - y \in Nat /\ n - (n - y) = y OBVIOUS
  <2>3. n - y \in D OBVIOUS
  <2>4. d <= n - y BY <1>3, <2>3, Zenon
  <2> QED BY <2>4
<1>6. \E x \in S : \A y \in S : x >= y
  BY <1>5, Zenon
<1> QED
  BY <1>6, Zenon DEF Max

(* A finite set of tuples can be put in address order. *)
LEMMA SortExists ==
  ASSUME NEW N \in Nat, NEW S \in SUBSET (1 .. N)
  PROVE  /\ Cardinality(S) \in Nat
         /\ \E s \in [1 .. Cardinality(S) -> S] :
              /\ \A a, b \in 1 .. Cardinality(S) : a < b => s[a] < s[b]
              /\ \A x \in S : \E a \in 1 .. Cardinality(S) : s[a] = x
<1> DEFINE Good(n, T) == \E s \in [1 .. n -> T] :
             /\ \A a, b \in 1 .. n : a < b => s[a] < s[b]
             /\ \A x \in T : \E a \in 1 .. n : s[a] = x
           Bad == {n \in Nat : \E T \in SUBSET (1 .. N) :
                     IsFiniteSet(T) /\ Cardinality(T) = n /\ ~Good(n, T)}
<1>1. \A T \in SUBSET (1 .. N) : IsFiniteSet(T) /\ Cardinality(T) \in Nat
  <2>1. IsFiniteSet(1 .. N) BY FS_Interval
  <2> QED BY <2>1, FS_Subset, FS_CardinalityType, Zenon
<1>2. ASSUME Bad # {} PROVE FALSE
  <2>1. Bad \in SUBSET Nat OBVIOUS
  <2>2. PICK n \in Bad : \A m \in Bad : n <= m
    <3> HIDE DEF Bad
    <3> QED BY <1>2, <2>1, MinOfNats, Zenon
  <2>3. PICK T \in SUBSET (1 .. N) : IsFiniteSet(T) /\ Cardinality(T) = n /\ ~Good(n, T)
    BY Zenon
  <2>4. n \in Nat BY Zenon
  <2>5. CASE T = {}
    <3>1. n = 0 BY <2>3, <2>5, FS_EmptySet, Zenon
    <3>2. Good(0, {})
      <4>1. [a \in 1 .. 0 |-> 0] \in [1 .. 0 -> {}] OBVIOUS
      <4> QED BY <4>1, Zenon
    <3> QED BY <2>3, <2>5, <3>1, <3>2, Zenon
  <2>6. CASE T # {}
    <3> DEFINE m == Max(T)
               U == T \ {m}
    <3>1. m \in T /\ \A y \in T : m >= y
      <4>1. T \in SUBSET (0 .. N) OBVIOUS
      <4> QED BY <4>1, <2>6, MaxOfNats, Zenon
    <3> HIDE DEF m
    <3>2. IsFiniteSet(U) /\ Cardinality(U) = n - 1
      BY <2>3, <3>1, FS_RemoveElement, Zenon
    <3>3. Cardinality(U) \in Nat /\ U \in SUBSET (1 .. N) BY <3>2, FS_CardinalityType, Zenon
    <3>4. n - 1 \in Nat /\ n - 1 \notin Bad
      <4>1. n - 1 \in Nat BY <3>2, <3>3, Zenon
      <4> HIDE DEF Bad
      <4> QED BY <4>1, <2>2, <2>4
    <3>5. Good(n - 1, U)
      BY <3>2, <3>4, Zenon
    <3> HIDE DEF U
    <3>6. PICK s \in [1 .. n - 1 -> U] :
             /\ \A a, b \in 1 .. n - 1 : a < b => s[a] < s[b]
             /\ \A x \in U : \E a \in 1 .. n - 1 : s[a] = x
      BY <3>5, Zenon
    <3> DEFINE r == [a \in 1 .. n |-> IF a = n THEN m ELSE s[a]]
    <3>7. ASSUME NEW a \in 1 .. n, a # n
          PROVE  a \in 1 .. n - 1 /\ r[a] = s[a] /\ s[a] \in U /\ s[a] \in T /\ s[a] < m
      <4>1. a \in 1 .. n - 1 BY <3>7, <2>4
      <4>2. s[a] \in U /\ r[a] = s[a] BY <4>1, <3>7, Zenon
      <4>3. s[a] \in T /\ s[a] # m BY <4>2, Zenon DEF U
      <4>4. s[a] \in 1 .. N /\ m \in 1 .. N /\ m >= s[a] BY <3>1, <4>3, Zenon
      <4> QED BY <4>1, <4>3, <4>4, SMTT(40)
    <3>8. r \in [1 .. n -> T]
      BY <3>7, <3>1, Zenon
    <3>9. ASSUME NEW a \in 1 .. n, NEW b \in 1 .. n, a < b PROVE r[a] < r[b]
      <4>1. a # n BY <3>9, <2>4
      <4>2. CASE b = n BY <4>1, <4>2, <3>7, Zenon
      <4>3. CASE b # n
        <5>1. a \in 1 .. n - 1 /\ b \in 1 .. n - 1 /\ r[a] = s[a] /\ r[b] = s[b] BY <4>1, <4>3,
           <3>7, Zenon
        <5> QED BY <5>1, <3>6, <3>9, Zenon
      <4> QED BY <4>2, <4>3, Zenon
    <3>10. ASSUME NEW x \in T PROVE \E a \in 1 .. n : r[a] = x
      <4>1. n \in 1 .. n BY <2>4, <3>4
      <4>2. CASE x = m BY <4>1, <4>2, Zenon
      <4>3. CASE x # m
        <5>1. x \in U BY <4>3 DEF U
        <5>2. PICK a \in 1 .. n - 1 : s[a] = x BY <5>1, <3>6, Zenon
        <5>3. a \in 1 .. n /\ a # n BY <2>4
        <5>4. r[a] = s[a] BY <5>3, Zenon
        <5> QED BY <5>2, <5>3, Zenon
      <4> QED BY <4>2, <4>3, Zenon
    <3> HIDE DEF r
    <3>11. Good(n, T)
      BY <3>8, <3>9, <3>10, Zenon
    <3> QED BY <3>11, <2>3, Zenon
  <2> QED BY <2>5, <2>6
<1>3. Cardinality(S) \in Nat /\ Cardinality(S) \notin Bad
  BY <1>1, <1>2, Zenon
<1> QED
  BY <1>1, <1>3, Zenon

-----------------------------------------------------------------------------
(* Types *)

USE DEF MIN_TID

(* MAX_TID is a number, and no tid of an epoch up to MaxTick reaches it. *)
LEMMA MaxTidFacts ==
  /\ MAX_TID \in Nat \ {0}
  /\ \A c \in Cores, n \in 0 .. NumIds - 1, e \in 0 .. MaxTick :
       MakeTid(c, n, e) \in 0 .. MAX_TID - 1
<1> USE TidAssumption, ClockAssumption, TxnAssumption
<1>1. MAX_TID = NMAXCORES * (NumIds * (MaxTick + 1))
  BY DEF MAX_TID, MakeTid
<1>2. NumIds * (MaxTick + 1) \in Nat \ {0}
  BY Z3
<1>3. MAX_TID \in Nat \ {0}
  <2> DEFINE M == NumIds * (MaxTick + 1)
  <2>1. M \in Nat \ {0} OBVIOUS
  <2>2. MAX_TID = NMAXCORES * M BY <1>1
  <2> HIDE DEF M
  <2> QED BY <2>1, <2>2, Z3
<1>4. ASSUME NEW c \in Cores, NEW n \in 0 .. NumIds - 1, NEW e \in 0 .. MaxTick
      PROVE  MakeTid(c, n, e) \in 0 .. MAX_TID - 1
  <2>1. c \in 0 .. NMAXCORES - 1 /\ 0 \in 0 .. NMAXCORES - 1 /\ 0 \in 0 .. NumIds - 1
        /\ e \in Nat /\ MaxTick + 1 \in Nat /\ e < MaxTick + 1
    OBVIOUS
  <2>2. MakeTid(c, n, e) < MakeTid(0, 0, MaxTick + 1)
    BY <2>1, TidOrder, Zenon
  <2>3. n + NumIds * e \in Nat
    OBVIOUS
  <2>4. NMAXCORES * (n + NumIds * e) \in Nat
    OBVIOUS
  <2>5. MakeTid(c, n, e) \in Nat
    BY DEF MakeTid
  <2> QED BY <2>2, <2>5, <1>3, SMTT(40) DEF MAX_TID
<1> QED BY <1>3, <1>4, Zenon

(* A step of one core changes its transaction and no other. *)
LEMMA Becomes ==
  ASSUME NEW c \in Cores, NEW t, Become(c, t), tx \in [Cores -> TxRec], t \in TxRec
  PROVE  /\ tx' \in [Cores -> TxRec]
         /\ tx'[c] = t
         /\ \A d \in Cores : d # c => tx'[d] = tx[d]
BY DEF Become

(* An unused tuple can be taken when there is one. *)
LEMMA FreshIsFree ==
  ASSUME CanAlloc
  PROVE  Fresh \in Tuples /\ ~heap[Fresh].alive
<1> DEFINE F == {x \in Tuples : ~heap[x].alive}
<1>1. F \in SUBSET Nat /\ F # {}
  BY DEF CanAlloc, Tuples
<1>2. PICK x \in F : \A y \in F : x <= y
  <2> HIDE DEF F
  <2> QED BY <1>1, MinOfNats, Zenon
<1>3. \E x2 \in Tuples : ~heap[x2].alive /\ \A y \in Tuples : ~heap[y].alive => x2 <= y
  BY <1>2
<1> QED
  BY <1>3, Zenon DEF Fresh

(* A transaction with another place, or another place and position. *)
LEMMA MovedRec ==
  ASSUME NEW t \in TxRec, NEW p \in PCs, NEW i \in Nat \ {0}
  PROVE  [t EXCEPT !.pc = p] \in TxRec /\ [t EXCEPT !.pc = p, !.i = i] \in TxRec
         /\ [t EXCEPT !.i = i] \in TxRec
BY ZenonT(40) DEF TxRec

(* ... or another tid or head. *)
LEMMA TidRec ==
  ASSUME NEW t \in TxRec, NEW p \in PCs, NEW n \in 0 .. MAX_TID - 1, NEW i \in Nat \ {0}
  PROVE  [t EXCEPT !.pc = p, !.tid = n, !.i = i] \in TxRec
BY ZenonT(40) DEF TxRec

(* A transaction at another place with another head. *)
LEMMA HeadRec ==
  ASSUME NEW t \in TxRec, NEW p \in PCs, NEW i \in Nat \ {0}, NEW y \in Tuples \cup {None}
  PROVE  [t EXCEPT !.pc = p, !.i = i, !.head = y] \in TxRec
         /\ [t EXCEPT !.pc = p, !.head = y] \in TxRec
BY ZenonT(40) DEF TxRec

(* Changes of single parts. *)
LEMMA OpsRec ==
  ASSUME NEW t \in TxRec, NEW n \in Nat, NEW o \in SUBSET [key : Keys, val : Values]
  PROVE  /\ [t EXCEPT !.ops = n] \in TxRec
         /\ [t EXCEPT !.obs = o] \in TxRec
         /\ [t EXCEPT !.ops = n, !.obs = o] \in TxRec
BY ZenonT(40) DEF TxRec

(* The parts of a transaction. *)
LEMMA TxFields ==
  ASSUME NEW t \in TxRec
  PROVE  /\ t.pc \in PCs /\ t.n \in Nat /\ t.ops \in Nat /\ t.snap \in Nat
         /\ t.read_set \in Seq(ReadRec) /\ t.absent \in Nat \cup {None}
         /\ t.write_set \in Seq(WriteRec) /\ t.todo \in Seq(TodoRec)
         /\ t.key \in Keys \cup {None} /\ t.val \in Values /\ t.order \in Seq(Tuples)
         /\ t.i \in Nat \ {0} /\ t.tid \in 0 .. MAX_TID - 1 /\ t.head \in Tuples \cup {None}
         /\ t.obs \in SUBSET [key : Keys, val : Values]
         /\ t.own \in SUBSET [got : Nat, last : Nat]
BY Zenon DEF TxRec

(* An entry of a write set. *)
LEMMA WriteElt ==
  ASSUME NEW ws \in Seq(WriteRec)
  PROVE  /\ Len(ws) \in Nat /\ DOMAIN ws = 1 .. Len(ws)
         /\ \A j \in DOMAIN ws : /\ ws[j] \in WriteRec /\ ws[j].tuple \in Tuples
                                 /\ ws[j].key \in Keys /\ ws[j].val \in Values
                                 /\ ws[j].insert \in BOOLEAN
<1>1. Len(ws) \in Nat /\ DOMAIN ws = 1 .. Len(ws)
  OBVIOUS
<1>2. \A j \in DOMAIN ws : ws[j] \in WriteRec
  OBVIOUS
<1> QED
  BY <1>1, <1>2, Zenon DEF WriteRec

(* Every place a step may go to. *)
LEMMA Places ==
  /\ Running \subseteq PCs /\ Deciding \subseteq PCs
  /\ {"snapshot", "end", "idle", "collect", "clean", "removed", "run", "read", "find",
      "insert", "lock", "validate", "write", "replace", "undo"} \subseteq PCs
BY DEF PCs, InTxn, Running, Deciding

(* A transaction that has not begun. *)
LEMMA EmbryoRec == Embryo \in TxRec
<1>1. "idle" \in PCs
  BY DEF PCs
<1>2. MIN_TID \in 0 .. MAX_TID - 1
  BY MaxTidFacts
<1>3. None \in Values
  BY DEF Values
<1>4. <<>> \in Seq(ReadRec) /\ <<>> \in Seq(WriteRec) /\ <<>> \in Seq(TodoRec) /\ <<>> \in Seq(Tuples)
  OBVIOUS
<1> QED
  BY <1>1, <1>2, <1>3 DEF Embryo, TxRec

(* The clock alone. *)
LEMMA ClockTypes ==
  ASSUME TxnTypes, Bump \/ Publish
  PROVE  ClockTypeOK' /\ current_tick' <= MaxTick
BY ClockAssumption DEF TxnTypes, ClockTypeOK, Bump, Publish

(* Entering or leaving a region keeps the types of the clock. *)
LEMMA PinTypes ==
  ASSUME TxnTypes, NEW c \in Cores, Pin(c) \/ Unpin(c)
  PROVE  ClockTypeOK' /\ current_tick' <= MaxTick
BY DEF TxnTypes, ClockTypeOK, Pin, Unpin

(* The start of a transaction keeps the types. *)
LEMMA BeginTypes ==
  ASSUME TxnTypes, UNCHANGED workload, NEW c \in Cores, Begin(c)
  PROVE  TxnTypes'
<1> DEFINE m == tx[c].n + 1
           q == IF IsSnapshot(c) THEN "snapshot" ELSE "run"
           t == [Embryo EXCEPT !.n = m, !.pc = q]
<1>1. tx[c] \in TxRec
  BY Zenon DEF TxnTypes
<1>2. tx[c].n \in Nat
  BY <1>1, Zenon DEF TxRec
<1>3. ASSUME NEW u \in TxRec, NEW n \in Nat, NEW p \in PCs
      PROVE  [u EXCEPT !.n = n, !.pc = p] \in TxRec
  BY Zenon DEF TxRec
<1>4. t \in TxRec
  <2>1. m \in Nat /\ q \in PCs
    BY <1>2, Places
  <2> QED
    BY <1>3, <2>1, EmbryoRec, Zenon
<1>5. Become(c, t) /\ Pin(c) /\ UNCHANGED <<dbVars, last_commit_tid, gc>>
  BY DEF Begin, histVars
<1> HIDE DEF t
<1>6. tx' \in [Cores -> TxRec]
  BY <1>4, <1>5, Becomes, Zenon DEF TxnTypes
<1>7. ClockTypeOK' /\ current_tick' <= MaxTick
  BY <1>5, PinTypes
<1> QED
  BY <1>5, <1>6, <1>7, Zenon DEF TxnTypes, dbVars

(* A step that changes nothing but a core's transaction. *)
LEMMA LocalTypes ==
  ASSUME TxnTypes, UNCHANGED <<clockVars, dbVars, last_commit_tid, gc, workload>>,
         NEW c \in Cores, NEW t \in TxRec, Become(c, t)
  PROVE  TxnTypes'
<1>1. tx' \in [Cores -> TxRec]
  BY Becomes, Zenon DEF TxnTypes
<1> QED
  BY <1>1, Zenon DEF TxnTypes, dbVars, clockVars, ClockTypeOK

(* A transaction that is to undo its inserts. *)
LEMMA AbortRec ==
  ASSUME NEW t \in TxRec
  PROVE  [t EXCEPT !.pc = "undo",
                   !.order = [j \in DOMAIN t.write_set |-> t.write_set[j].tuple]] \in TxRec
<1>1. "undo" \in PCs
  BY Places
<1>2. t.write_set \in Seq(WriteRec)
  BY DEF TxRec
<1>3. [j \in DOMAIN t.write_set |-> t.write_set[j].tuple] \in Seq(Tuples)
  <2>1. DOMAIN t.write_set = 1 .. Len(t.write_set) /\ Len(t.write_set) \in Nat
    OBVIOUS
  <2>2. \A j \in 1 .. Len(t.write_set) : t.write_set[j].tuple \in Tuples
    BY <1>2, WriteElt, Zenon
  <2> QED
    BY <2>2
<1> QED
  BY <1>1, <1>3, Zenon DEF TxRec

(* The tid of a snapshot is a number. *)
LEMMA ReadOnlyTidNat ==
  ASSUME NEW e \in Nat PROVE ComputeReadOnlyTid(e) \in Nat
<1> USE TidAssumption
<1> DEFINE b == to_read_only_tick(e) * ReadOnlyEpochMultiplier
<1>1. to_read_only_tick(e) \in Nat
  BY DEF to_read_only_tick
<1>2. b \in Nat
  BY <1>1
<1>3. ASSUME NEW x \in Nat, NEW y \in Nat, NEW z \in Nat PROVE MakeTid(x, y, z) \in Nat
  <2>1. y + NumIds * z \in Nat OBVIOUS
  <2>2. NMAXCORES * (y + NumIds * z) \in Nat OBVIOUS
  <2> QED BY DEF MakeTid
<1> HIDE DEF b
<1>4. CASE b = 0
  BY <1>3, <1>4 DEF ComputeReadOnlyTid, b
<1>5. CASE b # 0
  <2>1. b - 1 \in Nat /\ NMAXCORES - 1 \in Nat /\ NumIds - 1 \in Nat
    BY <1>2, <1>5
  <2>2. MakeTid(NMAXCORES - 1, NumIds - 1, b - 1) \in Nat
    BY <1>3, <2>1, Zenon
  <2> QED
    BY <2>2, <1>5, SMTT(40) DEF ComputeReadOnlyTid, b
<1> QED
  BY <1>4, <1>5

(* Taking the snapshot keeps the types. *)
LEMMA TakeSnapshotTypes ==
  ASSUME TxnTypes, UNCHANGED workload, NEW c \in Cores, TakeSnapshot(c)
  PROVE  TxnTypes'
<1> DEFINE t == [tx[c] EXCEPT !.pc = "run", !.snap = SnapshotTid]
<1>1. SnapshotTid \in Nat
  <2>1. global_last_tick_exclusive \in Nat
    BY DEF TxnTypes, ClockTypeOK, global_last_tick_exclusive
  <2> QED
    BY <2>1, ReadOnlyTidNat, SMTT(40) DEF SnapshotTid
<1>2. tx[c] \in TxRec
  BY Zenon DEF TxnTypes
<1>3. t \in TxRec
  BY <1>1, <1>2, Places, Zenon DEF TxRec
<1> HIDE DEF t
<1>4. Become(c, t) /\ UNCHANGED <<clockVars, dbVars, last_commit_tid, gc>>
  BY DEF TakeSnapshot, t
<1> QED
  BY <1>3, <1>4, LocalTypes

(* abort_impl leaves a transaction of the right shape. *)
LEMMA AbortStep ==
  ASSUME NEW c \in Cores, NEW t \in TxRec, abort_impl(c, t)
  PROVE  \E u \in TxRec : Become(c, u)
BY AbortRec DEF abort_impl

(* An abort by the application keeps the types. *)
LEMMA AbortTypes ==
  ASSUME TxnTypes, UNCHANGED workload, NEW c \in Cores, Abort(c)
  PROVE  TxnTypes'
<1>1. tx[c] \in TxRec
  BY DEF TxnTypes
<1>2. PICK u \in TxRec : Become(c, u)
  BY <1>1, AbortStep DEF Abort
<1> QED
  BY <1>2, LocalTypes DEF Abort

(* Reading on with what is left to do. *)
LEMMA ReadRecord ==
  ASSUME NEW t \in TxRec, NEW todo \in Seq(TodoRec)
  PROVE  Read(t, todo) \in TxRec
<1> DEFINE p == IF todo = <<>> THEN "run" ELSE "read"
<1>1. p \in PCs
  BY Places
<1> HIDE DEF p
<1>2. [t EXCEPT !.pc = p, !.todo = todo] \in TxRec
  BY <1>1, ZenonT(40) DEF TxRec
<1> QED
  BY <1>2, Zenon DEF Read, p

(* do_node_read leaves a transaction of the right shape. *)
LEMMA NodeReadStep ==
  ASSUME NEW c \in Cores, NEW t \in TxRec, NEW todo \in Seq(TodoRec), leaf_version \in Nat,
         do_node_read(c, t, todo)
  PROVE  \E u \in TxRec : Become(c, u)
<1>1. [t EXCEPT !.absent = leaf_version] \in TxRec
  BY Zenon DEF TxRec
<1>2. Read(t, todo) \in TxRec /\ Read([t EXCEPT !.absent = leaf_version], todo) \in TxRec
  BY <1>1, ReadRecord
<1> QED
  BY <1>2, AbortStep DEF do_node_read

(* do_search keeps the types. *)
LEMMA SearchTypes ==
  ASSUME TxnTypes, UNCHANGED workload, NEW c \in Cores, NEW k \in Keys, do_search(c, k)
  PROVE  TxnTypes'
<1> DEFINE t == [tx[c] EXCEPT !.ops = @ + 1]
           todo == << [key |-> k, tuple |-> tree[k]] >>
<1>1. tx[c] \in TxRec /\ leaf_version \in Nat /\ tree[k] \in Tuples \cup {None}
  BY Zenon DEF TxnTypes
<1>2. t \in TxRec
  <2>1. tx[c].ops + 1 \in Nat
    BY <1>1, TxFields
  <2> QED
    BY <1>1, <2>1, OpsRec, Zenon
<1> HIDE DEF t
<1>3. Saw(t, k, None) \in TxRec
  <2>1. t.obs \cup {[key |-> k, val |-> None]} \in SUBSET [key : Keys, val : Values]
    BY <1>2, TxFields DEF Values
  <2> QED
    BY <1>2, <2>1, OpsRec, Zenon DEF Saw
<1>4. \E u \in TxRec : Become(c, u)
  <2>1. CASE tree[k] # None
    <3>1. [key |-> k, tuple |-> tree[k]] \in TodoRec
      BY <1>1, <2>1, Zenon DEF TodoRec
    <3>2. todo \in Seq(TodoRec)
      BY <3>1
    <3>3. Read(t, todo) \in TxRec
      BY <1>2, <3>2, ReadRecord, Zenon
    <3>4. Become(c, Read(t, todo))
      BY <2>1 DEF do_search, t
    <3> QED BY <3>3, <3>4, Zenon
  <2>2. CASE tree[k] = None
    <3>1. do_node_read(c, Saw(t, k, None), <<>>)
      BY <2>2 DEF do_search, t
    <3>2. <<>> \in Seq(TodoRec) OBVIOUS
    <3> QED BY <1>1, <1>3, <3>1, <3>2, NodeReadStep, ZenonT(40)
  <2> QED BY <2>1, <2>2
<1> QED
  BY <1>4, LocalTypes, Zenon DEF do_search

(* The keys that a scan finds, in some order. *)
LEMMA SomeOrder ==
  ASSUME NEW S \in SUBSET Keys
  PROVE  LET f == CHOOSE f \in [1 .. Cardinality(S) -> S] :
                    \A a, b \in DOMAIN f : a # b => f[a] # f[b]
         IN  f \in [1 .. Cardinality(S) -> S] /\ Cardinality(S) \in Nat
<1>1. IsFiniteSet(S)
  BY FS_Subset, TxnAssumption
<1>2. Cardinality(S) \in Nat /\ ExistsBijection(1 .. Cardinality(S), S)
  BY <1>1, FS_CardinalityType
<1>3. PICK g \in Bijection(1 .. Cardinality(S), S) : TRUE
  BY <1>2 DEF ExistsBijection
<1>4. g \in [1 .. Cardinality(S) -> S] /\ \A a, b \in DOMAIN g : a # b => g[a] # g[b]
  <2>1. g \in Injection(1 .. Cardinality(S), S)
    BY Zenon DEF Bijection
  <2>2. g \in [1 .. Cardinality(S) -> S]
        /\ \A a, b \in DOMAIN g : g[a] = g[b] => a = b
    BY <2>1, Zenon DEF Injection, IsInjective
  <2> QED
    BY <2>2
<1> QED
  BY <1>2, <1>4, Zenon

(* do_search_range_call keeps the types. *)
LEMMA ScanTypes ==
  ASSUME TxnTypes, UNCHANGED workload, NEW c \in Cores, do_search_range_call(c)
  PROVE  TxnTypes'
<1> DEFINE here == {k \in Keys : tree[k] # None}
           present == CHOOSE f \in [1 .. Cardinality(here) -> here] :
                        \A a, b \in DOMAIN f : a # b => f[a] # f[b]
           gone == {[key |-> k, val |-> None] : k \in Keys \ here}
           t == [tx[c] EXCEPT !.ops = @ + 1, !.obs = @ \cup gone]
           todo == [j \in DOMAIN present |-> [key |-> present[j], tuple |-> tree[present[j]]]]
<1>1. tx[c] \in TxRec /\ leaf_version \in Nat /\ tree \in [Keys -> Tuples \cup {None}]
  BY Zenon DEF TxnTypes
<1>2. gone \in SUBSET [key : Keys, val : Values]
  BY DEF Values
<1>3. present \in [1 .. Cardinality(here) -> here] /\ Cardinality(here) \in Nat
  BY SomeOrder, Zenon
<1>4. do_node_read(c, t, todo)
  BY Zenon DEF do_search_range_call
<1> HIDE DEF gone, present
<1>5. t \in TxRec
  <2>1. tx[c].ops + 1 \in Nat /\ tx[c].obs \cup gone \in SUBSET [key : Keys, val : Values]
    BY <1>1, <1>2, TxFields, SMTT(40)
  <2> QED
    BY <1>1, <2>1, OpsRec, Zenon
<1>6. todo \in Seq(TodoRec)
  <2>1. DOMAIN present = 1 .. Cardinality(here)
    BY <1>3
  <2>2. \A j \in 1 .. Cardinality(here) : [key |-> present[j], tuple |-> tree[present[j]]] \in TodoRec
    BY <1>1, <1>3, Zenon DEF TodoRec
  <2> HIDE DEF here
  <2> QED
    BY <1>3, <2>2
<1> HIDE DEF t, todo
<1>7. \E u \in TxRec : Become(c, u)
  BY <1>1, <1>4, <1>5, <1>6, NodeReadStep, SMTT(40)
<1> QED
  BY <1>7, LocalTypes, Zenon DEF do_search_range_call

(* The first thing to read. *)
LEMMA TodoHead ==
  ASSUME NEW t \in TxRec, t.todo # <<>>
  PROVE  /\ Head(t.todo) = t.todo[1] /\ 1 \in DOMAIN t.todo
         /\ Head(t.todo).key \in Keys /\ Head(t.todo).tuple \in Tuples
         /\ Tail(t.todo) \in Seq(TodoRec)
         /\ \A y \in Tuples : [t EXCEPT !.todo[1].tuple = y] \in TxRec
<1>1. t.todo \in Seq(TodoRec)
  BY TxFields, Zenon
<1>2. Head(t.todo) \in TodoRec /\ Tail(t.todo) \in Seq(TodoRec) /\ Head(t.todo) = t.todo[1]
      /\ 1 \in DOMAIN t.todo
  BY <1>1
<1>3. Head(t.todo).key \in Keys /\ Head(t.todo).tuple \in Tuples
  BY <1>2 DEF TodoRec
<1>4. ASSUME NEW y \in Tuples PROVE [t EXCEPT !.todo[1].tuple = y] \in TxRec
  <2>1. [t.todo[1] EXCEPT !.tuple = y] \in TodoRec
    BY <1>2 DEF TodoRec
  <2>2. [t.todo EXCEPT ![1] = [t.todo[1] EXCEPT !.tuple = y]] \in Seq(TodoRec)
    <3> DEFINE e == [t.todo[1] EXCEPT !.tuple = y]
    <3>1. e \in TodoRec BY <2>1
    <3>2. 1 \in 1 .. Len(t.todo) OBVIOUS
    <3> HIDE DEF e
    <3>3. [t.todo EXCEPT ![1] = e] \in Seq(TodoRec)
      BY <1>1, <3>1, SMTT(40)
    <3> QED BY <3>3 DEF e
  <2>3. ASSUME NEW q \in Seq(TodoRec) PROVE [t EXCEPT !.todo = q] \in TxRec
    BY ZenonT(40) DEF TxRec
  <2>4. [t EXCEPT !.todo = [t.todo EXCEPT ![1] = [t.todo[1] EXCEPT !.tuple = y]]] \in TxRec
    BY <2>2, <2>3, Zenon
  <2> QED
    BY <2>4
<1> QED
  BY <1>2, <1>3, <1>4, Zenon

(* do_tuple_read keeps the types. *)
LEMMA TupleReadTypes ==
  ASSUME TxnTypes, UNCHANGED workload, NEW c \in Cores, PcOK(c), do_tuple_read(c)
  PROVE  TxnTypes'
<1> DEFINE t == tx[c]
           item == Head(t.todo)
           h == heap[item.tuple]
           own == Positions(t.write_set, item.tuple)
           Got(v, tid) ==
             [Saw(t, item.key, v) EXCEPT !.read_set =
                   IF IsSnapshot(c) THEN @
                   ELSE Append(@, [tuple |-> item.tuple, tid |-> tid])]
           mine == [t EXCEPT !.own = @ \cup {[got |-> find_write_set(t.write_set, item.tuple),
                                              last |-> Max(own)]}]
<1>1. t \in TxRec /\ heap \in [Tuples -> HeapRec]
  BY Zenon DEF TxnTypes
<1>2. t.todo # <<>>
  BY Zenon DEF PcOK, Fits, do_tuple_read, At
<1>3. /\ item.key \in Keys /\ item.tuple \in Tuples /\ Tail(t.todo) \in Seq(TodoRec)
      /\ \A y \in Tuples : [t EXCEPT !.todo[1].tuple = y] \in TxRec
  BY <1>1, <1>2, TodoHead, ZenonT(40)
<1>4. h \in HeapRec
  BY <1>1, <1>3, Zenon
<1>5. h.val \in Values /\ h.version \in 0 .. MAX_TID /\ h.next \in Tuples \cup {None}
  BY <1>4, Zenon DEF HeapRec
<1> HIDE DEF item, h
<1>6. ASSUME NEW v \in Values, NEW tid \in 0 .. MAX_TID
      PROVE  Got(v, tid) \in TxRec
  <2> DEFINE o == t.obs \cup {[key |-> item.key, val |-> v]}
             r == IF IsSnapshot(c) THEN t.read_set
                  ELSE Append(t.read_set, [tuple |-> item.tuple, tid |-> tid])
  <2>1. o \in SUBSET [key : Keys, val : Values]
    BY <1>1, <1>3, <1>6, TxFields, SMTT(40)
  <2>2. [tuple |-> item.tuple, tid |-> tid] \in ReadRec
    BY <1>3, Zenon DEF ReadRec
  <2>3. r \in Seq(ReadRec)
    <3>1. t.read_set \in Seq(ReadRec)
      BY <1>1, TxFields, Zenon
    <3>2. Append(t.read_set, [tuple |-> item.tuple, tid |-> tid]) \in Seq(ReadRec)
      BY <2>2, <3>1
    <3> QED BY <3>1, <3>2, Zenon
  <2>4. Got(v, tid) = [t EXCEPT !.obs = o, !.read_set = r]
    BY Zenon DEF Saw
  <2> HIDE DEF o, r, t, Got
  <2>5. [t EXCEPT !.obs = o, !.read_set = r] \in TxRec
    BY <1>1, <2>1, <2>3, ZenonT(40) DEF TxRec
  <2> QED
    BY <2>4, <2>5
<1>7. ASSUME own # {} PROVE mine \in TxRec
  <2>1. t.write_set \in Seq(WriteRec)
    BY <1>1, TxFields, Zenon
  <2>2. Len(t.write_set) \in Nat /\ own \in SUBSET (1 .. Len(t.write_set))
    BY DEF Positions
  <2>3. own \in SUBSET Nat /\ own \in SUBSET (0 .. Len(t.write_set))
    BY <2>2
  <2>4. Min(own) \in own /\ Max(own) \in own
    BY <1>7, <2>2, <2>3, MinOfNats, MaxOfNats, ZenonT(40)
  <2>5. find_write_set(t.write_set, item.tuple) \in Nat /\ Max(own) \in Nat
    BY <2>3, <2>4, Zenon DEF find_write_set
  <2> DEFINE m == t.own \cup {[got |-> find_write_set(t.write_set, item.tuple), last |-> Max(own)]}
  <2>6. m \in SUBSET [got : Nat, last : Nat]
    BY <1>1, <2>5, TxFields
  <2> HIDE DEF m
  <2>7. [t EXCEPT !.own = m] \in TxRec
    BY <1>1, <2>6, Zenon DEF TxRec
  <2> QED
    BY <2>7 DEF m
<1>8. \E u \in TxRec : Become(c, u)
  <2>1. CASE read_own_writes /\ own # {}
    <3>1. Become(c, Read(mine, Tail(t.todo)))
      BY <2>1, Zenon DEF do_tuple_read, item, h
    <3> QED BY <1>3, <1>7, <2>1, <3>1, ReadRecord, Zenon
  <2>2. ASSUME NEW v \in Values, NEW tid \in 0 .. MAX_TID,
               Become(c, Read(Got(v, tid), Tail(t.todo)))
        PROVE  \E u \in TxRec : Become(c, u)
    BY <1>3, <1>6, <2>2, ReadRecord, Zenon
  <2>3. None \in Values /\ MIN_TID \in 0 .. MAX_TID
    BY MaxTidFacts DEF Values
  <2>4. CASE ~(read_own_writes /\ own # {}) /\ h.version = MAX_TID
    <3>1. Become(c, Read(Got(None, MIN_TID), Tail(t.todo)))
      BY <2>4, Zenon DEF do_tuple_read, item, h
    <3> QED BY <2>2, <2>3, <3>1, Zenon
  <2>5. CASE ~(read_own_writes /\ own # {}) /\ h.version # MAX_TID
    <3>1. \/ Become(c, Read(Got(IF h.deleting THEN None ELSE h.val, h.version), Tail(t.todo)))
          \/ Become(c, Read(Got(None, MIN_TID), Tail(t.todo)))
          \/ h.next # None /\ Become(c, [t EXCEPT !.todo[1].tuple = h.next])
      BY <2>5, Zenon DEF do_tuple_read, item, h
    <3>2. (IF h.deleting THEN None ELSE h.val) \in Values
      BY <1>5, <2>3
    <3>3. CASE h.next # None /\ Become(c, [t EXCEPT !.todo[1].tuple = h.next])
      BY <1>3, <1>5, <3>3, Zenon
    <3> QED BY <1>5, <2>2, <2>3, <3>1, <3>3, ZenonT(40)
  <2> QED BY <2>1, <2>4, <2>5, Zenon
<1> QED
  BY <1>8, LocalTypes, Zenon DEF do_tuple_read

(* do_tree_put keeps the types. *)
LEMMA TreePutTypes ==
  ASSUME TxnTypes, UNCHANGED workload, NEW c \in Cores, NEW k \in Keys, NEW op,
         do_tree_put(c, k, op)
  PROVE  TxnTypes'
<1> DEFINE o == tx[c].ops + 1
           v == IF op = "remove" THEN None
                ELSE [id |-> Id(c), pos |-> Len(tx[c].write_set) + 1]
           t == [tx[c] EXCEPT !.ops = o, !.key = k, !.val = v]
           p == IF op = "insert" THEN "insert" ELSE "find"
<1>1. tx[c] \in TxRec
  BY DEF TxnTypes
<1>2. o \in Nat /\ v \in Values /\ p \in PCs
  <2>1. tx[c].ops \in Nat /\ tx[c].n \in Nat /\ tx[c].write_set \in Seq(WriteRec)
    BY <1>1, TxFields, Zenon
  <2>2. Len(tx[c].write_set) \in Nat
    OBVIOUS
  <2>3. Id(c) \in Cores \X Nat
    BY <2>1 DEF Id
  <2>4. [id |-> Id(c), pos |-> Len(tx[c].write_set) + 1] \in Values
    BY <2>3 DEF Values
  <2> QED
    BY <2>1, <2>4, Places, SMTT(40) DEF Values
<1>3. IF IsSnapshot(c) THEN abort_impl(c, t) ELSE Become(c, [t EXCEPT !.pc = p])
  BY Zenon DEF do_tree_put
<1>4. ASSUME NEW o2 \in Nat, NEW v2 \in Values
      PROVE  [tx[c] EXCEPT !.ops = o2, !.key = k, !.val = v2] \in TxRec
  BY <1>1, Zenon DEF TxRec
<1>5. t \in TxRec
  <2> HIDE DEF o, v
  <2> QED
    BY <1>2, <1>4, Zenon
<1> HIDE DEF t, p
<1>6. [t EXCEPT !.pc = p] \in TxRec
  BY <1>2, <1>5, Zenon DEF TxRec
<1>7. \E u \in TxRec : Become(c, u)
  BY <1>3, <1>5, <1>6, AbortStep, SMTT(40)
<1> QED
  BY <1>7, LocalTypes, Zenon DEF do_tree_put

(* A transaction with one write more. *)
LEMMA WrittenRec ==
  ASSUME NEW t \in TxRec, NEW x \in Tuples, NEW ins \in BOOLEAN, t.key \in Keys
  PROVE  Written(t, x, ins) \in TxRec
<1> DEFINE ws == Append(t.write_set, Entry(t, x, ins))
<1>1. Entry(t, x, ins) \in WriteRec
  BY TxFields, Zenon DEF Entry, WriteRec
<1>2. ws \in Seq(WriteRec)
  BY <1>1, TxFields
<1> HIDE DEF ws
<1>3. [t EXCEPT !.pc = "run", !.write_set = ws] \in TxRec
  BY <1>2, Places, ZenonT(40) DEF TxRec
<1> QED
  BY <1>3, Zenon DEF Written, ws

(* The search of a put keeps the types. *)
LEMMA PutFindTypes ==
  ASSUME TxnTypes, UNCHANGED workload, NEW c \in Cores, PcOK(c), PutFind(c)
  PROVE  TxnTypes'
<1>1. tx[c] \in TxRec /\ tx[c].key \in Keys
  BY Zenon DEF TxnTypes, PcOK, Fits, PutFind, At
<1>2. tree[tx[c].key] \in Tuples \cup {None}
  BY <1>1, Zenon DEF TxnTypes
<1>3. [tx[c] EXCEPT !.pc = "insert"] \in TxRec
  BY <1>1, Places, Zenon DEF TxRec
<1>4. tree[tx[c].key] # None => Written(tx[c], tree[tx[c].key], FALSE) \in TxRec
  BY <1>1, <1>2, WrittenRec, Zenon
<1>5. \E u \in TxRec : Become(c, u)
  BY <1>3, <1>4, Zenon DEF PutFind
<1> QED
  BY <1>5, LocalTypes, Zenon DEF PutFind

(* try_insert_new_tuple keeps the types. *)
LEMMA InsertTypes ==
  ASSUME TxnTypes, UNCHANGED workload, NEW c \in Cores, PcOK(c), try_insert_new_tuple(c)
  PROVE  TxnTypes'
<1> DEFINE t == tx[c]
           r == Written(t, Fresh, TRUE)
           a == IF r.absent = None THEN None ELSE leaf_version + 1
           h == [alive |-> TRUE, owner |-> c, write_intent |-> TRUE,
                 latest |-> TRUE, deleting |-> t.val = None,
                 version |-> MAX_TID, val |-> t.val, next |-> None]
<1>1. t \in TxRec /\ t.key \in Keys /\ t.val \in Values /\ leaf_version \in Nat
  <2>1. t \in TxRec /\ t.key \in Keys /\ leaf_version \in Nat
    BY Zenon DEF TxnTypes, PcOK, Fits, try_insert_new_tuple, At
  <2> QED BY <2>1, TxFields, Zenon
<1>2. CASE tree[t.key] # None
  <2>1. [t EXCEPT !.pc = "find"] \in TxRec
    BY <1>1, Places, Zenon DEF TxRec
  <2>2. \E u \in TxRec : Become(c, u)
    BY <1>2, <2>1, Zenon DEF try_insert_new_tuple
  <2> QED
    BY <1>2, <2>2, LocalTypes, Zenon DEF try_insert_new_tuple
<1>3. CASE tree[t.key] = None
  <2>1. /\ CanAlloc
        /\ heap' = [heap EXCEPT ![Fresh] = h]
        /\ tree' = [tree EXCEPT ![t.key] = Fresh]
        /\ leaf_version' = leaf_version + 1
        /\ Become(c, [r EXCEPT !.absent = a]) \/ abort_impl(c, r)
        /\ UNCHANGED <<clockVars, limbo, last_commit_tid, gc>>
    BY <1>3, Zenon DEF try_insert_new_tuple
  <2>2. Fresh \in Tuples
    BY <2>1, FreshIsFree, Zenon
  <2>3. h \in HeapRec
    BY <1>1, MaxTidFacts DEF HeapRec
  <2>4. r \in TxRec
    BY <1>1, <2>2, WrittenRec, Zenon
  <2> HIDE DEF h, r
  <2>5. a \in Nat \cup {None}
    BY <1>1
  <2> HIDE DEF a
  <2>6. [r EXCEPT !.absent = a] \in TxRec
    BY <2>4, <2>5, ZenonT(40) DEF TxRec
  <2>7. \E u \in TxRec : Become(c, u)
    BY <2>1, <2>4, <2>6, AbortStep, SMTT(40)
  <2>8. tx' \in [Cores -> TxRec]
    BY <2>7, Becomes, Zenon DEF TxnTypes
  <2>9. heap' \in [Tuples -> HeapRec] /\ tree' \in [Keys -> Tuples \cup {None}]
        /\ leaf_version' \in Nat
    BY <1>1, <2>1, <2>2, <2>3, SMTT(40) DEF TxnTypes
  <2> QED
    BY <2>1, <2>8, <2>9, Zenon DEF TxnTypes, clockVars, ClockTypeOK
<1> QED
  BY <1>2, <1>3, Zenon

(* The tuples of a write set in address order. *)
LEMMA SortedTuplesFacts ==
  ASSUME NEW ws \in Seq(WriteRec)
  PROVE  LET s == SortedTuples(ws)
             S == {ws[j].tuple : j \in DOMAIN ws}
         IN  /\ s \in Seq(Tuples) /\ DOMAIN s = 1 .. Len(s) /\ Len(s) \in Nat
             /\ \A a, b \in DOMAIN s : a < b => s[a] < s[b]
             /\ {s[j] : j \in DOMAIN s} = S
<1> DEFINE S == {ws[j].tuple : j \in DOMAIN ws}
           N == Cardinality(S)
           Asc(f) == \A a, b \in DOMAIN f : a < b => f[a] < f[b]
           s == CHOOSE f \in [1 .. N -> S] : Asc(f)
<1>1. S \in SUBSET (1 .. NTuples) /\ NTuples \in Nat
  BY WriteElt, TxnAssumption DEF Tuples
<1> HIDE DEF S
<1>2. N \in Nat /\ \E f \in [1 .. N -> S] :
         /\ \A a, b \in 1 .. N : a < b => f[a] < f[b]
         /\ \A x \in S : \E a \in 1 .. N : f[a] = x
  BY <1>1, SortExists, Zenon
<1>3. PICK f \in [1 .. N -> S] :
         /\ \A a, b \in 1 .. N : a < b => f[a] < f[b]
         /\ \A x \in S : \E a \in 1 .. N : f[a] = x
  BY <1>2, Zenon
<1> HIDE DEF N
<1>4. Asc(f)
  BY <1>3
<1>5. s \in [1 .. N -> S] /\ Asc(s)
  BY <1>4, Zenon
<1> HIDE DEF s
<1>6. {s[j] : j \in DOMAIN s} = S
  <2>1. \A a, b \in 1 .. N : a # b => s[a] # s[b]
    <3> SUFFICES ASSUME NEW a \in 1 .. N, NEW b \in 1 .. N, a # b PROVE s[a] # s[b]
      OBVIOUS
    <3>1. a < b \/ b < a
      OBVIOUS
    <3>2. s[a] \in S /\ s[b] \in S
      BY <1>5
    <3>3. \A y \in S : y \in Int
      BY <1>1
    <3> QED BY <1>5, <3>3, SMTT(40)
  <2>2. s \in Injection(1 .. N, S)
    BY <1>5, <2>1, Zenon DEF Injection, IsInjective
  <2>3. IsFiniteSet(S) /\ Cardinality(S) = N /\ IsFiniteSet(1 .. N) /\ Cardinality(1 .. N) = N
    <3>1. IsFiniteSet(1 .. NTuples) /\ IsFiniteSet(1 .. N) /\ Cardinality(1 .. N) = N
      BY <1>1, <1>2, FS_Interval, SMTT(40)
    <3>2. IsFiniteSet(S)
      BY <1>1, <3>1, FS_Subset, Zenon
    <3> QED BY <3>1, <3>2 DEF N
  <2>4. s \in Surjection(1 .. N, S)
    BY <2>2, <2>3, FS_Injection, SMTT(40)
  <2> QED BY <2>4 DEF Surjection
<1> QED
  <2>1. s \in [1 .. N -> Tuples]
    BY <1>1, <1>5, Zenon DEF Tuples
  <2>2. s \in Seq(Tuples) /\ Len(s) = N /\ DOMAIN s = 1 .. N
    BY <1>2, <2>1
  <2>3. SortedTuples(ws) = s
    BY Zenon DEF SortedTuples, s, N, S
  <2>4. /\ s \in Seq(Tuples) /\ DOMAIN s = 1 .. Len(s) /\ Len(s) \in Nat
        /\ \A a, b \in DOMAIN s : a < b => s[a] < s[b]
        /\ {s[j] : j \in DOMAIN s} = {ws[j].tuple : j \in DOMAIN ws}
    BY <1>2, <1>5, <1>6, <2>2, Zenon DEF S
  <2> QED
    BY <2>3, <2>4, Zenon

(* The start of commit keeps the types. *)
LEMMA CommitTypes ==
  ASSUME TxnTypes, UNCHANGED workload, NEW c \in Cores, commit(c)
  PROVE  TxnTypes'
<1> DEFINE t == tx[c]
           o == SortedTuples(t.write_set)
<1>1. t \in TxRec
  BY DEF TxnTypes
<1>2. o \in Seq(Tuples)
  BY <1>1, TxFields, SortedTuplesFacts, Zenon
<1> HIDE DEF o
<1>3. /\ [t EXCEPT !.pc = "end"] \in TxRec
      /\ [t EXCEPT !.pc = "validate"] \in TxRec
      /\ [t EXCEPT !.pc = "lock", !.order = o] \in TxRec
  BY <1>1, <1>2, Places, ZenonT(40) DEF TxRec
<1>4. \/ Become(c, [t EXCEPT !.pc = "end"])
      \/ Become(c, [t EXCEPT !.pc = "validate"])
      \/ Become(c, [t EXCEPT !.pc = "lock", !.order = o])
  BY Zenon DEF commit, o
<1>5. \E u \in TxRec : Become(c, u)
  BY <1>3, <1>4
<1> QED
  BY <1>5, LocalTypes, Zenon DEF commit

(* A step of a core that changes its transaction and the heap. *)
LEMMA HeapTypes ==
  ASSUME TxnTypes, UNCHANGED <<clockVars, tree, leaf_version, limbo, last_commit_tid, gc, workload>>,
         tx' \in [Cores -> TxRec], heap' \in [Tuples -> HeapRec]
  PROVE  TxnTypes'
BY Zenon DEF TxnTypes, clockVars, ClockTypeOK

(* The changes of a tuple's header. *)
LEMMA HeaderRec ==
  ASSUME NEW h \in HeapRec, NEW c \in Cores
  PROVE  /\ \A b \in BOOLEAN : [h EXCEPT !.owner = c, !.write_intent = b] \in HeapRec
         /\ Release(h) \in HeapRec
         /\ [Release(h) EXCEPT !.latest = FALSE] \in HeapRec
         /\ [h EXCEPT !.latest = FALSE] \in HeapRec
         /\ FreeTuple \in HeapRec
<1>1. MIN_TID \in 0 .. MAX_TID /\ None \in Values
  BY MaxTidFacts DEF Values
<1> QED
  BY <1>1, Zenon DEF HeapRec, Release, FreeTuple

(* handle_last_tuple_in_group keeps the types. *)
LEMMA LockTypes ==
  ASSUME TxnTypes, UNCHANGED workload, NEW c \in Cores, handle_last_tuple_in_group(c)
  PROVE  TxnTypes'
<1> DEFINE t == tx[c]
           x == t.order[t.i]
           j == t.i + 1
<1>1. t \in TxRec
  BY DEF TxnTypes
<1>2. j \in Nat \ {0} /\ x \in Tuples
  <2>1. t.order \in Seq(Tuples) /\ t.i \in Nat \ {0} /\ t.i <= Len(t.order)
    BY <1>1, TxFields, Zenon DEF handle_last_tuple_in_group
  <2> QED BY <2>1, SMTT(40)
<1>3. \/ UNCHANGED heap
      \/ heap' = [heap EXCEPT ![x] = [heap[x] EXCEPT !.owner = c, !.write_intent = TRUE]]
  BY Zenon DEF handle_last_tuple_in_group, Acquire
<1>4. Become(c, [t EXCEPT !.i = j]) \/ Become(c, [t EXCEPT !.pc = "undo"])
  BY Zenon DEF handle_last_tuple_in_group, do_abort
<1> HIDE DEF x, j
<1>5. [t EXCEPT !.i = j] \in TxRec /\ [t EXCEPT !.pc = "undo"] \in TxRec
  BY <1>1, <1>2, Places, ZenonT(40) DEF TxRec
<1>6. tx' \in [Cores -> TxRec]
  BY <1>4, <1>5, Becomes DEF TxnTypes
<1>7. heap' \in [Tuples -> HeapRec]
  <2>1. heap[x] \in HeapRec /\ heap \in [Tuples -> HeapRec]
    BY <1>2, Zenon DEF TxnTypes
  <2>2. [heap[x] EXCEPT !.owner = c, !.write_intent = TRUE] \in HeapRec
    BY <2>1, HeaderRec, Zenon
  <2> QED BY <1>3, <2>1, <2>2, Zenon
<1> QED
  BY <1>6, <1>7, HeapTypes, Zenon DEF handle_last_tuple_in_group

(* gen_commit_tid draws a tid below MAX_TID whose epoch is the current     *)
(* tick.                                                                   *)
LEMMA GenTid ==
  ASSUME TxnTypes, NEW c \in Cores, gen_commit_tid(c)
  PROVE  /\ NewTid(c) \in 0 .. MAX_TID - 1
         /\ EpochId(NewTid(c)) = current_tick
         /\ last_commit_tid' = [last_commit_tid EXCEPT ![c] = NewTid(c)]
         /\ Become(c, [tx[c] EXCEPT !.pc = "validate", !.tid = NewTid(c), !.i = 1])
<1> DEFINE t == tx[c]
           e == commit_epoch(c)
           last == last_commit_tid[c]
           start == IF EpochId(last) # e THEN MakeTid(0, 0, e) ELSE last
           read == {t.read_set[j].tid : j \in DOMAIN t.read_set}
           over == {heap[t.order[j]].version : j \in DOMAIN t.order} \ {MAX_TID}
           S == {start} \cup read \cup over
<1> USE TidAssumption, ClockAssumption, TxnAssumption
<1>1. e \in 0 .. MaxTick /\ e = current_tick
  BY DEF TxnTypes, ClockTypeOK, commit_epoch
<1>2. MAX_TID \in Nat
  BY MaxTidFacts
<1>3. start \in 0 .. MAX_TID
  <2>1. last \in 0 .. MAX_TID
    BY <1>2 DEF TxnTypes
  <2>2. MakeTid(0, 0, e) \in 0 .. MAX_TID - 1
    BY <1>1, MaxTidFacts
  <2> HIDE DEF e
  <2> QED BY <1>2, <2>1, <2>2
<1>4. read \in SUBSET (0 .. MAX_TID)
  <2>1. t.read_set \in Seq(ReadRec)
    BY TxFields, Zenon DEF TxnTypes
  <2>2. \A j \in DOMAIN t.read_set : t.read_set[j] \in ReadRec
    BY <2>1
  <2> QED BY <2>2, Zenon DEF ReadRec
<1>5. over \in SUBSET (0 .. MAX_TID)
  <2>1. t.order \in Seq(Tuples)
    BY TxFields, Zenon DEF TxnTypes
  <2>2. \A j \in DOMAIN t.order : t.order[j] \in Tuples
    BY <2>1
  <2>3. \A x \in Tuples : heap[x].version \in 0 .. MAX_TID
    BY Zenon DEF TxnTypes, HeapRec
  <2> QED BY <2>2, <2>3, Zenon
<1> HIDE DEF start, read, over, e
<1>6. S \in SUBSET (0 .. MAX_TID) /\ S # {}
  BY <1>3, <1>4, <1>5
<1> HIDE DEF S
<1>7. Max(S) \in Nat
  <2>1. Max(S) \in S
    BY <1>2, <1>6, MaxOfNats, Zenon
  <2>2. \A y \in S : y \in Nat
    BY <1>2, <1>6
  <2> QED BY <2>1, <2>2
<1>8. NumId(Max(S)) \in Nat
  <2> DEFINE q == Max(S) \div NMAXCORES
  <2>1. q \in Nat
    BY <1>7, DivModOf, Zenon
  <2> HIDE DEF q
  <2>2. q % NumIds \in Nat
    BY <2>1
  <2> QED BY <2>2 DEF NumId, q
<1>9. NewNum(c) = NumId(Max(S)) + 1
  BY Zenon DEF NewNum, S, start, read, over, e
<1>10. NewNum(c) \in 0 .. NumIds - 1 /\ NewTid(c) = MakeTid(c, NewNum(c), e)
  <2>1. NewNum(c) < NumIds
    BY Zenon DEF gen_commit_tid
  <2>2. NewNum(c) \in 0 .. NumIds - 1
    BY <1>8, <1>9, <2>1, SMTT(40)
  <2>3. NewTid(c) = MakeTid(c, NewNum(c), e)
    BY Zenon DEF NewTid, e
  <2> QED BY <2>2, <2>3, Zenon
<1>11. NewTid(c) \in 0 .. MAX_TID - 1
  BY <1>1, <1>10, MaxTidFacts
<1>12. EpochId(NewTid(c)) = current_tick
  BY <1>1, <1>10, TidFields
<1>13. /\ last_commit_tid' = [last_commit_tid EXCEPT ![c] = NewTid(c)]
       /\ Become(c, [tx[c] EXCEPT !.pc = "validate", !.tid = NewTid(c), !.i = 1])
  BY Zenon DEF gen_commit_tid
<1> QED
  BY <1>11, <1>12, <1>13, Zenon

(* gen_commit_tid keeps the types. *)
LEMMA GenTypes ==
  ASSUME TxnTypes, UNCHANGED workload, NEW c \in Cores, gen_commit_tid(c)
  PROVE  TxnTypes'
<1> DEFINE n == NewTid(c)
           t == [tx[c] EXCEPT !.pc = "validate", !.tid = n, !.i = 1]
<1>1. /\ n \in 0 .. MAX_TID - 1
      /\ last_commit_tid' = [last_commit_tid EXCEPT ![c] = n]
      /\ Become(c, t)
  BY GenTid, Zenon
<1>2. UNCHANGED <<clockVars, dbVars, gc>>
  BY DEF gen_commit_tid
<1> HIDE DEF n
<1>3. t \in TxRec
  <2>1. tx[c] \in TxRec /\ "validate" \in PCs /\ 1 \in Nat \ {0}
    BY Places DEF TxnTypes
  <2> QED BY <1>1, <2>1, TidRec, Zenon
<1> HIDE DEF t
<1>4. tx' \in [Cores -> TxRec]
  BY <1>1, <1>3, Becomes, Zenon DEF TxnTypes
<1>5. last_commit_tid' \in [Cores -> 0 .. MAX_TID - 1]
  BY <1>1 DEF TxnTypes
<1> QED
  BY <1>2, <1>4, <1>5, ZenonT(40) DEF TxnTypes, dbVars, clockVars, ClockTypeOK

(* Validating a read keeps the types. *)
LEMMA ValidateReadTypes ==
  ASSUME TxnTypes, UNCHANGED workload, NEW c \in Cores, ValidateRead(c)
  PROVE  TxnTypes'
<1> DEFINE j == tx[c].i + 1
<1>1. tx[c] \in TxRec /\ j \in Nat \ {0}
  <2>1. tx[c] \in TxRec
    BY DEF TxnTypes
  <2> QED BY <2>1, TxFields
<1>2. Become(c, [tx[c] EXCEPT !.i = j]) \/ Become(c, [tx[c] EXCEPT !.pc = "undo"])
  BY Zenon DEF ValidateRead, do_abort
<1> HIDE DEF j
<1>3. [tx[c] EXCEPT !.i = j] \in TxRec /\ [tx[c] EXCEPT !.pc = "undo"] \in TxRec
  BY <1>1, Places, ZenonT(40) DEF TxRec
<1> QED
  BY <1>2, <1>3, LocalTypes, ZenonT(40) DEF ValidateRead

(* Validating the leaf keeps the types. *)
LEMMA ValidateAbsentTypes ==
  ASSUME TxnTypes, UNCHANGED workload, NEW c \in Cores, ValidateAbsent(c)
  PROVE  TxnTypes'
<1>1. tx[c] \in TxRec
  BY DEF TxnTypes
<1>2. Become(c, [tx[c] EXCEPT !.pc = "write", !.i = 1]) \/ Become(c, [tx[c] EXCEPT !.pc = "undo"])
  BY Zenon DEF ValidateAbsent, do_abort
<1>3. [tx[c] EXCEPT !.pc = "write", !.i = 1] \in TxRec /\ [tx[c] EXCEPT !.pc = "undo"] \in TxRec
  <2>1. "write" \in PCs /\ "undo" \in PCs /\ 1 \in Nat \ {0}
    BY Places
  <2> QED BY <1>1, <2>1, MovedRec, Zenon
<1> QED
  BY <1>2, <1>3, LocalTypes, Zenon DEF ValidateAbsent

(* The writes that are left, and the first of them. *)
LEMMA WriteNextFacts ==
  ASSUME TxnTypes, NEW c \in Cores
  PROVE  /\ WriteNext(c) \in SUBSET Nat
         /\ WriteNext(c) \in SUBSET (DOMAIN tx[c].write_set)
         /\ WriteNext(c) # {} => /\ Min(WriteNext(c)) \in WriteNext(c)
                                 /\ \A i \in WriteNext(c) : Min(WriteNext(c)) <= i
<1>1. tx[c].write_set \in Seq(WriteRec)
  BY TxFields, Zenon DEF TxnTypes
<1>2. WriteNext(c) \in SUBSET (DOMAIN tx[c].write_set)
  BY Zenon DEF WriteNext, DoWrite
<1>3. DOMAIN tx[c].write_set \in SUBSET Nat
  BY <1>1
<1>4. WriteNext(c) \in SUBSET Nat
  BY <1>2, <1>3
<1> QED
  BY <1>2, <1>4, MinOfNats, Zenon

(* write_record_at takes the first write left, and one of its four ways. *)
LEMMA WriteCases ==
  ASSUME TxnTypes, NEW c \in Cores, NEW fits, WriteRecord(c, fits)
  PROVE  \E j \in WriteNext(c) :
           /\ j = Min(WriteNext(c)) /\ \A i \in WriteNext(c) : j <= i
           /\ WInsert(c, j) \/ WInPlace(c, j) \/ WSpill(c, j) \/ WChain(c, j)
<1> DEFINE j == Min(WriteNext(c))
<1>1. j \in WriteNext(c) /\ \A i \in WriteNext(c) : j <= i
  BY WriteNextFacts, Zenon DEF WriteRecord
<1>2. WInsert(c, j) \/ WInPlace(c, j) \/ WSpill(c, j) \/ WChain(c, j)
  BY Zenon DEF WriteRecord
<1> QED
  BY <1>1, <1>2, Zenon

(* What is queued by a write. *)
LEMMA CollectibleTypes ==
  ASSUME TxnTypes, NEW c \in Cores, NEW y \in Tuples, NEW r \in Tuples \cup {None},
         NEW w \in WriteRec, NEW hp
  PROVE  /\ Collectible(c, y, r, w, hp) \in SUBSET GcEntry
         /\ [gc EXCEPT ![c].queue = @ \cup Collectible(c, y, r, w, hp)] \in [Cores -> GcRec]
<1> DEFINE k == to_read_only_tick(EpochId(tx[c].tid))
           es == Collectible(c, y, r, w, hp)
<1>1. k \in Nat
  <2>1. tx[c].tid \in Nat
    BY TxFields, SMTT(40) DEF TxnTypes
  <2>2. NMAXCORES * NumIds \in Nat \ {0}
    BY TidAssumption, LowPart
  <2>3. EpochId(tx[c].tid) \in Nat
    BY <2>1, <2>2, DivModOf, Zenon DEF EpochId
  <2> QED BY <2>3, TidAssumption, DivModOf, Zenon DEF to_read_only_tick
<1>2. es \in SUBSET GcEntry
  <2>1. w.key \in Keys
    BY DEF WriteRec
  <2> HIDE DEF k
  <2>2. [tuple |-> y, key |-> w.key, tick |-> k] \in GcEntry
        /\ (r # None => [tuple |-> r, key |-> None, tick |-> k] \in GcEntry)
    BY <1>1, <2>1 DEF GcEntry
  <2>3. es = (IF r # None /\ ~hp[r].deleting
              THEN {[tuple |-> r, key |-> None, tick |-> k]} ELSE {})
             \cup (IF w.val = None THEN {[tuple |-> y, key |-> w.key, tick |-> k]} ELSE {})
    BY Zenon DEF Collectible, k
  <2> QED BY <2>2, <2>3, Zenon
<1> HIDE DEF es
<1>3. [gc EXCEPT ![c].queue = @ \cup es] \in [Cores -> GcRec]
  BY <1>2, Zenon DEF TxnTypes, GcRec
<1> QED
  BY <1>2, <1>3 DEF es

(* write_record_at keeps the types. *)
LEMMA WriteTypes ==
  ASSUME TxnTypes, UNCHANGED workload, NEW c \in Cores, NEW fits, WriteRecord(c, fits)
  PROVE  TxnTypes'
<1>1. PICK j \in WriteNext(c) :
         WInsert(c, j) \/ WInPlace(c, j) \/ WSpill(c, j) \/ WChain(c, j)
  BY WriteCases
<1> DEFINE w == tx[c].write_set[j]
           x == WTuple(c, j)
           h == heap[x]
           n == j + 1
<1>2. tx[c] \in TxRec /\ heap \in [Tuples -> HeapRec]
  BY DEF TxnTypes
<1>3. j \in DOMAIN tx[c].write_set /\ n \in Nat \ {0}
  BY WriteNextFacts
<1>4. w \in WriteRec /\ x \in Tuples /\ w.val \in Values
  BY <1>2, <1>3, TxFields, WriteElt, Zenon DEF WTuple
<1>5. h \in HeapRec
  BY <1>2, <1>4, Zenon
<1>6. tx[c].tid \in 0 .. MAX_TID
  <2>1. tx[c].tid \in 0 .. MAX_TID - 1 BY <1>2, TxFields, Zenon
  <2> QED BY <2>1, MaxTidFacts
<1>7. NewRec(c, j) \in HeapRec /\ [h EXCEPT !.version = tx[c].tid] \in HeapRec
  BY <1>4, <1>5, <1>6, ZenonT(40) DEF NewRec, HeapRec
<1>8. CanAlloc => Fresh \in Tuples
  BY FreshIsFree
<1>9. \A y \in Tuples : [NewRec(c, j) EXCEPT !.next = y] \in HeapRec
  BY <1>7, Zenon DEF HeapRec
<1>10. [Release(h) EXCEPT !.latest = FALSE] \in HeapRec /\ [h EXCEPT !.latest = FALSE] \in HeapRec
  BY <1>5, HeaderRec, Zenon
<1>11. UNCHANGED <<clockVars, tree, leaf_version, limbo, last_commit_tid>>
  BY Zenon DEF WriteRecord
<1> SUFFICES /\ tx' \in [Cores -> TxRec] /\ heap' \in [Tuples -> HeapRec]
             /\ gc' \in [Cores -> GcRec]
  BY <1>11, Zenon DEF TxnTypes, clockVars, ClockTypeOK
<1>12. [tx[c] EXCEPT !.i = n] \in TxRec
  <2> HIDE DEF n
  <2> QED BY <1>2, <1>3, Zenon DEF TxRec
<1>13. Become(c, [tx[c] EXCEPT !.i = n]) => tx' \in [Cores -> TxRec]
  BY <1>12, Becomes, SMTT(40) DEF TxnTypes
<1> HIDE DEF x, w
<1>14. CASE WInsert(c, j)
  BY <1>7, <1>13, <1>14, ZenonT(40) DEF WInsert, TxnTypes, x
<1>15. CASE WInPlace(c, j)
  <2>1. heap' \in [Tuples -> HeapRec] /\ tx' \in [Cores -> TxRec]
    BY <1>2, <1>7, <1>13, <1>15, Zenon DEF WInPlace, x
  <2>2. gc' \in [Cores -> GcRec]
    BY <1>4, <1>15, CollectibleTypes, Zenon DEF WInPlace, Enqueue, x, w
  <2> QED BY <2>1, <2>2, SMTT(40)
<1>16. CASE WSpill(c, j)
  <2>1. Fresh \in Tuples
    BY <1>8, <1>16, Zenon DEF WSpill
  <2>2. heap' \in [Tuples -> HeapRec] /\ tx' \in [Cores -> TxRec]
    <3>1. heap' = [heap EXCEPT ![Fresh] = [Release(h) EXCEPT !.latest = FALSE],
                          ![x] = [NewRec(c, j) EXCEPT !.next = Fresh]]
          /\ Become(c, [tx[c] EXCEPT !.i = n])
      BY <1>16, Zenon DEF WSpill, x
    <3> DEFINE p == [Release(h) EXCEPT !.latest = FALSE]
               q == [NewRec(c, j) EXCEPT !.next = Fresh]
    <3>2. p \in HeapRec /\ q \in HeapRec
      BY <1>9, <1>10, <2>1
    <3> HIDE DEF p, q
    <3> QED BY <1>2, <1>13, <3>1, <3>2, Zenon DEF p, q
  <2>3. gc' \in [Cores -> GcRec]
    BY <1>4, <1>16, <2>1, CollectibleTypes, ZenonT(40) DEF WSpill, Enqueue, x, w
  <2> QED BY <2>2, <2>3, Zenon
<1>17. CASE WChain(c, j)
  <2>1. Fresh \in Tuples /\ UNCHANGED gc
    BY <1>8, <1>17, Zenon DEF WChain
  <2>2. heap' = [heap EXCEPT ![Fresh] = [NewRec(c, j) EXCEPT !.next = x], ![x].latest = FALSE]
        /\ Become(c, [tx[c] EXCEPT !.pc = "replace", !.i = n, !.head = Fresh])
    BY <1>17, Zenon DEF WChain, x
  <2>3. heap' \in [Tuples -> HeapRec]
    <3> DEFINE q == [NewRec(c, j) EXCEPT !.next = x]
               g == [heap EXCEPT ![Fresh] = q]
    <3>1. q \in HeapRec
      BY <1>4, <1>9
    <3> HIDE DEF q
    <3>2. g \in [Tuples -> HeapRec]
      BY <1>2, <3>1, Zenon
    <3>3. heap' = [g EXCEPT ![x].latest = FALSE]
      BY <2>2 DEF q
    <3> HIDE DEF g
    <3>4. [g[x] EXCEPT !.latest = FALSE] \in HeapRec
      BY <1>4, <3>2, Zenon DEF HeapRec
    <3> QED BY <1>4, <3>2, <3>3, <3>4, SMTT(40)
  <2>4. [tx[c] EXCEPT !.pc = "replace", !.i = n, !.head = Fresh] \in TxRec
    <3>1. "replace" \in PCs /\ Fresh \in Tuples \cup {None}
      BY <2>1, Places
    <3> HIDE DEF n
    <3> QED BY <1>2, <1>3, <3>1, HeadRec, ZenonT(40)
  <2>5. tx' \in [Cores -> TxRec]
    BY <2>2, <2>4, Becomes, ZenonT(40) DEF TxnTypes
  <2> QED BY <2>1, <2>3, <2>5, SMTT(40) DEF TxnTypes
<1> QED
  BY <1>1, <1>14, <1>15, <1>16, <1>17, ZenonT(40)

(* Putting the new head into the tree keeps the types. *)
LEMMA ReplaceTypes ==
  ASSUME TxnTypes, UNCHANGED workload, NEW c \in Cores, PcOK(c), Replace(c)
  PROVE  TxnTypes'
<1> DEFINE t == tx[c]
           w == t.write_set[t.i - 1]
<1>1. t \in TxRec /\ heap \in [Tuples -> HeapRec] /\ tree \in [Keys -> Tuples \cup {None}]
  BY Zenon DEF TxnTypes
<1>2. t.head \in Tuples /\ t.i - 1 \in DOMAIN t.write_set
  BY Zenon DEF PcOK, Fits, Replace, At
<1>3. w \in WriteRec /\ w.tuple \in Tuples /\ w.key \in Keys
  BY <1>1, <1>2, TxFields, WriteElt, Zenon
<1>4. [t EXCEPT !.pc = "write", !.head = None] \in TxRec
  <2>1. "write" \in PCs /\ None \in Tuples \cup {None}
    BY Places, Zenon
  <2> QED BY <1>1, <2>1, HeadRec, TxFields, ZenonT(40)
<1>5. tx' \in [Cores -> TxRec]
  BY <1>4, Becomes, Zenon DEF TxnTypes, Replace
<1>6. heap' \in [Tuples -> HeapRec] /\ tree' \in [Keys -> Tuples \cup {None}]
  <2>1. /\ tree' = [tree EXCEPT ![w.key] = t.head]
        /\ heap' = [heap EXCEPT ![t.head] = Release(heap[t.head])]
    BY Zenon DEF Replace
  <2>2. Release(heap[t.head]) \in HeapRec
    <3> HIDE DEF t
    <3>1. heap[t.head] \in HeapRec
      BY <1>1, <1>2, Zenon
    <3> QED BY <3>1, HeaderRec, Zenon
  <2> HIDE DEF t, w
  <2> QED BY <1>1, <1>2, <1>3, <2>1, <2>2, Zenon
<1>7. gc' \in [Cores -> GcRec]
  BY <1>2, <1>3, CollectibleTypes, Zenon DEF Replace, Enqueue
<1> QED
  BY <1>5, <1>6, <1>7, ZenonT(40) DEF TxnTypes, Replace, clockVars, ClockTypeOK

(* The tuple that a core lets go of next is one of those it holds. *)
LEMMA FirstHeldFacts ==
  ASSUME TxnTypes, NEW c \in Cores, Held(c) # {}
  PROVE  /\ Min(Held(c)) \in DOMAIN tx[c].order
         /\ FirstHeld(c) = tx[c].order[Min(Held(c))]
         /\ FirstHeld(c) \in Tuples /\ heap[FirstHeld(c)].owner = c
<1>1. tx[c].order \in Seq(Tuples)
  BY TxFields, Zenon DEF TxnTypes
<1>2. Held(c) \in SUBSET (DOMAIN tx[c].order)
  BY Zenon DEF Held
<1>3. DOMAIN tx[c].order \in SUBSET Nat
  BY <1>1
<1>4. Held(c) \in SUBSET Nat
  BY <1>2, <1>3
<1>5. Min(Held(c)) \in Held(c)
  BY <1>4, MinOfNats, Zenon
<1>6. Min(Held(c)) \in DOMAIN tx[c].order /\ heap[tx[c].order[Min(Held(c))]].owner = c
  BY <1>5, Zenon DEF Held
<1> QED
  BY <1>1, <1>6 DEF FirstHeld

(* Letting go of a lock keeps the types. *)
LEMMA UnlockTypes ==
  ASSUME TxnTypes, UNCHANGED workload, NEW c \in Cores, Unlock(c)
  PROVE  TxnTypes'
<1>1. tx[c] \in TxRec /\ heap \in [Tuples -> HeapRec] /\ tx \in [Cores -> TxRec]
  BY DEF TxnTypes
<1>2. CASE Held(c) # {}
  <2>1. FirstHeld(c) \in Tuples
    BY <1>2, FirstHeldFacts, Zenon
  <2>2. heap' = [heap EXCEPT ![FirstHeld(c)] = Release(heap[FirstHeld(c)])] /\ UNCHANGED tx
    BY <1>2, Zenon DEF Unlock
  <2>3. Release(heap[FirstHeld(c)]) \in HeapRec
    BY <1>1, <2>1, HeaderRec, Zenon
  <2>4. heap' \in [Tuples -> HeapRec]
    BY <1>1, <2>2, <2>3, Zenon
  <2> QED BY <1>1, <2>2, <2>4, HeapTypes, Zenon DEF Unlock
<1>3. CASE Held(c) = {}
  <2>1. [tx[c] EXCEPT !.pc = "end"] \in TxRec
    BY <1>1, Places, ZenonT(40) DEF TxRec
  <2>2. tx' \in [Cores -> TxRec] /\ UNCHANGED heap
    BY <1>1, <1>3, <2>1, Becomes, SMTT(40) DEF Unlock
  <2> QED BY <1>1, <2>2, HeapTypes, Zenon DEF Unlock
<1> QED BY <1>2, <1>3

(* A released tuple. *)
LEMMA LimboTypes ==
  ASSUME NEW x \in Tuples, limbo \in SUBSET LimboRec, free_with_fn(x)
  PROVE  limbo' \in SUBSET LimboRec
<1>1. [tuple |-> x, waits |-> {d \in Cores : pinned'[d] # 0}] \in LimboRec
  BY DEF LimboRec
<1> QED BY <1>1, Zenon DEF free_with_fn

(* The first and the last write of a tuple. *)
LEMMA PositionsFacts ==
  ASSUME NEW ws \in Seq(WriteRec), NEW x, Positions(ws, x) # {}
  PROVE  /\ Min(Positions(ws, x)) \in DOMAIN ws
         /\ ws[Min(Positions(ws, x))].tuple = x
         /\ ws[Min(Positions(ws, x))].key \in Keys
         /\ Max(Positions(ws, x)) \in DOMAIN ws
         /\ ws[Max(Positions(ws, x))].tuple = x
         /\ \A j \in Positions(ws, x) : j <= Max(Positions(ws, x))
<1>1. Len(ws) \in Nat /\ Positions(ws, x) \in SUBSET (1 .. Len(ws))
  BY DEF Positions
<1>2. Positions(ws, x) \in SUBSET Nat /\ Positions(ws, x) \in SUBSET (0 .. Len(ws))
  BY <1>1
<1>3. Min(Positions(ws, x)) \in Positions(ws, x) /\ Max(Positions(ws, x)) \in Positions(ws, x)
      /\ \A j \in Positions(ws, x) : Max(Positions(ws, x)) >= j
  BY <1>1, <1>2, MinOfNats, MaxOfNats, ZenonT(40)
<1>4. \A j \in Positions(ws, x) : j <= Max(Positions(ws, x))
  BY <1>3
<1>5. \A j \in Positions(ws, x) : j \in DOMAIN ws /\ ws[j].tuple = x
  BY DEF Positions
<1> QED
  BY <1>3, <1>5, WriteElt, Zenon

(* Undoing an insert keeps the types. *)
LEMMA UndoTypes ==
  ASSUME TxnTypes, UNCHANGED workload, NEW c \in Cores, Undo(c)
  PROVE  TxnTypes'
<1> DEFINE x == FirstHeld(c)
           k == tx[c].write_set[Min(Positions(tx[c].write_set, x))].key
<1>1. heap \in [Tuples -> HeapRec] /\ tree \in [Keys -> Tuples \cup {None}] /\ tx[c] \in TxRec
      /\ limbo \in SUBSET LimboRec
  BY DEF TxnTypes
<1>2. x \in Tuples
  BY FirstHeldFacts, Zenon DEF Undo
<1>3. Release(heap[x]) \in HeapRec /\ [Release(heap[x]) EXCEPT !.latest = FALSE] \in HeapRec
  BY <1>1, <1>2, HeaderRec, ZenonT(40)
<1>4. CASE DidInsert(tx[c], x)
  <2>1. k \in Keys
    <3>1. Positions(tx[c].write_set, x) # {}
      BY <1>4, Zenon DEF DidInsert
    <3> QED BY <1>1, <3>1, TxFields, PositionsFacts, ZenonT(40)
  <2>2. /\ tree' = [tree EXCEPT ![k] = None]
        /\ heap' = [heap EXCEPT ![x] = [Release(heap[x]) EXCEPT !.latest = FALSE]]
        /\ UNCHANGED <<clockVars, leaf_version, tx, last_commit_tid, gc>>
        /\ free_with_fn(x)
    BY <1>4, Zenon DEF Undo, remove
  <2> HIDE DEF x, k
  <2>3. heap' \in [Tuples -> HeapRec] /\ tree' \in [Keys -> Tuples \cup {None}]
    BY <1>1, <1>3, <2>2, ZenonT(40)
  <2>4. limbo' \in SUBSET LimboRec
    BY <1>1, <1>2, <2>2, LimboTypes, ZenonT(40)
  <2> QED BY <2>2, <2>3, <2>4, ZenonT(40) DEF TxnTypes, clockVars, ClockTypeOK
<1>5. CASE ~DidInsert(tx[c], x)
  <2>1. /\ heap' = [heap EXCEPT ![x] = Release(heap[x])]
        /\ UNCHANGED <<clockVars, tree, limbo, leaf_version, tx, last_commit_tid, gc>>
    BY <1>5 DEF Undo
  <2> HIDE DEF x
  <2>2. heap' \in [Tuples -> HeapRec]
    BY <1>1, <1>3, <2>1, ZenonT(40)
  <2> QED BY <2>1, <2>2, ZenonT(40) DEF TxnTypes, clockVars, ClockTypeOK
<1> QED BY <1>4, <1>5, SMTT(40)

(* The end of an abort keeps the types. *)
LEMMA UndoEndTypes ==
  ASSUME TxnTypes, UNCHANGED workload, NEW c \in Cores, UndoEnd(c)
  PROVE  TxnTypes'
<1>1. tx[c] \in TxRec /\ "end" \in PCs
  BY Places DEF TxnTypes
<1>2. [tx[c] EXCEPT !.pc = "end"] \in TxRec
  BY <1>1, ZenonT(40) DEF TxRec
<1> QED BY <1>2, LocalTypes DEF UndoEnd

(* A core between transactions. *)
LEMMA IdleRec ==
  ASSUME TxnTypes, NEW c \in Cores
  PROVE  /\ Idle(c) \in TxRec
         /\ \A p \in PCs : [Idle(c) EXCEPT !.pc = p] \in TxRec
<1>1. tx[c].n \in Nat
  BY TxFields, Zenon DEF TxnTypes
<1>2. ASSUME NEW t \in TxRec, NEW n \in Nat PROVE [t EXCEPT !.n = n] \in TxRec
  BY ZenonT(40) DEF TxRec
<1>3. Idle(c) \in TxRec
  BY <1>1, <1>2, EmbryoRec, Zenon DEF Idle
<1> HIDE DEF Idle
<1>4. \A p \in PCs : [Idle(c) EXCEPT !.pc = p] \in TxRec
  BY <1>3, ZenonT(40) DEF TxRec
<1> QED BY <1>3, <1>4

(* The end of a region leaves a set of retired tuples. *)
LEMMA RegionTypes ==
  ASSUME limbo \in SUBSET LimboRec, NEW c \in Cores, RegionEnded(c)
  PROVE  limbo' \in SUBSET LimboRec
<1>1. \A l \in LimboRec : [l EXCEPT !.waits = @ \ {c}] \in LimboRec
  BY DEF LimboRec
<1> QED BY <1>1 DEF RegionEnded

(* The end of a transaction keeps the types. *)
LEMMA EndTypes ==
  ASSUME TxnTypes, UNCHANGED workload, NEW c \in Cores, End(c)
  PROVE  TxnTypes'
<1>1. [Idle(c) EXCEPT !.pc = "collect"] \in TxRec
  BY IdleRec, Places, ZenonT(40)
<1>2. tx' \in [Cores -> TxRec]
  BY <1>1, Becomes, ZenonT(40) DEF End, TxnTypes
<1>3. limbo' \in SUBSET LimboRec
  BY RegionTypes DEF End, TxnTypes
<1>4. ClockTypeOK' /\ current_tick' <= MaxTick
  BY PinTypes DEF End
<1> QED BY <1>2, <1>3, <1>4, ZenonT(40) DEF End, TxnTypes

(* The tick up to which the collector cleans. *)
LEMMA RoTickNat ==
  ASSUME TxnTypes
  PROVE  ro_tick_ex \in Nat /\ ro_tick_ex = to_read_only_tick(last_tick_inclusive)
         /\ to_read_only_tick(current_tick) \in Nat
<1>1. last_tick_inclusive \in Nat /\ global_last_tick_exclusive - 1 = last_tick_inclusive
      /\ current_tick \in Nat
  BY DEF TxnTypes, ClockTypeOK, global_last_tick_exclusive
<1> QED BY <1>1, TidAssumption, DivModOf, ZenonT(40) DEF ro_tick_ex, to_read_only_tick

(* The start of a collection keeps the types. *)
LEMMA CollectTypes ==
  ASSUME TxnTypes, UNCHANGED workload, NEW c \in Cores, on_post_rcu_region_completion(c)
  PROVE  TxnTypes'
<1> DEFINE g == gc[c]
           r == ro_tick_ex - 1
           batch == {e \in g.queue : e.tick <= r}
           p == IF batch = {} THEN "idle" ELSE "clean"
           n == [queue |-> g.queue \ batch, scratch |-> batch, last_reaped_epoch |-> r]
<1>1. p \in PCs
  BY Places
<1>2. \/ Become(c, Idle(c)) /\ UNCHANGED gc
      \/ /\ ro_tick_ex # 0 /\ Become(c, [Idle(c) EXCEPT !.pc = p])
         /\ gc' = [gc EXCEPT ![c] = n]
  BY Zenon DEF on_post_rcu_region_completion, clean_up_to_including
<1>3. g \in GcRec
  BY DEF TxnTypes
<1>4. ro_tick_ex # 0 => r \in Nat
  BY RoTickNat
<1> HIDE DEF r, g, p
<1>5. ro_tick_ex # 0 => n \in GcRec
  BY <1>3, <1>4 DEF GcRec
<1> HIDE DEF n
<1>6. tx' \in [Cores -> TxRec]
  BY <1>1, <1>2, IdleRec, Becomes, ZenonT(40) DEF TxnTypes
<1>7. gc' \in [Cores -> GcRec]
  BY <1>2, <1>5, SMTT(40) DEF TxnTypes
<1> QED BY <1>6, <1>7, ZenonT(40) DEF on_post_rcu_region_completion, TxnTypes, clockVars, dbVars,
   ClockTypeOK

(* A set of entries less one, or with one more. *)
LEMMA GcStepTypes ==
  ASSUME gc \in [Cores -> GcRec], NEW c \in Cores, NEW e, NEW f \in GcEntry
  PROVE  /\ [gc EXCEPT ![c].scratch = @ \ {e}] \in [Cores -> GcRec]
         /\ [gc EXCEPT ![c].scratch = @ \ {e}, ![c].queue = @ \cup {f}] \in [Cores -> GcRec]
BY ZenonT(40) DEF GcRec

(* The parts of an entry of the scratch queue. *)
LEMMA ScratchEntry ==
  ASSUME TxnTypes, NEW c \in Cores, NEW e \in gc[c].scratch
  PROVE  e \in GcEntry /\ e.tuple \in Tuples /\ e.key \in Keys \cup {None} /\ e.tick \in Nat
<1>1. e \in GcEntry
  BY DEF TxnTypes, GcRec
<1> QED BY <1>1 DEF GcEntry

(* Freeing an old version keeps the types. *)
LEMMA CleanVersionTypes ==
  ASSUME TxnTypes, UNCHANGED workload, NEW c \in Cores, NEW e \in gc[c].scratch, CleanVersion(c, e)
  PROVE  TxnTypes'
<1>1. e \in GcEntry /\ e.tuple \in Tuples
  BY ScratchEntry, Zenon
<1>2. FreeTuple \in HeapRec
  BY <1>1, HeaderRec, ZenonT(40) DEF TxnTypes
<1>3. heap' \in [Tuples -> HeapRec]
  BY <1>2, ZenonT(40) DEF CleanVersion, TxnTypes
<1>4. gc' \in [Cores -> GcRec]
  BY <1>1, GcStepTypes, Zenon DEF CleanVersion, TxnTypes
<1> QED BY <1>3, <1>4, ZenonT(40) DEF CleanVersion, TxnTypes, clockVars, ClockTypeOK

(* Cleaning up a deleted key keeps the types. *)
LEMMA CleanDeleteTypes ==
  ASSUME TxnTypes, UNCHANGED workload, NEW c \in Cores, NEW e \in gc[c].scratch, CleanDelete(c, e)
  PROVE  TxnTypes'
<1>1. e \in GcEntry /\ e.tuple \in Tuples /\ e.key \in Keys
  BY ScratchEntry, ZenonT(40) DEF CleanDelete
<1>2. CASE heap[e.tuple].latest
  <2>1. ClockTypeOK' /\ current_tick' <= MaxTick
    <3>1. CASE pinned[c] = 0
      BY <1>2, <3>1, PinTypes, ZenonT(40) DEF CleanDelete
    <3>2. CASE pinned[c] # 0
      BY <3>2, ZenonT(40) DEF CleanDelete, clockVars, ClockTypeOK, TxnTypes
    <3> QED BY <3>1, <3>2, SMTT(40)
  <2>2. heap' \in [Tuples -> HeapRec] /\ tree' \in [Keys -> Tuples \cup {None}]
    <3>1. [heap[e.tuple] EXCEPT !.owner = c, !.write_intent = FALSE] \in HeapRec
      BY <1>1, HeaderRec, ZenonT(40) DEF TxnTypes
    <3> QED BY <3>1, Zenon DEF CleanDelete, TxnTypes, Acquire, remove
  <2>3. tx' \in [Cores -> TxRec]
    <3>1. tx[c] \in TxRec /\ "removed" \in PCs /\ e.tuple \in Tuples \cup {None}
      BY <1>1, Places, SMTT(40) DEF TxnTypes
    <3>2. [tx[c] EXCEPT !.pc = "removed", !.head = e.tuple] \in TxRec
      BY <3>1, HeadRec, TxFields, ZenonT(40)
    <3> QED BY <3>2, Becomes, Zenon DEF CleanDelete, TxnTypes
  <2>4. gc' \in [Cores -> GcRec]
    <3>1. gc' = [gc EXCEPT ![c].scratch = @ \ {e}]
      BY <1>2, Zenon DEF CleanDelete
    <3>2. gc \in [Cores -> GcRec]
      BY DEF TxnTypes
    <3> QED BY <1>1, <3>1, <3>2, GcStepTypes, Zenon
  <2> QED BY <2>1, <2>2, <2>3, <2>4, ZenonT(40) DEF CleanDelete, TxnTypes
<1>3. CASE ~heap[e.tuple].latest
  <2> DEFINE f == [tuple |-> e.tuple, key |-> None, tick |-> RequeueTick(e)]
  <2>1. f \in GcEntry
    BY <1>1, RoTickNat, Zenon DEF GcEntry, RequeueTick
  <2>2. gc' = [gc EXCEPT ![c].scratch = @ \ {e}, ![c].queue = @ \cup {f}]
        /\ UNCHANGED <<clockVars, heap, tree, tx, leaf_version, limbo, last_commit_tid>>
    BY <1>3, Zenon DEF CleanDelete
  <2> HIDE DEF f
  <2>3. gc \in [Cores -> GcRec]
    BY DEF TxnTypes
  <2>4. gc' \in [Cores -> GcRec]
    BY <2>1, <2>2, <2>3, GcStepTypes, Zenon
  <2> QED BY <2>2, <2>4, Zenon DEF TxnTypes, clockVars, ClockTypeOK
<1> QED BY <1>2, <1>3

(* Retiring a removed tuple keeps the types. *)
LEMMA CleanRemovedTypes ==
  ASSUME TxnTypes, UNCHANGED workload, NEW c \in Cores, PcOK(c), CleanRemoved(c)
  PROVE  TxnTypes'
<1>1. tx[c] \in TxRec /\ tx[c].head \in Tuples
  BY Zenon DEF TxnTypes, PcOK, Fits, CleanRemoved, At
<1>2. heap' \in [Tuples -> HeapRec]
  <2>1. [Release(heap[tx[c].head]) EXCEPT !.latest = FALSE] \in HeapRec
    BY <1>1, HeaderRec, Zenon DEF TxnTypes
  <2> QED BY <2>1, Zenon DEF CleanRemoved, TxnTypes
<1>3. tx' \in [Cores -> TxRec]
  <2>1. "clean" \in PCs /\ None \in Tuples \cup {None}
    BY Places
  <2>2. [tx[c] EXCEPT !.pc = "clean", !.head = None] \in TxRec
    BY <1>1, <2>1, HeadRec, TxFields, Zenon
  <2> QED BY <2>2, Becomes, Zenon DEF CleanRemoved, TxnTypes
<1>4. limbo' \in SUBSET LimboRec
  BY <1>1, LimboTypes, Zenon DEF CleanRemoved, TxnTypes
<1> QED BY <1>2, <1>3, <1>4, ZenonT(40) DEF CleanRemoved, TxnTypes, clockVars, ClockTypeOK

(* The end of a collection keeps the types. *)
LEMMA CleanEndTypes ==
  ASSUME TxnTypes, UNCHANGED workload, NEW c \in Cores, CleanEnd(c)
  PROVE  TxnTypes'
<1>1. tx' \in [Cores -> TxRec]
  BY IdleRec, Becomes, ZenonT(40) DEF CleanEnd, TxnTypes
<1>2. limbo' \in SUBSET LimboRec /\ ClockTypeOK' /\ current_tick' <= MaxTick
  <2>1. CASE pinned[c] # 0
    BY <2>1, RegionTypes, PinTypes, ZenonT(40) DEF CleanEnd, TxnTypes
  <2>2. CASE pinned[c] = 0
    BY <2>2, Zenon DEF CleanEnd, clockVars, ClockTypeOK, TxnTypes
  <2> QED BY <2>1, <2>2
<1> QED BY <1>1, <1>2, ZenonT(40) DEF CleanEnd, TxnTypes

(* The free of a retired tuple keeps the types. *)
LEMMA RcuFreeTypes ==
  ASSUME TxnTypes, UNCHANGED workload, NEW l \in limbo, RcuFree(l)
  PROVE  TxnTypes'
<1>1. l.tuple \in Tuples
  BY DEF TxnTypes, LimboRec
<1>2. heap' \in [Tuples -> HeapRec] /\ limbo' \in SUBSET LimboRec
  <2>1. FreeTuple \in HeapRec
    <3>1. MIN_TID \in 0 .. MAX_TID /\ None \in Values
      BY MaxTidFacts DEF Values
    <3> QED BY <3>1, Zenon DEF HeapRec, FreeTuple
  <2> QED BY <1>1, <2>1 DEF RcuFree, TxnTypes
<1> QED BY <1>2, Zenon DEF RcuFree, TxnTypes, clockVars, ClockTypeOK

(* A step of the clock keeps the types. *)
LEMMA ClockStepTypes ==
  ASSUME TxnTypes, UNCHANGED workload, ClockStep
  PROVE  TxnTypes'
<1>1. ClockTypeOK' /\ current_tick' <= MaxTick
  BY ClockTypes DEF ClockStep
<1> QED BY <1>1 DEF ClockStep, TxnTypes, dbVars

(* Every number is a tid of some core, number and epoch. *)
LEMMA TidOf ==
  ASSUME NEW v \in Nat
  PROVE  /\ CoreId(v) \in 0 .. NMAXCORES - 1 /\ NumId(v) \in 0 .. NumIds - 1
         /\ EpochId(v) \in Nat /\ v = MakeTid(CoreId(v), NumId(v), EpochId(v))
<1> USE TidAssumption
<1> DEFINE q == v \div NMAXCORES
           m == q % NumIds
           e == q \div NumIds
<1>1. v % NMAXCORES \in 0 .. NMAXCORES - 1 /\ q \in Nat /\ v = (v % NMAXCORES) + NMAXCORES * q
  BY DivModOf, Zenon
<1> HIDE DEF q
<1>2. m \in 0 .. NumIds - 1 /\ e \in Nat /\ q = m + NumIds * e
  BY <1>1, DivModOf, Zenon
<1>3. CoreId(v) = v % NMAXCORES /\ NumId(v) = m
  BY DEF CoreId, NumId, q
<1> HIDE DEF m, e
<1>4. v = MakeTid(CoreId(v), m, e)
  BY <1>1, <1>2, <1>3, SMTT(40) DEF MakeTid
<1>5. EpochId(MakeTid(CoreId(v), m, e)) = e
  BY <1>1, <1>2, <1>3, TidFields, Zenon
<1> QED
  BY <1>1, <1>2, <1>3, <1>4, <1>5, ZenonT(40)

(* A tid above a snapshot is of the snapshot's read-only tick or a later one. *)
LEMMA AboveSnapshot ==
  ASSUME NEW g \in Nat, NEW v \in Nat, ComputeReadOnlyTid(g) < v
  PROVE  to_read_only_tick(g) <= to_read_only_tick(EpochId(v))
<1> USE TidAssumption
<1> DEFINE R == ReadOnlyEpochMultiplier
           T == to_read_only_tick(g)
           E == to_read_only_tick(EpochId(v))
           b == T * R
<1>1. T \in Nat /\ E \in Nat /\ ComputeReadOnlyTid(g) \in Nat
  BY TidOf, DivModOf, ReadOnlyTidNat, Zenon DEF to_read_only_tick
<1>2. CASE EpochId(v) # 0
  <2>1. v <= ComputeReadOnlyTid(g) <=> E < T
    <3>1. PICK e \in Nat \ {0} : e = EpochId(v)
      BY <1>2, TidOf, SMTT(40)
    <3>2. MakeTid(CoreId(v), NumId(v), e) <= ComputeReadOnlyTid(g) <=> to_read_only_tick(e) < T
      BY TidOf, SnapshotEndsReadOnlyTick, Zenon
    <3> QED BY <3>1, <3>2, TidOf, Zenon
  <2> HIDE DEF E, T
  <2>2. ~(E < T)
    BY <1>1, <2>1
  <2>3. T <= E
    BY <1>1, <2>2
  <2> QED BY <2>3 DEF E, T
<1>3. CASE EpochId(v) = 0
  <2>1. CASE T = 0
    BY <1>1, <2>1
  <2>2. CASE T # 0
    <3> HIDE DEF T
    <3>1. b \in Nat \ {0}
      BY <1>1, <2>2, Z3
    <3>2. ComputeReadOnlyTid(g) = MakeTid(NMAXCORES - 1, NumIds - 1, b - 1)
      BY <3>1 DEF ComputeReadOnlyTid, T
    <3> HIDE DEF b
    <3>3. NMAXCORES - 1 \in 0 .. NMAXCORES - 1 /\ NumIds - 1 \in 0 .. NumIds - 1 /\ b - 1 \in Nat
      BY <3>1
    <3>4. MakeTid(NMAXCORES - 1, NumIds - 1, b - 1) < MakeTid(CoreId(v), NumId(v), EpochId(v))
            <=> \/ b - 1 < EpochId(v)
                \/ b - 1 = EpochId(v) /\ NumIds - 1 < NumId(v)
                \/ b - 1 = EpochId(v) /\ NumIds - 1 = NumId(v) /\ NMAXCORES - 1 < CoreId(v)
      <4>1. CoreId(v) \in 0 .. NMAXCORES - 1 /\ NumId(v) \in 0 .. NumIds - 1 /\ EpochId(v) \in Nat
        BY TidOf
      <4> QED BY <3>3, <4>1, TidOrder, SMTT(40)
    <3>5. FALSE
      <4>1. v = MakeTid(CoreId(v), NumId(v), EpochId(v))
        BY TidOf
      <4>2. \/ b - 1 < EpochId(v)
            \/ b - 1 = EpochId(v) /\ NumIds - 1 < NumId(v)
            \/ b - 1 = EpochId(v) /\ NumIds - 1 = NumId(v) /\ NMAXCORES - 1 < CoreId(v)
        BY <3>2, <3>4, <4>1, Zenon
      <4> QED BY <1>3, <3>3, <4>2, TidOf, SMTT(40)
    <3> QED BY <3>5
  <2> QED BY <2>1, <2>2
<1> QED BY <1>2, <1>3

(* A tuple of the load transaction. *)
LoadedTuple == [FreeTuple EXCEPT !.alive = TRUE, !.latest = TRUE, !.version = LoadTid,
                                 !.val = [id |-> Load, pos |-> 1]]

(* The keys of the load transaction are in the first n tuples, each in one of its own. *)
LoadedAt(n, at) ==
  /\ \A k \in workload.loaded : at[k] <= n
  /\ \A j, k \in workload.loaded : at[j] = at[k] => j = k
  /\ \A x \in 1 .. n : \E k \in workload.loaded : at[k] = x
  /\ tree = [k \in Keys |-> IF k \in workload.loaded THEN at[k] ELSE None]
  /\ heap = [x \in Tuples |-> IF x \in 1 .. n THEN LoadedTuple ELSE FreeTuple]

(* The load transaction has put every key it wrote in a tuple of its own. *)
LEMMA InitFacts ==
  ASSUME Init
  PROVE  \E n \in 0 .. NTuples, at \in [workload.loaded -> Tuples] : LoadedAt(n, at)
<1> DEFINE S == workload.loaded
           n == Cardinality(S)
           Good(f) == \A j, k \in S : f[j] = f[k] => j = k
           at == CHOOSE f \in [S -> 1 .. n] : Good(f)
<1>1. S \in SUBSET Keys
  BY TxnAssumption, Zenon DEF Init, Workload
<1>2. IsFiniteSet(S) /\ n <= Cardinality(Keys) /\ Cardinality(Keys) \in Nat
  BY <1>1, TxnAssumption, FS_Subset, FS_CardinalityType, Zenon
<1>3. n \in Nat /\ ExistsBijection(1 .. n, S)
  BY <1>2, FS_CardinalityType, Zenon
<1>4. n \in 0 .. NTuples
  BY <1>2, <1>3, TxnAssumption, SMTT(40)
<1>5. tree = [k \in Keys |-> IF k \in S THEN at[k] ELSE None]
      /\ heap = [x \in Tuples |-> IF x \in 1 .. n THEN LoadedTuple ELSE FreeTuple]
  BY Zenon DEF Init, LoadedTuple
<1>6. IsFiniteSet(1 .. n) /\ Cardinality(1 .. n) = n
  BY <1>3, FS_Interval
<1> HIDE DEF S, n
<1>7. PICK g \in Bijection(S, 1 .. n) : TRUE
  <2>1. ExistsBijection(S, 1 .. n)
    BY <1>2, <1>6, FS_SameCardinalityBij, SMTT(40) DEF n
  <2> QED BY <2>1, Zenon DEF ExistsBijection
<1>8. g \in [S -> 1 .. n] /\ Good(g)
  BY Zenon DEF Bijection, Injection, IsInjective
<1>9. at \in [S -> 1 .. n] /\ Good(at)
  BY <1>8, Zenon
<1> HIDE DEF at
<1>10. at \in Injection(S, 1 .. n)
  BY <1>9, Zenon DEF Injection, IsInjective
<1>11. at \in Surjection(S, 1 .. n)
  BY <1>6, <1>10, FS_Injection, ZenonT(40) DEF n
<1>12. \A x \in 1 .. n : \E k \in S : at[k] = x
  BY <1>11, Zenon DEF Surjection
<1>13. at \in [S -> Tuples] /\ \A k \in S : at[k] <= n
  BY <1>4, <1>9, TxnAssumption, SMTT(40) DEF Tuples
<1> at \in [workload.loaded -> Tuples] /\ n \in 0 .. NTuples
  BY <1>4, <1>13 DEF S
<1> WITNESS n \in 0 .. NTuples, at \in [workload.loaded -> Tuples]
<1> QED
  BY <1>5, <1>9, <1>12, <1>13, ZenonT(40) DEF S, LoadedAt

(* The tid of the load transaction is one of epoch 1. *)
LEMMA LoadTidFacts == LoadTid \in 0 .. MAX_TID - 1 /\ LoadTid # MIN_TID /\ EpochId(LoadTid) = 1
<1> USE TidAssumption, ClockAssumption, TxnAssumption
<1>1. 0 \in Cores /\ 0 \in 0 .. NMAXCORES - 1 /\ 1 \in 0 .. NumIds - 1 /\ 1 \in 0 .. MaxTick
  OBVIOUS
<1>2. LoadTid \in 0 .. MAX_TID - 1
  BY <1>1, MaxTidFacts, Zenon DEF LoadTid
<1>3. EpochId(LoadTid) = 1
  BY <1>1, TidFields, ZenonT(40) DEF LoadTid
<1>4. NMAXCORES * NumIds \in Nat \ {0}
  BY <1>1, LowPart, Zenon
<1>5. LoadTid # 0
  BY <1>3, SMTT(40) DEF EpochId
<1> QED BY <1>2, <1>3, <1>5, ZenonT(40)

(* A tuple of the load transaction, and one not in use. *)
LEMMA LoadRec == FreeTuple \in HeapRec /\ LoadedTuple \in HeapRec
<1>1. MIN_TID \in 0 .. MAX_TID /\ LoadTid \in 0 .. MAX_TID
  BY MaxTidFacts, LoadTidFacts, SMTT(40)
<1>2. None \in Values /\ [id |-> Load, pos |-> 1] \in Values
  <2>1. 0 \in Cores
    BY TxnAssumption, TidAssumption
  <2> QED BY <2>1 DEF Values, Load
<1> QED BY <1>1, <1>2, Zenon DEF HeapRec, FreeTuple, LoadedTuple

(* The initial states have the types. *)
LEMMA InitTypes ==
  ASSUME Init PROVE TxnTypes
<1>1. ClockTypeOK /\ current_tick <= MaxTick
  BY ClockAssumption DEF Init, ClockInit, ClockTypeOK
<1>2. PICK n \in 0 .. NTuples, at \in [workload.loaded -> Tuples] : LoadedAt(n, at)
  BY InitFacts
<1>3. heap \in [Tuples -> HeapRec]
  BY <1>2, LoadRec, Zenon DEF LoadedAt
<1>4. tree \in [Keys -> Tuples \cup {None}]
  BY <1>2, Zenon DEF LoadedAt
<1>5. tx \in [Cores -> TxRec]
  BY EmbryoRec, Zenon DEF Init
<1>6. last_commit_tid \in [Cores -> 0 .. MAX_TID - 1]
  BY LoadTidFacts, MaxTidFacts, SMTT(40) DEF Init
<1>7. gc \in [Cores -> GcRec]
  BY Zenon DEF Init, GcRec
<1> QED BY <1>1, <1>3, <1>4, <1>5, <1>6, <1>7, ZenonT(40) DEF Init, TxnTypes

(* A tuple that is written in the tuple's last entry is not written again. *)
LEMMA WriteNextLast ==
  ASSUME TxnTypes, NEW c \in Cores, NEW j \in WriteNext(c), \A i \in WriteNext(c) : j <= i,
         ~tx[c].write_set[j].insert, NEW a \in WriteNext(c), a # j
  PROVE  tx[c].write_set[a].tuple # tx[c].write_set[j].tuple
<1> DEFINE ws == tx[c].write_set
           P == Positions(ws, ws[j].tuple)
<1>1. ws \in Seq(WriteRec)
  BY TxFields, ZenonT(40) DEF TxnTypes
<1>2. j \in DOMAIN ws /\ a \in DOMAIN ws /\ j = Max(P)
  BY Zenon DEF WriteNext, DoWrite
<1>3. SUFFICES ASSUME ws[a].tuple = ws[j].tuple PROVE FALSE
  BY Zenon
<1>4. j \in P /\ a \in P
  BY <1>2, <1>3, Zenon DEF Positions
<1>5. a <= Max(P)
  BY <1>1, <1>4, PositionsFacts, ZenonT(40)
<1>6. a \in Nat /\ j \in Nat /\ j <= a
  BY <1>1, <1>2, SMTT(40)
<1> QED BY <1>2, <1>5, <1>6, SMTT(40)

-----------------------------------------------------------------------------
(* What the invariant says *)

(* What TxnInv says of one core, and of its workload. *)
LEMMA InvParts ==
  ASSUME TxnInv
  PROVE  TxnTypes /\ (\A c \in Cores : PcOK(c)) /\ workload \in Workload
BY TxnAssumption, ZenonT(40) DEF TxnInv, TxnTypes

(* The state the load transaction leaves behind satisfies the invariant. *)
LEMMA InitInv ==
  ASSUME Init PROVE TxnInv
<1>1. TxnTypes
  BY InitTypes, Zenon
<1>2. PICK n \in 0 .. NTuples, at \in [workload.loaded -> Tuples] : LoadedAt(n, at)
  BY InitFacts, Zenon
<1>3. /\ current_tick = 1 /\ last_tick_inclusive = 0 /\ \A c \in Cores : pinned[c] = 0
      /\ limbo = {}
      /\ \A c \in Cores : tx[c] = Embryo
      /\ \A c \in Cores : gc[c] = [queue |-> {}, scratch |-> {}, last_reaped_epoch |-> 0]
  BY Zenon DEF Init, ClockInit
<1>4. \A c \in Cores : gc[c].queue = {} /\ gc[c].scratch = {} /\ Entries(c) = {}
  <2> SUFFICES ASSUME NEW c \in Cores
               PROVE  gc[c].queue = {} /\ gc[c].scratch = {} /\ Entries(c) = {}
    BY Zenon
  <2>1. gc[c] = [queue |-> {}, scratch |-> {}, last_reaped_epoch |-> 0]
    BY <1>3, Zenon
  <2>2. gc[c].queue = {} /\ gc[c].scratch = {}
    BY <2>1, SMTT(40)
  <2> QED BY <2>2, Zenon DEF Entries
<1>5. workload.loaded \in SUBSET Keys
  BY TxnAssumption, Zenon DEF Init, Workload
<1>6. \A c \in Cores : /\ tx[c].pc = "idle" /\ tx[c].read_set = <<>> /\ tx[c].write_set = <<>>
                       /\ tx[c].todo = <<>> /\ tx[c].head = None
  <2>1. /\ Embryo.pc = "idle" /\ Embryo.read_set = <<>> /\ Embryo.write_set = <<>>
        /\ Embryo.todo = <<>> /\ Embryo.head = None
    BY Zenon DEF Embryo
  <2> QED BY <1>3, <2>1, Zenon
<1>7. \A x \in Tuples :
        \/ heap[x] = FreeTuple
        \/ heap[x] = LoadedTuple /\ \E k \in Keys : tree[k] = x
  <2> SUFFICES ASSUME NEW x \in Tuples, x \in 1 .. n
               PROVE  heap[x] = LoadedTuple /\ \E k \in Keys : tree[k] = x
    BY <1>2, Zenon DEF LoadedAt
  <2>1. PICK k \in workload.loaded : at[k] = x
    BY <1>2, Zenon DEF LoadedAt
  <2> QED BY <1>2, <1>5, Zenon DEF LoadedAt
<1>8. \A x \in Tuples : /\ heap[x].owner = None /\ heap[x].next = None
                        /\ heap[x].version \in {MIN_TID, LoadTid}
                        /\ heap[x].alive => heap[x].latest /\ heap[x].version = LoadTid
                        /\ ~heap[x].alive => ~heap[x].latest
                        /\ heap[x].latest => \E k \in Keys : tree[k] = x
  <2>1. /\ FreeTuple.owner = None /\ FreeTuple.next = None /\ FreeTuple.version = MIN_TID
        /\ ~FreeTuple.alive /\ ~FreeTuple.latest
    BY Zenon DEF FreeTuple
  <2>2. /\ LoadedTuple.owner = None /\ LoadedTuple.next = None /\ LoadedTuple.version = LoadTid
        /\ LoadedTuple.alive /\ LoadedTuple.latest
    BY DEF FreeTuple, LoadedTuple
  <2> QED BY <1>7, <2>1, <2>2, Zenon
<1>9. ASSUME NEW k \in Keys, tree[k] # None
      PROVE  k \in workload.loaded /\ tree[k] = at[k] /\ heap[tree[k]].alive /\ heap[tree[k]].latest
  <2>1. k \in workload.loaded /\ tree[k] = at[k]
    BY <1>2, <1>9, Zenon DEF LoadedAt
  <2>2. at[k] \in Tuples /\ at[k] \in 1 .. n
    BY <1>2, <2>1, SMTT(40) DEF LoadedAt, Tuples
  <2>3. heap[tree[k]] = LoadedTuple
    BY <1>2, <2>1, <2>2, Zenon DEF LoadedAt
  <2> QED BY <2>1, <2>3, Zenon DEF FreeTuple, LoadedTuple
<1>10. PinnedWindow
  BY <1>3 DEF PinnedWindow
<1>11. ASSUME NEW c \in Cores
       PROVE  PcOK(c) /\ EpochOK(c) /\ SnapOK(c) /\ OwnsOK(c) /\ PtrsOK(c)
  <2>1. PcOK(c)
    <3>1. /\ tx[c].pc = "idle" /\ tx[c].read_set = <<>> /\ tx[c].write_set = <<>>
          /\ tx[c].todo = <<>> /\ tx[c].head = None /\ pinned[c] = 0
      BY <1>3, <1>6, Zenon
    <3>2. "idle" \notin {"snapshot", "removed"} \cup Running \cup Deciding \cup InTxn
      BY Zenon DEF Running, Deciding, InTxn
    <3>3. \A j \in DOMAIN tx[c].write_set : FALSE
      BY <3>1, SMTT(40)
    <3> QED BY <3>1, <3>2, <3>3, Zenon DEF PcOK, Fits
  <2>2. EpochOK(c) /\ SnapOK(c)
    BY <1>6, Zenon DEF EpochOK, SnapOK, Running
  <2>3. OwnsOK(c)
    <3>1. tx[c].pc = "idle" /\ "idle" \notin Running
      BY <1>6 DEF Running
    <3>2. OwnsInserts(c) /\ OwnsLocked(c)
      BY <3>1, Zenon DEF OwnsInserts, OwnsLocked
    <3>3. OwnsWrites(c) /\ OwnsUndone(c)
      BY <3>1 DEF OwnsWrites, OwnsUndone
    <3>4. OwnsReplaced(c) /\ OwnsRemoved(c)
      BY <3>1, Zenon DEF OwnsReplaced, OwnsRemoved
    <3> QED BY <3>2, <3>3, <3>4, Zenon DEF OwnsOK
  <2>4. DOMAIN tx[c].todo = {} /\ DOMAIN tx[c].read_set = {} /\ DOMAIN tx[c].write_set = {}
    BY <1>6
  <2>5. PtrsOK(c)
    BY <2>4, Zenon DEF PtrsOK, Ptrs
  <2> QED BY <2>1, <2>2, <2>3, <2>5, Zenon
<1>12. ASSUME NEW x \in Tuples PROVE LockOK(x) /\ TupleOK(x) /\ ChainOK(x)
  <2>1. LockOK(x)
    BY <1>8, Zenon DEF LockOK
  <2>2. TupleOK(x)
    <3>1. EpochId(0) = 0
      <4>1. PICK m \in Nat \ {0} : m = NMAXCORES * NumIds
        BY TidAssumption, Z3
      <4>2. 0 \div m = 0
        BY Z3
      <4> QED BY <4>1, <4>2, Zenon DEF EpochId
    <3>2. EpochId(MIN_TID) <= current_tick /\ EpochId(LoadTid) <= current_tick
      BY <1>3, <3>1, LoadTidFacts, SMTT(40)
    <3> QED BY <1>8, <3>2, LoadTidFacts, ZenonT(40) DEF TupleOK, InTree
  <2>3. ChainOK(x)
    BY <1>8, Zenon DEF ChainOK, Live
  <2> QED BY <2>1, <2>2, <2>3, Zenon
<1>13. TreeOK
  <2>1. \A j, k \in Keys : tree[j] = tree[k] /\ tree[j] # None => j = k
    BY <1>2, Zenon DEF LoadedAt
  <2> QED BY <1>9, <2>1, Zenon DEF TreeOK
<1>14. GcOK
  BY <1>3, <1>4, Zenon DEF GcOK
<1>15. ChainsApart
  BY <1>8, Zenon DEF ChainsApart, Live
<1> QED BY <1>1, <1>10, <1>11, <1>12, <1>13, <1>14, <1>15, ZenonT(40) DEF TxnInv

(* The types, from the invariant. *)
LEMMA InvTypes ==
  ASSUME TxnInv PROVE TypeOK
<1>1. TxnTypes
  BY InvParts, Zenon
<1>2. ASSUME NEW c \in Cores
      PROVE  /\ last_commit_tid[c] < MAX_TID
             /\ gc[c].queue \cup gc[c].scratch
                  \subseteq [tuple : Tuples, key : Keys \cup {None}, tick : Nat]
             /\ gc[c].last_reaped_epoch \in Nat
             /\ tx[c].tid < MAX_TID
  <2>1. last_commit_tid[c] \in 0 .. MAX_TID - 1 /\ tx[c] \in TxRec /\ gc[c] \in GcRec
    BY <1>1, Zenon DEF TxnTypes
  <2>2. tx[c].tid \in 0 .. MAX_TID - 1
    BY <2>1, TxFields, Zenon
  <2>3. last_commit_tid[c] < MAX_TID /\ tx[c].tid < MAX_TID
    BY <2>1, <2>2, MaxTidFacts, SMTT(40)
  <2> QED BY <2>1, <2>3, Zenon DEF GcRec, GcEntry
<1> QED BY <1>1, <1>2, ZenonT(40) DEF TypeOK, TxnTypes, HeapRec, LimboRec

(* Where the keys lead, from the invariant. *)
LEMMA InvTree ==
  ASSUME TxnInv PROVE TreeLeadsToLatest
<1>1. \A c \in Cores : c # None
  BY TxnAssumption, SMTT(40)
<1>2. ASSUME NEW k \in Keys, tree[k] # None
      PROVE  heap[tree[k]].latest \/ heap[tree[k]].owner # None
  <2>1. CASE \E c \in Cores : tx[c].pc = "replace" /\ Replacing(c).tuple = tree[k]
    <3>1. PICK c \in Cores : tx[c].pc = "replace" /\ Replacing(c).tuple = tree[k]
      BY <2>1, Zenon
    <3>2. heap[Replacing(c).tuple].owner = c
      BY <3>1, Zenon DEF TxnInv, OwnsOK, OwnsReplaced
    <3> QED BY <1>1, <3>1, <3>2, Zenon
  <2> QED BY <1>2, <2>1, Zenon DEF TxnInv, TreeOK
<1>3. ASSUME NEW x \in Tuples, heap[x].latest, heap[x].owner = None
      PROVE  \E k \in Keys : tree[k] = x
  <2>1. \/ InTree(x)
        \/ \E c \in Cores : tx[c].pc \in {"replace", "removed"} /\ tx[c].head = x
    BY <1>3, Zenon DEF TxnInv, TupleOK
  <2>2. ASSUME NEW c \in Cores, tx[c].pc \in {"replace", "removed"}, tx[c].head = x
        PROVE  FALSE
    <3>1. OwnsReplaced(c) /\ OwnsRemoved(c)
      BY Zenon DEF TxnInv, OwnsOK
    <3>2. heap[x].owner = c
      BY <2>2, <3>1, Zenon DEF OwnsReplaced, OwnsRemoved
    <3> QED BY <1>1, <1>3, <3>2, Zenon
  <2> QED BY <2>1, <2>2, Zenon DEF InTree
<1> QED BY <1>2, <1>3, Zenon DEF TreeLeadsToLatest

(* Which tuples are alive, from the invariant. *)
LEMMA InvAlive ==
  ASSUME TxnInv PROVE NoDanglingPointer
<1>1. \A k \in Keys : tree[k] # None => heap[tree[k]].alive
  BY Zenon DEF TxnInv, TreeOK
<1>2. ASSUME NEW c \in Cores, NEW x \in Pointers(c)
      PROVE  heap[x].alive
  <2>1. PcOK(c) /\ PtrsOK(c) /\ OwnsReplaced(c) /\ OwnsRemoved(c) /\ GcOK
    BY Zenon DEF TxnInv, OwnsOK
  <2>2. \/ x \in Ptrs(c)
        \/ \E e \in Entries(c) : e.tuple = x
        \/ x = tx[c].head /\ x # None
    BY Zenon DEF Pointers, Ptrs, Entries
  <2>3. CASE x \in Ptrs(c)
    BY <2>1, <2>3, Zenon DEF PtrsOK, Safe
  <2>4. CASE \E e \in Entries(c) : e.tuple = x
    BY <2>1, <2>4, Zenon DEF GcOK
  <2>5. CASE x = tx[c].head /\ x # None
    <3>1. tx[c].pc \in {"replace", "removed"}
      BY <2>1, <2>5, Zenon DEF PcOK, Fits
    <3> QED BY <2>1, <2>5, <3>1, Zenon DEF OwnsReplaced, OwnsRemoved
  <2> QED BY <2>2, <2>3, <2>4, <2>5, Zenon
<1> QED BY <1>1, <1>2, Zenon DEF NoDanglingPointer

(* Whom a core waits for, and with what: the holder of the tuple it waits  *)
(* for is past its own inserts, so if it waits itself then for a lock, and *)
(* that tuple comes after the one it holds.                                *)
LEMMA HolderOfAwaited ==
  ASSUME TxnInv, NEW c \in Cores, NEW d \in WaitsFor(c), WaitsFor(d) # {}
  PROVE  /\ d \in Cores /\ tx[d].pc = "lock" /\ tx[d].i <= Len(tx[d].order)
         /\ tx[c].pc = "lock" => tx[c].order[tx[c].i] < tx[d].order[tx[d].i]
<1>1. PICK x \in Tuples : /\ heap[x].owner = d /\ d \in Cores
                          /\ \/ tx[c].pc \in {"read", "lock"} /\ ~Tentative(x)
                             \/ tx[c].pc = "clean" /\ ~Unqueued(x)
                          /\ tx[c].pc = "lock" => tx[c].order[tx[c].i] = x
  <2>1. TxnTypes
    BY InvParts, Zenon
  <2>2. ASSUME NEW x \in Tuples, heap[x].owner # None PROVE heap[x].owner \in Cores
    BY <2>1, <2>2, ZenonT(40) DEF TxnTypes, HeapRec
  <2>3. CASE At(c, "read") /\ ~IsSnapshot(c)
    <3> DEFINE x == Head(tx[c].todo).tuple
    <3>1. heap[x].owner = d /\ d # None /\ ~Tentative(x)
      BY <2>3, Zenon DEF WaitsFor, At
    <3>2. x \in Tuples
      <4>1. PcOK(c) /\ tx[c].todo \in Seq(TodoRec)
        BY TxFields, SMTT(40) DEF TxnInv, TxnTypes
      <4>2. tx[c].todo # <<>>
        BY <2>3, <4>1, Zenon DEF PcOK, Fits, At
      <4>3. Head(tx[c].todo) \in TodoRec
        BY <4>1, <4>2, SMTT(40)
      <4> QED BY <4>3, Zenon DEF TodoRec
    <3> QED BY <2>2, <2>3, <3>1, <3>2, Zenon DEF At
  <2>4. CASE At(c, "lock") /\ tx[c].i <= Len(tx[c].order)
    <3> DEFINE x == tx[c].order[tx[c].i]
    <3>1. heap[x].owner = d /\ d # None /\ ~Tentative(x)
      BY <2>4, Zenon DEF WaitsFor, At
    <3>2. x \in Tuples
      <4>1. tx[c].order \in Seq(Tuples) /\ tx[c].i \in Nat \ {0}
        BY <2>1, TxFields, ZenonT(40) DEF TxnTypes
      <4> QED BY <2>4, <4>1, SMTT(40)
    <3> QED BY <2>2, <2>4, <3>1, <3>2, ZenonT(40) DEF At
  <2>5. CASE At(c, "clean")
    <3>1. PICK e \in gc[c].scratch : heap[e.tuple].owner = d /\ d # None
      <4>1. WaitsFor(c) = UNION {{heap[e.tuple].owner} \ {None, c} : e \in gc[c].scratch}
        BY <2>5, Zenon DEF WaitsFor, At
      <4> QED BY <4>1, Zenon
    <3>2. e.tuple \in Tuples
      BY <2>1, ScratchEntry, ZenonT(40)
    <3>3. ~Unqueued(e.tuple)
      BY Zenon DEF Unqueued, Entries
    <3> QED BY <2>2, <2>5, <3>1, <3>2, <3>3, ZenonT(40) DEF At
  <2>6. CASE ~(At(c, "read") /\ ~IsSnapshot(c))
             /\ ~(At(c, "lock") /\ tx[c].i <= Len(tx[c].order)) /\ ~At(c, "clean")
    BY <2>6, Zenon DEF WaitsFor
  <2> QED BY <2>3, <2>4, <2>5, <2>6, ZenonT(40)
<1>2. \/ tx[d].pc = "read"
      \/ tx[d].pc = "lock" /\ tx[d].i <= Len(tx[d].order)
      \/ tx[d].pc = "clean"
  BY Zenon DEF WaitsFor, At
<1>3. LockOK(x) /\ PcOK(d) /\ OwnsInserts(d)
  BY <1>1, Zenon DEF TxnInv, OwnsOK
<1>4. d # None /\ heap[x].write_intent
  <2>1. d # None
    BY <1>1, TxnAssumption, SMTT(40)
  <2> QED BY <1>1, <1>2, <1>3, <2>1, Zenon DEF LockOK, Removing
<1>5. ~(DidInsert(tx[d], x) /\ Tentative(x) /\ tx[d].pc \in Running \cup {"lock"})
  <2> SUFFICES ASSUME DidInsert(tx[d], x), Tentative(x), tx[d].pc \in Running \cup {"lock"}
               PROVE  FALSE
    BY Zenon
  <2>1. PICK j \in DOMAIN tx[d].write_set :
          tx[d].write_set[j].insert /\ tx[d].write_set[j].tuple = x
    BY Zenon DEF DidInsert, Positions
  <2>2. Unqueued(x)
    BY <1>3, <2>1, ZenonT(40) DEF OwnsInserts, Pending
  <2> QED BY <1>1, <2>2, ZenonT(40)
<1>6. /\ tx[d].pc = "lock" /\ tx[d].i <= Len(tx[d].order)
      /\ \E j \in DOMAIN tx[d].order : j < tx[d].i /\ tx[d].order[j] = x
  <2>1. \/ tx[d].pc \in Running \cup {"lock"} /\ DidInsert(tx[d], x) /\ Tentative(x)
        \/ /\ tx[d].pc = "lock"
           /\ \E j \in DOMAIN tx[d].order : j < tx[d].i /\ tx[d].order[j] = x
        \/ tx[d].pc \in {"validate", "write", "replace", "undo"}
    BY <1>1, <1>3, <1>4, Zenon DEF LockOK
  <2> QED BY <1>2, <1>5, <2>1, Zenon
<1>7. x < tx[d].order[tx[d].i]
  <2>1. PICK j \in DOMAIN tx[d].order : j < tx[d].i /\ tx[d].order[j] = x
    BY <1>6, Zenon
  <2>2. tx[d].order \in Seq(Tuples) /\ tx[d].i \in Nat \ {0}
    BY <1>1, InvParts, TxFields, ZenonT(40) DEF TxnTypes
  <2>3. tx[d].i \in DOMAIN tx[d].order
    BY <1>6, <2>2, SMTT(40)
  <2>4. \A a, b \in DOMAIN tx[d].order : a < b => tx[d].order[a] < tx[d].order[b]
    BY <1>3, <1>6, ZenonT(40) DEF PcOK, Fits
  <2> QED BY <2>1, <2>3, <2>4, ZenonT(40)
<1> QED BY <1>1, <1>6, <1>7, ZenonT(40)

(* Nobody waits in a circle, from the invariant. *)
LEMMA InvNoCycle ==
  ASSUME TxnInv PROVE NoWaitCycle
<1> SUFFICES ASSUME NEW S \in SUBSET Cores, S # {},
                    \A c \in S : WaitsFor(c) \cap S # {}
             PROVE  FALSE
  BY Zenon DEF NoWaitCycle
<1> DEFINE A(c) == tx[c].order[tx[c].i]
           L == {c \in S : tx[c].pc = "lock" /\ tx[c].i <= Len(tx[c].order)}
           M == {A(c) : c \in L}
<1>1. ASSUME NEW c \in S
      PROVE  \E d \in L : tx[c].pc = "lock" => A(c) < A(d)
  <2>1. PICK d \in WaitsFor(c) : d \in S
    OBVIOUS
  <2>2. WaitsFor(d) # {} /\ c \in Cores
    BY <2>1, Zenon
  <2> QED BY <2>2, HolderOfAwaited, ZenonT(40)
<1>2. L # {}
  BY <1>1, Zenon
<1>3. M \in SUBSET (0 .. NTuples) /\ M # {}
  <2>1. ASSUME NEW c \in L PROVE A(c) \in 0 .. NTuples
    <3>1. tx[c].order \in Seq(Tuples) /\ tx[c].i \in Nat \ {0} /\ tx[c].i <= Len(tx[c].order)
      BY InvParts, TxFields, ZenonT(40) DEF TxnTypes
    <3>2. A(c) \in Tuples
      BY <3>1, SMTT(40)
    <3> QED BY <3>2, SMTT(40) DEF Tuples
  <2> QED BY <1>2, <2>1, ZenonT(40)
<1>4. Max(M) \in M /\ \A y \in M : Max(M) >= y
  BY <1>3, MaxOfNats, TxnAssumption, ZenonT(40)
<1>5. PICK c \in L : Max(M) = A(c)
  BY <1>4, Zenon
<1>6. PICK d \in L : A(c) < A(d)
  BY <1>1, Zenon
<1> HIDE DEF A, L
<1>7. A(c) \in M /\ A(d) \in M /\ A(c) >= A(d)
  BY <1>4, <1>5, ZenonT(40)
<1> HIDE DEF M
<1>8. PICK a, b : a = A(c) /\ b = A(d)
  OBVIOUS
<1>9. a \in 0 .. NTuples /\ b \in 0 .. NTuples /\ a >= b /\ a < b
  BY <1>3, <1>6, <1>7, <1>8, ZenonT(40)
<1> QED BY <1>9, SMTT(40)

-----------------------------------------------------------------------------
(* The ticks of the collector's queues *)

(* What is new in the queue of a core has a tick that is no lower than any *)
(* that was there.                                                         *)
QueueGoesUp ==
  \A c \in Cores : \A e \in gc'[c].queue \ gc[c].queue : \A f \in gc[c].queue : f.tick <= e.tick

(* Entries that go into the queue of c, all of tick k. *)
LEMMA EnqueuesGoUp ==
  ASSUME TxnInv, NEW c \in Cores, NEW es, Enqueue(c, es), NEW k,
         \A e \in es : e.tick = k, \A f \in gc[c].queue : f.tick <= k
  PROVE  QueueGoesUp
<1>1. gc \in [Cores -> GcRec]
  BY InvParts, ZenonT(40) DEF TxnTypes
<1>2. /\ gc'[c].queue = gc[c].queue \cup es
      /\ \A d \in Cores : d # c => gc'[d].queue = gc[d].queue
  BY <1>1 DEF Enqueue, GcRec
<1> QED BY <1>2, Zenon DEF QueueGoesUp

(* Whatever a write queues has the tick of its epoch. *)
LEMMA CollectiblesGoUp ==
  ASSUME TxnInv, NEW c \in Cores, tx[c].pc \in {"write", "replace"}, tx[c].write_set # <<>>,
         NEW y, NEW r, NEW w, NEW hp, Enqueue(c, Collectible(c, y, r, w, hp))
  PROVE  QueueGoesUp
<1> DEFINE k == to_read_only_tick(EpochId(tx[c].tid))
           es == Collectible(c, y, r, w, hp)
<1>1. \A e \in es : e.tick = k
  <2> HIDE DEF k
  <2>1. es = (IF r # None /\ ~hp[r].deleting
              THEN {[tuple |-> r, key |-> None, tick |-> k]} ELSE {})
             \cup (IF w.val = None THEN {[tuple |-> y, key |-> w.key, tick |-> k]} ELSE {})
    BY Zenon DEF Collectible, k
  <2> HIDE DEF es
  <2> QED BY <2>1, SMTT(40)
<1>2. \A f \in gc[c].queue : f.tick <= k
  BY Zenon DEF TxnInv, EpochOK
<1> HIDE DEF k, es
<1>3. Enqueue(c, es)
  BY DEF es
<1> QED BY <1>1, <1>2, <1>3, EnqueuesGoUp, ZenonT(40)

(* A step of a core by itself: only writes and deletions that are queued   *)
(* again add to a queue.                                                   *)
LEMMA ProgressGoesUp ==
  ASSUME TxnInv, NEW c \in Cores, Progress(c)
  PROVE  QueueGoesUp
<1>1. TxnTypes /\ PcOK(c) /\ gc \in [Cores -> GcRec]
  BY InvParts, ZenonT(40) DEF TxnTypes
<1>2. ASSUME UNCHANGED gc PROVE QueueGoesUp
  BY <1>2, ZenonT(40) DEF QueueGoesUp
<1>3. ASSUME NEW fits \in BOOLEAN, WriteRecord(c, fits)
      PROVE  QueueGoesUp
  <2>1. PICK j \in WriteNext(c) : WInsert(c, j) \/ WInPlace(c, j) \/ WSpill(c, j) \/ WChain(c, j)
    BY <1>1, <1>3, WriteCases, ZenonT(40)
  <2>2. tx[c].pc \in {"write", "replace"}
    BY <1>3, Zenon DEF WriteRecord, At
  <2>3. tx[c].write_set # <<>>
    BY SMTT(40) DEF WriteNext, DoWrite
  <2>4. CASE WInsert(c, j) \/ WChain(c, j)
    BY <1>2, <2>4, Zenon DEF WInsert, WChain
  <2>5. CASE WInPlace(c, j)
    BY <2>2, <2>3, <2>5, CollectiblesGoUp, ZenonT(40) DEF WInPlace
  <2>6. CASE WSpill(c, j)
    BY <2>2, <2>3, <2>6, CollectiblesGoUp, ZenonT(40) DEF WSpill
  <2> QED BY <2>1, <2>4, <2>5, <2>6, ZenonT(40)
<1>4. CASE Replace(c)
  <2>1. tx[c].pc \in {"write", "replace"}
    BY <1>4, Zenon DEF Replace, At
  <2>2. tx[c].write_set # <<>>
    <3>1. tx[c].i - 1 \in DOMAIN tx[c].write_set
      BY <1>1, <1>4, ZenonT(40) DEF PcOK, Fits, Replace, At
    <3> QED BY <3>1, SMTT(40)
  <2>3. \E y, r, w, hp : Enqueue(c, Collectible(c, y, r, w, hp))
    BY <1>4, Zenon DEF Replace
  <2> QED BY <2>1, <2>2, <2>3, CollectiblesGoUp, ZenonT(40)
<1>5. CASE on_post_rcu_region_completion(c)
  <2>1. CASE UNCHANGED gc
    BY <1>2, <2>1, ZenonT(40)
  <2>2. CASE ~UNCHANGED gc
    <3> DEFINE b == {e \in gc[c].queue : e.tick <= ro_tick_ex - 1}
    <3>1. gc' = [gc EXCEPT ![c] = [queue |-> gc[c].queue \ b, scratch |-> b,
                                   last_reaped_epoch |-> ro_tick_ex - 1]]
      BY <1>5, <2>2, Zenon DEF on_post_rcu_region_completion, clean_up_to_including
    <3> HIDE DEF b
    <3>2. gc'[c].queue = gc[c].queue \ b /\ \A d \in Cores : d # c => gc'[d] = gc[d]
      BY <1>1, <3>1, ZenonT(40)
    <3> QED BY <3>2, Zenon DEF QueueGoesUp
  <2> QED BY <2>1, <2>2, ZenonT(40)
<1>6. ASSUME NEW e \in gc[c].scratch, gc' = [gc EXCEPT ![c].scratch = @ \ {e}]
      PROVE  QueueGoesUp
  <2>1. \A d \in Cores : gc'[d].queue = gc[d].queue
    BY <1>1, <1>6, ZenonT(40) DEF GcRec
  <2> QED BY <2>1, Zenon DEF QueueGoesUp
<1>7. ASSUME NEW e \in gc[c].scratch, CleanVersion(c, e) \/ CleanDelete(c, e)
      PROVE  QueueGoesUp
  <2>1. CASE gc' = [gc EXCEPT ![c].scratch = @ \ {e}]
    BY <1>6, <2>1, ZenonT(40)
  <2>2. CASE gc' # [gc EXCEPT ![c].scratch = @ \ {e}]
    <3> DEFINE n == [tuple |-> e.tuple, key |-> None, tick |-> to_read_only_tick(current_tick)]
    <3>1. gc' = [gc EXCEPT ![c].scratch = @ \ {e}, ![c].queue = @ \cup {n}]
      BY <1>7, <2>2, ZenonT(40) DEF CleanVersion, CleanDelete, RequeueTick
    <3>2. n.tick = to_read_only_tick(current_tick)
      BY Zenon
    <3> HIDE DEF n
    <3>3. /\ gc'[c].queue = gc[c].queue \cup {n}
          /\ \A d \in Cores : d # c => gc'[d].queue = gc[d].queue
      BY <1>1, <3>1, ZenonT(40) DEF GcRec
    <3>4. \A f \in gc[c].queue : f.tick <= to_read_only_tick(current_tick)
      BY Zenon DEF TxnInv, GcOK, Entries
    <3> QED BY <3>2, <3>3, <3>4, ZenonT(40) DEF QueueGoesUp
  <2> QED BY <2>1, <2>2, ZenonT(40)
<1>8. CASE \/ TakeSnapshot(c) \/ do_tuple_read(c) \/ PutFind(c) \/ try_insert_new_tuple(c)
           \/ handle_last_tuple_in_group(c) \/ gen_commit_tid(c)
           \/ ValidateRead(c) \/ ValidateAbsent(c) \/ Unlock(c) \/ Undo(c) \/ UndoEnd(c) \/ End(c)
           \/ CleanRemoved(c) \/ CleanEnd(c)
  <2>1. UNCHANGED gc
    BY <1>8, ZenonT(40) DEF TakeSnapshot, do_tuple_read, PutFind, try_insert_new_tuple,
       handle_last_tuple_in_group, gen_commit_tid, ValidateRead, ValidateAbsent, Unlock, Undo,
       UndoEnd, End, CleanRemoved, CleanEnd
  <2> QED BY <1>2, <2>1, Zenon
<1> QED
  BY <1>3, <1>4, <1>5, <1>7, <1>8, ZenonT(40) DEF Progress

(* No step puts anything lower into a queue. *)
LEMMA NextGoesUp ==
  ASSUME TxnInv, [Next]_vars
  PROVE  [\A c \in Cores : \A e \in gc'[c].queue \ gc[c].queue : \A f \in gc[c].queue :
            f.tick <= e.tick]_vars
<1>1. SUFFICES ASSUME Next PROVE QueueGoesUp
  BY Zenon DEF QueueGoesUp
<1>2. CASE \E c \in Cores : Progress(c)
  BY <1>2, ProgressGoesUp, Zenon
<1>3. CASE \/ ClockStep \/ \E c \in Cores : Begin(c) \/ Operation(c)
           \/ \E l \in limbo : RcuFree(l)
  <2>1. ASSUME NEW c \in Cores, Begin(c) \/ Operation(c) PROVE UNCHANGED gc
    BY <2>1, Zenon DEF Begin, Operation, Abort, do_search_range_call, do_search, do_tree_put,
       commit
  <2>2. UNCHANGED gc
    BY <1>3, <2>1, Zenon DEF ClockStep, RcuFree
  <2> QED BY <2>2, Zenon DEF QueueGoesUp
<1> QED BY <1>1, <1>2, <1>3, Zenon DEF Next

==============================================================================
