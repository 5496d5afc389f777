-------------------------------- MODULE Tpcc ---------------------------------
(***************************************************************************)
(* The TPC-C benchmark of new-benchmarks/tpcc.cc, driven by bench.cc: the   *)
(* loaders, the five transactions, the workers' retry loop and the two back *)
(* ends.  On ndb (Silo) a transaction takes effect at once or aborts, which *)
(* is what module Txn shows of commits; its reads do not see its own        *)
(* writes.  On kvdb nothing ever aborts, every operation takes effect in    *)
(* place, and the partition locks keep transactions apart.                  *)
(*                                                                          *)
(* Names, streets, dates and the history table, which is only inserted      *)
(* into, are left out.  Every item costs 1.                                 *)
(***************************************************************************)
EXTENDS Integers, Sequences, FiniteSets, FiniteSetsExt, SequencesExt, TLC

CONSTANTS NumDistrictsPerWarehouse, NumCustomersPerDistrict, NumItems,
          NumLastNames,     \* 1000: the customers up to it have different last names
          FirstNewOrder,    \* 2101: the loaded orders from it on are not delivered
          LoadedLines,      \* the order sizes of the loader, and of new orders:
          NumLines,         \*   5 .. 15
          Quantities,       \* 1 .. 10
          StockLevels,      \* the quantities the loader puts in stock, 10 .. 100
          Payments,         \* the amounts paid
          ScanLimits,       \* 1 .. 15: how many orders order_status looks at
          txn_max_batch_size,
          MaxOrderId,       \* a bound of the model on the order ids that aborts use up
          Configs           \* the command lines, see conf

VARIABLES conf,            \* [scale_factor, nthreads, ops_per_worker, kvdb, fast, retry, timed]
          db,              \* the tables
          load,            \* the batches still to load
          barrier_a,       \* the workers barrier_a still waits for
          running,         \* "no" before barrier_b, "yes", "stop"
          th,              \* th[t]: what worker t is doing
          last_no_o_ids,   \* the delivery hint of each worker, by district
          district_ids,    \* g_district_ids
          locks,           \* g_partition_locks: the worker that holds it, or -1
          failed           \* the ALWAYS_ASSERTs that have failed

vars == <<conf, db, load, barrier_a, running, th, last_no_o_ids, district_ids, locks, failed>>

NumWarehouses == conf.scale_factor
nthreads == conf.nthreads

Warehouses == 1 .. NumWarehouses
Districts  == 1 .. NumDistrictsPerWarehouse
Customers  == 1 .. NumCustomersPerDistrict
Workers    == 0 .. nthreads - 1

-----------------------------------------------------------------------------
(***************************************************************************)
(* Partitions.                                                              *)
(***************************************************************************)
PartitionId(wid) ==
    LET per == NumWarehouses \div nthreads
    IN  IF NumWarehouses <= nthreads THEN wid - 1
        ELSE Min({(wid - 1) \div per, nthreads - 1})

\* [warehouse_id_start, warehouse_id_end) of worker i, as make_workers_impl gives them.
WarehouseRange(i) ==
    LET per  == NumWarehouses \div nthreads
        wend == IF i + 1 = nthreads THEN NumWarehouses ELSE (i + 1) * per
    IN  IF NumWarehouses <= nthreads
        THEN <<(i % NumWarehouses) + 1, (i % NumWarehouses) + 2>>
        ELSE <<i * per + 1, wend + 2>>

PickWarehouseId(t) == WarehouseRange(t)[1] .. WarehouseRange(t)[2] - 1

-----------------------------------------------------------------------------
(***************************************************************************)
(* Loading.  The loaders fill different tables and never meet, so they load *)
(* one after the other here; a batch that aborts is loaded again.           *)
(***************************************************************************)
\* The index ranges of a table that is loaded in batches up to n.
nbatches(n) == IF txn_max_batch_size > n THEN 1 ELSE n \div txn_max_batch_size

StockBatch(b) ==
    (b * txn_max_batch_size + 1) .. Min({(b + 1) * txn_max_batch_size + 1, NumItems})

CustomerBatch(b) ==
    (b * txn_max_batch_size + 1) .. Min({(b + 1) * txn_max_batch_size, NumCustomersPerDistrict})

\* An item transaction commits after every txn_max_batch_size items and at the end.
ItemBatch(b) == (b * txn_max_batch_size + 1) .. Min({(b + 1) * txn_max_batch_size, NumItems})

\* Every batch of every loader, in the order of make_loaders.
LoadPlan ==
    LET ws == SetToSeq(Warehouses)
        wds == SetToSeq(Warehouses \X Districts)
        each(s, F(_)) == FlattenSeq([j \in DOMAIN s |-> F(s[j])])
        stock(w) == [b \in 1 .. nbatches(NumItems) |-> [tbl |-> "stock", w |-> w, ids |-> StockBatch(b - 1)]]
        customer(wd) == [b \in 1 .. nbatches(NumCustomersPerDistrict) |->
                           [tbl |-> "customer", w |-> wd[1], d |-> wd[2], ids |-> CustomerBatch(b - 1)]]
        order(wd) == [o \in Customers |-> [tbl |-> "order", w |-> wd[1], d |-> wd[2], o |-> o]]
    IN  <<[tbl |-> "warehouse"]>>
        \o [b \in 1 .. (NumItems \div txn_max_batch_size) + 1 |-> [tbl |-> "item", ids |-> ItemBatch(b - 1)]]
        \o each(ws, stock) \o <<[tbl |-> "district"]>> \o each(wds, customer) \o each(wds, order)

\* f with the keys of g inserted or overwritten.
Put(f, g) == g @@ f

LoadWarehouses == db' = [db EXCEPT !.w_ytd = [w \in Warehouses |-> 10 * NumDistrictsPerWarehouse]]

LoadItems(ids) == db' = [db EXCEPT !.item = @ \cup ids]

LoadStock(w, ids) ==
    \E q \in [ids -> StockLevels] :
        db' = [db EXCEPT !.stock = Put(@, [k \in {w} \X ids |-> q[k[2]]])]

LoadDistricts ==
    db' = [db EXCEPT !.d_ytd = [k \in Warehouses \X Districts |-> 10],
                     !.d_next_o_id = [k \in Warehouses \X Districts |-> NumCustomersPerDistrict + 1]]

\* customer_name_idx orders equal last names by random first names.
LoadCustomers(w, d, ids) ==
    \E last \in [ids -> 0 .. NumLastNames - 1] :
    \E order \in SetToSeqs(ids) :
        LET names == 0 .. NumLastNames - 1
            of(n) == SelectSeq(order, LAMBDA c : last[c] = n)
        IN  /\ \A c \in ids : c <= NumLastNames => last[c] = c - 1
            /\ db' = [db EXCEPT
                   !.customer = Put(@, [k \in {w} \X {d} \X ids |-> [c_balance |-> -10, c_ytd_payment |-> 10]]),
                   !.name_idx = Put(@, [k \in {w} \X {d} \X names |->
                                   (IF k \in DOMAIN @ THEN @[k] ELSE <<>>) \o of(k[3])])]

(* Mutant: c_ids may hold a customer twice. *)
LoadOrderTwice(w, d, o) ==
    \E c \in Customers : \E n \in LoadedLines :
        db' = [db EXCEPT
            !.oorder = Put(@, <<w, d, o>> :> [o_c_id |-> c, carried |-> o < FirstNewOrder, o_ol_cnt |-> n]),
            !.c_id_idx = @ \cup {<<w, d, c, o>>},
            !.new_order = IF o >= FirstNewOrder THEN @ \cup {<<w, d, o>>} ELSE @,
            !.order_line = Put(@, [k \in {w} \X {d} \X {o} \X (1 .. n) |->
                                     [i |-> 1, amount |-> IF o < FirstNewOrder THEN 0 ELSE 1]])]

\* Order o of a district; every customer gets one.
LoadOrder(w, d, o) ==
    \E c \in Customers \ {db.oorder[k].o_c_id : k \in {j \in DOMAIN db.oorder : j[1] = w /\ j[2] = d}} :
    \E n \in LoadedLines :
        db' = [db EXCEPT
            !.oorder = Put(@, <<w, d, o>> :> [o_c_id |-> c, carried |-> o < FirstNewOrder, o_ol_cnt |-> n]),
            !.c_id_idx = @ \cup {<<w, d, c, o>>},
            !.new_order = IF o >= FirstNewOrder THEN @ \cup {<<w, d, o>>} ELSE @,
            !.order_line = Put(@, [k \in {w} \X {d} \X {o} \X (1 .. n) |->
                                     [i |-> 1, amount |-> IF o < FirstNewOrder THEN 0 ELSE 1]])]

Load ==
    LET b == Head(load)
    IN  /\ load # <<>>
        /\ CASE b.tbl = "warehouse" -> LoadWarehouses
             [] b.tbl = "item" -> LoadItems(b.ids)
             [] b.tbl = "stock" -> LoadStock(b.w, b.ids)
             [] b.tbl = "district" -> LoadDistricts
             [] b.tbl = "customer" -> LoadCustomers(b.w, b.d, b.ids)
             [] b.tbl = "order" -> LoadOrder(b.w, b.d, b.o)
        /\ load' = Tail(load)
        /\ UNCHANGED <<conf, barrier_a, running, th, last_no_o_ids, district_ids, locks, failed>>

Loaded == load = <<>>

-----------------------------------------------------------------------------
(***************************************************************************)
(* The transactions.  An input x is what the transaction draws from the     *)
(* worker's random generator; a retry draws the same.  A program is a       *)
(* sequence of steps, each a get, a put, an insert, a remove or a scan.     *)
(***************************************************************************)
by_name_or_id == ({"id"} \X Customers) \cup ({"name"} \X (0 .. NumLastNames - 1))

NewOrders(w) ==
    UNION {[t : {"new_order"}, w : {w}, d : Districts, c : Customers,
            lines : [1 .. n -> [i : 1 .. NumItems, s : Warehouses, q : Quantities]]] : n \in NumLines}

PaymentsOf(w) ==
    {x \in [t : {"payment"}, w : {w}, d : Districts, cw : Warehouses, cd : Districts,
            by : by_name_or_id, a : Payments] : x.cw = w => x.cd = x.d}

Inputs(t) ==
    UNION {NewOrders(w) \cup PaymentsOf(w) \cup
           [t : {"delivery"}, w : {w}] \cup
           [t : {"order_status"}, w : {w}, d : Districts, by : by_name_or_id, limit : ScanLimits] \cup
           [t : {"stock_level"}, w : {w}, d : Districts] : w \in PickWarehouseId(t)}

read_only(x) == x.t \in {"order_status", "stock_level"}

(* Mutant: multilock does not sort. *)
LocksOfUnsorted(x) ==
    LET ws == CASE x.t = "new_order" -> {x.lines[j].s : j \in DOMAIN x.lines}
                [] x.t = "payment" -> {x.cw}
                [] OTHER -> {}
    IN  IF read_only(x) THEN <<>>
        ELSE <<PartitionId(x.w)>> \o SetToSeq({PartitionId(w) : w \in ws} \ {PartitionId(x.w)})

\* The partition locks a transaction takes, in the order of their addresses.
LocksOf(x) ==
    LET ws == CASE x.t = "new_order" -> {x.w} \cup {x.lines[j].s : j \in DOMAIN x.lines}
                [] x.t = "payment" -> {x.w, x.cw}
                [] x.t = "delivery" -> {x.w}
                [] OTHER -> {}
    IN  SetToSortSeq({PartitionId(w) : w \in ws}, LAMBDA p, q : p < q)

Program(x) ==
    LET ops(s, j) == [k \in DOMAIN s |-> [op |-> s[k], j |-> j]]
        each(s, n) == FlattenSeq([j \in 1 .. n |-> ops(s, j)])
    IN  CASE x.t = "new_order" ->
                ops(<<"district", "new_order", "d_put", "oorder", "idx">>, 0)
                \o each(<<"stock", "s_put", "line">>, Len(x.lines))
          [] x.t = "payment" -> ops(<<"w_get", "w_put", "d_get", "d_put", "c_get", "c_put">>, 0)
          [] x.t = "delivery" ->
                each(<<"scan", "oo_get", "ol", "no_remove", "oo_put", "c_get", "c_put">>,
                     NumDistrictsPerWarehouse)
          [] x.t = "order_status" -> ops(<<"customer", "idx", "lines">>, 0)
          [] x.t = "stock_level" -> ops(<<"district", "lines", "join">>, 0)

(***************************************************************************)
(* A step of x reads rd and writes wr; l holds the local variables: the     *)
(* order id o, the customer c, the value v last read, the items, the        *)
(* delivery hint, and whether all ALWAYS_ASSERTs held.                      *)
(***************************************************************************)
Did(l, wr) == [l |-> l, wr |-> wr]

always_assert(l, what, p) == [l EXCEPT !.failed = IF p THEN @ ELSE @ \cup {what}]

\* s_quantity - ol_quantity >= 10 compares unsigned numbers.
StockAfter(quantity, q) ==
    LET rest == quantity - q
    IN  IF rest >= 10 \/ rest < 0 THEN rest ELSE rest + 91

NewOrderStep(x, s, l, rd, wr) ==
    LET k == <<x.w, x.d>>
        o == <<x.w, x.d, l.o>>
        line == x.lines[s.j]
        ks == <<line.s, line.i>>
    IN  CASE s.op = "district" ->
                Did([always_assert(l, "customer", <<x.w, x.d, x.c>> \in DOMAIN rd.customer)
                       EXCEPT !.v = rd.d_next_o_id[k]], wr)
          [] s.op = "new_order" ->
                LET id == IF conf.fast THEN district_ids[k] ELSE l.v
                IN  Did([l EXCEPT !.o = id], [wr EXCEPT !.new_order = @ \cup {<<x.w, x.d, id>>}])
          [] s.op = "d_put" ->
                Did(l, IF conf.fast THEN wr ELSE [wr EXCEPT !.d_next_o_id[k] = l.v + 1])
          [] s.op = "oorder" ->
                Did(l, [wr EXCEPT !.oorder =
                          Put(@, o :> [o_c_id |-> x.c, carried |-> FALSE, o_ol_cnt |-> Len(x.lines)])])
          [] s.op = "idx" -> Did(l, [wr EXCEPT !.c_id_idx = @ \cup {<<x.w, x.d, x.c, l.o>>}])
          [] s.op = "stock" ->
                Did([always_assert(l, "stock", line.i \in rd.item /\ ks \in DOMAIN rd.stock) EXCEPT !.v = rd.stock[ks]], wr)
          [] s.op = "s_put" -> Did(l, [wr EXCEPT !.stock[ks] = StockAfter(l.v, line.q)])
          [] s.op = "line" ->
                Did(l, [wr EXCEPT !.order_line = Put(@, (o \o <<s.j>>) :> [i |-> line.i, amount |-> line.q])])

\* The customer by id, or the middle one of those with the last name.
CustomerOf(by, w, d, rd) ==
    LET ids == rd.name_idx[<<w, d, by[2]>>]
    IN  IF by[1] = "id" THEN by[2] ELSE ids[(Len(ids) + 1) \div 2]

CustomerFound(by, w, d, rd) == by[1] = "name" => Len(rd.name_idx[<<w, d, by[2]>>]) > 0

(* Mutant: a payment is taken off the balance and not added up. *)
PaidOnce(v, a) == [v EXCEPT !.c_balance = @ - a]

\* A customer after a payment.
Paid(v, a) == [c_balance |-> v.c_balance - a, c_ytd_payment |-> v.c_ytd_payment + a]

PaymentStep(x, s, l, rd, wr) ==
    LET k == <<x.w, x.d>>
        kc == <<x.cw, x.cd, l.c>>
    IN  CASE s.op = "w_get" -> Did([l EXCEPT !.v = rd.w_ytd[x.w]], wr)
          [] s.op = "w_put" -> Did(l, [wr EXCEPT !.w_ytd[x.w] = l.v + x.a])
          [] s.op = "d_get" -> Did([l EXCEPT !.v = rd.d_ytd[k]], wr)
          [] s.op = "d_put" -> Did(l, [wr EXCEPT !.d_ytd[k] = l.v + x.a])
          [] s.op = "c_get" ->
                LET c == CustomerOf(x.by, x.cw, x.cd, rd)
                IN  Did([always_assert(l, "customer", CustomerFound(x.by, x.cw, x.cd, rd))
                           EXCEPT !.c = c, !.vc = rd.customer[<<x.cw, x.cd, c>>]], wr)
          [] s.op = "c_put" -> Did(l, [wr EXCEPT !.customer[kc] = Paid(l.vc, x.a)])

\* The lines of an order.
LinesOf(o, rd) == {k \in DOMAIN rd.order_line : SubSeq(k, 1, 3) = o}

AmountOf(o, rd) == MapThenSumSet(LAMBDA k : rd.order_line[k].amount, LinesOf(o, rd))

\* District s.j; without an undelivered order from the hint on it is passed over.
DeliveryStep(x, s, l, rd, wr) ==
    LET found == {k \in rd.new_order : k[1] = x.w /\ k[2] = s.j /\ k[3] >= l.hint[s.j]}
        o  == <<x.w, s.j, l.o>>
        kc == <<x.w, s.j, l.c>>
    IN  IF s.op = "scan"
        THEN LET id == IF found = {} THEN 0 ELSE Min({k[3] : k \in found})
             IN  Did([l EXCEPT !.o = id, !.hint[s.j] = IF id = 0 THEN @ ELSE id + 1], wr)
        ELSE IF l.o = 0 THEN Did(l, wr)
        ELSE CASE s.op = "oo_get" -> Did([always_assert(l, "oorder", o \in DOMAIN rd.oorder) EXCEPT !.c = rd.oorder[o].o_c_id], wr)
               [] s.op = "ol" -> Did([l EXCEPT !.sum = AmountOf(o, rd)], wr)
               [] s.op = "no_remove" -> Did(l, [wr EXCEPT !.new_order = @ \ {o}])
               [] s.op = "oo_put" -> Did(l, [wr EXCEPT !.oorder[o].carried = TRUE])
               [] s.op = "c_get" -> Did([l EXCEPT !.vc = rd.customer[kc]], wr)
               [] s.op = "c_put" -> Did(l, [wr EXCEPT !.customer[kc].c_balance = l.vc.c_balance + l.sum])

\* The index scan stops after limit orders and keeps the last one it saw.
OrderStatusStep(x, s, l, rd, wr) ==
    LET os == SetToSortSeq({k[4] : k \in {j \in rd.c_id_idx : SubSeq(j, 1, 3) = <<x.w, x.d, l.c>>}},
                           LAMBDA a, b : a < b)
        n  == Cardinality(LinesOf(<<x.w, x.d, l.o>>, rd))
    IN  CASE s.op = "customer" ->
                Did([always_assert(l, "customer", CustomerFound(x.by, x.w, x.d, rd)) EXCEPT !.c = CustomerOf(x.by, x.w, x.d, rd)], wr)
          [] s.op = "idx" ->
                Did([always_assert(l, "c_oorder", os # <<>>) EXCEPT !.o = IF os = <<>> THEN 0 ELSE os[Min({x.limit, Len(os)})]], wr)
          [] s.op = "lines" -> Did(always_assert(l, "c_order_line", n \in NumLines), wr)

\* The items of the last twenty orders, each looked up in stock.
StockLevelStep(x, s, l, rd, wr) ==
    LET k == <<x.w, x.d>>
        recent == {j \in DOMAIN rd.order_line : j[1] = x.w /\ j[2] = x.d /\ j[3] \in l.o - 20 .. l.o - 1}
    IN  CASE s.op = "district" ->
                Did([l EXCEPT !.o = IF conf.fast THEN district_ids[k] ELSE rd.d_next_o_id[k]], wr)
          [] s.op = "lines" -> Did([l EXCEPT !.items = {rd.order_line[j].i : j \in recent}], wr)
          [] s.op = "join" -> Did(always_assert(l, "stock", \A i \in l.items : <<x.w, i>> \in DOMAIN rd.stock), wr)

Step(x, s, l, rd, wr) ==
    CASE x.t = "new_order" -> NewOrderStep(x, s, l, rd, wr)
      [] x.t = "payment" -> PaymentStep(x, s, l, rd, wr)
      [] x.t = "delivery" -> DeliveryStep(x, s, l, rd, wr)
      [] x.t = "order_status" -> OrderStatusStep(x, s, l, rd, wr)
      [] x.t = "stock_level" -> StockLevelStep(x, s, l, rd, wr)

\* All steps of p, reading the database as it was before: no write is read back.
RunAll(x, p, l) == FoldLeft(LAMBDA a, s : Step(x, s, a.l, db, a.wr), Did(l, db), p)

\* checker: the checks the transactions and loaders make on every row they meet.
SanityChecks(rows) ==
    /\ DOMAIN rows.customer \subseteq Warehouses \X Districts \X Customers
    /\ DOMAIN rows.w_ytd \subseteq Warehouses
    /\ \A k \in DOMAIN rows.d_next_o_id : rows.d_next_o_id[k] >= NumCustomersPerDistrict + 1
    /\ rows.item \subseteq 1 .. NumItems
    /\ DOMAIN rows.stock \subseteq Warehouses \X (1 .. NumItems)
    /\ \A k \in rows.new_order \cup DOMAIN rows.oorder : <<k[1], k[2]>> \in Warehouses \X Districts
    /\ \A k \in DOMAIN rows.oorder : rows.oorder[k].o_c_id \in Customers /\ rows.oorder[k].o_ol_cnt \in NumLines
    /\ \A k \in DOMAIN rows.order_line : k[4] \in 1 .. Max(NumLines) /\ rows.order_line[k].i \in 1 .. NumItems

-----------------------------------------------------------------------------
(***************************************************************************)
(* The runner and its workers.                                              *)
(***************************************************************************)
none == [t |-> "none"]

Locals(t) == [o |-> 0, c |-> 0, v |-> 0, sum |-> 0, items |-> {}, failed |-> {},
              vc |-> [c_balance |-> 0, c_ytd_payment |-> 0], hint |-> last_no_o_ids[t]]

Init ==
    /\ conf \in Configs
    /\ db = [w_ytd |-> <<>>, d_ytd |-> <<>>, d_next_o_id |-> <<>>, item |-> {}, stock |-> <<>>,
             customer |-> <<>>, name_idx |-> <<>>, oorder |-> <<>>, c_id_idx |-> {},
             new_order |-> {}, order_line |-> <<>>]
    /\ load = LoadPlan
    /\ barrier_a = nthreads
    /\ running = "no"
    /\ th = [t \in Workers |-> [pc |-> "start", ntxn_commits |-> 0, x |-> none, l |-> <<>>,
                                todo |-> <<>>, need |-> <<>>]]
    /\ last_no_o_ids = [t \in Workers |-> [d \in Districts |-> 0]]
    /\ district_ids = [k \in Warehouses \X Districts |-> NumCustomersPerDistrict + 1]
    /\ locks = [p \in 0 .. nthreads - 1 |-> -1]
    /\ failed = {}

\* Worker t is started after loading and reports to barrier_a.
Start(t) ==
    /\ Loaded
    /\ th[t].pc = "start"
    /\ th' = [th EXCEPT ![t].pc = "idle"]
    /\ barrier_a' = barrier_a - 1
    /\ UNCHANGED <<conf, db, load, running, last_no_o_ids, district_ids, locks, failed>>

\* barrier_a.wait_for(), barrier_b.count_down()
Go ==
    /\ barrier_a = 0
    /\ running = "no"
    /\ running' = "yes"
    /\ UNCHANGED <<conf, db, load, barrier_a, th, last_no_o_ids, district_ids, locks, failed>>

\* RUNMODE_TIME: the time is up.
Stop ==
    /\ conf.timed
    /\ running = "yes"
    /\ running' = "stop"
    /\ UNCHANGED <<conf, db, load, barrier_a, th, last_no_o_ids, district_ids, locks, failed>>

\* The head of the worker's loop: it ends or picks the next transaction.
Pick(t) ==
    /\ th[t].pc = "idle"
    /\ running # "no"
    /\ IF running = "stop" \/ th[t].ntxn_commits = conf.ops_per_worker
       THEN th' = [th EXCEPT ![t].pc = "done"]
       ELSE \E x \in Inputs(t) :
              th' = [th EXCEPT ![t].pc = IF conf.kvdb THEN "lock" ELSE "run", ![t].x = x,
                               ![t].l = Locals(t), ![t].todo = Program(x),
                               ![t].need = IF conf.kvdb THEN LocksOf(x) ELSE <<>>]
    /\ UNCHANGED <<conf, db, load, barrier_a, running, last_no_o_ids, district_ids, locks, failed>>

(* Mutant: the id is read and not counted on. *)
TakeIdLoad(x, s) == district_ids

\* FastNewOrderIdGen, when the steps s of x include it.
TakeId(x, s) ==
    IF conf.fast /\ x.t = "new_order" /\ \E k \in DOMAIN s : s[k].op = "new_order"
    THEN [district_ids EXCEPT ![<<x.w, x.d>>] = @ + 1] ELSE district_ids

Idle(t, n) == [th[t] EXCEPT !.pc = "idle", !.x = none, !.l = <<>>, !.todo = <<>>, !.need = <<>>,
                            !.ntxn_commits = @ + n]

\* ndb: the transaction commits.  A read-only one reads a snapshot, which is
\* db as it was at some earlier time; as it writes nothing, now is as good.
Commit(t) ==
    LET x == th[t].x
        r == RunAll(x, th[t].todo, th[t].l)
    IN  /\ th[t].pc = "run" /\ ~conf.kvdb
        /\ db' = r.wr
        /\ district_ids' = TakeId(x, th[t].todo)
        /\ last_no_o_ids' = [last_no_o_ids EXCEPT ![t] = r.l.hint]
        /\ failed' = failed \cup r.l.failed
        /\ th' = [th EXCEPT ![t] = Idle(t, 1)]
        /\ UNCHANGED <<conf, load, barrier_a, running, locks>>

\* ndb: the transaction aborts after n steps.  The order id it took and the
\* hint it moved stay; it runs again from the same seed, or is given up.
Abort(t) ==
    /\ th[t].pc = "run" /\ ~conf.kvdb
    /\ ~read_only(th[t].x)
    /\ \E n \in 0 .. Len(th[t].todo) :
         LET x == th[t].x
             s == SubSeq(th[t].todo, 1, n)
             hint == RunAll(x, s, th[t].l).l.hint
         IN  /\ district_ids' = TakeId(x, s)
             /\ x.t = "new_order" => district_ids'[<<x.w, x.d>>] <= MaxOrderId
             /\ last_no_o_ids' = [last_no_o_ids EXCEPT ![t] = hint]
             /\ th' = [th EXCEPT ![t] = IF conf.retry /\ running = "yes"
                                        THEN [@ EXCEPT !.l.hint = hint] ELSE Idle(t, 0)]
    /\ UNCHANGED <<conf, db, load, barrier_a, running, locks, failed>>

\* kvdb: the next partition lock, or none is left to take.
Lock(t) ==
    /\ th[t].pc = "lock"
    /\ IF th[t].need = <<>>
       THEN /\ th' = [th EXCEPT ![t].pc = "run"]
            /\ UNCHANGED locks
       ELSE /\ locks[Head(th[t].need)] = -1
            /\ locks' = [locks EXCEPT ![Head(th[t].need)] = t]
            /\ th' = [th EXCEPT ![t].need = Tail(@)]
    /\ UNCHANGED <<conf, db, load, barrier_a, running, last_no_o_ids, district_ids, failed>>

\* kvdb: one operation, in place; the last one commits and unlocks.
Operation(t) ==
    LET x == th[t].x
        s == Head(th[t].todo)
        r == Step(x, s, th[t].l, db, db)
    IN  /\ th[t].pc = "run" /\ conf.kvdb
        /\ db' = r.wr
        /\ district_ids' = TakeId(x, <<s>>)
        /\ last_no_o_ids' = [last_no_o_ids EXCEPT ![t] = r.l.hint]
        /\ failed' = failed \cup r.l.failed
        /\ IF Len(th[t].todo) > 1
           THEN /\ th' = [th EXCEPT ![t].l = r.l, ![t].todo = Tail(@)]
                /\ UNCHANGED locks
           ELSE /\ th' = [th EXCEPT ![t] = Idle(t, 1)]
                /\ locks' = [p \in DOMAIN locks |-> IF locks[p] = t THEN -1 ELSE locks[p]]
        /\ UNCHANGED <<conf, load, barrier_a, running>>

Work(t) == Start(t) \/ Pick(t) \/ Commit(t) \/ Abort(t) \/ Lock(t) \/ Operation(t)

Next == Load \/ Go \/ Stop \/ \E t \in Workers : Work(t)

Spec == Init /\ [][Next]_vars

-----------------------------------------------------------------------------
(***************************************************************************)
(* Properties.                                                              *)
(***************************************************************************)
\* No transaction is inside the partition of warehouse w.
Quiet(w) == Loaded /\ locks[PartitionId(w)] = -1

\* Between transactions the money adds up, on both back ends and whatever the
\* interleaving of local and remote payments: w_ytd of a warehouse (txn_payment)
\* is the sum of its districts' d_ytd, and a customer's c_balance plus
\* c_ytd_payment is what the delivered orders (txn_delivery) came to.
MoneyAgrees ==
    \A w \in Warehouses : Quiet(w) =>
        /\ db.w_ytd[w] = MapThenSumSet(LAMBDA d : db.d_ytd[<<w, d>>], Districts)
        /\ \A d \in Districts, c \in Customers :
             LET mine == {k \in DOMAIN db.oorder : k[1] = w /\ k[2] = d /\ db.oorder[k].o_c_id = c
                                                   /\ db.oorder[k].carried}
                 v == db.customer[<<w, d, c>>]
             IN  v.c_balance + v.c_ytd_payment = MapThenSumSet(LAMBDA k : AmountOf(k, db), mine)

\* Between transactions every order is whole: it has exactly its o_ol_cnt lines
\* and its index entry, it waits in new_order until it is delivered and not
\* longer, and the next order id (d_next_o_id or g_district_ids) is above all
\* ids in use, although aborted transactions use up ids and move the hints.
OrdersWhole ==
    \A w \in Warehouses : Quiet(w) =>
        /\ \A k \in DOMAIN db.oorder : k[1] = w =>
             /\ LinesOf(k, db) = {k \o <<n>> : n \in 1 .. db.oorder[k].o_ol_cnt}
             /\ <<w, k[2], db.oorder[k].o_c_id, k[3]>> \in db.c_id_idx
             /\ (k \in db.new_order) = ~db.oorder[k].carried
             /\ k[3] < IF conf.fast THEN district_ids[<<w, k[2]>>] ELSE db.d_next_o_id[<<w, k[2]>>]
        /\ \A k \in db.new_order : k[1] = w => k \in DOMAIN db.oorder

\* No assertion of the transactions fails: the rows that were loaded are found, every
\* customer has an order, an order that is delivered is there, an order has 5 to 15 lines,
\* and every row passes the sanity checks.  The number of lines is left out where
\* order_status meets the new orders of another worker without a lock or a snapshot: on
\* kvdb, when workers share a warehouse.
AssertsHold ==
    /\ failed \subseteq IF conf.kvdb /\ nthreads > NumWarehouses THEN {"c_order_line"} ELSE {}
    /\ SanityChecks(db)

\* What txn_order_status asserts of the order it finds: it has its 5 to 15 lines.
OrderStatusFindsLines == "c_order_line" \notin failed

\* Workers never wait for each other's partition locks in a circle: of any
\* workers some one does not wait for a lock that one of them holds, since
\* scoped_multilock takes the locks of a cross-partition transaction in one order.
NoDeadlyEmbrace ==
    LET waits(t, u) == th[t].pc = "lock" /\ th[t].need # <<>> /\ locks[Head(th[t].need)] = u
    IN  \A S \in (SUBSET Workers) \ {{}} : \E t \in S : \A u \in S : ~waits(t, u)
=============================================================================
