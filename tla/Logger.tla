------------------------------- MODULE Logger -------------------------------
(***************************************************************************)
(* Group commit, txn_logger: each core fills log buffers and pushes them to *)
(* the logger thread it is assigned to, loggers write them out and hand     *)
(* them back, and the persister derives the epoch up to which the whole     *)
(* system is on disk.  The clock is the one of EpochClock.                  *)
(*                                                                          *)
(* The port keeps the body of writer and the start of both threads in       *)
(* comments; conf.threads says whether they run.  conf.txns bounds the      *)
(* commits of a core and conf.ticks the clock; conf.waits says whether a    *)
(* thread waits for the disk.                                               *)
(* A transaction is its number on its core; a buffer is [epoch, txns,       *)
(* io_scheduled_]: the epoch of last_tid_, the transactions in it, and      *)
(* whether I/O is under way.                                                *)
(***************************************************************************)
EXTENDS EpochClock, Integers, Sequences, SequencesExt, FiniteSetsExt

CONSTANTS g_perthread_buffers,  \* buffers of a core
          BufSize,              \* transactions a log buffer holds
          HorizonSize,          \* transactions the horizon holds, at most BufSize
          IovMax,               \* buffers of one writev
          g_max_lag_epochs,
          Configs               \* [g_nworkers, nfds, compress, threads, txns, waits, ticks]

VARIABLES conf,
          all_buffers_,         \* the core's own buffers; it fills the head
          persist_buffers_,     \* buffers pushed to the logger
          horizon_,             \* the buffer that is compressed into the head
          txn,                  \* the epoch of the commit being logged, or 0
          ending,               \* the core is in thread_end
          epochs_,              \* per_thread_sync_epochs_ of the core's logger
          system_sync_epoch_,
          wr,                   \* the state of each logger's loop
          ps,                   \* the state of the persister's loop
          waiter,               \* wait_until_current_point_persisted: [e, done]
          commits,              \* the epochs of a core's commits, in order
          log                   \* the transactions of a core on disk, in order

bufvars == <<all_buffers_, persist_buffers_, horizon_>>
lgvars == <<clockVars, conf, bufvars, txn, ending, epochs_, system_sync_epoch_,
            wr, ps, waiter, commits, log>>

Buffer(e, txns) == [epoch |-> e, txns |-> txns, io_scheduled_ |-> FALSE]

empty == Buffer(0, <<>>)       \* pbuffer::reset

\* The logger threads and the workers they serve when Init is given none.
assignments(c) ==
    LET per == c.g_nworkers \div c.nfds
    IN  IF c.g_nworkers <= c.nfds THEN [i \in 1 .. c.g_nworkers |-> {i - 1}]
        ELSE [i \in 1 .. c.nfds |->
                (i - 1) * per .. (IF i = c.nfds THEN c.g_nworkers ELSE i * per) - 1]

\* A logger assigned worker j serves the cores j, j + g_nworkers, ...
CoresOf(c, i) == SetToSortSeq({k \in Cores : k % c.g_nworkers \in assignments(c)[i]}, <)

Loggers == DOMAIN assignments(conf)

Init ==
    /\ ClockInit
    /\ conf \in Configs
    /\ all_buffers_ = [k \in Cores |-> [b \in 1 .. g_perthread_buffers |-> empty]]
    /\ persist_buffers_ = [k \in Cores |-> <<>>]
    /\ horizon_ = [k \in Cores |-> empty]
    /\ txn = [k \in Cores |-> 0]
    /\ ending = [k \in Cores |-> FALSE]
    /\ epochs_ = [k \in Cores |-> 0]
    /\ system_sync_epoch_ = 0
    /\ wr = [i \in DOMAIN assignments(conf) |->
               [pc |-> "idle", todo |-> <<>>, n |-> 0, ex |-> 0, x0 |-> 0, sense |-> 0,
                prefix |-> [s \in 0 .. 1 |-> [k \in Cores |-> 0]]]]
    /\ ps = [pc |-> "idle", todo |-> <<>>, best |-> 0, min |-> 0]
    /\ waiter = [e |-> 0, done |-> FALSE]
    /\ commits = [k \in Cores |-> <<>>]
    /\ log = [k \in Cores |-> <<>>]

-----------------------------------------------------------------------------
(* A core. *)

Tick == ((current_tick < conf.ticks /\ Bump) \/ Publish) /\ UNCHANGED <<conf, bufvars, txn, ending, epochs_,
                                system_sync_epoch_, wr, ps, waiter, commits, log>>

\* A guarded section opens under the core's lock, which the persister may hold.
Enter(k) ==
    /\ conf.txns[k] > 0 /\ ~ending[k]
    /\ ~(ps.pc = "locked" /\ Head(ps.todo) = k)
    /\ Pin(k)
    /\ UNCHANGED <<conf, bufvars, txn, ending, epochs_, system_sync_epoch_, wr, ps,
                   waiter, commits, log>>

Leave(k) ==
    /\ txn[k] = 0
    /\ Unpin(k)
    /\ UNCHANGED <<conf, bufvars, txn, ending, epochs_, system_sync_epoch_, wr, ps,
                   waiter, commits, log>>

\* gen_commit_tid: the commit's epoch is the tick it reads.
GenCommitTid(k) ==
    /\ pinned[k] # 0 /\ txn[k] = 0 /\ Len(commits[k]) < conf.txns[k]
    /\ txn' = [txn EXCEPT ![k] = current_tick]
    /\ commits' = [commits EXCEPT ![k] = Append(@, current_tick)]
    /\ UNCHANGED <<clockVars, conf, bufvars, ending, epochs_, system_sync_epoch_, wr, ps,
                   waiter, log>>

\* can_hold_tid and the space check: room for n transactions of epoch e.
CanHold(b, e, n, size) == b.txns = <<>> \/ (b.epoch = e /\ Len(b.txns) + n <= size)

Push(k) ==
    /\ all_buffers_' = [all_buffers_ EXCEPT ![k] = Tail(@)]
    /\ persist_buffers_' = [persist_buffers_ EXCEPT ![k] = Append(@, Head(all_buffers_[k]))]

\* Transactions of epoch e go to the head buffer, once there is one (wait_for_head)
\* that has room: a head without room is pushed, and the core looks again.
WroteToHead(k, e, ids) ==
    LET px == Head(all_buffers_[k])
    IN  /\ CanHold(px, e, Len(ids), BufSize)
        /\ all_buffers_' = [all_buffers_ EXCEPT ![k][1] = Buffer(e, px.txns \o ids)]
        /\ UNCHANGED persist_buffers_

NoRoomInHead(k, e, ids) == ~CanHold(Head(all_buffers_[k]), e, Len(ids), BufSize) /\ Push(k)

\* push_horizon_to_buffer
PushHorizon(k) ==
    LET h == horizon_[k]
    IN  /\ all_buffers_[k] # <<>>
        /\ \/ WroteToHead(k, h.epoch, h.txns) /\ horizon_' = [horizon_ EXCEPT ![k] = empty]
           \/ NoRoomInHead(k, h.epoch, h.txns) /\ UNCHANGED horizon_
        /\ UNCHANGED txn

\* on_tid_finish
OnTidFinish(k) ==
    LET id == Len(commits[k])
        h == horizon_[k]
    IN  /\ txn[k] # 0
        /\ \/ /\ ~conf.compress
              /\ all_buffers_[k] # <<>>
              /\ \/ WroteToHead(k, txn[k], <<id>>) /\ txn' = [txn EXCEPT ![k] = 0]
                 \/ NoRoomInHead(k, txn[k], <<id>>) /\ UNCHANGED txn
              /\ UNCHANGED horizon_
           \/ /\ conf.compress
              /\ \/ /\ CanHold(h, txn[k], 1, HorizonSize)
                    /\ horizon_' = [horizon_ EXCEPT ![k] = Buffer(txn[k], h.txns \o <<id>>)]
                    /\ txn' = [txn EXCEPT ![k] = 0]
                    /\ UNCHANGED <<all_buffers_, persist_buffers_>>
                 \/ ~CanHold(h, txn[k], 1, HorizonSize) /\ PushHorizon(k)
        /\ UNCHANGED <<clockVars, conf, ending, epochs_, system_sync_epoch_, wr, ps, waiter,
                       commits, log>>

\* txn_epoch_sync::thread_end, outside any guarded section.
ThreadEnd(k) ==
    /\ conf.txns[k] > 0 /\ pinned[k] = 0 /\ ~ending[k]
    /\ ending' = [ending EXCEPT ![k] = TRUE]
    /\ UNCHANGED <<clockVars, conf, bufvars, txn, epochs_, system_sync_epoch_, wr, ps,
                   waiter, commits, log>>

ThreadEndPush(k) ==
    /\ ending[k]
    /\ \/ horizon_[k].txns # <<>> /\ PushHorizon(k) /\ UNCHANGED ending
       \/ /\ horizon_[k].txns = <<>>
          /\ IF all_buffers_[k] # <<>> /\ Head(all_buffers_[k]).txns # <<>> THEN Push(k)
             ELSE UNCHANGED <<all_buffers_, persist_buffers_>>
          /\ ending' = [ending EXCEPT ![k] = FALSE]
          /\ UNCHANGED <<horizon_, txn>>
    /\ UNCHANGED <<clockVars, conf, epochs_, system_sync_epoch_, wr, ps, waiter, commits, log>>

-----------------------------------------------------------------------------
(* A logger thread: writer. *)

WriterStart(i) ==
    /\ conf.threads /\ wr[i].pc = "idle"
    /\ wr' = [wr EXCEPT ![i].pc = "scan", ![i].todo = CoresOf(conf, i), ![i].n = 0,
                        ![i].ex = system_sync_epoch_ + 1]
    /\ UNCHANGED <<clockVars, conf, bufvars, txn, ending, epochs_, system_sync_epoch_, ps,
                   waiter, commits, log>>

(* Mutant: the prefix claims the epoch of the last buffer itself. *)
PrefixOfWhole(px_epoch) == px_epoch

\* What a buffer of an epoch shows once it is written: its core is on disk
\* through the epoch before.
PrefixOf(px_epoch) == px_epoch - 1

\* peekall: the leading buffers of a core are scheduled, unless the writev is full
\* or the buffer is too far ahead of the system's epoch.
WriterScan(i) ==
    LET k   == Head(wr[i].todo)
        q   == persist_buffers_[k]
        lag == SelectInSeq(q, LAMBDA b : b.epoch >= wr[i].ex + g_max_lag_epochs)
        may == IF lag = 0 THEN Len(q) ELSE lag - 1
        m   == Min({may, IovMax - wr[i].n})
    IN  /\ wr[i].pc = "scan" /\ wr[i].todo # <<>>
        /\ persist_buffers_' = [persist_buffers_ EXCEPT ![k] =
              [b \in DOMAIN q |-> IF b <= m THEN [q[b] EXCEPT !.io_scheduled_ = TRUE] ELSE q[b]]]
        /\ wr' = [wr EXCEPT ![i].n = @ + m,
                            ![i].todo = IF m < may THEN <<>> ELSE Tail(@),
                            ![i].prefix[wr[i].sense][k] =
                                IF m = 0 THEN @ ELSE PrefixOf(q[m].epoch)]
        /\ UNCHANGED <<clockVars, conf, all_buffers_, horizon_, txn, ending, epochs_,
                       system_sync_epoch_, ps, waiter, commits, log>>

Scheduled(k) == SelectSeq(persist_buffers_[k], LAMBDA b : b.io_scheduled_)

\* writev and fdatasync, unless there was nothing to write.
WriterWrite(i) ==
    /\ wr[i].pc = "scan" /\ wr[i].todo = <<>>
    /\ IF wr[i].n = 0 THEN wr' = [wr EXCEPT ![i].pc = "idle"] /\ UNCHANGED log
       ELSE /\ wr' = [wr EXCEPT ![i].pc = "load", ![i].todo = CoresOf(conf, i)]
            /\ log' = [k \in Cores |-> IF Contains(CoresOf(conf, i), k)
                          THEN FoldLeft(LAMBDA l, b : l \o b.txns, log[k], Scheduled(k))
                          ELSE log[k]]
    /\ UNCHANGED <<clockVars, conf, bufvars, txn, ending, epochs_, system_sync_epoch_, ps,
                   waiter, commits>>

WriterLoad(i) ==
    /\ wr[i].pc = "load"
    /\ wr' = IF wr[i].todo = <<>>
             THEN [wr EXCEPT ![i].pc = "idle", ![i].sense = 1 - @]
             ELSE [wr EXCEPT ![i].pc = "store", ![i].x0 = epochs_[Head(wr[i].todo)]]
    /\ UNCHANGED <<clockVars, conf, bufvars, txn, ending, epochs_, system_sync_epoch_, ps,
                   waiter, commits, log>>

WriterStore(i) ==
    LET k  == Head(wr[i].todo)
        x1 == wr[i].prefix[wr[i].sense][k]
    IN  /\ wr[i].pc = "store"
        /\ epochs_' = [epochs_ EXCEPT ![k] = IF x1 > wr[i].x0 THEN x1 ELSE @]
        /\ wr' = [wr EXCEPT ![i].pc = "return"]
        /\ UNCHANGED <<clockVars, conf, bufvars, txn, ending, system_sync_epoch_, ps, waiter,
                       commits, log>>

\* The written buffers go back to their core, empty.
WriterReturn(i) ==
    LET k == Head(wr[i].todo)
        n == Len(Scheduled(k))
    IN  /\ wr[i].pc = "return"
        /\ all_buffers_' = [all_buffers_ EXCEPT ![k] = @ \o [b \in 1 .. n |-> empty]]
        /\ persist_buffers_' = [persist_buffers_ EXCEPT ![k] = SubSeq(@, n + 1, Len(@))]
        /\ wr' = [wr EXCEPT ![i].pc = "load", ![i].todo = Tail(@)]
        /\ UNCHANGED <<clockVars, conf, horizon_, txn, ending, epochs_, system_sync_epoch_, ps,
                       waiter, commits, log>>

-----------------------------------------------------------------------------
(* The persister: advance_system_sync_epoch, over and over. *)

PersisterStart ==
    /\ conf.threads /\ ps.pc = "idle"
    /\ ps' = [pc |-> "look", best |-> current_tick - 1, min |-> MaxTick,
              todo |-> FlattenSeq([i \in Loggers |-> CoresOf(conf, i)])]
    /\ UNCHANGED <<clockVars, conf, bufvars, txn, ending, epochs_, system_sync_epoch_, wr,
                   waiter, commits, log>>

\* Queue and lock of a core look free: its lock is taken, unless the core or the
\* ticker gets in between; else its epoch is read as it is.
PersisterLook ==
    LET k == Head(ps.todo)
    IN  /\ ps.pc = "look" /\ ps.todo # <<>>
        /\ \/ /\ persist_buffers_[k] = <<>> /\ pinned[k] = 0
              /\ ps' = [ps EXCEPT !.pc = "locked"]
           \/ ps' = [ps EXCEPT !.todo = Tail(@), !.min = Min({@, epochs_[k]})]
        /\ UNCHANGED <<clockVars, conf, bufvars, txn, ending, epochs_, system_sync_epoch_, wr,
                       waiter, commits, log>>

\* A core that does nothing does not hold back the system.
PersisterLocked ==
    LET k == Head(ps.todo)
        idle == persist_buffers_[k] = <<>>
    IN  /\ ps.pc = "locked"
        /\ epochs_' = [epochs_ EXCEPT ![k] = IF idle THEN ps.best ELSE @]
        /\ ps' = [ps EXCEPT !.pc = "look", !.todo = Tail(@), !.min = Min({@, epochs_'[k]})]
        /\ UNCHANGED <<clockVars, conf, bufvars, txn, ending, system_sync_epoch_, wr, waiter,
                       commits, log>>

PersisterEnd ==
    /\ ps.pc = "look" /\ ps.todo = <<>>
    /\ system_sync_epoch_' = ps.min
    /\ ps' = [ps EXCEPT !.pc = "idle"]
    /\ UNCHANGED <<clockVars, conf, bufvars, txn, ending, epochs_, wr, waiter, commits, log>>

\* wait_until_current_point_persisted, called once.
WaitStart ==
    /\ conf.waits /\ waiter.e = 0
    /\ waiter' = [waiter EXCEPT !.e = current_tick]
    /\ UNCHANGED <<clockVars, conf, bufvars, txn, ending, epochs_, system_sync_epoch_, wr, ps,
                   commits, log>>

WaitEnd ==
    /\ waiter.e # 0 /\ ~waiter.done /\ system_sync_epoch_ >= waiter.e
    /\ waiter' = [waiter EXCEPT !.done = TRUE]
    /\ UNCHANGED <<clockVars, conf, bufvars, txn, ending, epochs_, system_sync_epoch_, wr, ps,
                   commits, log>>

Next ==
    \/ Tick
    \/ \E k \in Cores :
          \/ Enter(k) \/ Leave(k) \/ GenCommitTid(k) \/ OnTidFinish(k)
          \/ ThreadEnd(k) \/ ThreadEndPush(k)
    \/ \E i \in Loggers :
          \/ WriterStart(i) \/ WriterScan(i) \/ WriterWrite(i)
          \/ WriterLoad(i) \/ WriterStore(i) \/ WriterReturn(i)
    \/ PersisterStart \/ PersisterLook \/ PersisterLocked \/ PersisterEnd
    \/ WaitStart \/ WaitEnd

Spec == Init /\ [][Next]_lgvars

-----------------------------------------------------------------------------
(* What the logger promises. *)

\* Through every round trip of the buffers between core and logger, the log of a
\* core is a prefix of its commits: nothing is lost, repeated or reordered, so what a
\* crash leaves on disk is a state the core was in.
LogIsPrefix == \A k \in Cores : log[k] = [n \in DOMAIN log[k] |-> n] /\ Len(log[k]) <= Len(commits[k])

OnDisk(k, e) == \A n \in DOMAIN commits[k] : commits[k][n] <= e => Contains(log[k], n)

\* When a logger is done writing, the core is on disk through the epoch the logger
\* is about to store for it: buffers of one epoch may still follow, none of an earlier.
WriterClaimsTrue ==
    \A i \in Loggers : wr[i].pc \in {"load", "store", "return"} =>
        \A k \in ToSet(CoresOf(conf, i)) : OnDisk(k, wr[i].prefix[wr[i].sense][k])

\* The comment at epoch_array: what per_thread_sync_epochs_ says is on disk is.
PersistedThrough == \A k \in Cores : OnDisk(k, epochs_[k])
=============================================================================
