------------------------------- MODULE CoreIds -------------------------------
(***************************************************************************)
(* Core ids (core.h, core.cc): the number that picks a thread's slot of     *)
(* every percore array and is a field of the tids it makes.  A thread takes *)
(* one from the counter g_core_count the first time it needs it, or is      *)
(* given one of a block that the benchmark driver allocated for its         *)
(* workers.  Ids are never given back.                                      *)
(***************************************************************************)
EXTENDS Integers

CONSTANTS Threads, NMaxCores,
          nthreads,           \* workers of one make_workers_impl
          num_cpus_online     \* the alignment of a block

ASSUME CoreIdsAssumption ==
  /\ NMaxCores \in Nat /\ nthreads \in Nat
  /\ num_cpus_online \in Nat \ {0}

VARIABLES g_core_count,
          tl_core_id,  \* thread-local; -1: none
          pc,          \* where a thread is in core_id or the allocation of a block
          current,     \* the counter as allocate_contiguous_aligned_block loaded it
          workers,     \* worker_id of the workers that were made and have not run
          users,       \* <<id, thread>>: the thread has used slot id of the percore arrays
          aborted      \* an ALWAYS_ASSERT failed

idvars == <<g_core_count, tl_core_id, pc, current, workers, users, aborted>>

\* Mutant: rounds down.
slow_round_down(x, q) == x - (x % q)

slow_round_up(x, q) == IF x % q = 0 THEN x ELSE x + (q - (x % q))

blockstart(t) == slow_round_up(current[t], num_cpus_online)

IdInit ==
  /\ g_core_count = 0 /\ workers = {} /\ users = {} /\ aborted = FALSE
  /\ tl_core_id = [t \in Threads |-> -1]
  /\ pc = [t \in Threads |-> "run"]
  /\ current = [t \in Threads |-> 0]

-----------------------------------------------------------------------------
(* core_id() of a thread without an id: fetch_add, then the assertion.     *)
core_id(t) ==
  /\ pc[t] = "run" /\ tl_core_id[t] = -1
  /\ tl_core_id' = [tl_core_id EXCEPT ![t] = g_core_count]
  /\ g_core_count' = g_core_count + 1
  /\ pc' = [pc EXCEPT ![t] = "check"]
  /\ UNCHANGED <<current, workers, users, aborted>>

core_id_check(t) ==
  /\ pc[t] = "check"
  /\ aborted' = ~(tl_core_id[t] < NMaxCores)
  /\ pc' = [pc EXCEPT ![t] = "run"]
  /\ UNCHANGED <<g_core_count, tl_core_id, current, workers, users>>

(* percore::my(), percore_lazy::my() of a thread with an id. *)
my(t) ==
  /\ pc[t] = "run" /\ tl_core_id[t] # -1
  /\ users' = users \cup {<<tl_core_id[t], t>>}
  /\ UNCHANGED <<g_core_count, tl_core_id, pc, current, workers, aborted>>

(* make_workers_impl: allocate_contiguous_aligned_block loads the counter, *)
(* and gives up (an assertion of the caller) when the block does not fit.  *)
load_count(t) ==
  /\ pc[t] \in {"run", "retry"}
  /\ current' = [current EXCEPT ![t] = g_core_count]
  /\ aborted' = (slow_round_up(g_core_count, num_cpus_online) + nthreads > NMaxCores)
  /\ pc' = [pc EXCEPT ![t] = "swap"]
  /\ UNCHANGED <<g_core_count, tl_core_id, workers, users>>

\* compare_exchange_strong; once it succeeds the workers are made, with the ids of the block.
swap_count(t) ==
  /\ pc[t] = "swap" /\ g_core_count = current[t]
  /\ g_core_count' = blockstart(t) + nthreads
  /\ aborted' = ((blockstart(t) % num_cpus_online) # 0)
  /\ workers' = workers \cup blockstart(t) .. blockstart(t) + nthreads - 1
  /\ pc' = [pc EXCEPT ![t] = "run"]
  /\ UNCHANGED <<tl_core_id, current, users>>

swap_fails(t) ==
  /\ pc[t] = "swap" /\ g_core_count # current[t]
  /\ pc' = [pc EXCEPT ![t] = "retry"]
  /\ UNCHANGED <<g_core_count, tl_core_id, current, workers, users, aborted>>

(* bench_worker::run of the worker cid on thread t: set_core_id.  The      *)
(* thread may have had another id: the assertion against that is a comment.*)
set_core_id(t, cid) ==
  /\ pc[t] = "run"
  /\ workers' = workers \ {cid}
  /\ aborted' = ~(cid < NMaxCores /\ cid < g_core_count)
  /\ tl_core_id' = [tl_core_id EXCEPT ![t] = cid]
  /\ UNCHANGED <<g_core_count, pc, current, users>>

IdNext ==
  /\ ~aborted
  /\ \E t \in Threads :
       \/ core_id(t) \/ core_id_check(t) \/ my(t)
       \/ load_count(t) \/ swap_count(t) \/ swap_fails(t)
       \/ \E cid \in workers : set_core_id(t, cid)

IdSpec == IdInit /\ [][IdNext]_idvars

-----------------------------------------------------------------------------
IdTypeOK ==
  /\ g_core_count \in Nat /\ aborted \in BOOLEAN
  /\ tl_core_id \in [Threads -> Nat \cup {-1}]
  /\ pc \in [Threads -> {"run", "check", "retry", "swap"}]
  /\ current \in [Threads -> Nat]
  /\ workers \subseteq Nat /\ users \subseteq Nat \X Threads

(* No slot of a percore array ever has two users, and every slot used is   *)
(* within the array: nobody shares the rcu queues, the last commit tid or  *)
(* the core field of the tids of another thread (core.h:16-64).            *)
SlotsArePrivate ==
  /\ \A p, q \in users : p[1] = q[1] => p[2] = q[2]
  /\ \A p \in users : p[1] < NMaxCores

\* What the id of a thread may be; it is in bounds once the assertion has passed.
ThreadIds(t) ==
  /\ tl_core_id[t] < g_core_count /\ tl_core_id[t] \notin workers
  /\ \A u \in Threads : tl_core_id[t] # -1 /\ tl_core_id[t] = tl_core_id[u] => t = u
  /\ ~aborted /\ pc[t] # "check" => tl_core_id[t] < NMaxCores
  /\ ~aborted /\ pc[t] = "swap" => blockstart(t) + nthreads <= NMaxCores

WorkerIds == \A i \in workers : i < g_core_count /\ i < NMaxCores

UserIds(p) ==
  /\ p[1] < g_core_count /\ p[1] \notin workers
  /\ \A t \in Threads : tl_core_id[t] = p[1] => t = p[2]

(* Every id is at one place: in the hands of one thread, kept for one      *)
(* worker, or left behind by the only thread that ever used it; and the    *)
(* counter is past them all.                                               *)
IdsHaveOnePlace ==
  /\ IdTypeOK
  /\ \A t \in Threads : ThreadIds(t)
  /\ WorkerIds
  /\ \A p \in users : UserIds(p)
  /\ SlotsArePrivate
=============================================================================
