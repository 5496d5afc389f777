------------------------------ MODULE PxQueue -------------------------------
(***************************************************************************)
(* pxqueue.h: the two basic_px_queues of a core, queue_ and scratch_, as   *)
(* rcu::sync and the version collector use them.  A queue is a linked list *)
(* of groups; the entries of a group share one tick and fill it in order.  *)
(* Empty groups wait on a free list.  A clean-up moves the groups that are *)
(* due from queue_ to scratch_, gives scratch_'s spare groups to queue_,   *)
(* runs over scratch_ and clears it, which puts its groups on scratch_'s   *)
(* free list.                                                              *)
(*                                                                         *)
(* The queues belong to one core, but entries may be enqueued while a      *)
(* clean-up runs over scratch_.  Ticks handed to enqueue never go down,    *)
(* which is what its comment assumes.                                      *)
(***************************************************************************)
EXTENDS Naturals, Sequences, FiniteSets, TLC

CONSTANTS NGroups,       \* bound on the px_groups in memory
          GroupSize,     \* N, 4096 in the code
          NQueueGroups,  \* groups each queue starts with
          nalloc,        \* groups added when the free list is empty
          MaxTick,       \* bound on the ticks
          MaxEntries     \* bound on the entries enqueued

\* What the constants have to satisfy.
Sizes ==
  /\ GroupSize \in Nat \ {0} /\ nalloc \in Nat \ {0} /\ NQueueGroups \in Nat
  /\ NGroups \in Nat /\ NGroups >= 2 * NQueueGroups
  /\ MaxTick \in Nat /\ MaxEntries \in Nat

Groups == 1 .. NGroups
null == 0
Ticks == 0 .. MaxTick

VARIABLES next_, pxs_, rcu_tick_,   \* the fields of the groups
          queue_, scratch_,         \* the two queue objects
          ngroups,                  \* how many groups have been allocated
          pc,                       \* idle, accepting group by group, or running
          clean_tick,               \* up to where the clean-up accepts
          enqueued                  \* how many entries have been enqueued

(* An entry is its number; with it the tick it was enqueued for, which the *)
(* code keeps only once for each group.                                    *)
Entries == 1 .. MaxEntries

groupVars == <<next_, pxs_, rcu_tick_>>
vars == <<groupVars, queue_, scratch_, ngroups, pc, clean_tick, enqueued>>

Empty == [head_ |-> null, tail_ |-> null,
          freelist_head_ |-> null, freelist_tail_ |-> null, ngroups_ |-> 0]

(* alloc_freelist: the new groups lo .. hi are pushed one by one. *)
alloc_freelist(q, lo, hi) ==
  IF lo > hi THEN q
  ELSE [q EXCEPT !.freelist_head_ = hi, !.freelist_tail_ = IF @ = null THEN lo ELSE @]

alloc_links(q, lo, hi) ==
  [g \in lo .. hi |-> IF g = lo THEN q.freelist_head_ ELSE g - 1]

Init ==
  /\ queue_ = alloc_freelist(Empty, 1, NQueueGroups)
  /\ scratch_ = alloc_freelist(Empty, NQueueGroups + 1, 2 * NQueueGroups)
  /\ next_ = alloc_links(Empty, 1, NQueueGroups)
              @@ alloc_links(Empty, NQueueGroups + 1, 2 * NQueueGroups)
              @@ [g \in Groups |-> null]
  /\ ngroups = 2 * NQueueGroups
  /\ pxs_ = [g \in Groups |-> <<>>]
  /\ rcu_tick_ = [g \in Groups |-> 0]
  /\ pc = "idle"
  /\ clean_tick = 0
  /\ enqueued = 0

-----------------------------------------------------------------------------
(* How many groups ensure_freelist allocates. *)
ensure_freelist == IF queue_.freelist_head_ # null THEN 0 ELSE nalloc

(* Mutant: a group takes entries of any tick until it is full. *)
needs_group_full(t) == queue_.tail_ = null \/ Len(pxs_[queue_.tail_]) = GroupSize

needs_group(t) ==
  \/ queue_.tail_ = null
  \/ Len(pxs_[queue_.tail_]) = GroupSize
  \/ rcu_tick_[queue_.tail_] # t

pop_freelist(q, nxt) ==
  [q EXCEPT !.freelist_head_ = nxt[@],
            !.freelist_tail_ = IF @ = q.freelist_head_ THEN null ELSE @]

(* assumption: rcu_ticks can only go up! *)
GoesUp(t) == queue_.tail_ # null => rcu_tick_[queue_.tail_] <= t

enqueue(t) ==
  LET e == [val |-> enqueued + 1, tick |-> t]
      hi == ngroups + ensure_freelist
      q == alloc_freelist(queue_, ngroups + 1, hi)
      n == alloc_links(queue_, ngroups + 1, hi) @@ next_
      g == q.freelist_head_
      p == pop_freelist(q, n)
  IN /\ pc \in {"idle", "run"} /\ enqueued < MaxEntries
     /\ GoesUp(t)
     /\ IF ~needs_group(t)
        THEN /\ pxs_' = [pxs_ EXCEPT ![queue_.tail_] = Append(@, e)]
             /\ UNCHANGED <<next_, rcu_tick_, queue_, ngroups>>
        ELSE /\ hi <= NGroups
             /\ pxs_' = [pxs_ EXCEPT ![g] = <<e>>]
             /\ rcu_tick_' = [rcu_tick_ EXCEPT ![g] = t]
             /\ next_' = IF p.head_ = null THEN [n EXCEPT ![g] = null]
                         ELSE [n EXCEPT ![g] = null, ![p.tail_] = g]
             /\ queue_' = [p EXCEPT !.tail_ = g, !.ngroups_ = @ + 1,
                                    !.head_ = IF @ = null THEN g ELSE @]
             /\ ngroups' = hi
     /\ enqueued' = enqueued + 1
     /\ UNCHANGED <<scratch_, pc, clean_tick>>

(* scratch_.empty_accept_from(queue_, t) begins. *)
AcceptBegin(t) ==
  /\ pc = "idle" /\ scratch_.head_ = null
  /\ pc' = "accept" /\ clean_tick' = t
  /\ UNCHANGED <<groupVars, queue_, scratch_, ngroups, enqueued>>

is_due(g) == rcu_tick_[g] <= clean_tick

source_tail(nhead) == IF nhead = null THEN null ELSE queue_.tail_

(* One group goes over. *)
empty_accept_from ==
  LET p == queue_.head_
  IN /\ pc = "accept"
     /\ p # null /\ is_due(p)
     /\ next_' = IF scratch_.head_ = null THEN [next_ EXCEPT ![p] = null]
                 ELSE [next_ EXCEPT ![p] = null, ![scratch_.tail_] = p]
     /\ scratch_' = [scratch_ EXCEPT !.head_ = IF @ = null THEN p ELSE @,
                                     !.tail_ = p, !.ngroups_ = @ + 1]
     /\ queue_' = [queue_ EXCEPT !.head_ = next_[p], !.tail_ = source_tail(next_[p]),
                                 !.ngroups_ = @ - 1]
     /\ UNCHANGED <<pxs_, rcu_tick_, ngroups, pc, clean_tick, enqueued>>

(* Mutant: the list keeps its own groups as well. *)
left_freelist_same(q) == q

left_freelist(q) == [q EXCEPT !.freelist_head_ = null, !.freelist_tail_ = null]

(* scratch_.transfer_freelist(queue_), once nothing more is due. *)
transfer_freelist ==
  /\ pc = "accept"
  /\ queue_.head_ # null => ~is_due(queue_.head_)
  /\ IF scratch_.freelist_head_ = null
     THEN UNCHANGED <<next_, queue_, scratch_>>
     ELSE /\ next_' = [next_ EXCEPT ![scratch_.freelist_tail_] = queue_.freelist_head_]
          /\ queue_' = [queue_ EXCEPT !.freelist_head_ = scratch_.freelist_head_,
                                      !.freelist_tail_ =
                                        IF @ = null THEN scratch_.freelist_tail_ ELSE @]
          /\ scratch_' = left_freelist(scratch_)
  /\ pc' = IF scratch_.head_ = null THEN "idle" ELSE "run"
  /\ UNCHANGED <<pxs_, rcu_tick_, ngroups, clean_tick, enqueued>>

(* The clean-up has run over every entry. *)
clear ==
  /\ pc = "run"
  /\ next_' = [next_ EXCEPT ![scratch_.tail_] = scratch_.freelist_head_]
  /\ scratch_' = [Empty EXCEPT !.freelist_head_ = scratch_.head_,
                    !.freelist_tail_ = IF scratch_.freelist_tail_ = null
                                       THEN scratch_.tail_ ELSE scratch_.freelist_tail_]
  /\ pc' = "idle"
  /\ UNCHANGED <<pxs_, rcu_tick_, queue_, ngroups, clean_tick, enqueued>>

Next ==
  \/ \E t \in Ticks : enqueue(t)
  \/ \E t \in Ticks : AcceptBegin(t)
  \/ empty_accept_from \/ transfer_freelist \/ clear

Spec == Init /\ [][Next]_vars

-----------------------------------------------------------------------------
(* The queues hold groups, and no group more entries than it has room for. *)
TypeOK ==
  LET Q == [head_ : Groups \cup {null}, tail_ : Groups \cup {null},
            freelist_head_ : Groups \cup {null}, freelist_tail_ : Groups \cup {null},
            ngroups_ : 0 .. NGroups]
  IN /\ queue_ \in Q /\ scratch_ \in Q
     /\ next_ \in [Groups -> Groups \cup {null}]
     /\ rcu_tick_ \in [Groups -> Ticks]
     /\ \A g \in Groups : pxs_[g] \in Seq([val : Entries, tick : Ticks]) /\ Len(pxs_[g]) <= GroupSize
     /\ pc \in {"idle", "accept", "run"}

(* The groups from g on; a list that runs in a circle is cut short. *)
Chain(g) ==
  LET walk[l \in Seq(Groups), h \in Groups \cup {null}] ==
        IF h = null \/ Len(l) = NGroups THEN l ELSE walk[Append(l, h), next_[h]]
  IN walk[<<>>, g]

List(i) == CASE i = 1 -> Chain(queue_.head_)
             [] i = 2 -> Chain(queue_.freelist_head_)
             [] i = 3 -> Chain(scratch_.head_)
             [] i = 4 -> Chain(scratch_.freelist_head_)

Tails == <<queue_.tail_, queue_.freelist_tail_, scratch_.tail_, scratch_.freelist_tail_>>

(* sanity_check, for both queues and in every state between two calls: a   *)
(* tail is the last group of its list and null only with it, ngroups_      *)
(* counts the groups, no group in use is empty, and ticks go up along the  *)
(* list.                                                                   *)
sanity_check ==
  /\ \A i \in 1 .. 4 : LET l == List(i) IN
       Tails[i] = IF l = <<>> THEN null ELSE l[Len(l)]
  /\ queue_.ngroups_ = Len(List(1)) /\ scratch_.ngroups_ = Len(List(3))
  /\ \A i \in {1, 3} : LET l == List(i) IN \A j \in DOMAIN l :
       /\ pxs_[l[j]] # <<>>
       /\ j > 1 => rcu_tick_[l[j - 1]] <= rcu_tick_[l[j]]

(* Every allocated group is on exactly one of the four lists, once: none   *)
(* leaks and none is shared, however often groups travel between them; and *)
(* the lists are sane.                                                     *)
GroupsHaveOneOwner ==
  LET all == List(1) \o List(2) \o List(3) \o List(4)
  IN TypeOK /\ sanity_check /\ Len(all) = ngroups /\ {all[j] : j \in DOMAIN all} = 1 .. ngroups

-----------------------------------------------------------------------------
(* The entries in a list of groups. *)
Contents(i) ==
  LET gather[s \in Seq([val : Entries, tick : Ticks]), l \in Seq(Groups)] ==
        IF l = <<>> THEN s ELSE gather[s \o pxs_[Head(l)], Tail(l)]
  IN gather[<<>>, List(i)]

(* While groups go over, the queue is still what it was. *)
Abstract == INSTANCE EpochQueue WITH
  pending <- IF pc = "accept" THEN Contents(3) \o Contents(1)
             ELSE Contents(1),
  batch <- IF pc = "accept" THEN <<>> ELSE Contents(3)

(* The linked groups implement the queue that Rcu and Txn are built on: a  *)
(* clean-up up to a tick gets every entry enqueued up to that tick, in     *)
(* order, and nothing that came with a later one; none gets lost.          *)
ImplementsEpochQueue == Abstract!EpochQueueSpec
=============================================================================
