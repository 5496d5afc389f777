------------------------------- MODULE Tuple --------------------------------
(***************************************************************************)
(* tuple.h: the header protocol of one dbtuple.  Writers take the lock     *)
(* with write intent, set the modifying bit, change the record word by     *)
(* word and unlock, which moves the header's version.  Readers take no     *)
(* lock: they read a stable header, the record, and the header again.      *)
(* Validators look at the header and the tid.                              *)
(*                                                                         *)
(* Every step is one load or store of shared memory.  A record is two      *)
(* words, so that a torn read can be told from a whole one; each word      *)
(* holds the tid of the write it comes from.  Txn takes a stable read, a   *)
(* record write and a validation as single steps: this module is why.      *)
(***************************************************************************)
EXTENDS Naturals, Sequences

CONSTANTS Writers,        \* threads that commit to the tuple or collect it
          Readers,        \* threads that read and validate it
          HDR_VERSIONS,   \* values of the header's version field, 2^27
          MaxLocks        \* bound on how often the tuple is locked

(* The tuple is locked less often than the version field has values: "ABA  *)
(* problem happens after some multiple of" that many concurrent            *)
(* modifications (tuple.h).                                                *)
NoWrap == HDR_VERSIONS \in Nat /\ MaxLocks \in 0 .. HDR_VERSIONS - 1

VARIABLES hdr,       \* the header word, as its fields
          version,   \* the tid of the record
          words,     \* the two words of the record
          next,      \* tids of the older versions behind next, newest first
          locks,     \* how often lock() has succeeded
          writer,    \* the writers' program counters
          reader,    \* the local variables of record_at
          valid,     \* the local variables of stable_is_latest_version
          settled    \* the record between writes: its tid, and whether deleted

vars == <<hdr, version, words, next, locks, writer, reader, valid, settled>>

FirstTid == 1

(* The tids that writers install: every lock gets a new one. *)
NewTid == FirstTid + locks

NewHdr == [locked |-> FALSE, deleting |-> FALSE, write_intent |-> FALSE,
           modifying |-> FALSE, latest |-> TRUE, version |-> 0]

Idle == [pc |-> "idle", snapshot |-> FALSE, v |-> NewHdr, start_t |-> 0,
         a |-> 0, b |-> 0, p |-> <<>>, seen |-> {}]

IdleValidator == [pc |-> "idle", v |-> NewHdr, t |-> 0]

(* A tuple that has been inserted, read or written by nobody else yet. *)
Init ==
  /\ hdr = NewHdr
  /\ version = FirstTid
  /\ words = [i \in 1 .. 2 |-> FirstTid]
  /\ next = <<>>
  /\ locks = 0
  /\ writer = [w \in Writers |-> "idle"]
  /\ reader = [r \in Readers |-> Idle]
  /\ valid = [r \in Readers |-> IdleValidator]
  /\ settled = [tid |-> FirstTid, deleted |-> FALSE]

-----------------------------------------------------------------------------
(* Writers *)

Goto(w, from, to) == writer[w] = from /\ writer' = [writer EXCEPT ![w] = to]

(* Every reader in progress has now also seen the new record. *)
Seen(cur) == reader' = [r \in Readers |->
                          IF reader[r].pc = "idle" THEN reader[r]
                          ELSE [reader[r] EXCEPT !.seen = @ \cup {cur}]]

can_lock == ~hdr.locked

(* The collector locks a removed tuple without write intent. *)
lock(w, write_intent) ==
  /\ Goto(w, "idle", IF write_intent THEN "locked" ELSE "collect")
  /\ can_lock /\ locks < MaxLocks
  /\ write_intent \/ hdr.deleting
  /\ hdr' = [hdr EXCEPT !.locked = TRUE, !.write_intent = write_intent]
  /\ locks' = locks + 1
  /\ UNCHANGED <<version, words, next, reader, valid, settled>>

(* The commit goes no further than locking: it aborts, or it finds that    *)
(* the tuple is not the latest any more.                                   *)
GiveUp(w) ==
  /\ Goto(w, "locked", "unlock") \/ (~hdr.latest /\ Goto(w, "collect", "unlock"))
  /\ UNCHANGED <<hdr, version, words, next, locks, reader, valid, settled>>

(* Mutant: the record is written under the lock alone. *)
mark_modifying_not(h) == h

mark_modifying(h) == [h EXCEPT !.modifying = TRUE]

(* write_record_at, in place: a record that no longer is or never was      *)
(* deleted.                                                                *)
BeginWrite(w) ==
  /\ hdr.latest /\ ~hdr.deleting
  /\ Goto(w, "locked", "spill")
  /\ hdr' = mark_modifying(hdr)
  /\ UNCHANGED <<version, words, next, locks, reader, valid, settled>>

(* can_overwrite_record_tid refuses: a snapshot may still need the record. *)
must_spill == version = FirstTid

(* A copy of the old version goes behind next; other versions may be kept  *)
(* as well.                                                                *)
Spill(w, keep) ==
  /\ Goto(w, "spill", "word1")
  /\ must_spill => keep
  /\ next' = IF keep THEN <<version>> \o next ELSE next
  /\ UNCHANGED <<hdr, version, words, locks, reader, valid, settled>>

WriteWord(w, i) ==
  /\ Goto(w, <<"word1", "word2">>[i], <<"word2", "tid">>[i])
  /\ words' = [words EXCEPT ![i] = NewTid]
  /\ UNCHANGED <<hdr, version, next, locks, reader, valid, settled>>

(* A removal writes no record. *)
WriteNothing(w) ==
  /\ Goto(w, "word1", "removetid")
  /\ UNCHANGED <<hdr, version, words, next, locks, reader, valid, settled>>

WriteTid(w) ==
  /\ Goto(w, "tid", "unlock") \/ Goto(w, "removetid", "delete")
  /\ version' = NewTid
  /\ UNCHANGED <<hdr, words, next, locks, reader, valid, settled>>

mark_deleting(w) ==
  /\ Goto(w, "delete", "unlock")
  /\ hdr' = [hdr EXCEPT !.deleting = TRUE]
  /\ UNCHANGED <<version, words, next, locks, reader, valid, settled>>

(* write_record_at put a new tuple in front of this one, or the collector  *)
(* has taken its key out of the tree.                                      *)
clear_latest(w) ==
  /\ hdr.latest
  /\ Goto(w, "locked", "unlock") \/ Goto(w, "collect", "unlock")
  /\ hdr' = [hdr EXCEPT !.latest = FALSE]
  /\ UNCHANGED <<version, words, next, locks, reader, valid, settled>>

(* Mutant: the version stays. *)
UnlockedVersionSame(h) == h.version

UnlockedVersion(h) ==
  IF h.modifying \/ h.write_intent THEN (h.version + 1) % HDR_VERSIONS ELSE h.version

(* Mutant: the modifying bit survives the unlock. *)
UnlockedButMarked(h) ==
  [h EXCEPT !.locked = FALSE, !.write_intent = FALSE, !.version = UnlockedVersion(h)]

Unlocked(h) ==
  [h EXCEPT !.locked = FALSE, !.modifying = FALSE, !.write_intent = FALSE,
            !.version = UnlockedVersion(h)]

unlock(w) ==
  /\ Goto(w, "unlock", "idle")
  /\ hdr' = Unlocked(hdr)
  /\ LET cur == [tid |-> version, deleted |-> hdr.deleting]
     IN settled' = cur /\ Seen(cur)
  /\ UNCHANGED <<version, words, next, locks, valid>>

-----------------------------------------------------------------------------
(* Readers: record_at *)

ReaderStep(r, from, new) ==
  /\ reader[r].pc = from
  /\ reader' = [reader EXCEPT ![r] = new]
  /\ UNCHANGED <<hdr, version, words, next, locks, writer, valid, settled>>

(* A snapshot transaction reads at its snapshot, FirstTid, any other at    *)
(* MAX_TID.                                                                *)
At(t) == IF t.snapshot THEN FirstTid ELSE FirstTid + MaxLocks + 1

BeginRead(r, snapshot) ==
  /\ valid[r].pc = "idle"
  /\ ReaderStep(r, "idle", [Idle EXCEPT !.pc = "stable", !.snapshot = snapshot,
                                        !.seen = {settled}])

reader_stable_version(r) ==
  /\ ~hdr.modifying /\ (reader[r].snapshot \/ ~hdr.write_intent)
  /\ ReaderStep(r, "stable", [reader[r] EXCEPT !.pc = "behind", !.v = hdr])

is_not_behind(r) ==
  ReaderStep(r, "behind",
    [reader[r] EXCEPT !.pc = IF version <= At(reader[r]) THEN "start" ELSE "next"])

ReadStart(r) ==
  ReaderStep(r, "start",
    [reader[r] EXCEPT !.pc = IF reader[r].v.deleting THEN "check" ELSE "word1",
                      !.start_t = version])

ReadWord1(r) == ReaderStep(r, "word1", [reader[r] EXCEPT !.pc = "word2", !.a = words[1]])
ReadWord2(r) == ReaderStep(r, "word2", [reader[r] EXCEPT !.pc = "check", !.b = words[2]])

get_next(r) ==
  ReaderStep(r, "next", [reader[r] EXCEPT !.pc = "checknext", !.p = next])

(* Mutant: the modifying and deleting bits are ignored like the others. *)
reader_check_version_weak(v) == hdr.version = v.version

(* "are the versions the same, modulo the {locked, write_intent, latest}   *)
(* bits?"                                                                  *)
reader_check_version(v) ==
  /\ hdr.version = v.version
  /\ hdr.modifying = v.modifying
  /\ hdr.deleting = v.deleting

(* The newest of the older versions that is not newer than the snapshot. *)
Newest(p, at) ==
  IF \E i \in DOMAIN p : p[i] <= at
  THEN p[CHOOSE i \in DOMAIN p : p[i] <= at /\ \A j \in 1 .. i - 1 : p[j] > at]
  ELSE 0

(* Either retry from the start, or take what was read; older versions      *)
(* never change.                                                           *)
CheckRead(r) ==
  LET t == reader[r]
  IN \/ ReaderStep(r, "check",
          [t EXCEPT !.pc = IF reader_check_version(t.v) THEN "done" ELSE "stable"])
     \/ ReaderStep(r, "checknext",
          IF reader_check_version(t.v)
          THEN [t EXCEPT !.pc = "older", !.start_t = Newest(t.p, At(t))]
          ELSE [t EXCEPT !.pc = "stable"])

EndRead(r) == \E from \in {"done", "older"} : ReaderStep(r, from, Idle)

-----------------------------------------------------------------------------
(* Validators: stable_is_latest_version *)

ValidatorStep(d, from, new) ==
  /\ valid[d].pc = from
  /\ valid' = [valid EXCEPT ![d] = new]
  /\ UNCHANGED <<hdr, version, words, next, locks, writer, reader, settled>>

(* The spinning ends with a header free of write intent, or in vain. *)
try_writer_stable_version(d, t) ==
  /\ reader[d].pc = "idle"
  /\ ValidatorStep(d, "idle",
       IF hdr.write_intent THEN [IdleValidator EXCEPT !.pc = "false"]
       ELSE [pc |-> "latest", v |-> hdr, t |-> t])

ValidateLatest(d) ==
  ValidatorStep(d, "latest",
    [valid[d] EXCEPT !.pc = IF valid[d].v.latest /\ version <= valid[d].t
                            THEN "check" ELSE "false"])

(* Mutant: the header is not looked at again. *)
writer_check_version_not(v) == TRUE

writer_check_version(v) == hdr = v

ValidateCheck(d) ==
  ValidatorStep(d, "check",
    [valid[d] EXCEPT !.pc = IF writer_check_version(valid[d].v) THEN "true" ELSE "false"])

EndValidate(d) == \E from \in {"true", "false"} : ValidatorStep(d, from, IdleValidator)

-----------------------------------------------------------------------------
WriterNext(w) ==
  \/ GiveUp(w) \/ BeginWrite(w) \/ (\E keep \in BOOLEAN : Spill(w, keep))
  \/ (\E i \in 1 .. 2 : WriteWord(w, i)) \/ WriteNothing(w) \/ WriteTid(w)
  \/ mark_deleting(w) \/ clear_latest(w) \/ unlock(w)

ReaderNext(r) ==
  \/ reader_stable_version(r) \/ is_not_behind(r) \/ ReadStart(r)
  \/ ReadWord1(r) \/ ReadWord2(r) \/ get_next(r) \/ CheckRead(r)

Next ==
  \/ \E w \in Writers : (\E intent \in BOOLEAN : lock(w, intent)) \/ WriterNext(w)
  \/ \E r \in Readers :
       \/ (\E snapshot \in BOOLEAN : BeginRead(r, snapshot))
       \/ ReaderNext(r) \/ EndRead(r)
       \/ \E t \in FirstTid .. FirstTid + MaxLocks : try_writer_stable_version(r, t)
       \/ ValidateLatest(r) \/ ValidateCheck(r) \/ EndValidate(r)

Spec == Init /\ [][Next]_vars

(* Threads that have begun go on; nobody is made to begin. *)
Fairness ==
  /\ \A w \in Writers : WF_vars(WriterNext(w))
  /\ \A r \in Readers : WF_vars(ReaderNext(r))

FairSpec == Spec /\ Fairness

-----------------------------------------------------------------------------
Hdr == [locked : BOOLEAN, deleting : BOOLEAN, write_intent : BOOLEAN,
        modifying : BOOLEAN, latest : BOOLEAN, version : 0 .. HDR_VERSIONS - 1]

Record == [tid : Nat, deleted : BOOLEAN]

Modifying == {"spill", "word1", "word2", "tid", "removetid", "delete"}

ReaderState ==
  [pc : {"idle", "stable", "behind", "start", "word1", "word2", "check", "next",
         "checknext", "done", "older"},
   snapshot : BOOLEAN, v : Hdr, start_t : Nat, a : Nat, b : Nat, p : Seq(Nat),
   seen : SUBSET Record]

ValidatorState == [pc : {"idle", "latest", "check", "true", "false"}, v : Hdr, t : Nat]

(* The header, the record and the locals have their types, and whoever is  *)
(* between lock() and unlock() finds the locked bit set.                   *)
TypeOK ==
  /\ hdr \in Hdr
  /\ version \in Nat /\ words \in [1 .. 2 -> Nat] /\ next \in Seq(Nat)
  /\ locks \in 0 .. MaxLocks
  /\ writer \in [Writers -> {"idle", "locked", "collect", "unlock"} \cup Modifying]
  /\ reader \in [Readers -> ReaderState]
  /\ valid \in [Readers -> ValidatorState]
  /\ settled \in Record
  /\ \A w \in Writers : writer[w] # "idle" => hdr.locked

AtomicRead(t) ==
  t.pc = "done" =>
    /\ t.v.deleting \/ (t.a = t.start_t /\ t.b = t.start_t)
    /\ [tid |-> t.start_t, deleted |-> t.v.deleting] \in t.seen

StableRead(t) ==
  t.snapshot =>
    /\ t.pc = "done" => t.a = FirstTid /\ t.b = FirstTid /\ ~t.v.deleting
    /\ t.pc \in {"done", "older"} => t.start_t = FirstTid

(* record_at returns a whole record together with its own tid, or finds it *)
(* removed, and the record was the current one at some moment of the read. *)
ReadsAreAtomic == \A r \in Readers : AtomicRead(reader[r])

(* A snapshot reader, which does not wait for write intent, always comes   *)
(* back with the version of its snapshot, in place or from the chain.      *)
SnapshotReadsAreStable == \A r \in Readers : StableRead(reader[r])

(* At the moment stable_is_latest_version says yes, the tuple is the       *)
(* latest, nobody is about to write it and the tid is not newer than the   *)
(* one that was read.                                                      *)
ValidationIsSound ==
  [][\A d \in Readers : valid[d].pc = "check" /\ valid'[d].pc = "true" =>
       hdr.latest /\ ~hdr.write_intent /\ version <= valid[d].t]_vars

(* A record that is not half written, and behind which the snapshot's      *)
(* version is kept once it is no longer that one itself.                   *)
Whole ==
  /\ hdr.deleting \/ (words[1] = version /\ words[2] = version)
  /\ hdr.deleting => version # FirstTid

Kept == \E i \in DOMAIN next : next[i] = FirstTid

(* What a writer has done to the header and the record so far. *)
WriterOK(w) ==
  /\ \A x \in Writers : writer[w] # "idle" /\ writer[x] # "idle" => w = x
  /\ writer[w] = "locked" => hdr.write_intent /\ ~hdr.modifying
  /\ writer[w] = "collect" => ~hdr.write_intent
  /\ writer[w] \in Modifying => hdr.modifying /\ ~hdr.deleting
  /\ writer[w] \in {"spill", "word1", "unlock"} => Whole
  /\ writer[w] \in {"word2", "tid"} => words[1] = NewTid
  /\ writer[w] = "tid" => words[2] = NewTid
  /\ writer[w] = "delete" => version # FirstTid
  /\ writer[w] \in {"word1", "word2", "tid", "removetid"} => Kept

(* The header's version has moved at most once for every lock, and not yet *)
(* for the present one; a record that nobody is changing is whole.         *)
TupleOK ==
  /\ hdr.version <= IF hdr.locked THEN locks - 1 ELSE locks
  /\ hdr.locked => locks > 0
  /\ ~hdr.locked => ~hdr.write_intent
  /\ hdr.modifying => hdr.write_intent
  /\ version >= FirstTid /\ \A i \in DOMAIN next : next[i] >= FirstTid
  /\ version # FirstTid => Kept
  /\ ~hdr.modifying => Whole /\ settled = [tid |-> version, deleted |-> hdr.deleting]

(* While the header a reader has seen is still the header, what it has     *)
(* read is still there.                                                    *)
ReaderOK(t) ==
  /\ t.pc # "idle" => settled \in t.seen
  /\ t.pc \notin {"idle", "stable"} => ~t.v.modifying /\ t.v.version <= hdr.version
  /\ t.pc \notin {"idle", "stable", "done", "older"}
       /\ hdr.version = t.v.version /\ ~hdr.modifying =>
          /\ t.v.deleting <=> hdr.deleting
          /\ t.pc \in {"start", "word1", "word2", "check"} => version <= At(t)
          /\ t.pc \in {"word1", "word2", "check"} => t.start_t = version
          /\ t.pc \in {"word1", "word2"} => ~t.v.deleting
          /\ t.pc \in {"word2", "check"} /\ ~t.v.deleting => t.a = words[1]
          /\ t.pc = "check" /\ ~t.v.deleting => t.b = words[2]
          /\ t.pc \in {"next", "checknext"} => version > At(t)
          /\ t.pc = "checknext" => t.p = next
  /\ AtomicRead(t) /\ StableRead(t)

ValidatorOK(t) ==
  t.pc \in {"latest", "check"} =>
    /\ ~t.v.write_intent /\ t.v.version <= hdr.version
    /\ t.pc = "check" => t.v.latest
    /\ t.pc = "check" /\ hdr.version = t.v.version /\ ~hdr.write_intent => version <= t.t

(* The inductive invariant behind the three properties above: a header     *)
(* that is seen again unchanged means that nothing was changed between.    *)
TupleInv ==
  /\ TypeOK /\ TupleOK
  /\ \A w \in Writers : WriterOK(w)
  /\ \A r \in Readers : ReaderOK(reader[r]) /\ ValidatorOK(valid[r])

(* A reader is not kept waiting by writers that finish. *)
ReadsEnd ==
  \A r \in Readers : (reader[r].pc = "stable") ~> (reader[r].pc \in {"done", "older"})
=============================================================================
