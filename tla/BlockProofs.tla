----------------------------- MODULE BlockProofs -----------------------------
(***************************************************************************)
(* Two building blocks of the database: the header protocol of a tuple,    *)
(* for any number of readers, writers and header versions, as long as the  *)
(* version field does not wrap around, and the ids of the cores, for any   *)
(* number of threads, any NMAXCORES, any number of workers in a block and  *)
(* any alignment.                                                          *)
(***************************************************************************)
EXTENDS CoreIds, Tuple, Integers, SequenceTheorems, WellFoundedInduction, TLAPS

-----------------------------------------------------------------------------
(* The header of a tuple *)

(* What every step of a writer leaves to those who have read the header: a *)
(* version that is seen again without the modifying bit (or without write  *)
(* intent) means that there was none before, and that nothing was changed. *)
Frame ==
  /\ hdr'.version >= hdr.version
  /\ hdr'.version = hdr.version /\ ~hdr'.modifying =>
       /\ ~hdr.modifying /\ (hdr'.deleting <=> hdr.deleting)
       /\ version' = version /\ words' = words /\ next' = next
  /\ hdr'.version = hdr.version /\ ~hdr'.write_intent =>
       ~hdr.write_intent /\ version' = version

Base == TypeOK /\ TupleOK /\ \A w \in Writers : WriterOK(w)

Readings == \A r \in Readers : ReaderOK(reader[r]) /\ ValidatorOK(valid[r])

(* The initial states satisfy the invariant. *)
LEMMA TupleInit == ASSUME NoWrap, Init PROVE TupleInv
<1>1. TypeOK
  BY DEF NoWrap, Init, TypeOK, NewHdr, Hdr, FirstTid, Record, ReaderState, ValidatorState,
         Idle, IdleValidator
<1>2. TupleOK BY DEF Init, TupleOK, NewHdr, FirstTid, Whole, Kept
<1>3. \A w \in Writers : WriterOK(w) BY Zenon DEF Init, WriterOK, Modifying
<1>4. \A r \in Readers : ReaderOK(reader[r]) /\ ValidatorOK(valid[r])
  BY DEF Init, ReaderOK, ValidatorOK, Idle, IdleValidator, AtomicRead, StableRead
<1> QED BY <1>1, <1>2, <1>3, <1>4 DEF TupleInv

(* A writer's step that only moves the writer on, or changes the tuple     *)
(* within the frame, leaves the readers as they are.                       *)
LEMMA FrameReadings ==
  ASSUME TypeOK, TypeOK', Readings, Frame, UNCHANGED <<reader, valid, settled>>
  PROVE  Readings'
<1> SUFFICES ASSUME NEW r \in Readers
             PROVE  ReaderOK(reader[r])' /\ ValidatorOK(valid[r])'
  BY DEF Readings
<1> USE DEF Readings
<1>1. reader'[r] = reader[r] /\ valid'[r] = valid[r] /\ settled' = settled
  OBVIOUS
<1>2. reader[r] \in ReaderState /\ valid[r] \in ValidatorState /\ hdr \in Hdr /\ hdr' \in Hdr
  BY DEF TypeOK
<1>3. ReaderOK(reader[r])'
  <2>1. AtomicRead(reader[r])' /\ StableRead(reader[r])'
    BY <1>1, Zenon DEF ReaderOK, AtomicRead, StableRead
  <2>2. ASSUME reader[r].pc \notin {"idle", "stable", "done", "older"},
               hdr'.version = reader[r].v.version, ~hdr'.modifying
        PROVE  hdr'.version = hdr.version /\ hdr.version = reader[r].v.version /\ ~hdr.modifying
    BY <1>1, <1>2, <2>2 DEF ReaderOK, Frame, Hdr, ReaderState
  <2> QED BY <1>1, <1>2, <2>1, <2>2, SMTT(40) DEF ReaderOK, Frame, At, Hdr, ReaderState
<1>4. ValidatorOK(valid[r])'
  BY <1>1, <1>2 DEF ValidatorOK, Frame, Hdr, ValidatorState
<1> QED BY <1>3, <1>4

(* lock takes a header that nobody holds. *)
LEMMA LockStep ==
  ASSUME NoWrap, Base, NEW w \in Writers, NEW intent \in BOOLEAN, lock(w, intent)
  PROVE  Base' /\ Frame /\ UNCHANGED <<reader, valid, settled>>
<1> USE DEF Base, lock, Goto, can_lock
<1>1. TypeOK'
  <2>1. hdr' \in Hdr BY Zenon DEF TypeOK, Hdr
  <2>2. locks' \in 0 .. MaxLocks BY DEF TypeOK, NoWrap
  <2>3. writer' \in [Writers -> {"idle", "locked", "collect", "unlock"} \cup Modifying]
    BY DEF TypeOK
  <2>4. hdr'.locked BY DEF TypeOK, Hdr
  <2> QED BY <2>1, <2>2, <2>3, <2>4 DEF TypeOK
<1>2. TupleOK' /\ Frame
  BY DEF TypeOK, TupleOK, WriterOK, Hdr, Modifying, Whole, Kept, FirstTid, Frame
<1>3. ASSUME NEW x \in Writers PROVE WriterOK(x)'
  BY DEF TypeOK, TupleOK, WriterOK, Hdr, Modifying, Whole, Kept, FirstTid
<1>4. UNCHANGED <<reader, valid, settled>>
  OBVIOUS
<1> QED BY <1>1, <1>2, <1>3, <1>4

(* Giving up changes nothing but the writer. *)
LEMMA GiveUpStep ==
  ASSUME NoWrap, Base, NEW w \in Writers, GiveUp(w)
  PROVE  Base' /\ Frame /\ UNCHANGED <<reader, valid, settled>>
<1> USE DEF Base, GiveUp, Goto
<1>1. TypeOK'
  BY SMTT(40) DEF TypeOK, Hdr, Modifying, NoWrap, FirstTid
<1>2. TupleOK' /\ Frame
  BY DEF TypeOK, TupleOK, WriterOK, Hdr, Modifying, Whole, Kept, FirstTid, Frame
<1>3. ASSUME NEW x \in Writers PROVE WriterOK(x)'
  BY DEF TypeOK, TupleOK, WriterOK, Hdr, Modifying, Whole, Kept, FirstTid
<1>4. UNCHANGED <<reader, valid, settled>>
  OBVIOUS
<1> QED BY <1>1, <1>2, <1>3, <1>4

(* The modifying bit goes up before anything is written. *)
LEMMA BeginWriteStep ==
  ASSUME NoWrap, Base, NEW w \in Writers, BeginWrite(w)
  PROVE  Base' /\ Frame /\ UNCHANGED <<reader, valid, settled>>
<1> USE DEF Base, BeginWrite, Goto, mark_modifying
<1>1. TypeOK'
  BY Zenon DEF TypeOK, Hdr, Modifying, NoWrap, FirstTid
<1>2. TupleOK' /\ Frame
  BY DEF TypeOK, TupleOK, WriterOK, Hdr, Modifying, Whole, Kept, FirstTid, Frame
<1>3. ASSUME NEW x \in Writers PROVE WriterOK(x)'
  BY DEF TypeOK, TupleOK, WriterOK, Hdr, Modifying, Whole, Kept, FirstTid
<1>4. UNCHANGED <<reader, valid, settled>>
  OBVIOUS
<1> QED BY <1>1, <1>2, <1>3, <1>4

(* Putting one version in front of the older ones. *)
LEMMA Prepend ==
  ASSUME NEW e \in Nat, NEW q \in Seq(Nat)
  PROVE  LET s == <<e>> \o q
         IN  /\ s \in Seq(Nat) /\ DOMAIN s = 1 .. Len(q) + 1 /\ s[1] = e
             /\ \A i \in DOMAIN q : i + 1 \in DOMAIN s /\ s[i + 1] = q[i]
             /\ \A i \in DOMAIN s : s[i] = e \/ \E j \in DOMAIN q : s[i] = q[j]
<1> DEFINE s == <<e>> \o q
<1>1. <<e>> \in Seq(Nat) /\ Len(<<e>>) = 1 /\ <<e>>[1] = e OBVIOUS
<1>2. /\ s \in Seq(Nat) /\ Len(s) = 1 + Len(q)
      /\ \A i \in 1 .. 1 + Len(q) : s[i] = IF i <= 1 THEN <<e>>[i] ELSE q[i - 1]
  BY <1>1, ConcatProperties, Zenon
<1>3. Len(q) \in Nat /\ DOMAIN q = 1 .. Len(q) OBVIOUS
<1>4. DOMAIN s = 1 .. Len(q) + 1 BY <1>2, <1>3
<1> HIDE DEF s
<1>5. s[1] = e BY <1>1, <1>2, <1>3
<1>6. \A i \in DOMAIN q : i + 1 \in DOMAIN s /\ s[i + 1] = q[i] BY <1>2, <1>3, <1>4, SMTT(40)
<1>7. ASSUME NEW i \in DOMAIN s PROVE s[i] = e \/ \E j \in DOMAIN q : s[i] = q[j]
  <2>1. CASE i = 1 BY <1>5, <2>1
  <2>2. CASE i # 1
    <3>1. i - 1 \in DOMAIN q /\ s[i] = q[i - 1] BY <1>2, <1>3, <1>4, <2>2, SMTT(40)
    <3> QED BY <3>1
  <2> QED BY <2>1, <2>2
<1> QED BY <1>2, <1>4, <1>5, <1>6, <1>7, SMTT(40) DEF s

(* The snapshot's version goes behind the tuple before it is overwritten. *)
LEMMA SpillStep ==
  ASSUME NoWrap, Base, NEW w \in Writers, NEW keep \in BOOLEAN, Spill(w, keep)
  PROVE  Base' /\ Frame /\ UNCHANGED <<reader, valid, settled>>
<1> DEFINE older == <<version>> \o next
<1>0. /\ older \in Seq(Nat) /\ 1 \in DOMAIN older /\ older[1] = version
      /\ \A i \in DOMAIN next : i + 1 \in DOMAIN older /\ older[i + 1] = next[i]
      /\ \A i \in DOMAIN older : older[i] = version \/ \E j \in DOMAIN next : older[i] = next[j]
  <2>1. version \in Nat /\ next \in Seq(Nat) BY DEF Base, TypeOK
  <2>2. 1 \in 1 .. Len(next) + 1 BY <2>1
  <2> QED BY <2>1, <2>2, Prepend, Zenon
<1>a. (next' = next /\ version # FirstTid) \/ next' = older
  BY Zenon DEF Spill, must_spill
<1> HIDE DEF older
<1>b. next' \in Seq(Nat) /\ Kept' /\ \A i \in DOMAIN next' : next'[i] >= FirstTid
  <2>1. CASE next' = next /\ version # FirstTid
    BY <2>1 DEF Base, TypeOK, TupleOK, Kept
  <2>2. CASE next' = older
    <3>1. \A i \in DOMAIN older : older[i] >= FirstTid
      BY <1>0 DEF Base, TupleOK
    <3>2. CASE version = FirstTid
      BY <1>0, <2>2, <3>1, <3>2 DEF Kept
    <3>3. CASE version # FirstTid
      <4>1. PICK i \in DOMAIN next : next[i] = FirstTid
        BY <3>3 DEF Base, TupleOK, Kept
      <4>2. i + 1 \in DOMAIN older /\ older[i + 1] = FirstTid BY <1>0, <4>1
      <4> QED BY <1>0, <2>2, <3>1, <4>2 DEF Kept
    <3> QED BY <3>2, <3>3
  <2> QED BY <1>a, <2>1, <2>2
<1> USE DEF Base, Spill, Goto, must_spill
<1>1. TypeOK'
  BY <1>b DEF TypeOK, Hdr, Modifying, NoWrap, FirstTid
<1>2. TupleOK' /\ Frame
  BY <1>b DEF TypeOK, TupleOK, WriterOK, Hdr, Modifying, Whole, Frame
<1>3. ASSUME NEW x \in Writers PROVE WriterOK(x)'
  BY <1>b DEF TypeOK, TupleOK, WriterOK, Hdr, Modifying, Whole
<1>4. UNCHANGED <<reader, valid, settled>>
  OBVIOUS
<1> QED BY <1>1, <1>2, <1>3, <1>4

(* The first word is written under the modifying bit. *)
LEMMA WriteWord1Step ==
  ASSUME NoWrap, Base, NEW w \in Writers, WriteWord(w, 1)
  PROVE  Base' /\ Frame /\ UNCHANGED <<reader, valid, settled>>
<1> USE DEF Base, WriteWord, Goto, NewTid
<1>1. TypeOK'
  BY DEF TypeOK, Hdr, Modifying, NoWrap, FirstTid
<1>2. TupleOK' /\ Frame
  BY DEF TypeOK, TupleOK, WriterOK, Hdr, Modifying, Whole, Kept, FirstTid, Frame
<1>3. ASSUME NEW x \in Writers PROVE WriterOK(x)'
  BY DEF TypeOK, TupleOK, WriterOK, Hdr, Modifying, Whole, Kept, FirstTid
<1>4. UNCHANGED <<reader, valid, settled>>
  OBVIOUS
<1> QED BY <1>1, <1>2, <1>3, <1>4

(* So is the second. *)
LEMMA WriteWord2Step ==
  ASSUME NoWrap, Base, NEW w \in Writers, WriteWord(w, 2)
  PROVE  Base' /\ Frame /\ UNCHANGED <<reader, valid, settled>>
<1> USE DEF Base, WriteWord, Goto, NewTid
<1>1. TypeOK'
  BY DEF TypeOK, Hdr, Modifying, NoWrap, FirstTid
<1>2. TupleOK' /\ Frame
  BY DEF TypeOK, TupleOK, WriterOK, Hdr, Modifying, Whole, Kept, FirstTid, Frame
<1>3. ASSUME NEW x \in Writers PROVE WriterOK(x)'
  BY DEF TypeOK, TupleOK, WriterOK, Hdr, Modifying, Whole, Kept, FirstTid
<1>4. UNCHANGED <<reader, valid, settled>>
  OBVIOUS
<1> QED BY <1>1, <1>2, <1>3, <1>4

(* A removal writes no word. *)
LEMMA WriteNothingStep ==
  ASSUME NoWrap, Base, NEW w \in Writers, WriteNothing(w)
  PROVE  Base' /\ Frame /\ UNCHANGED <<reader, valid, settled>>
<1> USE DEF Base, WriteNothing, Goto
<1>1. TypeOK'
  BY DEF TypeOK, Hdr, Modifying, NoWrap, FirstTid
<1>2. TupleOK' /\ Frame
  BY DEF TypeOK, TupleOK, WriterOK, Hdr, Modifying, Whole, Kept, FirstTid, Frame
<1>3. ASSUME NEW x \in Writers PROVE WriterOK(x)'
  BY DEF TypeOK, TupleOK, WriterOK, Hdr, Modifying, Whole, Kept, FirstTid
<1>4. UNCHANGED <<reader, valid, settled>>
  OBVIOUS
<1> QED BY <1>1, <1>2, <1>3, <1>4

(* The tid follows the words. *)
LEMMA WriteTidStep ==
  ASSUME NoWrap, Base, NEW w \in Writers, WriteTid(w)
  PROVE  Base' /\ Frame /\ UNCHANGED <<reader, valid, settled>>
<1> USE DEF Base, WriteTid, Goto, NewTid
<1>1. TypeOK'
  <2>1. version' \in Nat BY DEF TypeOK, FirstTid
  <2>2. writer' \in [Writers -> {"idle", "locked", "collect", "unlock"} \cup Modifying]
    BY DEF TypeOK, Modifying
  <2>3. \A x \in Writers : writer'[x] # "idle" => writer[x] # "idle" BY DEF TypeOK
  <2> QED BY <2>1, <2>2, <2>3 DEF TypeOK
<1>2. TupleOK' /\ Frame
  BY DEF TypeOK, TupleOK, WriterOK, Hdr, Modifying, Whole, Kept, FirstTid, Frame
<1>3. ASSUME NEW x \in Writers PROVE WriterOK(x)'
  BY SMTT(40) DEF TypeOK, TupleOK, WriterOK, Hdr, Modifying, Whole, Kept, FirstTid
<1>4. UNCHANGED <<reader, valid, settled>>
  OBVIOUS
<1> QED BY <1>1, <1>2, <1>3, <1>4

(* A removed record need not be whole. *)
LEMMA MarkDeletingStep ==
  ASSUME NoWrap, Base, NEW w \in Writers, mark_deleting(w)
  PROVE  Base' /\ Frame /\ UNCHANGED <<reader, valid, settled>>
<1> USE DEF Base, mark_deleting, Goto
<1>1. TypeOK'
  BY Zenon DEF TypeOK, Hdr, Modifying, NoWrap, FirstTid
<1>2. TupleOK' /\ Frame
  BY DEF TypeOK, TupleOK, WriterOK, Hdr, Modifying, Whole, Kept, FirstTid, Frame
<1>3. ASSUME NEW x \in Writers PROVE WriterOK(x)'
  BY SMTT(40) DEF TypeOK, TupleOK, WriterOK, Hdr, Modifying, Whole, Kept, FirstTid
<1>4. UNCHANGED <<reader, valid, settled>>
  OBVIOUS
<1> QED BY <1>1, <1>2, <1>3, <1>4

(* The latest bit concerns validators only. *)
LEMMA ClearLatestStep ==
  ASSUME NoWrap, Base, NEW w \in Writers, clear_latest(w)
  PROVE  Base' /\ Frame /\ UNCHANGED <<reader, valid, settled>>
<1> USE DEF Base, clear_latest, Goto
<1>1. TypeOK'
  BY Zenon DEF TypeOK, Hdr, Modifying, NoWrap, FirstTid
<1>2. TupleOK' /\ Frame
  BY DEF TypeOK, TupleOK, WriterOK, Hdr, Modifying, Whole, Kept, FirstTid, Frame
<1>3. ASSUME NEW x \in Writers PROVE WriterOK(x)'
  BY DEF TypeOK, TupleOK, WriterOK, Hdr, Modifying, Whole, Kept, FirstTid
<1>4. UNCHANGED <<reader, valid, settled>>
  OBVIOUS
<1> QED BY <1>1, <1>2, <1>3, <1>4

(* Unlocking makes the record current and, if there was write intent, the  *)
(* version one that nobody has seen.                                       *)
LEMMA UnlockStep ==
  ASSUME NoWrap, Base, Readings, NEW w \in Writers, unlock(w)
  PROVE  Base' /\ Readings'
<1> DEFINE cur == [tid |-> version, deleted |-> hdr.deleting]
<1>1. /\ writer[w] = "unlock" /\ writer' = [writer EXCEPT ![w] = "idle"]
      /\ hdr' = Unlocked(hdr) /\ settled' = cur /\ Seen(cur)
      /\ UNCHANGED <<version, words, next, locks, valid>>
  BY DEF unlock, Goto
<1>2. /\ hdr \in Hdr /\ hdr.locked /\ version \in Nat /\ settled' \in Record
      /\ \A x \in Writers : x # w => writer[x] = "idle"
  BY <1>1 DEF Base, TypeOK, WriterOK, Hdr, Record
<1>3. UnlockedVersion(hdr) = IF hdr.modifying \/ hdr.write_intent THEN hdr.version + 1
                             ELSE hdr.version
  <2>1. hdr.version + 1 \in 0 .. HDR_VERSIONS - 1
    BY <1>2 DEF Base, TypeOK, TupleOK, NoWrap, Hdr
  <2>2. (hdr.version + 1) % HDR_VERSIONS = hdr.version + 1
    BY <2>1 DEF NoWrap
  <2> QED BY <2>2 DEF UnlockedVersion
<1>4. /\ hdr' \in Hdr /\ ~hdr'.locked /\ ~hdr'.modifying /\ ~hdr'.write_intent
      /\ (hdr'.deleting <=> hdr.deleting) /\ hdr'.deleting = hdr.deleting
      /\ hdr'.version = IF hdr.write_intent THEN hdr.version + 1 ELSE hdr.version
  <2>1. UnlockedVersion(hdr) \in 0 .. HDR_VERSIONS - 1
    BY <1>2, <1>3 DEF Base, TypeOK, TupleOK, NoWrap, Hdr
  <2>2. hdr' = [hdr EXCEPT !.locked = FALSE, !.modifying = FALSE, !.write_intent = FALSE,
                           !.version = UnlockedVersion(hdr)]
    BY <1>1 DEF Unlocked
  <2> HIDE DEF UnlockedVersion
  <2>3. /\ hdr' \in Hdr /\ ~hdr'.locked /\ ~hdr'.modifying /\ ~hdr'.write_intent
        /\ hdr'.deleting = hdr.deleting /\ hdr'.version = UnlockedVersion(hdr)
    BY <1>2, <2>1, <2>2, Zenon DEF Hdr
  <2> QED BY <1>3, <2>3 DEF Base, TupleOK
<1>5. Whole /\ Whole'
  BY <1>1, <1>4 DEF Base, WriterOK, Whole
<1>6. TupleOK'
  BY <1>1, <1>2, <1>4, <1>5 DEF Base, TypeOK, TupleOK, Kept, Hdr
<1>7. \A x \in Writers : writer'[x] = "idle"
  BY <1>1, <1>2 DEF Base, TypeOK
<1>8. \A x \in Writers : WriterOK(x)'
  BY <1>7 DEF WriterOK, Modifying
<1>9. ASSUME NEW r \in Readers
      PROVE  LET t == reader[r]
                 u == reader'[r]
             IN  /\ u \in ReaderState
                 /\ u.pc = t.pc /\ u.snapshot = t.snapshot /\ u.v = t.v /\ u.p = t.p
                 /\ u.start_t = t.start_t /\ u.a = t.a /\ u.b = t.b
                 /\ t.seen \subseteq u.seen /\ (t.pc # "idle" => cur \in u.seen)
  <2>1. reader[r] \in ReaderState /\ cur \in Record
    BY <1>1, <1>2 DEF Base, TypeOK
  <2> HIDE DEF cur
  <2>2. CASE reader[r].pc = "idle"
    BY <1>1, <2>1, <2>2 DEF Seen
  <2>3. CASE reader[r].pc # "idle"
    <3>1. reader'[r] = [reader[r] EXCEPT !.seen = reader[r].seen \cup {cur}]
      BY <1>1, <2>3 DEF Seen
    <3>2. reader[r].seen \cup {cur} \in SUBSET Record
      BY <2>1 DEF ReaderState
    <3> QED BY <2>1, <3>1, <3>2, SMTT(40) DEF ReaderState
  <2> QED BY <2>2, <2>3
<1>10. TypeOK'
  <2>1. reader' \in [Readers -> ReaderState]
    BY <1>1, <1>9, Zenon DEF Seen
  <2>2. writer' \in [Writers -> {"idle", "locked", "collect", "unlock"} \cup Modifying]
    BY <1>1 DEF Base, TypeOK
  <2> QED BY <1>1, <1>2, <1>4, <1>7, <2>1, <2>2 DEF Base, TypeOK
<1>11. ASSUME NEW r \in Readers PROVE ReaderOK(reader[r])'
  <2>0. PICK t, u : t = reader[r] /\ u = reader'[r] OBVIOUS
  <2>1. t \in ReaderState /\ ReaderOK(t)
    BY <2>0 DEF Base, TypeOK, Readings
  <2>2. /\ u \in ReaderState
        /\ u.pc = t.pc /\ u.snapshot = t.snapshot /\ u.v = t.v /\ u.p = t.p
        /\ u.start_t = t.start_t /\ u.a = t.a /\ u.b = t.b
        /\ t.seen \subseteq u.seen /\ (t.pc # "idle" => cur \in u.seen)
    BY <1>9, <2>0
  <2>3. AtomicRead(u)
    BY <2>1, <2>2, Zenon DEF AtomicRead, ReaderOK
  <2>4. StableRead(u)
    BY <2>1, <2>2, Zenon DEF StableRead, ReaderOK
  <2>5. ASSUME u.pc \notin {"idle", "stable", "done", "older"}, hdr'.version = u.v.version
        PROVE  hdr'.version = hdr.version /\ ~hdr.modifying
    BY <1>2, <1>4, <2>1, <2>2, <2>5 DEF ReaderOK, Hdr, ReaderState, Base, TupleOK
  <2>6. At(u) = At(t) BY <2>2, Zenon DEF At
  <2>7. ReaderOK(u)'
    <3>1. u.pc # "idle" => settled' \in u.seen BY <1>1, <2>2
    <3>2. u.pc \notin {"idle", "stable"} => ~u.v.modifying /\ u.v.version <= hdr'.version
      BY <1>2, <1>4, <2>1, <2>2 DEF ReaderOK, Hdr, ReaderState
    <3> HIDE DEF cur
    <3>3. ASSUME u.pc \notin {"idle", "stable", "done", "older"}, hdr'.version = u.v.version
          PROVE  /\ u.v.deleting <=> hdr'.deleting
                 /\ u.pc \in {"start", "word1", "word2", "check"} => version' <= At(u)
                 /\ u.pc \in {"word1", "word2", "check"} => u.start_t = version'
                 /\ u.pc \in {"word1", "word2"} => ~u.v.deleting
                 /\ u.pc \in {"word2", "check"} /\ ~u.v.deleting => u.a = words'[1]
                 /\ u.pc = "check" /\ ~u.v.deleting => u.b = words'[2]
                 /\ u.pc \in {"next", "checknext"} => version' > At(u)
                 /\ u.pc = "checknext" => u.p = next'
      BY <1>1, <1>4, <2>1, <2>2, <2>5, <2>6, <3>3, SMTT(40) DEF ReaderOK
    <3> QED BY <2>3, <2>4, <3>1, <3>2, <3>3 DEF ReaderOK
  <2> QED BY <2>0, <2>7
<1>12. ASSUME NEW r \in Readers PROVE ValidatorOK(valid[r])'
  BY <1>1, <1>2, <1>4 DEF Base, TypeOK, Readings, ValidatorOK, Hdr, ValidatorState
<1> QED BY <1>6, <1>8, <1>10, <1>11, <1>12 DEF Base, Readings

(* A reader's step keeps the invariant when its new locals satisfy it.     *)
LEMMA ReaderMoves ==
  ASSUME Base, Readings, NEW r \in Readers, NEW from, NEW new,
         ReaderStep(r, from, new), new \in ReaderState, ReaderOK(new)
  PROVE  Base' /\ Readings'
<1>1. /\ reader' = [reader EXCEPT ![r] = new]
      /\ UNCHANGED <<hdr, version, words, next, locks, writer, valid, settled>>
  BY DEF ReaderStep
<1>2. TypeOK'
  <2>1. reader' \in [Readers -> ReaderState] BY <1>1 DEF Base, TypeOK
  <2> QED BY <1>1, <2>1 DEF Base, TypeOK
<1>3. TupleOK' BY <1>1, Zenon DEF Base, TupleOK, Whole, Kept
<1>4. ASSUME NEW w \in Writers PROVE WriterOK(w)'
  BY <1>1, Zenon DEF Base, WriterOK, Whole, Kept, NewTid
<1>5. ASSUME NEW q \in Readers PROVE ReaderOK(reader[q])' /\ ValidatorOK(valid[q])'
  <2>1. PICK t : t = reader'[q] OBVIOUS
  <2>2. ReaderOK(t)
    <3>1. t = new \/ t = reader[q] BY <1>1, <2>1 DEF Base, TypeOK
    <3> QED BY <3>1, Zenon DEF Readings
  <2>3. ReaderOK(t)'
    BY <1>1, <2>2, Zenon DEF ReaderOK, AtomicRead, StableRead, At
  <2>4. ReaderOK(reader[q])' BY <2>1, <2>3
  <2>5. ValidatorOK(valid[q])' BY <1>1, Zenon DEF Readings, ValidatorOK
  <2> QED BY <2>4, <2>5
<1> QED BY <1>2, <1>3, <1>4, <1>5 DEF Base, Readings

(* If a version is not newer than the snapshot, Newest finds such a one. *)
LEMMA NewestAt ==
  ASSUME NEW p \in Seq(Nat), NEW a \in Nat, \E i \in DOMAIN p : p[i] <= a
  PROVE  \E i \in DOMAIN p : p[i] <= a /\ Newest(p, a) = p[i]
<1> DEFINE S == {i \in DOMAIN p : p[i] <= a}
<1>1. S \in SUBSET Nat /\ S # {} OBVIOUS
<1>2. PICK i \in S : \A j \in S : i <= j
  <2> HIDE DEF S
  <2>1. PICK i \in S : \A j \in S : ~ (<<j, i>> \in OpToRel(<, Nat))
    BY <1>1, WFMin, NatLessThanWellFounded, Zenon
  <2>2. ASSUME NEW j \in S PROVE i <= j
    <3>1. i \in Nat /\ j \in Nat BY <1>1
    <3>2. <<j, i>> \notin {ss \in Nat \X Nat : ss[1] < ss[2]}
      BY <2>1, Zenon DEF OpToRel
    <3>3. ~ (j < i) BY <3>1, <3>2
    <3> QED BY <3>1, <3>3
  <2> QED BY <2>1, <2>2, Zenon
<1>3. ASSUME NEW j \in 1 .. i - 1 PROVE p[j] > a
  <2>1. j \in DOMAIN p /\ j < i OBVIOUS
  <2>2. j \notin S BY <1>1, <1>2, <2>1
  <2>3. p[j] \in Nat BY <2>1
  <2> QED BY <2>1, <2>2, <2>3
<1>4. \E k \in DOMAIN p : p[k] <= a /\ \A j \in 1 .. k - 1 : p[j] > a
  BY <1>2, <1>3
<1> QED BY <1>4, Zenon DEF Newest

(* The header that is taken has no modifying bit.                          *)
LEMMA StableVersionStep ==
  ASSUME NoWrap, Base, Readings, NEW r \in Readers, reader_stable_version(r)
  PROVE  Base' /\ Readings'
<1>1. PICK t, u :
        /\ t = reader[r]
        /\ u = [reader[r] EXCEPT !.pc = "behind", !.v = hdr]
  OBVIOUS
<1>2. t \in ReaderState /\ ReaderOK(t) /\ t.pc = "stable" /\ ReaderStep(r, "stable", u)
  BY <1>1 DEF reader_stable_version, ReaderStep, Base, TypeOK, Readings
<1>3. /\ hdr \in Hdr /\ version \in Nat /\ next \in Seq(Nat)
      /\ words[1] \in Nat /\ words[2] \in Nat
  BY DEF Base, TypeOK
<1>4. u \in ReaderState BY <1>1, <1>2, <1>3, Zenon DEF ReaderState
<1>5. ReaderOK(u)
  <2>1. AtomicRead(u) BY <1>1, <1>2 DEF AtomicRead, ReaderState
  <2>2. StableRead(u) BY <1>1, <1>2 DEF StableRead, ReaderState
  <2>3. At(u) = At(t) BY <1>1, <1>2 DEF At, ReaderState
  <2> QED BY <1>1, <1>2, <1>3, <1>4, <2>1, <2>2, <2>3 DEF ReaderOK, ReaderState, Hdr, reader_stable_version
<1> QED BY <1>2, <1>4, <1>5, ReaderMoves

(* The tid decides between the record and the older versions.              *)
LEMMA IsNotBehindStep ==
  ASSUME NoWrap, Base, Readings, NEW r \in Readers, is_not_behind(r)
  PROVE  Base' /\ Readings'
<1>1. PICK t, u :
        /\ t = reader[r]
        /\ u = [reader[r] EXCEPT !.pc = IF version <= At(reader[r]) THEN "start" ELSE "next"]
  BY Zenon
<1>2. t \in ReaderState /\ ReaderOK(t) /\ t.pc = "behind" /\ ReaderStep(r, "behind", u)
  BY <1>1 DEF is_not_behind, ReaderStep, Base, TypeOK, Readings
<1>3. /\ hdr \in Hdr /\ version \in Nat /\ next \in Seq(Nat)
      /\ words[1] \in Nat /\ words[2] \in Nat
  BY DEF Base, TypeOK
<1>4. u \in ReaderState BY <1>1, <1>2, <1>3, Zenon DEF ReaderState
<1>5. ReaderOK(u)
  <2>1. AtomicRead(u) BY <1>1, <1>2 DEF AtomicRead, ReaderState
  <2>2. StableRead(u) BY <1>1, <1>2 DEF StableRead, ReaderState
  <2>3. At(u) = At(t) /\ At(t) \in Nat BY <1>1, <1>2 DEF At, ReaderState, FirstTid, NoWrap
  <2>4. u.v = t.v /\ u.seen = t.seen BY <1>1, <1>2 DEF ReaderState
  <2>5. (u.pc = "start" /\ version <= At(t)) \/ (u.pc = "next" /\ version > At(t))
    <3>1. u.pc = IF version <= At(t) THEN "start" ELSE "next"
      BY <1>1, <1>2 DEF ReaderState
    <3> QED BY <1>3, <2>3, <3>1
  <2> QED BY <1>2, <1>3, <2>1, <2>2, <2>3, <2>4, <2>5 DEF ReaderOK
<1> QED BY <1>2, <1>4, <1>5, ReaderMoves

(* The tid is read before the record.                                      *)
LEMMA ReadStartStep ==
  ASSUME NoWrap, Base, Readings, NEW r \in Readers, ReadStart(r)
  PROVE  Base' /\ Readings'
<1>1. PICK t, u :
        /\ t = reader[r]
        /\ u = [reader[r] EXCEPT !.pc = IF reader[r].v.deleting THEN "check" ELSE "word1",
               !.start_t = version]
  OBVIOUS
<1>2. t \in ReaderState /\ ReaderOK(t) /\ t.pc = "start" /\ ReaderStep(r, "start", u)
  BY <1>1 DEF ReadStart, ReaderStep, Base, TypeOK, Readings
<1>3. /\ hdr \in Hdr /\ version \in Nat /\ next \in Seq(Nat)
      /\ words[1] \in Nat /\ words[2] \in Nat
  BY DEF Base, TypeOK
<1>4. u \in ReaderState BY <1>1, <1>2, <1>3, Zenon DEF ReaderState
<1>5. ReaderOK(u)
  <2>1. AtomicRead(u) BY <1>1, <1>2 DEF AtomicRead, ReaderState
  <2>2. StableRead(u) BY <1>1, <1>2 DEF StableRead, ReaderState
  <2>3. At(u) = At(t) BY <1>1, <1>2 DEF At, ReaderState
  <2> QED BY <1>1, <1>2, <1>3, <1>4, <2>1, <2>2, <2>3, SMTT(40) DEF ReaderOK, ReaderState
<1> QED BY <1>2, <1>4, <1>5, ReaderMoves

(* The first word of the record is read.                                   *)
LEMMA ReadWord1Step ==
  ASSUME NoWrap, Base, Readings, NEW r \in Readers, ReadWord1(r)
  PROVE  Base' /\ Readings'
<1>1. PICK t, u :
        /\ t = reader[r]
        /\ u = [reader[r] EXCEPT !.pc = "word2", !.a = words[1]]
  OBVIOUS
<1>2. t \in ReaderState /\ ReaderOK(t) /\ t.pc = "word1" /\ ReaderStep(r, "word1", u)
  BY <1>1 DEF ReadWord1, ReaderStep, Base, TypeOK, Readings
<1>3. /\ hdr \in Hdr /\ version \in Nat /\ next \in Seq(Nat)
      /\ words[1] \in Nat /\ words[2] \in Nat
  BY DEF Base, TypeOK
<1>4. u \in ReaderState BY <1>1, <1>2, <1>3, Zenon DEF ReaderState
<1>5. ReaderOK(u)
  <2>1. AtomicRead(u) BY <1>1, <1>2 DEF AtomicRead, ReaderState
  <2>2. StableRead(u) BY <1>1, <1>2 DEF StableRead, ReaderState
  <2>3. At(u) = At(t) BY <1>1, <1>2 DEF At, ReaderState
  <2> QED BY <1>1, <1>2, <1>3, <1>4, <2>1, <2>2, <2>3 DEF ReaderOK, ReaderState
<1> QED BY <1>2, <1>4, <1>5, ReaderMoves

(* The second word of the record is read.                                  *)
LEMMA ReadWord2Step ==
  ASSUME NoWrap, Base, Readings, NEW r \in Readers, ReadWord2(r)
  PROVE  Base' /\ Readings'
<1>1. PICK t, u :
        /\ t = reader[r]
        /\ u = [reader[r] EXCEPT !.pc = "check", !.b = words[2]]
  OBVIOUS
<1>2. t \in ReaderState /\ ReaderOK(t) /\ t.pc = "word2" /\ ReaderStep(r, "word2", u)
  BY <1>1 DEF ReadWord2, ReaderStep, Base, TypeOK, Readings
<1>3. /\ hdr \in Hdr /\ version \in Nat /\ next \in Seq(Nat)
      /\ words[1] \in Nat /\ words[2] \in Nat
  BY DEF Base, TypeOK
<1>4. u \in ReaderState BY <1>1, <1>2, <1>3, Zenon DEF ReaderState
<1>5. ReaderOK(u)
  <2>1. AtomicRead(u) BY <1>1, <1>2 DEF AtomicRead, ReaderState
  <2>2. StableRead(u) BY <1>1, <1>2 DEF StableRead, ReaderState
  <2>3. At(u) = At(t) BY <1>1, <1>2 DEF At, ReaderState
  <2> QED BY <1>1, <1>2, <1>3, <1>4, <2>1, <2>2, <2>3 DEF ReaderOK, ReaderState
<1> QED BY <1>2, <1>4, <1>5, ReaderMoves

(* The older versions are looked up.                                       *)
LEMMA GetNextStep ==
  ASSUME NoWrap, Base, Readings, NEW r \in Readers, get_next(r)
  PROVE  Base' /\ Readings'
<1>1. PICK t, u :
        /\ t = reader[r]
        /\ u = [reader[r] EXCEPT !.pc = "checknext", !.p = next]
  OBVIOUS
<1>2. t \in ReaderState /\ ReaderOK(t) /\ t.pc = "next" /\ ReaderStep(r, "next", u)
  BY <1>1 DEF get_next, ReaderStep, Base, TypeOK, Readings
<1>3. /\ hdr \in Hdr /\ version \in Nat /\ next \in Seq(Nat)
      /\ words[1] \in Nat /\ words[2] \in Nat
  BY DEF Base, TypeOK
<1>4. u \in ReaderState BY <1>1, <1>2, <1>3, Zenon DEF ReaderState
<1>5. ReaderOK(u)
  <2>1. AtomicRead(u) BY <1>1, <1>2 DEF AtomicRead, ReaderState
  <2>2. StableRead(u) BY <1>1, <1>2 DEF StableRead, ReaderState
  <2>3. At(u) = At(t) BY <1>1, <1>2 DEF At, ReaderState
  <2> QED BY <1>1, <1>2, <1>3, <1>4, <2>1, <2>2, <2>3 DEF ReaderOK, ReaderState
<1> QED BY <1>2, <1>4, <1>5, ReaderMoves

(* A read begins or ends: nothing has been read. *)
LEMMA BeginEndReadStep ==
  ASSUME NoWrap, Base, Readings, NEW r \in Readers,
         (\E snapshot \in BOOLEAN : BeginRead(r, snapshot)) \/ EndRead(r)
  PROVE  Base' /\ Readings'
<1>1. settled \in Record BY DEF Base, TypeOK
<1>2. Idle \in ReaderState /\ ReaderOK(Idle)
  <2>1. NewHdr \in Hdr BY DEF NoWrap, NewHdr, Hdr
  <2>2. Idle \in ReaderState BY <2>1 DEF Idle, ReaderState
  <2>3. Idle.pc = "idle" BY DEF Idle
  <2> QED BY <2>2, <2>3 DEF ReaderOK, AtomicRead, StableRead
<1>3. ASSUME NEW snapshot \in BOOLEAN, BeginRead(r, snapshot) PROVE Base' /\ Readings'
  <2>1. PICK u : u = [Idle EXCEPT !.pc = "stable", !.snapshot = snapshot, !.seen = {settled}]
    OBVIOUS
  <2>2. u \in ReaderState BY <1>1, <1>2, <2>1, Zenon DEF ReaderState
  <2>3. u.pc = "stable" /\ u.seen = {settled} BY <1>2, <2>1 DEF ReaderState
  <2>4. ReaderOK(u) BY <2>3 DEF ReaderOK, AtomicRead, StableRead
  <2>5. ReaderStep(r, "idle", u) BY <1>3, <2>1, Zenon DEF BeginRead
  <2> QED BY <2>2, <2>4, <2>5, ReaderMoves
<1>4. CASE EndRead(r)
  <2>1. PICK from : ReaderStep(r, from, Idle) BY <1>4 DEF EndRead
  <2> QED BY <1>2, <2>1, ReaderMoves
<1> QED BY <1>3, <1>4

(* The same header again: the record read in between is whole, is the      *)
(* current one, and is the snapshot's if a snapshot was asked for.         *)
LEMMA CheckReadStep ==
  ASSUME NoWrap, Base, Readings, NEW r \in Readers, CheckRead(r)
  PROVE  Base' /\ Readings'
<1>1. PICK t : t = reader[r] OBVIOUS
<1>2. t \in ReaderState /\ ReaderOK(t)
  BY <1>1 DEF Base, TypeOK, Readings
<1>3. hdr \in Hdr /\ version \in Nat /\ next \in Seq(Nat) /\ version >= FirstTid
  BY DEF Base, TypeOK, TupleOK
<1>4. ASSUME reader_check_version(t.v), t.pc \in {"check", "checknext"}
      PROVE  /\ ~hdr.modifying /\ hdr.version = t.v.version
             /\ Whole /\ settled = [tid |-> version, deleted |-> hdr.deleting]
             /\ t.v.deleting = hdr.deleting
  BY <1>2, <1>4 DEF reader_check_version, ReaderOK, Base, TupleOK, ReaderState, Hdr
<1>5. ASSUME t.pc \in {"check", "checknext"}, ReaderStep(r, t.pc, [t EXCEPT !.pc = "stable"])
      PROVE  Base' /\ Readings'
  <2>1. PICK u : u = [t EXCEPT !.pc = "stable"] BY Zenon
  <2>2. u \in ReaderState /\ u.pc = "stable" /\ u.seen = t.seen BY <1>2, <2>1 DEF ReaderState
  <2>3. ReaderOK(u) BY <1>2, <1>5, <2>2 DEF ReaderOK, AtomicRead, StableRead
  <2> QED BY <1>5, <2>1, <2>2, <2>3, ReaderMoves
<1>6. ASSUME t.pc = "check", reader_check_version(t.v),
             ReaderStep(r, "check", [t EXCEPT !.pc = "done"])
      PROVE  Base' /\ Readings'
  <2>1. PICK u : u = [t EXCEPT !.pc = "done"] BY Zenon
  <2>2. /\ u \in ReaderState /\ u.pc = "done" /\ u.seen = t.seen /\ u.v = t.v
        /\ u.snapshot = t.snapshot /\ u.a = t.a /\ u.b = t.b /\ u.start_t = t.start_t
    BY <1>2, <2>1 DEF ReaderState
  <2>3. /\ t.start_t = version /\ settled \in t.seen /\ version <= At(t)
        /\ ~t.v.deleting => t.a = words[1] /\ t.b = words[2]
        /\ ~t.v.modifying /\ t.v.version <= hdr.version
    BY <1>2, <1>4, <1>6 DEF ReaderOK
  <2>4. ~t.v.deleting => t.a = version /\ t.b = version
    BY <1>4, <1>6, <2>3 DEF Whole
  <2>5. AtomicRead(u)
    <3>1. [tid |-> u.start_t, deleted |-> u.v.deleting] \in u.seen
      BY <1>4, <1>6, <2>2, <2>3, Zenon
    <3> QED BY <2>2, <2>3, <2>4, <3>1, Zenon DEF AtomicRead
  <2>6. StableRead(u)
    <3> SUFFICES ASSUME t.snapshot
                 PROVE  t.a = FirstTid /\ t.b = FirstTid /\ ~t.v.deleting /\ t.start_t = FirstTid
      BY <2>2 DEF StableRead
    <3>1. version = FirstTid BY <1>3, <2>3 DEF At, FirstTid
    <3>2. ~t.v.deleting BY <1>4, <1>6, <3>1 DEF Whole
    <3> QED BY <2>3, <2>4, <3>1, <3>2
  <2>7. ReaderOK(u) BY <2>2, <2>3, <2>5, <2>6 DEF ReaderOK
  <2> QED BY <1>6, <2>1, <2>2, <2>7, ReaderMoves
<1>7. ASSUME t.pc = "checknext", reader_check_version(t.v), NEW s, s = Newest(t.p, At(t)),
             ReaderStep(r, "checknext", [t EXCEPT !.pc = "older", !.start_t = s])
      PROVE  Base' /\ Readings'
  <2>1. t.p = next /\ version > At(t) /\ settled \in t.seen
        /\ ~t.v.modifying /\ t.v.version <= hdr.version
    BY <1>2, <1>4, <1>7 DEF ReaderOK
  <2>2. At(t) \in Nat BY DEF At, FirstTid, NoWrap
  <2>3. s \in Nat /\ (t.snapshot => s = FirstTid)
    <3>1. CASE \E i \in DOMAIN t.p : t.p[i] <= At(t)
      <4>1. PICK i \in DOMAIN next : s = next[i] /\ next[i] <= At(t)
        BY <1>3, <1>7, <2>1, <2>2, <3>1, NewestAt
      <4>2. next[i] \in Nat /\ next[i] >= FirstTid BY <1>3, <4>1 DEF Base, TupleOK
      <4> QED BY <4>1, <4>2 DEF At, FirstTid
    <3>2. CASE ~ \E i \in DOMAIN t.p : t.p[i] <= At(t)
      <4>1. s = 0 BY <1>7, <3>2, Zenon DEF Newest
      <4>2. ~ t.snapshot
        <5> SUFFICES ASSUME t.snapshot PROVE FALSE OBVIOUS
        <5>1. At(t) = FirstTid BY DEF At
        <5>2. Kept BY <1>3, <2>1, <5>1 DEF Base, TupleOK, FirstTid
        <5> QED BY <2>1, <3>2, <5>1, <5>2 DEF Kept, FirstTid
      <4> QED BY <4>1, <4>2
    <3> QED BY <3>1, <3>2
  <2>4. PICK u : u = [t EXCEPT !.pc = "older", !.start_t = s] OBVIOUS
  <2>5. /\ u \in ReaderState /\ u.pc = "older" /\ u.seen = t.seen /\ u.v = t.v
        /\ u.snapshot = t.snapshot /\ u.start_t = s
    BY <1>2, <2>3, <2>4, Zenon DEF ReaderState
  <2>6. AtomicRead(u) /\ StableRead(u) BY <2>3, <2>5 DEF AtomicRead, StableRead
  <2>7. ReaderOK(u) BY <2>1, <2>5, <2>6 DEF ReaderOK
  <2> QED BY <1>7, <2>4, <2>5, <2>7, ReaderMoves
<1>8. CASE t.pc = "check" /\ ReaderStep(r, "check",
             [t EXCEPT !.pc = IF reader_check_version(t.v) THEN "done" ELSE "stable"])
  BY <1>5, <1>6, <1>8
<1>9. CASE t.pc = "checknext" /\ ReaderStep(r, "checknext",
             IF reader_check_version(t.v)
             THEN [t EXCEPT !.pc = "older", !.start_t = Newest(t.p, At(t))]
             ELSE [t EXCEPT !.pc = "stable"])
  BY <1>5, <1>7, <1>9, Zenon
<1> QED BY <1>1, <1>8, <1>9 DEF CheckRead, ReaderStep

(* A validator's step keeps the invariant when its new locals satisfy it.  *)
LEMMA ValidatorMoves ==
  ASSUME Base, Readings, NEW d \in Readers, NEW from, NEW new,
         ValidatorStep(d, from, new), new \in ValidatorState, ValidatorOK(new)
  PROVE  Base' /\ Readings'
<1>1. /\ valid' = [valid EXCEPT ![d] = new]
      /\ UNCHANGED <<hdr, version, words, next, locks, writer, reader, settled>>
  BY DEF ValidatorStep
<1>2. TypeOK'
  <2>1. valid' \in [Readers -> ValidatorState] BY <1>1 DEF Base, TypeOK
  <2> QED BY <1>1, <2>1 DEF Base, TypeOK
<1>3. TupleOK' BY <1>1, Zenon DEF Base, TupleOK, Whole, Kept
<1>4. ASSUME NEW w \in Writers PROVE WriterOK(w)'
  BY <1>1, Zenon DEF Base, WriterOK, Whole, Kept, NewTid
<1>5. ASSUME NEW q \in Readers PROVE ReaderOK(reader[q])' /\ ValidatorOK(valid[q])'
  <2>1. ReaderOK(reader[q])'
    BY <1>1, Zenon DEF Readings, ReaderOK, AtomicRead, StableRead, At
  <2>2. PICK t : t = valid'[q] OBVIOUS
  <2>3. ValidatorOK(t)
    <3>1. t = new \/ t = valid[q] BY <1>1, <2>2 DEF Base, TypeOK
    <3> QED BY <3>1, Zenon DEF Readings
  <2>4. ValidatorOK(t)' BY <1>1, <2>3, Zenon DEF ValidatorOK
  <2> QED BY <2>1, <2>2, <2>4
<1> QED BY <1>2, <1>3, <1>4, <1>5 DEF Base, Readings

(* Everything a validator does. *)
LEMMA ValidatorSteps ==
  ASSUME NoWrap, Base, Readings, NEW d \in Readers,
         \/ \E t \in FirstTid .. FirstTid + MaxLocks : try_writer_stable_version(d, t)
         \/ ValidateLatest(d) \/ ValidateCheck(d) \/ EndValidate(d)
  PROVE  Base' /\ Readings'
<1>1. hdr \in Hdr /\ version \in Nat /\ valid[d] \in ValidatorState /\ ValidatorOK(valid[d])
  BY DEF Base, TypeOK, Readings
<1>2. ASSUME NEW u \in ValidatorState, u.pc \in {"idle", "true", "false"} PROVE ValidatorOK(u)
  BY <1>2 DEF ValidatorOK
<1>3. IdleValidator \in ValidatorState /\ IdleValidator.pc = "idle"
  BY DEF NoWrap, IdleValidator, NewHdr, Hdr, ValidatorState
<1>4. ASSUME NEW t \in FirstTid .. FirstTid + MaxLocks, try_writer_stable_version(d, t)
      PROVE  Base' /\ Readings'
  <2>1. CASE hdr.write_intent
    <3>1. PICK u : u = [IdleValidator EXCEPT !.pc = "false"] BY Zenon
    <3>2. u \in ValidatorState /\ u.pc = "false" BY <1>3, <3>1 DEF ValidatorState
    <3>3. ValidatorStep(d, "idle", u) BY <1>4, <2>1, <3>1 DEF try_writer_stable_version
    <3> QED BY <1>2, <3>2, <3>3, ValidatorMoves
  <2>2. CASE ~hdr.write_intent
    <3>1. PICK u : u = [pc |-> "latest", v |-> hdr, t |-> t] BY Zenon
    <3>2. t \in Nat BY DEF FirstTid, NoWrap
    <3>3. u \in ValidatorState BY <1>1, <3>1, <3>2 DEF ValidatorState
    <3>4. ValidatorOK(u) BY <1>1, <2>2, <3>1 DEF ValidatorOK, Hdr
    <3>5. ValidatorStep(d, "idle", u) BY <1>4, <2>2, <3>1 DEF try_writer_stable_version
    <3> QED BY <3>3, <3>4, <3>5, ValidatorMoves
  <2> QED BY <2>1, <2>2
<1>5. CASE ValidateLatest(d)
  <2>1. PICK u : u = [valid[d] EXCEPT !.pc = IF valid[d].v.latest /\ version <= valid[d].t
                                             THEN "check" ELSE "false"]
    BY Zenon
  <2>2. valid[d].pc = "latest" /\ ValidatorStep(d, "latest", u)
    BY <1>5, <2>1 DEF ValidateLatest, ValidatorStep
  <2>3. u \in ValidatorState BY <1>1, <2>1 DEF ValidatorState
  <2>4. ValidatorOK(u) BY <1>1, <2>1, <2>2 DEF ValidatorOK, ValidatorState
  <2> QED BY <2>2, <2>3, <2>4, ValidatorMoves
<1>6. CASE ValidateCheck(d)
  <2>1. PICK u : u = [valid[d] EXCEPT !.pc = IF writer_check_version(valid[d].v)
                                             THEN "true" ELSE "false"]
    BY Zenon
  <2>2. ValidatorStep(d, "check", u) BY <1>6, <2>1 DEF ValidateCheck
  <2>3. u \in ValidatorState /\ u.pc \in {"true", "false"} BY <1>1, <2>1 DEF ValidatorState
  <2> QED BY <1>2, <2>2, <2>3, ValidatorMoves
<1>7. CASE EndValidate(d)
  <2>1. PICK from : ValidatorStep(d, from, IdleValidator) BY <1>7 DEF EndValidate
  <2> QED BY <1>2, <1>3, <2>1, ValidatorMoves
<1> QED BY <1>4, <1>5, <1>6, <1>7

(* Every step keeps the invariant. *)
LEMMA TupleNext == ASSUME NoWrap, TupleInv, [Next]_vars PROVE TupleInv'
<1> SUFFICES Base' /\ Readings' BY DEF TupleInv, Base, Readings
<1>1. Base /\ Readings BY DEF TupleInv, Base, Readings
<1>2. ASSUME Base', Frame, UNCHANGED <<reader, valid, settled>> PROVE Base' /\ Readings'
  BY <1>1, <1>2, FrameReadings DEF Base
<1>3. ASSUME NEW w \in Writers, NEW intent \in BOOLEAN, lock(w, intent)
      PROVE  Base' /\ Readings'
  BY <1>1, <1>2, <1>3, LockStep
<1>4. ASSUME NEW w \in Writers, WriterNext(w) PROVE Base' /\ Readings'
  <2>1. CASE GiveUp(w) BY <1>1, <1>2, <2>1, GiveUpStep
  <2>2. CASE BeginWrite(w) BY <1>1, <1>2, <2>2, BeginWriteStep
  <2>3. ASSUME NEW keep \in BOOLEAN, Spill(w, keep) PROVE Base' /\ Readings'
    BY <1>1, <1>2, <2>3, SpillStep
  <2>4. CASE WriteWord(w, 1) BY <1>1, <1>2, <2>4, WriteWord1Step
  <2>5. CASE WriteWord(w, 2) BY <1>1, <1>2, <2>5, WriteWord2Step
  <2>6. CASE WriteNothing(w) BY <1>1, <1>2, <2>6, WriteNothingStep
  <2>7. CASE WriteTid(w) BY <1>1, <1>2, <2>7, WriteTidStep
  <2>8. CASE mark_deleting(w) BY <1>1, <1>2, <2>8, MarkDeletingStep
  <2>9. CASE clear_latest(w) BY <1>1, <1>2, <2>9, ClearLatestStep
  <2>10. CASE unlock(w) BY <1>1, <2>10, UnlockStep
  <2>11. ASSUME NEW i \in 1 .. 2, WriteWord(w, i) PROVE Base' /\ Readings'
    <3>1. i = 1 \/ i = 2 OBVIOUS
    <3> QED BY <2>4, <2>5, <2>11, <3>1
  <2> QED BY <1>4, <2>1, <2>2, <2>3, <2>6, <2>7, <2>8, <2>9, <2>10, <2>11 DEF WriterNext
<1>5. ASSUME NEW r \in Readers, ReaderNext(r) PROVE Base' /\ Readings'
  BY <1>1, <1>5, StableVersionStep, IsNotBehindStep, ReadStartStep, ReadWord1Step,
     ReadWord2Step, GetNextStep, CheckReadStep DEF ReaderNext
<1>6. ASSUME NEW r \in Readers,
             (\E snapshot \in BOOLEAN : BeginRead(r, snapshot)) \/ EndRead(r)
      PROVE  Base' /\ Readings'
  BY <1>1, <1>6, BeginEndReadStep
<1>7. ASSUME NEW r \in Readers,
             \/ \E t \in FirstTid .. FirstTid + MaxLocks : try_writer_stable_version(r, t)
             \/ ValidateLatest(r) \/ ValidateCheck(r) \/ EndValidate(r)
      PROVE  Base' /\ Readings'
  BY <1>1, <1>7, ValidatorSteps
<1>8. CASE UNCHANGED vars
  <2>1. Frame BY <1>1, <1>8 DEF Frame, vars, Base, TypeOK, Hdr
  <2>2. TypeOK' BY <1>1, <1>8 DEF Base, TypeOK, vars
  <2>3. Base' BY <1>1, <1>8, <2>2, Zenon DEF Base, TupleOK, WriterOK, Whole, Kept, NewTid, vars
  <2> QED BY <1>2, <1>8, <2>1, <2>3 DEF vars
<1> QED BY <1>3, <1>4, <1>5, <1>6, <1>7, <1>8 DEF Next

(* The inductive invariant of the header protocol: for any number of       *)
(* threads, while a version number is not used twice, a header seen again  *)
(* unchanged means that the record was not changed between.                *)
THEOREM TupleInvariant == ASSUME NoWrap PROVE Spec => []TupleInv
<1>1. Init => TupleInv BY TupleInit
<1>2. TupleInv /\ [Next]_vars => TupleInv' BY TupleNext
<1> QED BY <1>1, <1>2, PTL DEF Spec

(* record_at never returns a torn record, nor one that was not the current *)
(* record at some moment of the read.                                      *)
THEOREM ReadsAtomic == ASSUME NoWrap PROVE Spec => []ReadsAreAtomic
<1>1. TupleInv => ReadsAreAtomic BY DEF TupleInv, ReaderOK, ReadsAreAtomic
<1> QED BY <1>1, TupleInvariant, PTL

(* A snapshot read returns the snapshot's version, whatever is written to  *)
(* the tuple meanwhile.                                                    *)
THEOREM SnapshotsStable == ASSUME NoWrap PROVE Spec => []SnapshotReadsAreStable
<1>1. TupleInv => SnapshotReadsAreStable BY DEF TupleInv, ReaderOK, SnapshotReadsAreStable
<1> QED BY <1>1, TupleInvariant, PTL

(* When stable_is_latest_version says yes, the tuple is the latest, is not *)
(* about to be written, and is not newer than what was read.               *)
THEOREM ValidationSound == ASSUME NoWrap PROVE Spec => ValidationIsSound
<1> DEFINE Sound == \A d \in Readers : valid[d].pc = "check" /\ valid'[d].pc = "true" =>
                       hdr.latest /\ ~hdr.write_intent /\ version <= valid[d].t
<1>1. TupleInv /\ [Next]_vars => [Sound]_vars
  <2> SUFFICES ASSUME TupleInv, Next, NEW d \in Readers,
                      valid[d].pc = "check", valid'[d].pc = "true"
               PROVE  hdr.latest /\ ~hdr.write_intent /\ version <= valid[d].t
    OBVIOUS
  <2>1. valid \in [Readers -> ValidatorState] /\ ValidatorOK(valid[d]) /\ hdr \in Hdr
    BY DEF TupleInv, TypeOK
  <2>2. valid' # valid BY SMTT(40)
  <2>3. ASSUME NEW w \in Writers, (\E intent \in BOOLEAN : lock(w, intent)) \/ WriterNext(w)
        PROVE  FALSE
    BY <2>2, <2>3, ZenonT(40)
         DEF WriterNext, lock, GiveUp, BeginWrite, Spill, WriteWord, WriteNothing,
       WriteTid, mark_deleting, clear_latest, unlock
  <2>4. ASSUME NEW r \in Readers,
               \/ \E snapshot \in BOOLEAN : BeginRead(r, snapshot)
               \/ ReaderNext(r) \/ EndRead(r)
        PROVE  FALSE
    BY <2>2, <2>4, Zenon DEF ReaderNext, BeginRead, EndRead, reader_stable_version, is_not_behind,
       ReadStart, ReadWord1, ReadWord2, get_next, CheckRead, ReaderStep
  <2>5. ASSUME NEW r \in Readers, NEW from, NEW new, ValidatorStep(r, from, new)
        PROVE  r = d /\ from = "check"
    BY <2>1, <2>5 DEF ValidatorStep
  <2>6. ASSUME NEW r \in Readers,
               \/ \E t \in FirstTid .. FirstTid + MaxLocks : try_writer_stable_version(r, t)
               \/ ValidateLatest(r) \/ EndValidate(r)
        PROVE  FALSE
    <3>1. \E from \in {"idle", "latest", "true", "false"} : \E new : ValidatorStep(r, from, new)
      BY <2>6, Zenon DEF try_writer_stable_version, ValidateLatest, EndValidate
    <3> QED BY <2>5, <3>1
  <2>7. ValidateCheck(d)
    BY <2>3, <2>4, <2>5, <2>6, Zenon DEF Next, ValidateCheck
  <2>8. hdr = valid[d].v
    BY <2>1, <2>7 DEF ValidateCheck, ValidatorStep, writer_check_version, ValidatorState
  <2> QED BY <2>1, <2>8 DEF ValidatorOK
<1> QED BY <1>1, TupleInvariant, PTL DEF Spec, ValidationIsSound

-----------------------------------------------------------------------------
(* Core ids *)

(* Rounding up to a multiple never rounds down (util.h, slow_round_up). *)
LEMMA RoundUp ==
  ASSUME NEW x \in Nat, NEW q \in Nat \ {0}
  PROVE  slow_round_up(x, q) \in Nat /\ slow_round_up(x, q) >= x
<1>1. x % q \in 0 .. q - 1
  OBVIOUS
<1> QED
  BY <1>1 DEF slow_round_up

(* At the start no id is given out. *)
LEMMA IdsInit == IdInit => IdsHaveOnePlace
<1> SUFFICES ASSUME IdInit PROVE IdsHaveOnePlace
  OBVIOUS
<1>1. IdTypeOK
  BY Zenon DEF IdInit, IdTypeOK
<1>2. ASSUME NEW t \in Threads PROVE ThreadIds(t)
  BY CoreIdsAssumption DEF IdInit, ThreadIds
<1> QED
  BY <1>1, <1>2 DEF IdInit, IdsHaveOnePlace, WorkerIds, SlotsArePrivate

(* A thread without an id takes the counter, which no id has reached yet. *)
LEMMA CoreIdStep ==
  ASSUME IdsHaveOnePlace, ~aborted, NEW t \in Threads, core_id(t) \/ core_id_check(t)
  PROVE  IdsHaveOnePlace'
<1> USE DEF IdsHaveOnePlace
<1>1. CASE core_id(t)
  <2>1. IdTypeOK'
    BY <1>1 DEF core_id, IdTypeOK
  <2>2. ASSUME NEW u \in Threads PROVE ThreadIds(u)'
    BY <1>1 DEF core_id, IdTypeOK, ThreadIds, WorkerIds, blockstart
  <2>3. WorkerIds'
    BY <1>1 DEF core_id, IdTypeOK, WorkerIds
  <2>4. ASSUME NEW p \in users PROVE UserIds(p)'
    BY <1>1 DEF core_id, IdTypeOK, UserIds
  <2> QED
    BY <1>1, <2>1, <2>2, <2>3, <2>4 DEF core_id, SlotsArePrivate
<1>2. CASE core_id_check(t)
  <2>1. IdTypeOK'
    BY <1>2 DEF core_id_check, IdTypeOK
  <2>2. ASSUME NEW u \in Threads PROVE ThreadIds(u)'
    BY <1>2, Zenon DEF core_id_check, IdTypeOK, ThreadIds, blockstart
  <2>3. WorkerIds'
    BY <1>2 DEF core_id_check, WorkerIds
  <2>4. ASSUME NEW p \in users PROVE UserIds(p)'
    BY <1>2 DEF core_id_check, UserIds
  <2> QED
    BY <1>2, <2>1, <2>2, <2>3, <2>4 DEF core_id_check, SlotsArePrivate
<1> QED
  BY <1>1, <1>2

(* A thread uses the slot of its own id. *)
LEMMA MyStep ==
  ASSUME IdsHaveOnePlace, ~aborted, NEW t \in Threads, my(t)
  PROVE  IdsHaveOnePlace'
<1> USE DEF IdsHaveOnePlace, my
<1> DEFINE new == <<tl_core_id[t], t>>
<1>1. /\ new[1] = tl_core_id[t] /\ new[2] = t
      /\ tl_core_id[t] \in Nat /\ new \in Nat \X Threads
  BY DEF IdTypeOK
<1>2. IdTypeOK'
  BY <1>1 DEF IdTypeOK
<1>3. ASSUME NEW u \in Threads PROVE ThreadIds(u)'
  BY DEF IdTypeOK, ThreadIds, blockstart
<1>4. WorkerIds'
  BY DEF WorkerIds
<1>5. ASSUME NEW p \in users' PROVE UserIds(p)'
  <2>1. CASE p \in users
    BY <2>1 DEF UserIds
  <2>2. CASE p = new
    BY <1>1, <2>2 DEF IdTypeOK, ThreadIds, UserIds
  <2> QED
    BY <2>1, <2>2
<1>6. SlotsArePrivate'
  <2>1. ASSUME NEW p \in users' PROVE p[1] < NMaxCores
    BY <1>1 DEF ThreadIds, SlotsArePrivate
  <2>2. ASSUME NEW p \in users', NEW q \in users', p[1] = q[1] PROVE p[2] = q[2]
    BY <1>1, <2>2 DEF UserIds, SlotsArePrivate
  <2> QED
    BY <2>1, <2>2 DEF SlotsArePrivate
<1> QED
  BY <1>2, <1>3, <1>4, <1>5, <1>6

(* Loading the counter, and losing the compare-and-swap, give out no id. *)
LEMMA LoadStep ==
  ASSUME IdsHaveOnePlace, ~aborted, NEW t \in Threads, load_count(t) \/ swap_fails(t)
  PROVE  IdsHaveOnePlace'
<1> USE DEF IdsHaveOnePlace
<1>1. CASE load_count(t)
  <2> DEFINE r == slow_round_up(g_core_count, num_cpus_online)
  <2>1. r \in Nat /\ nthreads \in Nat /\ NMaxCores \in Nat
    BY RoundUp, CoreIdsAssumption DEF IdTypeOK
  <2>2. aborted' = (r + nthreads > NMaxCores)
    BY <1>1 DEF load_count
  <2>3. ASSUME NEW u \in Threads, u # t PROVE blockstart(u)' = blockstart(u)
    BY <1>1, <2>3 DEF load_count, IdTypeOK, blockstart
  <2>4. blockstart(t)' = r
    BY <1>1 DEF load_count, IdTypeOK, blockstart
  <2> HIDE DEF r
  <2>5. aborted' \in BOOLEAN
    BY <2>2
  <2>6. IdTypeOK'
    BY <1>1, <2>5 DEF load_count, IdTypeOK
  <2>7. ~aborted' => r + nthreads <= NMaxCores
    <3>1. ~aborted' => ~(r + nthreads > NMaxCores)
      BY <2>2, Zenon
    <3> QED
      BY <2>1, <3>1
  <2>8. ASSUME NEW u \in Threads PROVE ThreadIds(u)'
    BY <1>1, <2>3, <2>4, <2>7 DEF load_count, IdTypeOK, ThreadIds
  <2>9. WorkerIds' /\ \A p \in users : UserIds(p)'
    BY <1>1 DEF load_count, WorkerIds, UserIds
  <2> QED
    BY <1>1, <2>6, <2>8, <2>9 DEF load_count, SlotsArePrivate
<1>2. CASE swap_fails(t)
  <2>1. IdTypeOK'
    BY <1>2 DEF swap_fails, IdTypeOK
  <2>2. ASSUME NEW u \in Threads PROVE ThreadIds(u)'
    BY <1>2 DEF swap_fails, IdTypeOK, ThreadIds, blockstart
  <2>3. WorkerIds' /\ \A p \in users : UserIds(p)'
    BY <1>2 DEF swap_fails, WorkerIds, UserIds
  <2> QED
    BY <1>2, <2>1, <2>2, <2>3 DEF swap_fails, SlotsArePrivate
<1> QED
  BY <1>1, <1>2

(* A block begins at or after the counter and ends where the counter is    *)
(* put, so its ids are new.                                                *)
LEMMA SwapStep ==
  ASSUME IdsHaveOnePlace, ~aborted, NEW t \in Threads, swap_count(t)
  PROVE  IdsHaveOnePlace'
<1> USE DEF IdsHaveOnePlace, swap_count
<1> DEFINE b == blockstart(t)
<1>1. b \in Nat /\ b >= g_core_count /\ b + nthreads <= NMaxCores
  BY RoundUp, CoreIdsAssumption DEF IdTypeOK, ThreadIds, blockstart
<1>2. nthreads \in Nat /\ NMaxCores \in Nat /\ g_core_count \in Nat
  BY CoreIdsAssumption DEF IdTypeOK
<1>3. \A i \in b .. b + nthreads - 1 : i \in Nat /\ g_core_count <= i /\ i < b + nthreads
  BY <1>1, <1>2
<1> HIDE DEF b
<1>4. g_core_count' = b + nthreads /\ workers' = workers \cup b .. b + nthreads - 1
  BY DEF b
<1>5. IdTypeOK'
  <2>1. aborted' \in BOOLEAN
    OBVIOUS
  <2>2. workers' \subseteq Nat
    BY <1>3, <1>4, Zenon DEF IdTypeOK
  <2>3. g_core_count' \in Nat
    BY <1>1, <1>2, <1>4
  <2>4. pc' \in [Threads -> {"run", "check", "retry", "swap"}]
    BY DEF IdTypeOK
  <2> QED
    BY <2>1, <2>2, <2>3, <2>4 DEF IdTypeOK
<1>6. ASSUME NEW u \in Threads PROVE ThreadIds(u)'
  BY <1>1, <1>2, <1>3, <1>4 DEF IdTypeOK, ThreadIds, blockstart
<1>7. WorkerIds'
  BY <1>1, <1>2, <1>3, <1>4 DEF IdTypeOK, WorkerIds
<1>8. ASSUME NEW p \in users PROVE UserIds(p)'
  BY <1>1, <1>2, <1>3, <1>4 DEF IdTypeOK, UserIds
<1> QED
  BY <1>5, <1>6, <1>7, <1>8 DEF SlotsArePrivate

(* A worker's thread takes the id that was kept for it. *)
LEMMA SetStep ==
  ASSUME IdsHaveOnePlace, ~aborted, NEW t \in Threads,
         NEW cid \in workers, set_core_id(t, cid)
  PROVE  IdsHaveOnePlace'
<1> USE DEF IdsHaveOnePlace, set_core_id
<1>1. IdTypeOK'
  BY DEF IdTypeOK
<1>2. ASSUME NEW u \in Threads PROVE ThreadIds(u)'
  BY DEF IdTypeOK, ThreadIds, WorkerIds, blockstart
<1>3. WorkerIds'
  BY DEF WorkerIds
<1>4. ASSUME NEW p \in users PROVE UserIds(p)'
  BY DEF IdTypeOK, UserIds
<1> QED
  BY <1>1, <1>2, <1>3, <1>4 DEF SlotsArePrivate

(* The places of the ids are an invariant of core_id, my,                  *)
(* allocate_contiguous_aligned_block and set_core_id in any interleaving.  *)
THEOREM IdsInvariant == IdSpec => []IdsHaveOnePlace
<1>1. IdsHaveOnePlace /\ [IdNext]_idvars => IdsHaveOnePlace'
  <2> SUFFICES ASSUME IdsHaveOnePlace, [IdNext]_idvars PROVE IdsHaveOnePlace'
    OBVIOUS
  <2>1. CASE IdNext
    BY <2>1, CoreIdStep, MyStep, LoadStep, SwapStep, SetStep DEF IdNext
  <2>2. CASE UNCHANGED idvars
    BY <2>2 DEF idvars, IdsHaveOnePlace, IdTypeOK, ThreadIds, WorkerIds, UserIds,
                SlotsArePrivate, blockstart
  <2> QED
    BY <2>1, <2>2
<1> QED
  BY IdsInit, <1>1, PTL DEF IdSpec

(* No two threads ever use the same slot of a percore array, and no thread *)
(* uses one past its end.                                                  *)
THEOREM SlotsAlwaysPrivate == IdSpec => []SlotsArePrivate
<1>1. IdsHaveOnePlace => SlotsArePrivate
  BY DEF IdsHaveOnePlace
<1> QED
  BY IdsInvariant, <1>1, PTL
=============================================================================
