---- MODULE Seqlock ----
(***************************************************************************)
(* src/runtime/seqlock_ebr_spike.c, section 1: readers copy a block of     *)
(* metadata without a lock and compare two readings of a sequence number,  *)
(* odd while the one writer is at work.  A step is one access to shared    *)
(* memory, in the order the fences keep; the single-threaded build is the  *)
(* case in which the accesses of a call are not interrupted.               *)
(***************************************************************************)
EXTENDS Naturals

CONSTANTS
  SeqReaders,    \* the threads that call asx_seqlock_read
  Words,         \* number of parts the block is copied in
  MaxRetries,    \* max_retries of asx_seqlock_read
  MaxWrites      \* bound on the writes: the sequence does not wrap here

ASSUME SeqlockAssumption ==
  /\ Words \in Nat \ {0} /\ MaxRetries \in Nat \ {0} /\ MaxWrites \in Nat

WordIndex == 1 .. Words
Versions == 0 .. MaxWrites
Sequences == 0 .. 2 * MaxWrites

VARIABLES
  block,        \* sequence and data; each write stores its number in every word
  writing,      \* words the writer has still to store, 0 between writes
  readers       \* locals of each reader
seqlockVars == <<block, writing, readers>>

\* "since" is no variable of the code: the last version complete when the read was called.
Reader == [pc : {"idle", "first", "copy", "second", "test"}, s1 : Sequences, s2 : Sequences,
           word : 1 .. Words + 1, copy : [WordIndex -> Versions], retries : 0 .. MaxRetries,
           result : {0, 1}, since : Versions]

NoRead == [pc |-> "idle", s1 |-> 0, s2 |-> 0, word |-> 1, copy |-> [w \in WordIndex |-> 0],
           retries |-> 0, result |-> 0, since |-> 0]

SeqlockTypeOK ==
  /\ block \in [sequence : Sequences, data : [WordIndex -> Versions]]
  /\ writing \in 0 .. Words + 1
  /\ readers \in [SeqReaders -> Reader]

\* asx_seqlock_init zeroes the block.
SeqlockInit ==
  /\ block = [sequence |-> 0, data |-> [w \in WordIndex |-> 0]]
  /\ writing = 0
  /\ readers = [r \in SeqReaders |-> NoRead]

IsOdd(n) == n % 2 = 1
Complete == block.sequence \div 2      \* number of writes that have ended

----------------------------------------------------------------------------
(* The writer *)

WriteBegin ==
  /\ writing = 0 /\ Complete < MaxWrites
  /\ block' = [block EXCEPT !.sequence = @ + 1]
  /\ writing' = Words + 1
  /\ UNCHANGED readers

\* One part of the memcpy of asx_seqlock_write.
WriteWord ==
  /\ writing > 1
  /\ block' = [block EXCEPT !.data[writing - 1] = Complete + 1]
  /\ writing' = writing - 1
  /\ UNCHANGED readers

WriteEnd ==
  /\ writing = 1
  /\ block' = [block EXCEPT !.sequence = @ + 1]
  /\ writing' = 0
  /\ UNCHANGED readers

----------------------------------------------------------------------------
(* A reader *)

Becomes(r, locals) == readers' = [readers EXCEPT ![r] = locals] /\ UNCHANGED <<block, writing>>

\* s2 is not initialized.
ReadCall(r) ==
  /\ readers[r].pc = "idle"
  /\ \E garbage \in Sequences :
       Becomes(r, [NoRead EXCEPT !.pc = "first", !.s2 = garbage, !.since = Complete])

\* A retry more, or the call gives up.
Retried(locals, next) ==
  IF locals.retries + 1 >= MaxRetries
  THEN [locals EXCEPT !.pc = "idle", !.retries = @ + 1, !.result = 0]
  ELSE [locals EXCEPT !.pc = next, !.retries = @ + 1]

ReadFirst_IgnoresOdd(r) ==
  /\ readers[r].pc = "first"
  /\ Becomes(r, [readers[r] EXCEPT !.s1 = block.sequence, !.word = 1, !.pc = "copy"])
\* An odd sequence goes to the loop condition without a copy or a second reading.
ReadFirst(r) ==
  LET locals == [readers[r] EXCEPT !.s1 = block.sequence, !.word = 1]
  IN  /\ readers[r].pc = "first"
      /\ Becomes(r, IF IsOdd(block.sequence) THEN Retried(locals, "test")
                    ELSE [locals EXCEPT !.pc = "copy"])

ReadWord(r) ==
  /\ readers[r].pc = "copy"
  /\ LET w == readers[r].word
     IN  Becomes(r, [readers[r] EXCEPT !.copy[w] = block.data[w], !.word = w + 1,
                                       !.pc = IF w = Words THEN "second" ELSE "copy"])

ReadSecond(r) ==
  LET locals == [readers[r] EXCEPT !.s2 = block.sequence]
  IN  /\ readers[r].pc = "second"
      /\ Becomes(r, IF locals.s1 # locals.s2 THEN Retried(locals, "test")
                    ELSE [locals EXCEPT !.pc = "test"])

\* The loop condition and the return.
ReadTest(r) ==
  /\ readers[r].pc = "test"
  /\ Becomes(r, IF readers[r].s1 # readers[r].s2 THEN [readers[r] EXCEPT !.pc = "first"]
                ELSE [readers[r] EXCEPT !.pc = "idle",
                                        !.result = IF readers[r].retries = 0 THEN 1 ELSE 0])

SeqlockNext ==
  \/ WriteBegin \/ WriteWord \/ WriteEnd
  \/ \E r \in SeqReaders : ReadCall(r) \/ ReadFirst(r) \/ ReadWord(r) \/ ReadSecond(r) \/ ReadTest(r)

SeqlockSpec == SeqlockInit /\ [][SeqlockNext]_seqlockVars

----------------------------------------------------------------------------
(* Properties *)

\* A read that reports 1 has one whole version, no older than the last one complete when
\* it was called; not even the uninitialized s2 makes it accept a block half written.
AcceptedReadIsWhole ==
  \A r \in SeqReaders : readers[r].pc = "idle" /\ readers[r].result = 1 =>
    \E v \in readers[r].since .. MaxWrites : readers[r].copy = [w \in WordIndex |-> v]
====
