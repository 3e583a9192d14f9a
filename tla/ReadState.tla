----------------------------- MODULE ReadState -----------------------------
(***************************************************************************)
(* What a user has read in one chat: the sequence numbers, their mirror in *)
(* PostgreSQL that the persister keeps (pkg/pgstore/chats.go               *)
(* Sequences.Advance), the read pointer several devices move               *)
(* (services/chat-service/internal/service.go handleMarkRead,              *)
(* Members.MarkRead) and the unread count computed from the two.           *)
(***************************************************************************)
EXTENDS FiniteSets, Naturals

CONSTANTS Marks,        \* mark-read requests, of several devices of one user
          TopSeq,       \* bound: sequence numbers handed out
          MaxReadFaults \* bound: failed lookups

ASSUME ReadAssumption == TopSeq \in Nat /\ MaxReadFaults \in Nat

VARIABLES fate,       \* what became of a sequence number
          acked,      \* numbers whose record the persister has finished
          rowMax,     \* chat_sequences.max_seq
          lastRead,   \* chat_members.last_read_seq
          mark,       \* the mark-read requests
          readFaults

pointerVars == <<fate, acked, rowMax, lastRead, mark, readFaults>>

ReadTypeOK ==
  /\ fate \in [1..TopSeq -> {"none", "queued", "stored", "burned"}]
  /\ acked \subseteq 1..TopSeq /\ rowMax \in 0..TopSeq /\ lastRead \in 0..TopSeq
  /\ \A m \in Marks : mark[m].pc \in {"new", "max", "done"}
  /\ readFaults \in 0..MaxReadFaults

ReadInit ==
  /\ fate = [n \in 1..TopSeq |-> "none"] /\ acked = {} /\ rowMax = 0 /\ lastRead = 0
  /\ mark = [m \in Marks |-> [pc |-> "new", seq |-> 0, owed |-> {}, unread |-> 0,
                              failed |-> FALSE]]
  /\ readFaults = 0

ReadFault == readFaults < MaxReadFaults /\ readFaults' = readFaults + 1
Greatest(a, b) == IF a >= b THEN a ELSE b

Handed == {n \in 1..TopSeq : fate[n] # "none"}

\* A send takes the next number; the number is burned when its publish fails.
TakeNumber ==
  /\ Cardinality(Handed) < TopSeq
  /\ \E f \in {"queued", "burned"} :
       fate' = [fate EXCEPT ![Cardinality(Handed) + 1] = f]
  /\ UNCHANGED <<acked, rowMax, lastRead, mark, readFaults>>

\* The persister stores a record; concurrent sends may have published theirs in
\* another order than that of their numbers ...
Store(n) ==
  /\ fate[n] = "queued"
  /\ fate' = [fate EXCEPT ![n] = "stored"]
  /\ UNCHANGED <<acked, rowMax, lastRead, mark, readFaults>>

\* Mutant of Advance: the column is assigned the number of the record.
AdvanceAssigns(n) ==
  /\ fate[n] = "stored"
  /\ rowMax' = n /\ acked' = acked \union {n}
  /\ UNCHANGED <<fate, lastRead, mark, readFaults>>

\* ... and mirrors its number; a redelivered record does so again.
Advance(n) ==
  /\ fate[n] = "stored"
  /\ rowMax' = Greatest(rowMax, n) /\ acked' = acked \union {n}
  /\ UNCHANGED <<fate, lastRead, mark, readFaults>>

Unread(max, read) == IF max > read THEN max - read ELSE 0

\* Members.MarkRead: GREATEST of the stored pointer and the number reported.
MarkRead(n) == Greatest(lastRead, n)

\* handleMarkRead up to Members.MarkRead: a device reports a message it has been
\* pushed, which may not be stored yet.
MarkPointer(m, n) ==
  /\ mark[m].pc = "new" /\ fate[n] \in {"queued", "stored"}
  /\ LET newSeq == MarkRead(n)
     IN /\ lastRead' = newSeq
        /\ mark' = [mark EXCEPT ![m].pc = "max", ![m].seq = newSeq,
                                ![m].owed = {k \in acked : k > newSeq}]
  /\ UNCHANGED <<fate, acked, rowMax, readFaults>>

\* handleMarkRead from Sequences.Max on; a failed lookup counts as zero.
MarkAnswer(m) ==
  /\ mark[m].pc = "max"
  /\ \/ /\ mark' = [mark EXCEPT ![m].pc = "done",
                                ![m].unread = Unread(rowMax, mark[m].seq)]
        /\ UNCHANGED readFaults
     \/ /\ ReadFault
        /\ mark' = [mark EXCEPT ![m].pc = "done", ![m].failed = TRUE]
  /\ UNCHANGED <<fate, acked, rowMax, lastRead>>

ReadNext ==
  \/ TakeNumber
  \/ \E n \in 1..TopSeq : Store(n) \/ Advance(n) \/ \E m \in Marks : MarkPointer(m, n)
  \/ \E m \in Marks : MarkAnswer(m)

ReadSpec == ReadInit /\ [][ReadNext]_pointerVars

(***************************************************************************)
(* Properties.                                                             *)
(***************************************************************************)
\* The unread count never hides a message: the chat list, and the answer of
\* handleMarkRead unless its lookup failed, count at least every message above
\* the pointer that the persister had finished, whatever records it redelivers
\* and in whatever order devices report.  (It may count burned numbers.)
UnreadHidesNothing ==
  /\ ReadTypeOK
  /\ Unread(rowMax, lastRead) >= Cardinality({n \in acked : n > lastRead})
  /\ \A m \in Marks : mark[m].pc = "done" /\ ~mark[m].failed
                        => mark[m].unread >= Cardinality(mark[m].owed)

\* Two devices reporting out of order never move the read pointer back
\* (Members.MarkRead).
ReadNeverRegresses == [][lastRead' >= lastRead]_lastRead
=============================================================================
