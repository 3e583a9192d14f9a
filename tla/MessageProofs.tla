--------------------------- MODULE MessageProofs ---------------------------
(***************************************************************************)
(* Proofs about the life of a message (handleSendMessage, the persister,   *)
(* edits, deletes and getDifference), for any requests, retries, faults    *)
(* and page sizes: PersistedIsReadable, AnsweredIsKept, RowsStand and      *)
(* CatchUpProgresses.                                                      *)
(***************************************************************************)
EXTENDS MessagePipeline, FiniteSetTheorems, WellFoundedInduction, TLAPS

\* Numbers are handed out once, the last of them is the counter, and a request
\* has its answer exactly when it is done.
Numbered ==
  /\ counter = Cardinality({c \in Calls : callSeq[c] # 0})
  /\ \A c \in Calls :
       /\ callSeq[c] <= counter
       /\ pc[c] \in {"idle", "allocate"} => callSeq[c] = 0
       /\ pc[c] = "publish" => callSeq[c] # 0
       /\ pc[c] # "done" => reply[c] = None
  /\ \A c, d \in Calls : callSeq[c] = callSeq[d] => c = d \/ callSeq[c] = 0

\* An answer of "duplicate" carries a number.
AnsweredSeq ==
  \A c \in Calls : reply[c] # None /\ reply[c].kind = "duplicate" => reply[c].seq # 0

\* The log holds numbered messages, among them all that were accepted.
Logged ==
  /\ \A i \in 1..Len(raw) : callSeq[raw[i]] # 0
  /\ \A c \in Calls : reply[c] # None /\ reply[c].kind = "ok" => \E i \in 1..Len(raw) : raw[i] = c

Settled == persistedLog \union deadLetters

\* What the persister has passed is settled; the record it holds has had the write
\* before the one it is at.
Handled ==
  /\ stage # "fetch" => pos <= Len(raw)
  /\ \A i \in 1..(pos - 1) : raw[i] \in Settled
  /\ stage = "commit" => Current \in Settled
  /\ \A w \in Range(Writes) : stage = After(w) /\ stage # "commit" => w \in applied[Current]

\* The stores agree on what a message's writes have left in them.
Applied ==
  /\ applied \in [Calls -> SUBSET Range(Writes)]
  /\ \A c \in Calls :
       /\ \A w \in Range(Writes) : After(w) \in applied[c] => w \in applied[c]
       /\ applied[c] # {} => callSeq[c] # 0
       /\ "row" \in applied[c] => rows[callSeq[c]] # None
       /\ "mirror" \in applied[c] => callSeq[c] <= maxSeq
       /\ c \in persistedLog <=> "persisted" \in applied[c]
  /\ \A r \in RandomIDs : dedupe[r] # None =>
       RandomID[dedupe[r]] = r /\ "dedupe" \in applied[dedupe[r]]

\* A row is the one of the message with its number, and max_seq is the number of a row;
\* so are the number an edit holds and the one a catch-up reads up to.
RowsMatch ==
  /\ \A s \in Seqs : rows[s] # None => callSeq[rows[s].id] = s
  /\ maxSeq # 0 => rows[maxSeq] # None
  /\ editing # None => rows[editing] # None
  /\ diffMax # None => rows[diffMax] # None /\ since < diffMax

PipeInv == /\ TypeOK /\ Numbered /\ Logged /\ Handled /\ Applied /\ RowsMatch
           /\ AnsweredSeq /\ DuplicateIsStored

\* The writes of handle, and what follows each.
LEMMA WriteOrder ==
  /\ Range(Writes) = {"row", "byId", "dedupe", "bucket", "mirror", "acl", "persisted", "index"}
  /\ Head(Writes) = "row"
  /\ After("row") = "byId" /\ After("byId") = "dedupe" /\ After("dedupe") = "bucket"
  /\ After("bucket") = "mirror" /\ After("mirror") = "acl" /\ After("acl") = "persisted"
  /\ After("persisted") = "index" /\ After("index") = "commit"
<1>1. /\ DOMAIN Writes = 1..8 /\ Len(Writes) = 8 /\ Head(Writes) = Writes[1]
      /\ Writes[1] = "row" /\ Writes[2] = "byId" /\ Writes[3] = "dedupe"
      /\ Writes[4] = "bucket" /\ Writes[5] = "mirror" /\ Writes[6] = "acl"
      /\ Writes[7] = "persisted" /\ Writes[8] = "index"
  BY DEF Writes
<1>2. 1..8 = {1, 2, 3, 4, 5, 6, 7, 8}
  OBVIOUS
<1>3. Range(Writes) = {"row", "byId", "dedupe", "bucket", "mirror", "acl", "persisted", "index"}
  <2>1. Range(Writes) = {Writes[i] : i \in {1, 2, 3, 4, 5, 6, 7, 8}}
    BY <1>1, <1>2, Zenon DEF Range
  <2>2. \A x : x \in Range(Writes) <=>
          \/ x = Writes[1] \/ x = Writes[2] \/ x = Writes[3] \/ x = Writes[4]
          \/ x = Writes[5] \/ x = Writes[6] \/ x = Writes[7] \/ x = Writes[8]
    BY <2>1, Zenon
  <2> QED
    BY <2>2, <1>1, Zenon
<1>4. \A i \in 1..8 : (CHOOSE j \in DOMAIN Writes : Writes[j] = Writes[i]) = i
  <2> SUFFICES ASSUME NEW i \in 1..8
               PROVE  (CHOOSE j \in DOMAIN Writes : Writes[j] = Writes[i]) = i
    BY Zenon
  <2>1. \A j \in DOMAIN Writes : Writes[j] = Writes[i] => j = i
    BY <1>1, <1>2
  <2> QED
    BY <2>1, <1>1, Zenon
<1>5. \A i \in 1..7 : After(Writes[i]) = Writes[i + 1]
  BY <1>1, <1>4 DEF After
<1>6. After(Writes[8]) = "commit"
  BY <1>1, <1>4 DEF After
<1>7. /\ After(Writes[1]) = Writes[2] /\ After(Writes[2]) = Writes[3]
      /\ After(Writes[3]) = Writes[4] /\ After(Writes[4]) = Writes[5]
      /\ After(Writes[5]) = Writes[6] /\ After(Writes[6]) = Writes[7]
      /\ After(Writes[7]) = Writes[8]
  BY <1>5
<1> QED
  BY <1>1, <1>3, <1>6, <1>7, Zenon

\* No request has a number and every store is empty.
LEMMA PipeInitInv == Init => PipeInv
<1> SUFFICES ASSUME Init PROVE PipeInv
  BY Zenon
<1>1. Cardinality(Calls) \in Nat /\ Cardinality({}) = 0
  BY PipelineAssumption, FS_CardinalityType, FS_EmptySet, Zenon
<1>2. TypeOK
  BY <1>1, WriteOrder, PipelineAssumption DEF Init, TypeOK, Seqs
<1>3. {c \in Calls : callSeq[c] # 0} = {}
  BY Zenon DEF Init
<1>4. Numbered
  <2>1. counter = Cardinality({c \in Calls : callSeq[c] # 0})
    BY <1>1, <1>3, Zenon DEF Init
  <2>2. \A c \in Calls : callSeq[c] <= counter
    BY DEF Init
  <2> QED
    BY <2>1, <2>2, Zenon DEF Init, Numbered
<1>5. Logged /\ AnsweredSeq /\ DuplicateIsStored
  BY DEF Init, Logged, AnsweredSeq, DuplicateIsStored
<1>6. Handled
  BY WriteOrder DEF Init, Handled
<1>7. Applied
  BY Zenon DEF Init, Applied
<1>8. RowsMatch
  BY Zenon DEF Init, RowsMatch
<1> QED
  BY <1>2, <1>4, <1>5, <1>6, <1>7, <1>8, Zenon DEF PipeInv

\* The bounds of the model are numbers, and a number handed out names a row.
LEMMA SeqsFacts ==
  ASSUME TypeOK
  PROVE  /\ Cardinality(Calls) \in Nat /\ counter \in Nat /\ maxSeq \in 0..Cardinality(Calls)
         /\ \A c \in Calls : /\ callSeq[c] \in 0..Cardinality(Calls)
                             /\ callSeq[c] # 0 => callSeq[c] \in Seqs
         /\ \A s \in Seqs : s \in Nat /\ s # 0
<1>1. Cardinality(Calls) \in Nat
  BY PipelineAssumption, FS_CardinalityType, Zenon
<1> QED
  BY <1>1 DEF TypeOK, Seqs

\* A message whose row was written has a row that names it.
LEMMA OwnRow ==
  ASSUME PipeInv, NEW c \in Calls, "row" \in applied[c]
  PROVE  callSeq[c] \in Seqs /\ rows[callSeq[c]] # None /\ rows[callSeq[c]].id = c
<1>1. callSeq[c] # 0 /\ rows[callSeq[c]] # None
  BY Zenon DEF PipeInv, Applied
<1>2. callSeq[c] \in Seqs
  BY <1>1, SeqsFacts, Zenon DEF PipeInv
<1>3. rows[callSeq[c]].id \in Calls
  BY <1>1, <1>2, Zenon DEF PipeInv, TypeOK, Row
<1>4. callSeq[rows[callSeq[c]].id] = callSeq[c]
  BY <1>1, <1>2, Zenon DEF PipeInv, RowsMatch
<1> QED
  BY <1>1, <1>2, <1>3, <1>4, Zenon DEF PipeInv, Numbered

\* A message whose dedupe entry was written has its row: the entry is the third
\* write of MessageRepo.Insert.
LEMMA DedupeAfterRow ==
  ASSUME PipeInv, NEW c \in Calls, "dedupe" \in applied[c]
  PROVE  "row" \in applied[c]
BY WriteOrder, Zenon DEF PipeInv, Applied

\* handleSendMessage answers a known random id with the number of its row.
LEMMA DedupeInv == ASSUME PipeInv, NEW c \in Calls, Dedupe(c) PROVE PipeInv'
<1> USE DEF Dedupe, persistVars, readVars
<1>1. pc[c] = "idle" /\ callSeq[c] = 0 /\ reply[c] = None
  BY Zenon DEF PipeInv, Numbered
<1>2. \/ /\ dedupe[RandomID[c]] # None /\ Answer(c, "duplicate", callSeq[dedupe[RandomID[c]]])
         /\ pc' = [pc EXCEPT ![c] = "done"]
      \/ pc' = [pc EXCEPT ![c] = "allocate"] /\ reply' = reply
  BY Zenon
<1>3. RandomID[c] \in RandomIDs
  BY PipelineAssumption, Zenon
<1>4. ASSUME dedupe[RandomID[c]] # None
      PROVE  LET s == callSeq[dedupe[RandomID[c]]]
             IN  s \in Seqs /\ rows[s] # None /\ RandomID[rows[s].id] = RandomID[c]
  <2> DEFINE d == dedupe[RandomID[c]]
  <2>1. d \in Calls
    BY <1>3, <1>4, Zenon DEF PipeInv, TypeOK
  <2>2. "dedupe" \in applied[d] /\ RandomID[d] = RandomID[c]
    BY <1>3, <1>4, Zenon DEF PipeInv, Applied
  <2> HIDE DEF d
  <2>3. callSeq[d] \in Seqs /\ rows[callSeq[d]] # None /\ rows[callSeq[d]].id = d
    BY <2>1, <2>2, DedupeAfterRow, OwnRow, Zenon
  <2> QED
    BY <2>2, <2>3, Zenon DEF d
<1>5. /\ pc' \in [Calls -> {"idle", "allocate", "publish", "done"}]
      /\ reply' \in [Calls -> {None} \union Reply]
      /\ \A x \in Calls : x # c => pc'[x] = pc[x] /\ reply'[x] = reply[x]
      /\ pc'[c] = "done" \/ (pc'[c] = "allocate" /\ reply'[c] = None)
  <2>1. /\ pc \in [Calls -> {"idle", "allocate", "publish", "done"}]
        /\ reply \in [Calls -> {None} \union Reply]
    BY Zenon DEF PipeInv, TypeOK
  <2>2. CASE pc' = [pc EXCEPT ![c] = "allocate"] /\ reply' = reply
    BY <2>1, <2>2, <1>1, Zenon
  <2>3. CASE /\ dedupe[RandomID[c]] # None
             /\ Answer(c, "duplicate", callSeq[dedupe[RandomID[c]]])
             /\ pc' = [pc EXCEPT ![c] = "done"]
    <3>1. callSeq[dedupe[RandomID[c]]] \in 0..Cardinality(Calls)
      BY <2>3, <1>4 DEF Seqs
    <3> QED
      BY <2>1, <2>3, <3>1, Zenon DEF Answer, Reply
  <2> QED
    BY <1>2, <2>2, <2>3, Zenon
<1>6. TypeOK'
  BY <1>5, Zenon DEF PipeInv, TypeOK
<1>7. Numbered'
  BY <1>1, <1>5, Zenon DEF PipeInv, Numbered
<1>8. /\ reply'[c] # None => reply'[c].kind = "duplicate"
      /\ reply'[c] # None => reply'[c].seq = callSeq[dedupe[RandomID[c]]]
      /\ reply'[c] # None => dedupe[RandomID[c]] # None
  BY <1>1, <1>2 DEF Answer, PipeInv, TypeOK
<1>9. Logged'
  BY <1>5, <1>8 DEF PipeInv, Logged
<1>10. DuplicateIsStored'
  <2> SUFFICES ASSUME NEW x \in Calls, reply'[x] # None, reply'[x].kind = "duplicate"
               PROVE  LET row == rows[reply'[x].seq] IN row # None /\ RandomID[row.id] = RandomID[x]
    BY Zenon DEF DuplicateIsStored
  <2>1. CASE x = c
    BY <2>1, <1>4, <1>8, Zenon
  <2>2. CASE x # c
    BY <2>2, <1>5, Zenon DEF PipeInv, DuplicateIsStored
  <2> QED
    BY <2>1, <2>2, Zenon
<1>12. AnsweredSeq'
  <2>1. reply'[c] # None => reply'[c].seq # 0
    BY <1>4, <1>8, SeqsFacts, Zenon DEF PipeInv
  <2> QED
    BY <2>1, <1>5, Zenon DEF PipeInv, AnsweredSeq
<1>11. Handled' /\ Applied' /\ RowsMatch'
  BY Zenon DEF PipeInv, Handled, Applied, RowsMatch, Settled, Current, After
<1> QED
  BY <1>6, <1>7, <1>9, <1>10, <1>11, <1>12, Zenon DEF PipeInv

\* INCR hands out a number that no request has.
LEMMA AllocateInv == ASSUME PipeInv, NEW c \in Calls, Allocate(c) PROVE PipeInv'
<1> USE DEF Allocate, persistVars, readVars
<1> DEFINE old == {x \in Calls : callSeq[x] # 0}
<1>1. callSeq[c] = 0 /\ reply[c] = None /\ applied[c] = {}
  BY Zenon DEF PipeInv, Numbered, Applied
<1>2. /\ callSeq' = [callSeq EXCEPT ![c] = counter + 1] /\ counter' = counter + 1
      /\ pc' = [pc EXCEPT ![c] = "publish"] /\ counter = Cardinality(old)
  BY Zenon DEF PipeInv, Numbered
<1>3. /\ pc \in [Calls -> {"idle", "allocate", "publish", "done"}]
      /\ callSeq \in [Calls -> 0..Cardinality(Calls)] /\ counter \in Nat
      /\ Cardinality(Calls) \in Nat
  BY SeqsFacts, Zenon DEF PipeInv, TypeOK
<1>4. IsFiniteSet(old) /\ c \notin old /\ old \union {c} \subseteq Calls
  BY <1>1, PipelineAssumption, FS_Subset, Zenon
<1>5. /\ Cardinality(old \union {c}) = counter + 1
      /\ Cardinality(old \union {c}) <= Cardinality(Calls)
  BY <1>2, <1>4, PipelineAssumption, FS_AddElement, FS_Subset, Zenon
<1>6. /\ callSeq' \in [Calls -> 0..Cardinality(Calls)] /\ callSeq'[c] = counter + 1
      /\ \A x \in Calls : x # c => callSeq'[x] = callSeq[x]
      /\ pc'[c] = "publish" /\ \A x \in Calls : x # c => pc'[x] = pc[x]
  BY <1>2, <1>3, <1>5
<1>7. TypeOK'
  <2>1. counter' \in 0..Cardinality(Calls)
    BY <1>2, <1>3, <1>5
  <2>2. pc' \in [Calls -> {"idle", "allocate", "publish", "done"}]
    BY <1>2, <1>3, Zenon
  <2> QED
    BY <2>1, <2>2, <1>6, Zenon DEF PipeInv, TypeOK
<1>8. Numbered'
  <2>1. {x \in Calls : callSeq'[x] # 0} = old \union {c}
    BY <1>3, <1>6
  <2>2. counter' = Cardinality({x \in Calls : callSeq'[x] # 0})
    BY <2>1, <1>2, <1>5, Zenon
  <2>3. \A x \in Calls : callSeq[x] <= counter
    BY Zenon DEF PipeInv, Numbered
  <2>4. \A x \in Calls : callSeq'[x] <= counter' /\ (pc'[x] = "publish" => callSeq'[x] # 0)
    BY <2>3, <1>2, <1>3, <1>6 DEF PipeInv, Numbered
  <2>5. \A x \in Calls : x # c => callSeq'[x] # callSeq'[c]
    BY <2>3, <1>3, <1>6
  <2>6. \A x, y \in Calls : callSeq'[x] = callSeq'[y] => x = y \/ callSeq'[x] = 0
    BY <2>5, <1>6, Zenon DEF PipeInv, Numbered
  <2>7. \A x \in Calls : /\ pc'[x] \in {"idle", "allocate"} => callSeq'[x] = 0
                         /\ pc'[x] # "done" => reply'[x] = None
    BY <1>1, <1>6, Zenon DEF PipeInv, Numbered
  <2> QED
    BY <2>2, <2>4, <2>6, <2>7, Zenon DEF Numbered
<1>9. \A x \in Calls : callSeq[x] # 0 => callSeq'[x] = callSeq[x]
  BY <1>1, <1>6, Zenon
<1>10. Logged'
  <2>1. \A i \in 1..Len(raw) : raw[i] \in Calls
    BY DEF PipeInv, TypeOK
  <2> QED
    BY <2>1, <1>9, Zenon DEF PipeInv, Logged
<1>11. Applied'
  <2>1. \A x \in Calls : applied[x] # {} => callSeq'[x] = callSeq[x] /\ callSeq[x] # 0
    BY <1>9, Zenon DEF PipeInv, Applied
  <2>2. \A x \in Calls : "row" \in applied[x] => rows[callSeq'[x]] # None
    BY <2>1, Zenon DEF PipeInv, Applied
  <2>3. \A x \in Calls : "mirror" \in applied[x] => callSeq'[x] <= maxSeq
    BY <2>1, Zenon DEF PipeInv, Applied
  <2> QED
    BY <2>1, <2>2, <2>3, Zenon DEF PipeInv, Applied
<1>12. RowsMatch'
  <2>1. \A s \in Seqs : rows[s] # None => rows[s].id \in Calls /\ s # 0
    BY <1>3 DEF PipeInv, TypeOK, Row, Seqs
  <2> QED
    BY <2>1, <1>9, Zenon DEF PipeInv, RowsMatch
<1>13. Handled' /\ AnsweredSeq' /\ DuplicateIsStored'
  BY Zenon DEF PipeInv, Handled, AnsweredSeq, DuplicateIsStored, Settled, Current, After
<1> QED
  BY <1>7, <1>8, <1>10, <1>11, <1>12, <1>13, Zenon DEF PipeInv

\* A publish leaves the record in the log no, one or two times more.
Published(c) ==
  /\ raw' \in Seq(Calls) /\ Len(raw) <= Len(raw')
  /\ \A i \in 1..Len(raw) : raw'[i] = raw[i]
  /\ \A i \in 1..Len(raw') : i <= Len(raw) \/ raw'[i] = c

\* Appending records of c: what the log held stays where it was.
LEMMA PublishedShape ==
  ASSUME raw \in Seq(Calls), NEW c \in Calls,
         raw' = raw \/ raw' = Append(raw, c) \/ raw' = raw \o <<c, c>>
  PROVE  Published(c) /\ (raw' # raw => \E i \in 1..Len(raw') : raw'[i] = c)
<1>1. CASE raw' = raw
  BY <1>1 DEF Published
<1>2. CASE raw' = Append(raw, c)
  <2>1. Len(raw') = Len(raw) + 1 /\ raw'[Len(raw) + 1] = c /\ Len(raw) \in Nat
    BY <1>2
  <2> QED
    BY <1>2, <2>1 DEF Published
<1>3. CASE raw' = raw \o <<c, c>>
  <2>1. /\ Len(raw') = Len(raw) + 2 /\ Len(raw) \in Nat
        /\ raw'[Len(raw) + 1] = c /\ raw'[Len(raw) + 2] = c
    BY <1>3
  <2>2. raw' \in Seq(Calls) /\ \A i \in 1..Len(raw) : raw'[i] = raw[i]
    BY <1>3
  <2>3. \A i \in 1..Len(raw') : i <= Len(raw) \/ i = Len(raw) + 1 \/ i = Len(raw) + 2
    BY <2>1
  <2>4. Len(raw) <= Len(raw') /\ Len(raw) + 1 \in 1..Len(raw')
    BY <2>1
  <2> QED
    BY <2>1, <2>2, <2>3, <2>4, Zenon DEF Published
<1> QED
  BY <1>1, <1>2, <1>3, Zenon

\* The log grows by records of a numbered message, and its request is answered.
LEMMA PublishedInv ==
  ASSUME PipeInv, NEW c \in Calls, pc[c] = "publish", Published(c),
         pc' = [pc EXCEPT ![c] = "done"],
         NEW kind \in {"ok", "error"}, NEW s \in 0..Cardinality(Calls), Answer(c, kind, s),
         kind = "ok" => \E i \in 1..Len(raw') : raw'[i] = c,
         UNCHANGED <<counter, callSeq, persistVars, rows, editing, changes, readVars>>
  PROVE  PipeInv'
<1> USE DEF persistVars, readVars
<1>1. callSeq[c] # 0
  BY Zenon DEF PipeInv, Numbered
<1>2. /\ pc' \in [Calls -> {"idle", "allocate", "publish", "done"}] /\ pc'[c] = "done"
      /\ \A x \in Calls : x # c => pc'[x] = pc[x]
  BY Zenon DEF PipeInv, TypeOK
<1>3. /\ reply' \in [Calls -> {None} \union Reply] /\ reply'[c] = [kind |-> kind, seq |-> s]
      /\ \A x \in Calls : x # c => reply'[x] = reply[x]
  BY Zenon DEF PipeInv, TypeOK, Answer, Reply
<1>4. Len(raw) \in Nat /\ Len(raw') \in Nat /\ pos \in 1..(Len(raw) + 1)
  BY DEF PipeInv, TypeOK, Published
<1>5. TypeOK'
  <2>1. pos' \in 1..(Len(raw') + 1)
    BY <1>4 DEF Published
  <2> QED
    BY <1>2, <1>3, <2>1, Zenon DEF PipeInv, TypeOK, Published
<1>6. Numbered'
  BY <1>1, <1>2, <1>3, Zenon DEF PipeInv, Numbered
<1>7. Logged'
  <2>1. \A i \in 1..Len(raw') : callSeq[raw'[i]] # 0
    <3> TAKE i \in 1..Len(raw')
    <3>1. i \in 1..Len(raw) \/ raw'[i] = c
      BY <1>4 DEF Published
    <3> QED
      BY <3>1, <1>1, Zenon DEF PipeInv, Logged, Published
  <2>2. ASSUME NEW x \in Calls, x # c, reply[x] # None, reply[x].kind = "ok"
        PROVE  \E i \in 1..Len(raw') : raw'[i] = x
    <3>1. PICK i \in 1..Len(raw) : raw[i] = x
      BY <2>2, Zenon DEF PipeInv, Logged
    <3>2. i \in 1..Len(raw') /\ raw'[i] = raw[i]
      BY <1>4 DEF Published
    <3> QED
      BY <3>1, <3>2, Zenon
  <2>3. reply'[c].kind = kind
    BY <1>3
  <2> QED
    BY <2>1, <2>2, <2>3, <1>3, Zenon DEF Logged
<1>8. Handled'
  <2>1. \A i \in 1..(pos - 1) : raw'[i] = raw[i]
    BY <1>4 DEF Published
  <2>2. stage # "fetch" => pos <= Len(raw') /\ raw'[pos] = raw[pos]
    BY <1>4 DEF Published, PipeInv, Handled
  <2>3. \A w \in Range(Writes) : After(w) # "fetch"
    BY WriteOrder, Zenon
  <2>4. \A i \in 1..(pos - 1) : raw'[i] \in Settled
    BY <2>1, Zenon DEF PipeInv, Handled
  <2>5. stage = "commit" => raw'[pos] \in Settled
    BY <2>2, Zenon DEF PipeInv, Handled, Current
  <2>6. \A w \in Range(Writes) : stage = After(w) /\ stage # "commit" => w \in applied[raw'[pos]]
    BY <2>2, <2>3, Zenon DEF PipeInv, Handled, Current
  <2> QED
    BY <2>2, <2>4, <2>5, <2>6, Zenon DEF Handled, Current, Settled
<1>9. AnsweredSeq' /\ DuplicateIsStored'
  <2>1. reply'[c].kind # "duplicate"
    BY <1>3
  <2> QED
    BY <2>1, <1>3, Zenon DEF PipeInv, AnsweredSeq, DuplicateIsStored
<1>10. Applied' /\ RowsMatch'
  BY Zenon DEF PipeInv, Applied, RowsMatch
<1> QED
  BY <1>5, <1>6, <1>7, <1>8, <1>9, <1>10, Zenon DEF PipeInv

\* Steps 6 and 7 of handleSendMessage.
LEMMA PublishInv == ASSUME PipeInv, NEW c \in Calls, Publish(c) PROVE PipeInv'
<1>1. raw \in Seq(Calls) /\ Len(raw) \in Nat
  BY DEF PipeInv, TypeOK
<1>2. raw' # raw /\ (raw' = Append(raw, c) \/ raw' = raw \o <<c, c>>)
  <2>1. CASE raw' = Append(raw, c)
    <3>1. Len(raw') # Len(raw)
      BY <1>1, <2>1
    <3> QED
      BY <2>1, <3>1, Zenon
  <2>2. CASE raw' = raw \o <<c, c>>
    <3>1. Len(raw') # Len(raw)
      BY <1>1, <2>2
    <3> QED
      BY <2>2, <3>1, Zenon
  <2> QED
    BY <2>1, <2>2, Zenon DEF Publish
<1>3. Published(c) /\ \E i \in 1..Len(raw') : raw'[i] = c
  BY <1>1, <1>2, PublishedShape, Zenon
<1>4. callSeq[c] \in 0..Cardinality(Calls)
  BY SeqsFacts, Zenon DEF PipeInv
<1>5. "ok" \in {"ok", "error"}
  BY Zenon
<1> QED
  BY <1>3, <1>4, <1>5, PublishedInv, Zenon DEF Publish

\* A publish that fails, and may have been appended all the same.
LEMMA PublishFailInv == ASSUME PipeInv, NEW c \in Calls, PublishFail(c) PROVE PipeInv'
<1>1. raw \in Seq(Calls)
  BY Zenon DEF PipeInv, TypeOK
<1>2. Published(c)
  BY <1>1, PublishedShape, Zenon DEF PublishFail
<1>3. 0 \in 0..Cardinality(Calls)
  BY SeqsFacts DEF PipeInv
<1>4. "error" \in {"ok", "error"} /\ "error" # "ok"
  BY Zenon
<1> QED
  BY <1>2, <1>3, <1>4, PublishedInv, Zenon DEF PublishFail

\* The persister takes the next record, at the first write.
LEMMA FetchInv == ASSUME PipeInv, FetchRaw PROVE PipeInv'
<1> USE DEF FetchRaw, sendVars, readVars
<1>1. TypeOK'
  BY WriteOrder, PipelineAssumption DEF PipeInv, TypeOK
<1>2. stage' = "row" /\ \A w \in Range(Writes) : After(w) # "row"
  BY WriteOrder, Zenon
<1>3. Handled'
  BY <1>2, Zenon DEF PipeInv, Handled, Settled
<1>4. /\ Numbered' /\ Logged' /\ Applied' /\ RowsMatch'
      /\ AnsweredSeq' /\ DuplicateIsStored'
  BY Zenon DEF PipeInv, Numbered, Logged, Applied, RowsMatch, AnsweredSeq, DuplicateIsStored
<1> QED
  BY <1>1, <1>3, <1>4, Zenon DEF PipeInv

\* The record the persister holds is a numbered message.
LEMMA CurrentFacts ==
  ASSUME PipeInv, stage # "fetch"
  PROVE  Current \in Calls /\ callSeq[Current] # 0 /\ callSeq[Current] \in Seqs
<1>1. pos \in 1..Len(raw) /\ raw[pos] \in Calls
  BY DEF PipeInv, TypeOK, Handled
<1>2. callSeq[Current] # 0
  BY <1>1, Zenon DEF PipeInv, Logged, Current
<1> QED
  BY <1>1, <1>2, SeqsFacts, Zenon DEF PipeInv, Current

\* A failed write starts handle again, or gives the record up.
LEMMA WriteFailInv == ASSUME PipeInv, WriteFail PROVE PipeInv'
<1> USE DEF WriteFail, sendVars, readVars
<1>1. stage \in Range(Writes) /\ stage # "fetch" /\ stage # "commit"
  BY WriteOrder, Zenon
<1>2. Current \in Calls
  BY <1>1, CurrentFacts, Zenon
<1>3. \/ stage = "index" /\ stage' = "commit" /\ UNCHANGED <<attempt, deadLetters>>
      \/ /\ attempt < MaxRetries /\ stage' = "row" /\ attempt' = attempt + 1
         /\ UNCHANGED deadLetters
      \/ /\ stage' = "commit" /\ deadLetters' = deadLetters \union {Current}
         /\ UNCHANGED attempt
  BY WriteOrder, Zenon
<1>4. TypeOK'
  <2>1. stage' \in Range(Writes) \union {"fetch", "commit"}
    BY <1>3, WriteOrder, Zenon
  <2>2. attempt' \in 0..MaxRetries
    BY <1>3, PipelineAssumption DEF PipeInv, TypeOK
  <2>3. deadLetters' \subseteq Calls
    BY <1>2, <1>3, Zenon DEF PipeInv, TypeOK
  <2> QED
    BY <2>1, <2>2, <2>3, Zenon DEF PipeInv, TypeOK
<1>5. Handled'
  <2>1. Settled \subseteq Settled' /\ Current' = Current
    BY <1>3, Zenon DEF Settled, Current
  <2>2. stage = "index" => Current \in Settled
    BY <1>2, WriteOrder, Zenon DEF PipeInv, Handled, Applied, Settled
  <2>3. stage' = "commit" => Current \in Settled'
    BY <1>3, <2>1, <2>2, Zenon DEF Settled
  <2>4. stage' = "commit" \/ stage' = "row"
    BY <1>3, Zenon
  <2>5. \A w \in Range(Writes) : After(w) # "row"
    BY WriteOrder, Zenon
  <2>6. \A w \in Range(Writes) : stage' = After(w) => stage' = "commit"
    BY <2>4, <2>5, Zenon
  <2>7. pos <= Len(raw) /\ \A i \in 1..(pos - 1) : raw[i] \in Settled'
    BY <1>1, <2>1, Zenon DEF PipeInv, Handled
  <2> QED
    BY <2>1, <2>3, <2>6, <2>7, Zenon DEF Handled
<1>6. /\ Numbered' /\ Logged' /\ Applied' /\ RowsMatch'
      /\ AnsweredSeq' /\ DuplicateIsStored'
  BY Zenon DEF PipeInv, Numbered, Logged, Applied, RowsMatch, AnsweredSeq, DuplicateIsStored
<1> QED
  BY <1>4, <1>5, <1>6, Zenon DEF PipeInv

\* The persister passes a settled record, whether or not the commit arrives.
LEMMA CommitInv == ASSUME PipeInv, CommitRaw PROVE PipeInv'
<1> USE DEF CommitRaw, sendVars, readVars
<1>1. stage = "commit" /\ stage' = "fetch" /\ pos' = pos + 1 /\ committed' \in {committed, pos + 1}
  BY Zenon
<1>2. pos <= Len(raw) /\ Current \in Settled /\ pos \in Nat /\ committed \in 1..pos
  BY <1>1 DEF PipeInv, Handled, TypeOK
<1>3. Len(raw) \in Nat /\ pos \in 1..(Len(raw) + 1)
  BY DEF PipeInv, TypeOK
<1>4. committed' \in 1..pos' /\ pos' \in 1..(Len(raw) + 1)
  BY <1>1, <1>2, <1>3
<1>5. TypeOK'
  BY <1>1, <1>4, Zenon DEF PipeInv, TypeOK
<1>6. Handled'
  <2>1. \A i \in 1..(pos' - 1) : i \in 1..(pos - 1) \/ i = pos
    BY <1>1, <1>3
  <2>2. \A i \in 1..(pos' - 1) : raw[i] \in Settled'
    BY <2>1, <1>2, Zenon DEF PipeInv, Handled, Current, Settled
  <2>3. \A w \in Range(Writes) : After(w) # "fetch"
    BY WriteOrder, Zenon
  <2> QED
    BY <2>2, <2>3, <1>1, Zenon DEF Handled
<1>7. /\ Numbered' /\ Logged' /\ Applied' /\ RowsMatch'
      /\ AnsweredSeq' /\ DuplicateIsStored'
  BY Zenon DEF PipeInv, Numbered, Logged, Applied, RowsMatch, AnsweredSeq, DuplicateIsStored
<1> QED
  BY <1>5, <1>6, <1>7, Zenon DEF PipeInv

\* The next persister starts at the committed offset, which is behind.
LEMMA CrashInv == ASSUME PipeInv, PersisterCrash PROVE PipeInv'
<1> USE DEF PersisterCrash, sendVars, readVars
<1>1. stage' = "fetch" /\ pos' = committed
  BY Zenon
<1>2. Len(raw) \in Nat /\ pos \in 1..(Len(raw) + 1) /\ committed \in 1..pos
  BY DEF PipeInv, TypeOK
<1>3. committed' \in 1..pos' /\ pos' \in 1..(Len(raw) + 1)
  BY <1>1, <1>2
<1>4. TypeOK'
  BY <1>1, <1>3, Zenon DEF PipeInv, TypeOK
<1>5. Handled'
  <2>1. \A i \in 1..(pos' - 1) : i \in 1..(pos - 1)
    BY <1>1, <1>2
  <2>2. \A i \in 1..(pos' - 1) : raw[i] \in Settled'
    BY <2>1, Zenon DEF PipeInv, Handled, Settled
  <2>3. \A w \in Range(Writes) : After(w) # "fetch"
    BY WriteOrder, Zenon
  <2> QED
    BY <2>2, <2>3, <1>1, Zenon DEF Handled
<1>6. /\ Numbered' /\ Logged' /\ Applied' /\ RowsMatch'
      /\ AnsweredSeq' /\ DuplicateIsStored'
  BY Zenon DEF PipeInv, Numbered, Logged, Applied, RowsMatch, AnsweredSeq, DuplicateIsStored
<1> QED
  BY <1>4, <1>5, <1>6, Zenon DEF PipeInv

\* Rows stay what they are, or a message is written into its own.
RowsKept ==
  /\ rows' \in [Seqs -> {None} \union Row]
  /\ \A s \in Seqs : rows[s] # None => rows'[s] # None /\ rows'[s].id = rows[s].id
  /\ \A s \in Seqs : rows'[s] # None => callSeq[rows'[s].id] = s

\* INSERT INTO messages_by_chat writes the message's own row, and no other.
LEMMA InsertKeeps ==
  ASSUME PipeInv, NEW c \in Calls, callSeq[c] \in Seqs, rows' = InsertRow(c)
  PROVE  /\ RowsKept /\ rows'[callSeq[c]] # None
         /\ \A s \in Seqs : s # callSeq[c] => rows'[s] = rows[s]
<1> DEFINE n == callSeq[c]
           new == [id |-> c, body |-> "original", deleted |-> FALSE,
                   edited |-> IF rows[n] = None THEN FALSE ELSE rows[n].edited]
<1>1. rows \in [Seqs -> {None} \union Row] /\ n \in Seqs
  BY Zenon DEF PipeInv, TypeOK
<1>2. rows' = [rows EXCEPT ![n] = new]
  BY Zenon DEF InsertRow
<1>3. rows[n] # None => rows[n].edited \in BOOLEAN
  BY <1>1, Zenon DEF Row
<1>4. (IF rows[n] = None THEN FALSE ELSE rows[n].edited) \in BOOLEAN
  BY <1>3, Zenon
<1>5. new \in Row /\ new.id = c
  BY <1>4, Zenon DEF Row
<1>6. new # None
  BY <1>5, PipelineAssumption, Zenon
<1> HIDE DEF n, new
<1>7. rows' \in [Seqs -> {None} \union Row] /\ rows'[n] = new
  BY <1>1, <1>2, <1>5, Zenon
<1>8. \A s \in Seqs : s # n => rows'[s] = rows[s]
  BY <1>1, <1>2, Zenon
<1>9. rows[n] # None => rows[n].id = c
  <2>1. SUFFICES ASSUME rows[n] # None PROVE rows[n].id = c
    BY Zenon
  <2>2. rows[n].id \in Calls /\ n # 0
    BY <1>1, <2>1, SeqsFacts, Zenon DEF Row, PipeInv
  <2>3. callSeq[rows[n].id] = n
    BY <1>1, <2>1, Zenon DEF PipeInv, RowsMatch
  <2> QED
    BY <2>2, <2>3, Zenon DEF PipeInv, Numbered, n
<1>10. \A s \in Seqs : rows[s] # None => rows'[s] # None /\ rows'[s].id = rows[s].id
  <2> TAKE s \in Seqs
  <2>1. CASE s = n
    BY <2>1, <1>5, <1>6, <1>7, <1>9, Zenon
  <2>2. CASE s # n
    BY <2>2, <1>8, Zenon
  <2> QED
    BY <2>1, <2>2, Zenon
<1>11. \A s \in Seqs : rows'[s] # None => callSeq[rows'[s].id] = s
  <2> TAKE s \in Seqs
  <2>1. CASE s = n
    BY <2>1, <1>5, <1>7, Zenon DEF n
  <2>2. CASE s # n
    BY <2>2, <1>8, Zenon DEF PipeInv, RowsMatch
  <2> QED
    BY <2>1, <2>2, Zenon
<1> QED
  BY <1>6, <1>7, <1>8, <1>10, <1>11, Zenon DEF RowsKept, n

\* What a duplicate was answered stays true when rows are kept.
LEMMA DuplicatesStay ==
  ASSUME PipeInv, RowsKept, UNCHANGED reply
  PROVE  DuplicateIsStored'
<1>1. \A c \in Calls : reply[c] # None => reply[c] \in Reply
  BY Zenon DEF PipeInv, TypeOK
<1>2. \A c \in Calls : reply[c] # None /\ reply[c].kind = "duplicate" => reply[c].seq \in Seqs
  <2> SUFFICES ASSUME NEW c \in Calls, reply[c] # None, reply[c].kind = "duplicate"
               PROVE  reply[c].seq \in Seqs
    BY Zenon
  <2>1. reply[c].seq \in 0..Cardinality(Calls) /\ Cardinality(Calls) \in Nat
    BY <1>1, SeqsFacts, Zenon DEF Reply, PipeInv
  <2>2. reply[c].seq # 0
    BY Zenon DEF PipeInv, AnsweredSeq
  <2> QED
    BY <2>1, <2>2 DEF Seqs
<1>3. \A c \in Calls : reply[c] # None /\ reply[c].kind = "duplicate" =>
        LET s == reply[c].seq IN rows[s] # None /\ RandomID[rows[s].id] = RandomID[c]
  BY Zenon DEF PipeInv, DuplicateIsStored
<1>4. \A c \in Calls : reply[c] # None /\ reply[c].kind = "duplicate" =>
        LET s == reply[c].seq IN rows'[s] # None /\ RandomID[rows'[s].id] = RandomID[c]
  BY <1>2, <1>3, Zenon DEF RowsKept
<1> QED
  BY <1>4, Zenon DEF DuplicateIsStored

\* One durable write of handle.
LEMMA WriteInv == ASSUME PipeInv, Write PROVE PipeInv'
<1> DEFINE c == Current
           n == callSeq[c]
<1>1. /\ stage \in Range(Writes) /\ stage # "fetch" /\ stage # "commit"
      /\ applied' = [applied EXCEPT ![c] = @ \union {stage}] /\ stage' = After(stage)
      /\ rows' = IF stage = "row" THEN InsertRow(c) ELSE rows
      /\ dedupe' = IF stage = "dedupe" THEN [dedupe EXCEPT ![RandomID[c]] = c] ELSE dedupe
      /\ maxSeq' = IF stage = "mirror" /\ n > maxSeq THEN n ELSE maxSeq
      /\ persistedLog' = IF stage = "persisted" THEN persistedLog \union {c} ELSE persistedLog
  BY WriteOrder, Zenon DEF Write
<1>2. UNCHANGED <<sendVars, pos, committed, attempt, deadLetters, editing, changes, readVars>>
  BY Zenon DEF Write
<1>3. c \in Calls /\ n # 0 /\ n \in Seqs
  BY <1>1, CurrentFacts, Zenon
<1> HIDE DEF c, n
<1>4. RowsKept /\ (stage = "row" => rows'[n] # None)
  <2>1. CASE stage = "row"
    BY <2>1, <1>1, <1>3, InsertKeeps, Zenon DEF n
  <2>2. CASE stage # "row"
    <3>1. rows' = rows
      BY <2>2, <1>1, Zenon
    <3> QED
      BY <3>1, <2>2, Zenon DEF RowsKept, PipeInv, TypeOK, RowsMatch
  <2> QED
    BY <2>1, <2>2, Zenon
<1>5. /\ applied \in [Calls -> SUBSET Range(Writes)]
      /\ \A x \in Calls : \A w \in Range(Writes) : After(w) \in applied[x] => w \in applied[x]
      /\ \A w \in Range(Writes) : stage = After(w) => w \in applied[c]
  BY <1>1, Zenon DEF PipeInv, Applied, Handled, c
<1>6. /\ applied' \in [Calls -> SUBSET Range(Writes)]
      /\ \A x \in Calls : x # c => applied'[x] = applied[x]
      /\ applied'[c] = applied[c] \union {stage}
  <2>1. applied[c] \union {stage} \in SUBSET Range(Writes)
    BY <1>1, <1>3, <1>5, Zenon
  <2> QED
    BY <2>1, <1>1, <1>3, <1>5, Zenon
<1>7. \A x \in Calls : \A w \in Range(Writes) : After(w) \in applied'[x] => w \in applied'[x]
  BY <1>5, <1>6, Zenon
<1>8. stage = "mirror" => rows[n] # None
  <2>1. stage = "mirror" => "row" \in applied[c]
    <3>1. stage = "mirror" => "bucket" \in applied[c]
      BY WriteOrder, <1>5, Zenon
    <3>2. "bucket" \in applied[c] => "dedupe" \in applied[c]
      BY WriteOrder, <1>3, <1>5, Zenon
    <3> QED
      BY <3>1, <3>2, <1>3, DedupeAfterRow, Zenon
  <2> QED
    BY <2>1, <1>3, OwnRow, Zenon DEF n
<1>9. /\ maxSeq' \in 0..Cardinality(Calls) /\ maxSeq <= maxSeq'
      /\ maxSeq' = maxSeq \/ (maxSeq' = n /\ stage = "mirror")
      /\ stage = "mirror" => n <= maxSeq'
  <2>1. /\ maxSeq \in 0..Cardinality(Calls) /\ n \in 0..Cardinality(Calls)
        /\ Cardinality(Calls) \in Nat
    BY <1>3, SeqsFacts, Zenon DEF PipeInv, n
  <2> QED
    BY <2>1, <1>1
<1>10. /\ dedupe' \in [RandomIDs -> Calls \union {None}]
       /\ \A r \in RandomIDs : dedupe'[r] # None =>
            RandomID[dedupe'[r]] = r /\ "dedupe" \in applied'[dedupe'[r]]
  <2>1. dedupe \in [RandomIDs -> Calls \union {None}] /\ RandomID[c] \in RandomIDs
    BY <1>3, PipelineAssumption, Zenon DEF PipeInv, TypeOK
  <2>2. \A r \in RandomIDs : dedupe[r] # None =>
          RandomID[dedupe[r]] = r /\ "dedupe" \in applied[dedupe[r]]
    BY Zenon DEF PipeInv, Applied
  <2>3. \A r \in RandomIDs : dedupe[r] # None =>
          RandomID[dedupe[r]] = r /\ "dedupe" \in applied'[dedupe[r]]
    BY <2>1, <2>2, <1>6
  <2>4. CASE stage = "dedupe"
    <3>1. dedupe' = [dedupe EXCEPT ![RandomID[c]] = c]
      BY <2>4, <1>1, Zenon
    <3>2. /\ dedupe' \in [RandomIDs -> Calls \union {None}] /\ dedupe'[RandomID[c]] = c
          /\ \A r \in RandomIDs : r # RandomID[c] => dedupe'[r] = dedupe[r]
      BY <3>1, <2>1, <1>3, Zenon
    <3> QED
      BY <3>2, <2>3, <2>4, <1>6, Zenon
  <2>5. CASE stage # "dedupe"
    BY <2>5, <2>1, <2>3, <1>1, Zenon
  <2> QED
    BY <2>4, <2>5, Zenon
<1>11. stage' \in Range(Writes) \union {"fetch", "commit"} /\ stage' # "fetch"
  BY <1>1, WriteOrder, Zenon
<1>12. TypeOK'
  <2>1. persistedLog' \subseteq Calls
    BY <1>1, <1>3, Zenon DEF PipeInv, TypeOK
  <2>2. {maxSeq', cursor', since'} \subseteq 0..Cardinality(Calls)
    BY <1>2, <1>9, Zenon DEF PipeInv, TypeOK, readVars
  <2> QED
    BY <2>1, <2>2, <1>2, <1>4, <1>10, <1>11, Zenon
       DEF PipeInv, TypeOK, RowsKept, sendVars, readVars
<1>13. Numbered' /\ Logged' /\ AnsweredSeq'
  BY <1>2, Zenon DEF PipeInv, Numbered, Logged, AnsweredSeq, sendVars
<1>14. Handled'
  <2>1. Settled \subseteq Settled' /\ Current' = c /\ pos' = pos /\ raw' = raw
    BY <1>1, <1>2, Zenon DEF Settled, Current, c, sendVars
  <2>2. stage' = "commit" => "persisted" \in applied[c]
    BY <1>1, <1>3, <1>5, WriteOrder, Zenon
  <2>3. "persisted" \in applied[c] => c \in Settled
    BY <1>3, Zenon DEF PipeInv, Applied, Settled
  <2>4. \A w \in Range(Writes) : stage' = After(w) /\ stage' # "commit" => w = stage
    BY <1>1, WriteOrder
  <2>5. \A w \in Range(Writes) : stage' = After(w) /\ stage' # "commit" => w \in applied'[c]
    BY <2>4, <1>6, Zenon
  <2>6. pos <= Len(raw) /\ \A i \in 1..(pos - 1) : raw[i] \in Settled'
    BY <1>1, <2>1, Zenon DEF PipeInv, Handled
  <2>7. stage' = "commit" => c \in Settled'
    BY <2>1, <2>2, <2>3, Zenon
  <2> QED
    BY <2>1, <2>5, <2>6, <2>7, Zenon DEF Handled
<1>15. Applied'
  <2>1. callSeq' = callSeq
    BY <1>2, Zenon DEF sendVars
  <2>2. ASSUME NEW x \in Calls
        PROVE  /\ applied'[x] # {} => callSeq[x] # 0
               /\ "row" \in applied'[x] => rows'[callSeq[x]] # None
               /\ "mirror" \in applied'[x] => callSeq[x] <= maxSeq'
               /\ x \in persistedLog' <=> "persisted" \in applied'[x]
    <3>1. applied'[x] # {} => callSeq[x] # 0
      BY <1>3, <1>6, Zenon DEF PipeInv, Applied, n
    <3>2. "row" \in applied[x] => rows'[callSeq[x]] # None
      BY OwnRow, <1>4, Zenon DEF RowsKept
    <3>3. "row" \in applied'[x] => "row" \in applied[x] \/ (x = c /\ stage = "row")
      BY <1>6, Zenon
    <3>4. "row" \in applied'[x] => rows'[callSeq[x]] # None
      BY <3>2, <3>3, <1>4, Zenon DEF n
    <3>5. "mirror" \in applied'[x] => "mirror" \in applied[x] \/ (x = c /\ stage = "mirror")
      BY <1>6, Zenon
    <3>6. "mirror" \in applied[x] => callSeq[x] <= maxSeq'
      <4>1. "mirror" \in applied[x] => callSeq[x] <= maxSeq
        BY Zenon DEF PipeInv, Applied
      <4>2. callSeq[x] \in Int /\ maxSeq \in Int /\ maxSeq' \in Int
        BY <1>9, SeqsFacts DEF PipeInv
      <4> QED
        BY <4>1, <4>2, <1>9
    <3>7. "mirror" \in applied'[x] => callSeq[x] <= maxSeq'
      BY <3>5, <3>6, <1>9, Zenon DEF n
    <3>8. x \in persistedLog <=> "persisted" \in applied[x]
      BY Zenon DEF PipeInv, Applied
    <3>9. x \in persistedLog' <=> "persisted" \in applied'[x]
      <4>1. CASE x = c
        BY <4>1, <3>8, <1>1, <1>6, Zenon
      <4>2. CASE x # c
        BY <4>2, <3>8, <1>1, <1>6, Zenon
      <4> QED
        BY <4>1, <4>2, Zenon
    <3> QED
      BY <3>1, <3>4, <3>7, <3>9, Zenon
  <2> QED
    BY <2>1, <2>2, <1>6, <1>7, <1>10, Zenon DEF Applied
<1>16. RowsMatch'
  <2>1. maxSeq' # 0 => rows'[maxSeq'] # None
    <3>1. maxSeq' # 0 => maxSeq' \in Seqs
      BY <1>9, SeqsFacts DEF Seqs, PipeInv
    <3>2. maxSeq' # 0 => rows[maxSeq'] # None
      BY <1>8, <1>9, Zenon DEF PipeInv, RowsMatch
    <3> QED
      BY <3>1, <3>2, <1>4, Zenon DEF RowsKept
  <2>2. /\ editing # None => editing \in Seqs /\ rows[editing] # None
        /\ diffMax # None => diffMax \in Seqs /\ rows[diffMax] # None /\ since < diffMax
    BY Zenon DEF PipeInv, TypeOK, RowsMatch
  <2>3. callSeq' = callSeq /\ editing' = editing /\ diffMax' = diffMax /\ since' = since
    BY <1>2, Zenon DEF sendVars, readVars
  <2> QED
    BY <2>1, <2>2, <2>3, <1>4, Zenon DEF RowsMatch, RowsKept
<1>17. DuplicateIsStored'
  BY <1>2, <1>4, DuplicatesStay, Zenon DEF sendVars
<1> QED
  BY <1>12, <1>13, <1>14, <1>15, <1>16, <1>17, Zenon DEF PipeInv

\* Rows that are rewritten in place.
LEMMA RowsRewritten ==
  ASSUME PipeInv, RowsKept, \A s \in Seqs : rows'[s] # None => rows[s] # None,
         UNCHANGED <<sendVars, persistVars, readVars>>, editing' \in {None, editing}
  PROVE  PipeInv'
<1> USE DEF sendVars, persistVars, readVars
<1>1. TypeOK'
  <2>1. editing' \in Seqs \union {None}
    BY Zenon DEF PipeInv, TypeOK
  <2> QED
    BY <2>1, Zenon DEF PipeInv, TypeOK, RowsKept
<1>2. Numbered' /\ Logged' /\ Handled' /\ AnsweredSeq'
  BY Zenon DEF PipeInv, Numbered, Logged, Handled, AnsweredSeq, Settled, Current
<1>3. Applied'
  <2>1. \A x \in Calls : "row" \in applied[x] => rows'[callSeq[x]] # None
    BY OwnRow, Zenon DEF RowsKept
  <2> QED
    BY <2>1, Zenon DEF PipeInv, Applied
<1>4. RowsMatch'
  <2>1. maxSeq # 0 => maxSeq \in Seqs
    BY SeqsFacts DEF Seqs, PipeInv
  <2>2. maxSeq # 0 => rows'[maxSeq] # None
    BY <2>1, Zenon DEF PipeInv, RowsMatch, RowsKept
  <2>3. /\ editing # None => editing \in Seqs /\ rows[editing] # None
        /\ diffMax # None => diffMax \in Seqs /\ rows[diffMax] # None /\ since < diffMax
    BY Zenon DEF PipeInv, TypeOK, RowsMatch
  <2> QED
    BY <2>2, <2>3, Zenon DEF RowsMatch, RowsKept
<1>5. DuplicateIsStored'
  BY DuplicatesStay, Zenon
<1> QED
  BY <1>1, <1>2, <1>3, <1>4, <1>5, Zenon DEF PipeInv

\* A row rewritten with the id it had is still the row of its message.
LEMMA RewriteKeeps ==
  ASSUME PipeInv, NEW s \in Seqs, rows[s] # None, NEW new \in Row, new.id = rows[s].id,
         rows' = [rows EXCEPT ![s] = new]
  PROVE  RowsKept /\ \A t \in Seqs : rows'[t] # None => rows[t] # None
<1>1. rows \in [Seqs -> {None} \union Row] /\ new # None
  BY PipelineAssumption, Zenon DEF PipeInv, TypeOK
<1>2. /\ rows' \in [Seqs -> {None} \union Row] /\ rows'[s] = new
      /\ \A t \in Seqs : t # s => rows'[t] = rows[t]
  BY <1>1, Zenon
<1>3. \A t \in Seqs : rows[t] # None => rows'[t] # None /\ rows'[t].id = rows[t].id
  BY <1>1, <1>2, Zenon
<1>4. \A t \in Seqs : rows'[t] # None => rows[t] # None
  BY <1>2, Zenon
<1> QED
  BY <1>2, <1>3, <1>4, Zenon DEF RowsKept, PipeInv, RowsMatch

\* SoftDelete, and what handleEditMessage writes, rewrite one row in place.
LEMMA ChangedRow ==
  ASSUME PipeInv, NEW s \in Seqs, rows[s] # None,
         NEW new, \/ new = [rows[s] EXCEPT !.deleted = TRUE, !.body = "blank"]
                  \/ new = [rows[s] EXCEPT !.body = "edited", !.edited = TRUE]
  PROVE  new \in Row /\ new.id = rows[s].id
<1>1. rows[s] \in Row
  BY Zenon DEF PipeInv, TypeOK
<1> QED
  BY <1>1, Zenon DEF Row

\* handleDeleteMessage.
LEMMA DeleteKeeps ==
  ASSUME PipeInv, DeleteMessage
  PROVE  RowsKept /\ \A t \in Seqs : rows'[t] # None => rows[t] # None
<1>1. PICK s \in Seqs : /\ rows[s] # None
                       /\ rows' = [rows EXCEPT ![s].deleted = TRUE, ![s].body = "blank"]
  BY Zenon DEF DeleteMessage
<1> DEFINE new == [rows[s] EXCEPT !.deleted = TRUE, !.body = "blank"]
<1>2. rows' = [rows EXCEPT ![s] = new]
  BY <1>1, Zenon DEF PipeInv, TypeOK
<1>3. new \in Row /\ new.id = rows[s].id
  BY <1>1, ChangedRow, Zenon
<1> HIDE DEF new
<1> QED
  BY <1>1, <1>2, <1>3, RewriteKeeps, Zenon

\* The second round trip of handleEditMessage.
LEMMA EditKeeps ==
  ASSUME PipeInv, EditWrite
  PROVE  RowsKept /\ \A t \in Seqs : rows'[t] # None => rows[t] # None
<1>1. /\ editing \in Seqs /\ rows[editing] # None
      /\ rows' = [rows EXCEPT ![editing].body = "edited", ![editing].edited = TRUE]
  BY Zenon DEF EditWrite, PipeInv, TypeOK, RowsMatch
<1> DEFINE new == [rows[editing] EXCEPT !.body = "edited", !.edited = TRUE]
<1>2. rows' = [rows EXCEPT ![editing] = new]
  BY <1>1, Zenon DEF PipeInv, TypeOK
<1>3. new \in Row /\ new.id = rows[editing].id
  BY <1>1, ChangedRow, Zenon
<1> HIDE DEF new
<1> QED
  BY <1>1, <1>2, <1>3, RewriteKeeps, Zenon

\* Edits and deletes.
LEMMA ChangesInv == ASSUME PipeInv, DeleteMessage \/ EditRead \/ EditWrite PROVE PipeInv'
<1>1. CASE DeleteMessage
  <2>1. UNCHANGED <<sendVars, persistVars, readVars>> /\ editing' \in {None, editing}
    BY <1>1, Zenon DEF DeleteMessage
  <2> QED
    BY <2>1, <1>1, DeleteKeeps, RowsRewritten, Zenon
<1>2. CASE EditWrite
  <2>1. UNCHANGED <<sendVars, persistVars, readVars>> /\ editing' \in {None, editing}
    BY <1>2, Zenon DEF EditWrite
  <2> QED
    BY <2>1, <1>2, EditKeeps, RowsRewritten, Zenon
<1>3. CASE EditRead
  <2>1. PICK s \in Seqs : rows[s] # None /\ editing' = s
    BY <1>3, Zenon DEF EditRead
  <2>2. UNCHANGED <<sendVars, persistVars, rows, readVars>>
    BY <1>3, Zenon DEF EditRead
  <2> USE DEF sendVars, persistVars, readVars
  <2>3. TypeOK'
    BY <2>1, <2>2, Zenon DEF PipeInv, TypeOK
  <2>4. RowsMatch'
    BY <2>1, <2>2, Zenon DEF PipeInv, RowsMatch
  <2>5. Numbered' /\ Logged' /\ Handled' /\ AnsweredSeq' /\ Applied' /\ DuplicateIsStored'
    BY <2>2, Zenon
       DEF PipeInv, Numbered, Logged, Handled, AnsweredSeq, Settled, Current, Applied, DuplicateIsStored
  <2> QED
    BY <2>3, <2>4, <2>5, Zenon DEF PipeInv
<1> QED
  BY <1>1, <1>2, <1>3, Zenon

\* A set of numbers has a least one ...
LEMMA LeastOf ==
  ASSUME NEW S, S \subseteq Nat, S # {}
  PROVE  \E m \in S : \A y \in S : m <= y
<1>1. PICK m \in S : \A y \in S : ~(<<y, m>> \in OpToRel(<, Nat))
  BY NatLessThanWellFounded, WFMin, Zenon
<1>2. \A y \in S : ~(y < m)
  BY <1>1, Zenon DEF OpToRel
<1> QED
  BY <1>2

\* ... and, when it is bounded, a greatest one, which is its Max.
LEMMA MaxOf ==
  ASSUME NEW N \in Nat, NEW S, S \subseteq 0..N, S # {}
  PROVE  Max(S) \in S /\ \A y \in S : y <= Max(S)
<1> DEFINE T == {N - x : x \in S}
<1>1. T \subseteq Nat /\ T # {}
  <2>1. \A x \in S : N - x \in Nat
    OBVIOUS
  <2> QED
    BY <2>1, Zenon
<1>2. PICK m \in T : \A y \in T : m <= y
  BY <1>1, LeastOf, Zenon
<1>3. PICK x \in S : m = N - x
  BY <1>2, Zenon
<1>4. \A y \in S : x >= y
  BY <1>2, <1>3
<1>5. Max(S) \in S /\ \A y \in S : Max(S) >= y
  BY <1>4, Zenon DEF Max
<1> QED
  BY <1>5, Zenon

\* The page of a catch-up is not empty, and lies between its cursor and the max_seq
\* it read: that number has a row.
LEMMA PageFacts ==
  ASSUME PipeInv, diffMax # None
  PROVE  Page \subseteq Seqs /\ Page # {} /\ Max(Page) \in Page /\ Max(Page) > since
         /\ \A s \in Page : rows[s] # None
<1> DEFINE found == {s \in (since + 1)..diffMax : rows[s] # None}
<1>1. diffMax \in Seqs /\ rows[diffMax] # None /\ since < diffMax
  BY Zenon DEF PipeInv, TypeOK, RowsMatch
<1>2. since \in Nat /\ diffMax \in Nat /\ Cardinality(Calls) \in Nat
      /\ diffMax <= Cardinality(Calls)
  BY <1>1, SeqsFacts DEF PipeInv, TypeOK, Seqs
<1>3. (since + 1)..diffMax \subseteq Seqs /\ (since + 1)..diffMax \subseteq Nat
  BY <1>2 DEF Seqs
<1>4. diffMax \in found
  BY <1>1, <1>2
<1>5. PICK m \in found : \A y \in found : m <= y
  <2>1. found \subseteq Nat /\ found # {}
    BY <1>3, <1>4, Zenon
  <2> HIDE DEF found
  <2> QED
    BY <2>1, LeastOf, Zenon
<1>6. {t \in found : t < m} = {}
  BY <1>5, <1>3
<1>7. Cardinality({t \in found : t < m}) < Limit
  <2>1. Cardinality({t \in found : t < m}) = 0
    BY <1>6, FS_EmptySet, Zenon
  <2> HIDE DEF found
  <2> QED
    BY <2>1, PipelineAssumption
<1>8. Page = {s \in found : Cardinality({t \in found : t < s}) < Limit}
  BY Zenon DEF Page
<1>9. m \in Page /\ Page \subseteq found
  BY <1>5, <1>7, <1>8, Zenon
<1>10. Page \subseteq 0..Cardinality(Calls) /\ Page # {}
  <2>1. Seqs \subseteq 0..Cardinality(Calls)
    BY <1>2 DEF Seqs
  <2> QED
    BY <2>1, <1>3, <1>9, Zenon
<1>11. Max(Page) \in Page
  BY <1>10, <1>2, MaxOf, Zenon
<1>12. Max(Page) \in (since + 1)..diffMax
  BY <1>9, <1>11, Zenon
<1>13. Max(Page) > since
  BY <1>12, <1>2
<1> QED
  BY <1>3, <1>9, <1>10, <1>11, <1>13, Zenon

\* What a client does on its side disturbs no store.
LEMMA ReadInv ==
  ASSUME PipeInv, UNCHANGED <<sendVars, persistVars, rows, editing>>,
         received' \subseteq Calls, cursor' \in 0..Cardinality(Calls),
         since' \in 0..Cardinality(Calls), diffMax' \in Seqs \union {None},
         diffMax' # None => rows[diffMax'] # None /\ since' < diffMax'
  PROVE  PipeInv'
<1> USE DEF sendVars, persistVars
<1>1. TypeOK'
  <2>1. {maxSeq', cursor', since'} \subseteq 0..Cardinality(Calls)
    BY SeqsFacts, Zenon DEF PipeInv
  <2> QED
    BY <2>1, Zenon DEF PipeInv, TypeOK
<1>2. RowsMatch'
  BY Zenon DEF PipeInv, RowsMatch
<1>3. Numbered' /\ Logged' /\ Handled' /\ AnsweredSeq' /\ Applied' /\ DuplicateIsStored'
  BY Zenon
     DEF PipeInv, Numbered, Logged, Handled, AnsweredSeq, Settled, Current, Applied, DuplicateIsStored
<1> QED
  BY <1>1, <1>2, <1>3, Zenon DEF PipeInv

\* onUpdate of the client, and the two halves of getDifference.
LEMMA ClientInv ==
  ASSUME PipeInv, (\E c \in Calls : LiveUpdate(c)) \/ DiffBegin \/ DiffEnd
  PROVE  PipeInv'
<1>1. /\ cursor \in 0..Cardinality(Calls) /\ since \in 0..Cardinality(Calls)
      /\ maxSeq \in 0..Cardinality(Calls) /\ Cardinality(Calls) \in Nat
  BY SeqsFacts, Zenon DEF PipeInv, TypeOK
<1>2. /\ received \subseteq Calls /\ diffMax \in Seqs \union {None}
      /\ diffMax # None => rows[diffMax] # None /\ since < diffMax
  BY Zenon DEF PipeInv, TypeOK, RowsMatch
<1>3. CASE \E c \in Calls : LiveUpdate(c)
  <2>1. PICK c \in Calls : LiveUpdate(c)
    BY <1>3, Zenon
  <2>2. {cursor, callSeq[c]} \subseteq 0..Cardinality(Calls) /\ {cursor, callSeq[c]} # {}
    BY <1>1, SeqsFacts, Zenon DEF PipeInv
  <2>3. Max({cursor, callSeq[c]}) \in {cursor, callSeq[c]}
    BY <1>1, <2>2, MaxOf, Zenon
  <2>4. cursor' \in 0..Cardinality(Calls)
    BY <2>1, <2>2, <2>3, Zenon DEF LiveUpdate
  <2>5. /\ UNCHANGED <<sendVars, persistVars, rows, editing, since, diffMax>>
        /\ received' = received \union {c}
    BY <2>1, Zenon DEF LiveUpdate
  <2> QED
    BY <1>1, <1>2, <2>4, <2>5, ReadInv, Zenon
<1>4. CASE DiffBegin
  <2>1. /\ UNCHANGED <<sendVars, persistVars, rows, editing, received>> /\ since' = cursor
        /\ diffMax = None
        /\ \/ cursor' \in {cursor, maxSeq} /\ diffMax' = diffMax
           \/ ~(maxSeq <= cursor) /\ diffMax' = maxSeq /\ cursor' = cursor
    BY <1>4, Zenon DEF DiffBegin
  <2>2. ~(maxSeq <= cursor) => maxSeq \in Seqs /\ cursor < maxSeq /\ maxSeq # 0
    BY <1>1 DEF Seqs
  <2>3. maxSeq # 0 => rows[maxSeq] # None
    BY Zenon DEF PipeInv, RowsMatch
  <2>4. diffMax' \in Seqs \union {None} /\ cursor' \in 0..Cardinality(Calls)
    BY <1>1, <2>1, <2>2, Zenon
  <2>5. diffMax' # None => rows[diffMax'] # None /\ since' < diffMax'
    BY <2>1, <2>2, <2>3, Zenon
  <2> QED
    BY <1>1, <1>2, <2>1, <2>4, <2>5, ReadInv, Zenon
<1>5. CASE DiffEnd
  <2>1. /\ UNCHANGED <<sendVars, persistVars, rows, editing, since>>
        /\ diffMax # None /\ diffMax' = None
        /\ received' = received \union {rows[s].id : s \in Page}
        /\ cursor' = IF Page = {} THEN cursor ELSE Max(Page)
    BY <1>5, Zenon DEF DiffEnd
  <2>2. cursor' \in Page /\ \A s \in Page : s \in Seqs /\ rows[s] # None
    BY <2>1, PageFacts, Zenon
  <2>3. cursor' \in 0..Cardinality(Calls)
    BY <2>2, <1>1 DEF Seqs
  <2>4. \A s \in Seqs : rows[s] # None => rows[s].id \in Calls
    BY Zenon DEF PipeInv, TypeOK, Row
  <2>5. received' \subseteq Calls
    BY <1>2, <2>1, <2>2, <2>4, Zenon
  <2> QED
    BY <1>1, <2>1, <2>3, <2>5, ReadInv, Zenon
<1> QED
  BY <1>3, <1>4, <1>5, Zenon

\* What the theorems below rest on: whatever requests, writes, faults, edits and
\* catch-ups come in whatever order, numbers, log, stores and answers agree.
THEOREM PipelineInductive == Spec => []PipeInv
<1>1. PipeInv /\ [Next]_vars => PipeInv'
  <2> SUFFICES ASSUME PipeInv, [Next]_vars PROVE PipeInv'
    BY Zenon
  <2>1. CASE \E c \in Calls : Send(c)
    <3>1. PICK c \in Calls : Dedupe(c) \/ Allocate(c) \/ Publish(c) \/ PublishFail(c)
      BY <2>1, Zenon DEF Send
    <3>2. ASSUME Dedupe(c) PROVE PipeInv'
      BY <3>2, DedupeInv, Zenon
    <3>3. ASSUME Allocate(c) PROVE PipeInv'
      BY <3>3, AllocateInv, Zenon
    <3>4. ASSUME Publish(c) PROVE PipeInv'
      BY <3>4, PublishInv, Zenon
    <3>5. ASSUME PublishFail(c) PROVE PipeInv'
      BY <3>5, PublishFailInv, Zenon
    <3> QED
      BY <3>1, <3>2, <3>3, <3>4, <3>5, Zenon
  <2>2. CASE FetchRaw \/ Write \/ WriteFail \/ CommitRaw \/ PersisterCrash
    <3>1. ASSUME FetchRaw \/ Write PROVE PipeInv'
      BY <3>1, FetchInv, WriteInv, Zenon
    <3>2. ASSUME WriteFail \/ CommitRaw PROVE PipeInv'
      BY <3>2, WriteFailInv, CommitInv, Zenon
    <3>3. ASSUME PersisterCrash PROVE PipeInv'
      BY <3>3, CrashInv, Zenon
    <3> QED
      BY <2>2, <3>1, <3>2, <3>3, Zenon
  <2>3. CASE DeleteMessage \/ EditRead \/ EditWrite
    BY <2>3, ChangesInv, Zenon
  <2>4. CASE (\E c \in Calls : LiveUpdate(c)) \/ DiffBegin \/ DiffEnd
    BY <2>4, ClientInv, Zenon
  <2>5. CASE UNCHANGED vars
    <3>1. UNCHANGED <<sendVars, persistVars, rows, editing, received, cursor, since, diffMax>>
      BY <2>5, Zenon DEF vars, readVars
    <3>2. cursor \in 0..Cardinality(Calls) /\ since \in 0..Cardinality(Calls)
      BY Zenon DEF PipeInv, TypeOK
    <3>3. /\ received \subseteq Calls /\ diffMax \in Seqs \union {None}
          /\ diffMax # None => rows[diffMax] # None /\ since < diffMax
      BY Zenon DEF PipeInv, TypeOK, RowsMatch
    <3> QED
      BY <3>1, <3>2, <3>3, ReadInv, Zenon
  <2> QED
    BY <2>1, <2>2, <2>3, <2>4, <2>5, Zenon DEF Next
<1> QED
  BY <1>1, PipeInitInv, PTL DEF Spec

\* Whatever is announced on messages.persisted can be read: row, id and dedupe
\* entries and max_seq were written first, and nothing takes them away.
THEOREM AnnouncedIsReadable == Spec => []PersistedIsReadable
<1>1. PipeInv => PersistedIsReadable
  <2> SUFFICES ASSUME PipeInv, NEW c \in persistedLog
               PROVE  /\ rows[callSeq[c]] # None /\ maxSeq >= callSeq[c]
                      /\ {"byId", "dedupe", "bucket"} \subseteq applied[c]
    BY Zenon DEF PersistedIsReadable
  <2>1. c \in Calls /\ "persisted" \in applied[c]
    BY Zenon DEF PipeInv, TypeOK, Applied
  <2>2. \A w \in Range(Writes) : After(w) \in applied[c] => w \in applied[c]
    BY <2>1, Zenon DEF PipeInv, Applied
  <2>3. "acl" \in applied[c] /\ "mirror" \in applied[c] /\ "bucket" \in applied[c]
    BY <2>1, <2>2, WriteOrder, Zenon
  <2>4. "dedupe" \in applied[c] /\ "byId" \in applied[c]
    BY <2>2, <2>3, WriteOrder, Zenon
  <2>5. rows[callSeq[c]] # None
    BY <2>1, <2>4, DedupeAfterRow, OwnRow, Zenon
  <2>6. callSeq[c] <= maxSeq
    BY <2>1, <2>3, Zenon DEF PipeInv, Applied
  <2>7. callSeq[c] \in Int /\ maxSeq \in Int
    BY <2>1, SeqsFacts DEF PipeInv
  <2> QED
    BY <2>3, <2>4, <2>5, <2>6, <2>7, Zenon
<1> QED
  BY <1>1, PipelineInductive, PTL

\* A message answered with a number is announced, dead-lettered or still ahead of
\* every persister; one answered as a duplicate is stored.
THEOREM AnswersAreKept == Spec => []AnsweredIsKept
<1>1. PipeInv => AnsweredIsKept
  <2> SUFFICES ASSUME PipeInv PROVE AcceptedIsNotLost
    BY Zenon DEF AnsweredIsKept, PipeInv
  <2> SUFFICES ASSUME NEW c \in Calls, reply[c] # None, reply[c].kind = "ok"
               PROVE  c \in Settled \union {raw[i] : i \in committed..Len(raw)}
    BY Zenon DEF AcceptedIsNotLost, Settled
  <2>1. PICK i \in 1..Len(raw) : raw[i] = c
    BY Zenon DEF PipeInv, Logged
  <2>2. i \in committed..Len(raw) \/ i \in 1..(pos - 1)
    BY DEF PipeInv, TypeOK
  <2> QED
    BY <2>1, <2>2, Zenon DEF PipeInv, Handled
<1> QED
  BY <1>1, PipelineInductive, PTL

\* Rows and their deletions in one step.
LEMMA RowsStandStep ==
  ASSUME PipeInv, [Next]_vars
  PROVE  \A s \in Seqs : rows[s] # None =>
           /\ rows'[s] # None /\ rows'[s].id = rows[s].id
           /\ rows[s].deleted => rows'[s].deleted \/ (stage = "row" /\ callSeq[Current] = s)
<1>1. CASE UNCHANGED rows
  BY <1>1, Zenon
<1>2. CASE Write /\ stage = "row"
  <2>1. Current \in Calls /\ callSeq[Current] \in Seqs /\ rows' = InsertRow(Current)
    BY <1>2, CurrentFacts, Zenon DEF Write
  <2> QED
    BY <2>1, <1>2, InsertKeeps, Zenon DEF RowsKept
<1>3. CASE DeleteMessage
  <2>1. \A s \in Seqs : rows[s] # None /\ rows[s].deleted => rows'[s].deleted
    <3>1. rows \in [Seqs -> {None} \union Row]
      BY Zenon DEF PipeInv, TypeOK
    <3>2. PICK t \in Seqs : /\ rows[t] # None
                           /\ rows' = [rows EXCEPT ![t].deleted = TRUE, ![t].body = "blank"]
      BY <1>3, Zenon DEF DeleteMessage
    <3>3. rows[t] \in Row
      BY <3>1, <3>2, Zenon
    <3>4. rows'[t].deleted /\ \A s \in Seqs : s # t => rows'[s] = rows[s]
      BY <3>1, <3>2, <3>3, Zenon DEF Row
    <3> QED
      BY <3>4, Zenon
  <2> QED
    BY <2>1, <1>3, DeleteKeeps, Zenon DEF RowsKept
<1>4. CASE EditWrite
  <2>1. \A s \in Seqs : rows[s] # None /\ rows[s].deleted => rows'[s].deleted
    <3>1. /\ rows \in [Seqs -> {None} \union Row] /\ editing \in Seqs /\ rows[editing] # None
          /\ rows' = [rows EXCEPT ![editing].body = "edited", ![editing].edited = TRUE]
      BY <1>4, Zenon DEF EditWrite, PipeInv, TypeOK, RowsMatch
    <3>2. rows[editing] \in Row
      BY <3>1, Zenon
    <3>3. /\ rows'[editing].deleted = rows[editing].deleted
          /\ \A s \in Seqs : s # editing => rows'[s] = rows[s]
      BY <3>1, <3>2, Zenon DEF Row
    <3> QED
      BY <3>3, Zenon
  <2> QED
    BY <2>1, <1>4, EditKeeps, Zenon DEF RowsKept
<1>5. UNCHANGED rows \/ (Write /\ stage = "row") \/ DeleteMessage \/ EditWrite
  <2>1. ASSUME NEW c \in Calls, Send(c) PROVE UNCHANGED rows
    BY <2>1, Zenon DEF Send, Dedupe, Allocate, Publish, PublishFail
  <2>2. ASSUME NEW c \in Calls, LiveUpdate(c) PROVE UNCHANGED rows
    BY <2>2, Zenon DEF LiveUpdate
  <2>3. ASSUME FetchRaw \/ WriteFail \/ CommitRaw \/ PersisterCrash \/ EditRead \/ DiffBegin
               \/ DiffEnd
        PROVE  UNCHANGED rows
    BY <2>3, Zenon DEF FetchRaw, WriteFail, CommitRaw, PersisterCrash, EditRead, DiffBegin, DiffEnd
  <2>4. ASSUME Write, stage # "row" PROVE UNCHANGED rows
    BY <2>4, Zenon DEF Write
  <2>5. ASSUME UNCHANGED vars PROVE UNCHANGED rows
    BY <2>5, Zenon DEF vars
  <2> QED
    BY <2>1, <2>2, <2>3, <2>4, <2>5, Zenon DEF Next
<1> QED
  BY <1>1, <1>2, <1>3, <1>4, <1>5, Zenon

\* A row of messages_by_chat never passes to another message, and a deleted message
\* comes back only when the persister handles its record again.
THEOREM RowsAlwaysStand == Spec => RowsStand
<1>1. PipeInv /\ [Next]_vars =>
        /\ [\A s \in Seqs : rows[s] # None => rows'[s] # None /\ rows'[s].id = rows[s].id]_vars
        /\ [\A s \in Seqs : rows[s] # None /\ rows[s].deleted
               => rows'[s].deleted \/ (stage = "row" /\ callSeq[Current] = s)]_vars
  BY RowsStandStep, Zenon
<1> QED
  BY <1>1, PipelineInductive, PTL DEF Spec, RowsStand, RowKeepsItsMessage, DeletedUntilReplay

\* A getDifference that finds max_seq above the cursor returns a row and moves the
\* cursor on, so that a client that loops on "truncated" comes to an end.
THEOREM CatchUpAlwaysProgresses == Spec => CatchUpProgresses
<1>1. ASSUME PipeInv, [Next]_vars, diffMax # None, diffMax' = None PROVE cursor' > since
  <2>1. ASSUME NEW c \in Calls, Send(c) PROVE UNCHANGED diffMax
    BY <2>1, Zenon DEF Send, Dedupe, Allocate, Publish, PublishFail, readVars
  <2>2. ASSUME NEW c \in Calls, LiveUpdate(c) PROVE UNCHANGED diffMax
    BY <2>2, Zenon DEF LiveUpdate
  <2>3. ASSUME FetchRaw \/ Write \/ WriteFail \/ CommitRaw \/ PersisterCrash
        PROVE  UNCHANGED diffMax
    BY <2>3, Zenon DEF FetchRaw, Write, WriteFail, CommitRaw, PersisterCrash, readVars
  <2>4. ASSUME DeleteMessage \/ EditRead \/ EditWrite PROVE UNCHANGED diffMax
    BY <2>4, Zenon DEF DeleteMessage, EditRead, EditWrite, readVars
  <2>5. ASSUME UNCHANGED vars PROVE UNCHANGED diffMax
    BY <2>5, Zenon DEF vars, readVars
  <2>6. ~DiffBegin
    BY <1>1, Zenon DEF DiffBegin
  <2>7. DiffEnd
    BY <1>1, <2>1, <2>2, <2>3, <2>4, <2>5, <2>6, Zenon DEF Next
  <2> QED
    BY <1>1, <2>7, PageFacts, Zenon DEF DiffEnd
<1>2. PipeInv /\ [Next]_vars => [diffMax # None /\ diffMax' = None => cursor' > since]_vars
  BY <1>1, Zenon
<1> QED
  BY <1>2, PipelineInductive, PTL DEF Spec, CatchUpProgresses
=============================================================================
