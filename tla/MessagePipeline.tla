--------------------------- MODULE MessagePipeline --------------------------
(***************************************************************************)
(* The life of a message in one chat: handleSendMessage (chat-service)     *)
(* allocates a sequence number and publishes to messages.raw, the          *)
(* persister writes Cassandra, the Postgres mirror and messages.persisted, *)
(* and clients edit, delete and catch up with getDifference.               *)
(*                                                                         *)
(* A message is named by the request that created it (its MessageID is     *)
(* fresh).  The counter is the atomic INCR of SeqAllocator without loss;   *)
(* authorisation is the subject of Membership.                             *)
(***************************************************************************)
EXTENDS Integers, Sequences, FiniteSetsExt

CONSTANTS Calls,       \* requests to messages.sendMessage
          RandomIDs,   \* client_random_id values
          RandomID,    \* the random id each request carries; retries share one
          None,
          Limit,       \* rows per getDifference answer
          MaxRetries,  \* the persister's MaxRetries
          MaxFaults,   \* bound: failed or ambiguous writes, crashes
          MaxChanges,  \* bound: edits and deletes
          MaxDiffs,    \* bound: getDifference requests
          MaxPushes    \* bound: live updates that reach the client

Seqs == 1..Cardinality(Calls)
Row == [id : Calls, body : {"original", "edited", "blank"}, deleted : BOOLEAN, edited : BOOLEAN]
Reply == [kind : {"ok", "duplicate", "error"}, seq : 0..Cardinality(Calls)]

ASSUME PipelineAssumption == /\ IsFiniteSet(Calls) /\ RandomID \in [Calls -> RandomIDs]
                             /\ Limit \in Nat \ {0} /\ MaxRetries \in Nat
                             /\ None \notin Calls \union Seqs \union Row \union Reply

VARIABLES
  counter,                     \* Redis sequence counter
  pc, callSeq, reply,          \* handleSendMessage: step, number, answer
  raw,                         \* messages.raw, a sequence of messages
  pos, committed,              \* persister: next offset, committed offset
  stage, attempt,              \* persister: step of handle, retry count
  applied,                     \* which writes of handle each message has had
  rows, dedupe, maxSeq,        \* messages_by_chat, message_dedupe, chat_sequences
  persistedLog, deadLetters,   \* messages.persisted and the dead-letter topic
  editing,                     \* row an edit has read and not yet written
  cursor, received,            \* a client: its cursor, the messages it holds
  since, diffMax,              \* its getDifference: cursor sent, max_seq read
  faults, changes, diffs, pushes

sendVars == <<counter, pc, callSeq, reply, raw>>
persistVars == <<pos, committed, stage, attempt, applied, dedupe, maxSeq, persistedLog,
                 deadLetters>>
readVars == <<cursor, received, since, diffMax, diffs, pushes>>
vars == <<sendVars, persistVars, rows, editing, changes, readVars, faults>>

Fault == faults < MaxFaults /\ faults' = faults + 1

Init ==
  /\ counter = 0 /\ faults = 0 /\ changes = 0 /\ diffs = 0 /\ pushes = 0
  /\ pc = [c \in Calls |-> "idle"]
  /\ callSeq = [c \in Calls |-> 0]
  /\ reply = [c \in Calls |-> None]
  /\ raw = <<>> /\ pos = 1 /\ committed = 1 /\ stage = "fetch" /\ attempt = 0
  /\ applied = [c \in Calls |-> {}]
  /\ rows = [s \in Seqs |-> None]
  /\ dedupe = [r \in RandomIDs |-> None]
  /\ maxSeq = 0 /\ persistedLog = {} /\ deadLetters = {}
  /\ editing = None
  /\ cursor = 0 /\ received = {} /\ since = 0 /\ diffMax = None

(***************************************************************************)
(* handleSendMessage, steps 4 to 7.                                        *)
(***************************************************************************)
Answer(c, kind, s) == reply' = [reply EXCEPT ![c] = [kind |-> kind, seq |-> s]]

\* Step 4: a known random id is answered with the stored message.  A failed
\* lookup counts as unknown.
Dedupe(c) ==
  /\ pc[c] = "idle"
  /\ \/ /\ dedupe[RandomID[c]] # None
        /\ Answer(c, "duplicate", callSeq[dedupe[RandomID[c]]])
        /\ pc' = [pc EXCEPT ![c] = "done"]
        /\ UNCHANGED faults
     \/ /\ IF dedupe[RandomID[c]] = None THEN UNCHANGED faults ELSE Fault
        /\ pc' = [pc EXCEPT ![c] = "allocate"]
        /\ UNCHANGED reply
  /\ UNCHANGED <<counter, callSeq, raw, persistVars, rows, editing, changes, readVars>>

\* Step 5: INCR.
Allocate(c) ==
  /\ pc[c] = "allocate"
  /\ counter' = counter + 1
  /\ callSeq' = [callSeq EXCEPT ![c] = counter + 1]
  /\ pc' = [pc EXCEPT ![c] = "publish"]
  /\ UNCHANGED <<reply, raw, persistVars, rows, editing, changes, readVars, faults>>

\* Steps 6 and 7: publish with acks=all, answer with the number.  The writer
\* retries an unacknowledged append without idempotence, so a record may be in
\* the log twice.
Publish(c) ==
  /\ pc[c] = "publish" /\ pc' = [pc EXCEPT ![c] = "done"]
  /\ \/ raw' = Append(raw, c) /\ UNCHANGED faults
     \/ raw' = raw \o <<c, c>> /\ Fault
  /\ Answer(c, "ok", callSeq[c])
  /\ UNCHANGED <<counter, callSeq, persistVars, rows, editing, changes, readVars>>

\* Mutant of PublishFail: the number is given back instead of burned.
PublishFailReturnsSeq(c) ==
  /\ pc[c] = "publish" /\ Fault /\ pc' = [pc EXCEPT ![c] = "done"]
  /\ raw' \in {raw, Append(raw, c)}
  /\ Answer(c, "error", 0)
  /\ counter' = counter - 1
  /\ UNCHANGED <<callSeq, persistVars, rows, editing, changes, readVars>>

\* The publish fails: the number is burned and the client told to retry.  After
\* a timeout the record may be in the log all the same.
PublishFail(c) ==
  /\ pc[c] = "publish" /\ Fault /\ pc' = [pc EXCEPT ![c] = "done"]
  /\ raw' \in {raw, Append(raw, c)}
  /\ Answer(c, "error", 0)
  /\ UNCHANGED <<counter, callSeq, persistVars, rows, editing, changes, readVars>>

(***************************************************************************)
(* The persister: handle, one durable write per step, inside the           *)
(* fetch-handle-commit loop of KafkaConsumer.                              *)
(***************************************************************************)
\* Mutant of Writes: the event is published before the message is durable.
WritesEventFirst == <<"persisted", "row", "byId", "dedupe", "bucket", "mirror", "acl", "index">>

\* Mutant of Writes: the dedupe entry is written before the row exists.
WritesDedupeFirst == <<"dedupe", "row", "byId", "bucket", "mirror", "acl", "persisted", "index">>

\* The writes of handle in order: the three inserts of MessageRepo.Insert,
\* TouchBucket, Sequences.Advance, MediaACL.Bind, the persisted event and the
\* search document.
Writes == <<"row", "byId", "dedupe", "bucket", "mirror", "acl", "persisted", "index">>
After(w) == LET i == CHOOSE i \in DOMAIN Writes : Writes[i] = w
            IN  IF i = Len(Writes) THEN "commit" ELSE Writes[i + 1]

Current == raw[pos]

FetchRaw == /\ stage = "fetch" /\ pos <= Len(raw)
            /\ stage' = Head(Writes) /\ attempt' = 0
            /\ UNCHANGED <<sendVars, pos, committed, applied, dedupe, maxSeq, persistedLog,
                           deadLetters, rows, editing, changes, readVars, faults>>

\* INSERT INTO messages_by_chat: overwrites the row, deleted = false, the
\* event's body; edited_at is not a column of the insert.
InsertRow(c) == [rows EXCEPT ![callSeq[c]] =
                   [id |-> c, body |-> "original", deleted |-> FALSE,
                    edited |-> IF @ = None THEN FALSE ELSE @.edited]]

Write == LET c == Current IN
  /\ stage \in Range(Writes)
  /\ applied' = [applied EXCEPT ![c] = @ \union {stage}]
  /\ rows' = IF stage = "row" THEN InsertRow(c) ELSE rows
  /\ dedupe' = IF stage = "dedupe" THEN [dedupe EXCEPT ![RandomID[c]] = c] ELSE dedupe
  /\ maxSeq' = IF stage = "mirror" /\ callSeq[c] > maxSeq THEN callSeq[c] ELSE maxSeq
  /\ persistedLog' = IF stage = "persisted" THEN persistedLog \union {c} ELSE persistedLog
  /\ stage' = After(stage)
  /\ UNCHANGED <<sendVars, pos, committed, attempt, deadLetters, editing, changes, readVars,
                 faults>>

\* A write fails.  The search document is best effort; any other failure
\* starts handle again, and after MaxRetries dead-letters the record.
WriteFail ==
  /\ stage \in Range(Writes) /\ Fault
  /\ IF stage = "index"
       THEN stage' = "commit" /\ UNCHANGED <<attempt, deadLetters>>
       ELSE IF attempt < MaxRetries
              THEN stage' = Head(Writes) /\ attempt' = attempt + 1 /\ UNCHANGED deadLetters
              ELSE /\ stage' = "commit" /\ deadLetters' = deadLetters \union {Current}
                   /\ UNCHANGED attempt
  /\ UNCHANGED <<sendVars, pos, committed, applied, dedupe, maxSeq, persistedLog, rows,
                 editing, changes, readVars>>

CommitRaw == /\ stage = "commit"
             /\ stage' = "fetch" /\ pos' = pos + 1
             /\ \/ committed' = pos + 1 /\ UNCHANGED faults
                \/ Fault /\ UNCHANGED committed
             /\ UNCHANGED <<sendVars, attempt, applied, dedupe, maxSeq, persistedLog,
                            deadLetters, rows, editing, changes, readVars>>

\* The pod dies, or the partition moves: the next pod starts at the committed
\* offset.
PersisterCrash == /\ Fault /\ stage' = "fetch" /\ pos' = committed
                  /\ UNCHANGED <<sendVars, committed, attempt, applied, dedupe, maxSeq,
                                 persistedLog, deadLetters, rows, editing, changes, readVars>>

(***************************************************************************)
(* Edits and deletes.                                                      *)
(***************************************************************************)
Change == changes < MaxChanges /\ changes' = changes + 1

\* handleDeleteMessage: messageAt found the row; SoftDelete blanks it.
DeleteMessage == \E s \in Seqs :
  /\ rows[s] # None /\ Change
  /\ rows' = [rows EXCEPT ![s].deleted = TRUE, ![s].body = "blank"]
  /\ UNCHANGED <<sendVars, persistVars, editing, readVars, faults>>

\* handleEditMessage reads the row and refuses a deleted one ...
EditRead == \E s \in Seqs :
  /\ editing = None /\ Change
  /\ rows[s] # None /\ ~rows[s].deleted
  /\ editing' = s
  /\ UNCHANGED <<sendVars, persistVars, rows, readVars, faults>>

\* ... and writes the two columns in a second round trip.
EditWrite == /\ editing # None
             /\ rows' = [rows EXCEPT ![editing].body = "edited", ![editing].edited = TRUE]
             /\ editing' = None
             /\ UNCHANGED <<sendVars, persistVars, changes, readVars, faults>>

(***************************************************************************)
(* The client: live updates from fanout, catch-up with getDifference.      *)
(***************************************************************************)
\* fanout publishes an accepted message to the users' channels; the update may
\* be lost.  onUpdate of the web client keeps the highest sequence it has seen.
LiveUpdate(c) ==
  /\ reply[c] # None /\ reply[c].kind = "ok" /\ c \notin received
  /\ pushes < MaxPushes /\ pushes' = pushes + 1
  /\ received' = received \union {c}
  /\ cursor' = Max({cursor, callSeq[c]})
  /\ UNCHANGED <<sendVars, persistVars, rows, editing, changes, since, diffMax, diffs, faults>>

\* Mutant of DiffBegin: the range is bounded by the newest number handed out.
DiffBeginCounter ==
  /\ diffMax = None /\ diffs < MaxDiffs /\ diffs' = diffs + 1
  /\ since' = cursor
  /\ IF counter <= cursor
       THEN cursor' \in {cursor, counter} /\ UNCHANGED diffMax
       ELSE diffMax' = counter /\ UNCHANGED cursor
  /\ UNCHANGED <<sendVars, persistVars, rows, editing, changes, received, pushes, faults>>

\* handleGetDifference: Dialogs reads max_seq from Postgres; a cursor at or
\* past it is answered at once, with max_seq as the new cursor.  The client
\* takes over new_cursors when the answer holds messages of any chat.
DiffBegin ==
  /\ diffMax = None /\ diffs < MaxDiffs /\ diffs' = diffs + 1
  /\ since' = cursor
  /\ IF maxSeq <= cursor
       THEN cursor' \in {cursor, maxSeq} /\ UNCHANGED diffMax
       ELSE diffMax' = maxSeq /\ UNCHANGED cursor
  /\ UNCHANGED <<sendVars, persistVars, rows, editing, changes, received, pushes, faults>>

\* MessageRepo.Range: the first Limit rows above the cursor, up to max_seq.
Page == LET found == {s \in (since + 1)..diffMax : rows[s] # None}
        IN  {s \in found : Cardinality({t \in found : t < s}) < Limit}

\* The rows are returned and the last one becomes the new cursor.
DiffEnd == /\ diffMax # None /\ diffMax' = None
           /\ received' = received \union {rows[s].id : s \in Page}
           /\ cursor' = IF Page = {} THEN cursor ELSE Max(Page)
           /\ UNCHANGED <<sendVars, persistVars, rows, editing, changes, since, diffs, pushes,
                          faults>>

Send(c) == Dedupe(c) \/ Allocate(c) \/ Publish(c) \/ PublishFail(c)
Next == \/ \E c \in Calls : Send(c)
        \/ FetchRaw \/ Write \/ WriteFail \/ CommitRaw \/ PersisterCrash
        \/ DeleteMessage \/ EditRead \/ EditWrite
        \/ \E c \in Calls : LiveUpdate(c)
        \/ DiffBegin \/ DiffEnd

Spec == Init /\ [][Next]_vars
-----------------------------------------------------------------------------
TypeOK ==
  /\ counter \in 0..Cardinality(Calls)
  /\ pc \in [Calls -> {"idle", "allocate", "publish", "done"}]
  /\ callSeq \in [Calls -> 0..Cardinality(Calls)]
  /\ reply \in [Calls -> {None} \union Reply]
  /\ raw \in Seq(Calls)
  /\ committed \in 1..pos /\ pos \in 1..(Len(raw) + 1)
  /\ stage \in Range(Writes) \union {"fetch", "commit"} /\ attempt \in 0..MaxRetries
  /\ rows \in [Seqs -> {None} \union Row]
  /\ dedupe \in [RandomIDs -> Calls \union {None}]
  /\ persistedLog \subseteq Calls /\ deadLetters \subseteq Calls /\ received \subseteq Calls
  /\ {maxSeq, cursor, since} \subseteq 0..Cardinality(Calls)
  /\ editing \in Seqs \union {None} /\ diffMax \in Seqs \union {None}

\* "A notification can only ever describe a message that is already in the
\* history": whatever is on messages.persisted has its row, its id and dedupe
\* entries, and is covered by the chat list's max_seq.
PersistedIsReadable == \A c \in persistedLog :
  /\ rows[callSeq[c]] # None
  /\ {"byId", "dedupe", "bucket"} \subseteq applied[c]
  /\ maxSeq >= callSeq[c]

\* A row never changes hands: no message overwrites another one's history,
\* even when a publish that was reported as failed reaches the log later.
RowKeepsItsMessage ==
  [][\A s \in Seqs : rows[s] # None => rows'[s] # None /\ rows'[s].id = rows[s].id]_vars

\* A getDifference answer that is marked truncated can be continued: every
\* catch-up that finds max_seq above the cursor returns a row and moves the
\* cursor forward, so a client that loops on "truncated" terminates.
CatchUpProgresses == [][diffMax # None /\ diffMax' = None => cursor' > since]_vars

\* A request answered as a duplicate is answered with the sequence of a stored
\* message that carries the same random id.
DuplicateIsStored == \A c \in Calls :
  reply[c] # None /\ reply[c].kind = "duplicate" =>
    LET row == rows[reply[c].seq] IN row # None /\ RandomID[row.id] = RandomID[c]

\* A message answered with a sequence number is not lost: it is announced on
\* messages.persisted, dead-lettered, or still in the log at or after the offset
\* where the next persister would start.
AcceptedIsNotLost == \A c \in Calls :
  reply[c] # None /\ reply[c].kind = "ok" =>
    c \in persistedLog \union deadLetters \union {raw[i] : i \in committed..Len(raw)}

\* A deleted message stays deleted, whatever edits read it before the delete:
\* only the persister's insert, handling the message's record again, brings it
\* back (it is meant to be a replay that "changes nothing").
DeletedUntilReplay ==
  [][\A s \in Seqs : rows[s] # None /\ rows[s].deleted
       => rows'[s].deleted \/ (stage = "row" /\ callSeq[Current] = s)]_vars

\* handleGetDifference: "whatever the client missed while its connection was
\* down is read back out of Cassandra from the last sequence it holds": nothing
\* at or below the cursor is missing from what the client received.
NothingMissedBelowCursor == \A s \in 1..cursor : rows[s] # None => rows[s].id \in received

\* What a send was answered holds: an answer of "duplicate" names a stored
\* message, an answer with a number belongs to a message that is not lost.
AnsweredIsKept == TypeOK /\ DuplicateIsStored /\ AcceptedIsNotLost

\* A row of messages_by_chat keeps its message, and its deletion until a replay.
RowsStand == RowKeepsItsMessage /\ DeletedUntilReplay
=============================================================================
