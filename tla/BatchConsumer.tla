---------------------------- MODULE BatchConsumer ---------------------------
(***************************************************************************)
(* The two consumers that keep records in memory behind the committed      *)
(* offset: the auditor, which archives the audit trail and verifies its    *)
(* hash chain, and the indexer, which writes search documents.  One        *)
(* partition and one pod at a time, and the writer of the records: for the *)
(* auditor the logger of pkg/auditlog, for the indexer the persister.      *)
(*                                                                         *)
(* A hash stands for the content it covers, so the hash of an entry is the *)
(* entry: [boot, n, hour] is the n-th entry of the logger's boot-th life,  *)
(* written in that hour, and its PrevHash is the entry n - 1 of that life. *)
(***************************************************************************)
EXTENDS Integers, Sequences, Functions

CONSTANTS None,
          Recorders,    \* concurrent calls of Record
          BatchMax,     \* batchMax
          MaxBuffered,  \* the indexer's maxBuffered
          MaxRetries,   \* ConsumerOptions.MaxRetries
          MaxEntries,   \* bound: entries a logger numbers, records in the topic
          MaxFaults     \* bound: failed calls, rebalances, restarts, deaths

ASSUME BatchAssumption ==
  /\ BatchMax \in Nat \ {0} /\ MaxBuffered \in Nat /\ MaxRetries \in Nat
  /\ MaxEntries \in Nat /\ MaxFaults \in Nat

VARIABLES
  kind,                \* which of the two consumers this is
  boot, hour, seq,     \* Logger: its life, the time, its counter and prevHash
  numbered,            \* entries Record has numbered and not yet published
  topic,               \* the records of the partition
  phase, pos, attempt, \* Run and handleWithRetry: step, record, attempt
  committed,           \* committed offset: records below it are not read again
  last, pending,       \* the consumer's memory
  batch,               \* what each caller of flush is writing
  stopping, closing,   \* the context is cancelled; the closers run
  objects,             \* archive or index: name -> entries
  dead, alarms,        \* dead-lettered; entries reportBreak was called for
  again, forgot,       \* history: handled twice by one pod; handled unverified
  deaths, dropped,     \* history: ends without a flush; entries not requeued
  overwritten,         \* history: entries whose last object another one replaced
  faults

logVars == <<boot, hour, seq, numbered, topic>>
loopVars == <<phase, pos, attempt>>
stopVars == <<stopping, closing>>
memVars == <<last, pending, batch, stopVars>>
outVars == <<objects, dead, alarms>>
pastVars == <<again, forgot, deaths, dropped, overwritten>>
vars == <<kind, logVars, loopVars, committed, memVars, outVars, pastVars, faults>>

Flushers == {"handler", "loop", "final"}
NoBatch == [f \in Flushers |-> <<>>]

Init == /\ kind \in {"auditor", "indexer"}
        /\ boot = 1 /\ hour = 1 /\ seq = 0
        /\ numbered = [r \in Recorders |-> None] /\ topic = <<>>
        /\ phase = "fetch" /\ pos = 1 /\ attempt = 0 /\ committed = 1
        /\ last = None /\ pending = <<>> /\ batch = NoBatch
        /\ stopping = FALSE /\ closing = FALSE
        /\ objects = {} /\ dead = {} /\ alarms = {}
        /\ again = {} /\ forgot = {} /\ deaths = 0 /\ dropped = {} /\ overwritten = {}
        /\ faults = 0

Fault == faults < MaxFaults /\ faults' = faults + 1
Current == topic[pos]

(***************************************************************************)
(* Logger.Record: number under the lock, publish after it.                 *)
(***************************************************************************)
Record(r) ==
  /\ numbered[r] = None /\ seq < MaxEntries
  /\ seq' = seq + 1
  /\ numbered' = [numbered EXCEPT ![r] = [boot |-> boot, n |-> seq + 1, hour |-> hour]]
  /\ UNCHANGED <<kind, boot, hour, topic, loopVars, committed, memVars, outVars, pastVars, faults>>

\* The publish is acknowledged, or appended twice by the writer's retry, or
\* fails and is logged; its number is spent.
Publish(r) ==
  /\ numbered[r] # None /\ Len(topic) < MaxEntries
  /\ \/ topic' = Append(topic, numbered[r]) /\ UNCHANGED faults
     \/ Fault /\ topic' = topic \o <<numbered[r], numbered[r]>>
     \/ Fault /\ UNCHANGED topic
  /\ numbered' = [numbered EXCEPT ![r] = None]
  /\ UNCHANGED <<kind, boot, hour, seq, loopVars, committed, memVars, outVars, pastVars>>

\* New: the container restarts under the same HOSTNAME and the chain begins at
\* the genesis hash again.
RestartLogger ==
  /\ kind = "auditor" /\ Fault
  /\ boot' = boot + 1 /\ hour' \in {hour, hour + 1} /\ seq' = 0
  /\ numbered' = [r \in Recorders |-> None]
  /\ UNCHANGED <<kind, topic, loopVars, committed, memVars, outVars, pastVars>>

\* VerifyLink; the hash of prev is prev itself.
VerifyLink(prev, next) == next.n = prev.n + 1 /\ next.boot = prev.boot

(***************************************************************************)
(* Run, handleWithRetry and handle.                                        *)
(***************************************************************************)
Fetch == /\ phase = "fetch" /\ ~stopping /\ pos <= Len(topic)
         /\ phase' = "handle" /\ attempt' = 0
         /\ UNCHANGED <<kind, logVars, pos, committed, memVars, outVars, pastVars, faults>>

\* Mutant of Breaks: only a number that does not grow is a break.
BreaksTolerant == last # None /\ Current.n <= last.n

\* verify reports a break only against an entry this pod has seen.
Breaks == last # None /\ ~VerifyLink(last, Current)

\* handle up to its flush.
Handle ==
  /\ phase = "handle"
  /\ pending' = Append(pending, Current)
  /\ phase' = IF Len(pending') >= BatchMax THEN "flush" ELSE "commit"
  /\ IF kind = "indexer" THEN UNCHANGED <<last, alarms, forgot>>
     ELSE /\ last' = Current
          /\ alarms' = IF Breaks THEN alarms \union {Current} ELSE alarms
          /\ forgot' = IF last = None THEN forgot \union {Current} ELSE forgot
  /\ again' = IF attempt > 0 THEN again \union {Current} ELSE again
  /\ UNCHANGED <<kind, logVars, pos, attempt, committed, batch, stopVars, objects, dead, deaths,
                 dropped, overwritten, faults>>

\* The indexer's reader commits every CommitInterval, the auditor's at once; a
\* failed commit is logged and the loop goes on.
Commit ==
  /\ phase = "commit"
  /\ \/ committed' = pos + 1 /\ UNCHANGED faults
     \/ UNCHANGED committed /\ IF kind = "indexer" \/ stopping THEN UNCHANGED faults ELSE Fault
  /\ phase' = "fetch" /\ pos' = pos + 1
  /\ UNCHANGED <<kind, logVars, attempt, memVars, outVars, pastVars>>

DeadLetter ==
  /\ phase = "dlq" /\ phase' = "commit"
  /\ dead' = dead \union {Current}
  /\ UNCHANGED <<kind, logVars, pos, attempt, committed, memVars, objects, alarms, pastVars,
                 faults>>

\* The partition is taken away and comes back; the pod's memory stays.
Rebalance ==
  /\ phase = "fetch" /\ ~stopping /\ committed < pos /\ Fault
  /\ pos' = committed
  /\ again' = again \union {topic[i] : i \in committed..(pos - 1)}
  /\ UNCHANGED <<kind, logVars, phase, attempt, committed, memVars, outVars, forgot, deaths,
                 dropped, overwritten>>

(***************************************************************************)
(* flush: take the batch under the lock, write it, put it back if that     *)
(* fails.  The handler, the ticker and the shutdown call it.               *)
(***************************************************************************)
TakeHandler ==
  /\ phase = "flush"
  /\ phase' = IF pending = <<>> THEN "commit" ELSE "write"
  /\ batch' = [batch EXCEPT !["handler"] = pending] /\ pending' = <<>>
  /\ UNCHANGED <<kind, logVars, pos, attempt, committed, last, stopVars, outVars, pastVars, faults>>

\* Mutant of TakeLoop: the ticker writes full batches only.
TakeLoopFull ==
  /\ ~stopping /\ Len(pending) >= BatchMax /\ batch["loop"] = <<>>
  /\ batch' = [batch EXCEPT !["loop"] = pending] /\ pending' = <<>>
  /\ UNCHANGED <<kind, logVars, loopVars, committed, last, stopVars, outVars, pastVars, faults>>

TakeLoop ==
  /\ ~stopping /\ pending # <<>> /\ batch["loop"] = <<>>
  /\ batch' = [batch EXCEPT !["loop"] = pending] /\ pending' = <<>>
  /\ UNCHANGED <<kind, logVars, loopVars, committed, last, stopVars, outVars, pastVars, faults>>

\* The OnShutdown hook.  The auditor's main returns with Run, and within
\* propagationDelay its ticker, whose upload was cancelled, has put its batch
\* back; the indexer's shutdown waits for neither.
TakeFinal ==
  /\ stopping /\ ~closing /\ closing' = TRUE
  /\ kind = "auditor" => phase = "ended" /\ batch["loop"] = <<>>
  /\ batch' = [batch EXCEPT !["final"] = pending] /\ pending' = <<>>
  /\ UNCHANGED <<kind, logVars, loopVars, committed, last, stopping, outVars, pastVars, faults>>

\* The archive names an object after the hour of its first entry and the
\* numbers of its first and last; the same name is overwritten.
Upload(b) ==
  LET name == <<Head(b).hour, Head(b).n, b[Len(b)].n>>
  IN  {o \in objects : o.name # name} \union {[name |-> name, entries |-> Range(b)]}

\* The bulk request writes every document under its own id.
Index(docs) == objects \union {[name |-> d, entries |-> {d}] : d \in docs}

Stored == UNION {o.entries : o \in objects}

Put(b) == IF kind = "auditor" THEN Upload(b) ELSE Index(Range(b))

\* The write succeeds.  The answer of a bulk request is not looked into: single
\* documents may have been rejected.
Written(f) ==
  /\ batch[f] # <<>>
  /\ \/ objects' = Put(batch[f]) /\ UNCHANGED <<dropped, faults>>
     \/ /\ kind = "indexer" /\ Fault
        /\ \E d \in Range(batch[f]) : /\ objects' = Index(Range(batch[f]) \ {d})
                                      /\ dropped' = dropped \union {d}
  /\ overwritten' = overwritten \union (Stored \ Stored')
  /\ batch' = [batch EXCEPT ![f] = <<>>]
  /\ phase' = IF f = "handler" THEN "commit" ELSE phase
  /\ UNCHANGED <<kind, logVars, pos, attempt, committed, last, pending, stopVars, dead, alarms,
                 again, forgot, deaths>>

\* Mutant of Requeue: a failed batch is forgotten.
RequeueNothing(b) == UNCHANGED <<pending, dropped>>

\* The batch goes back to the front; the indexer drops it when too much waits.
Requeue(b) ==
  IF kind = "indexer" /\ Len(pending) + Len(b) > MaxBuffered
    THEN dropped' = dropped \union Range(b) /\ UNCHANGED pending
    ELSE pending' = b \o pending /\ UNCHANGED dropped

\* The write fails, perhaps after it took effect.  The auditor's fails when the
\* context is cancelled, the indexer's has a context of its own.  The handler's
\* error makes handleWithRetry call handle again; the retries of one record may
\* all fall into one outage, which counts as one fault.
WriteFail(f) ==
  /\ batch[f] # <<>>
  /\ IF (kind = "auditor" /\ stopping /\ f # "final") \/ (f = "handler" /\ attempt > 0)
       THEN UNCHANGED faults ELSE Fault
  /\ objects' \in {objects, Put(batch[f])}
  /\ overwritten' = overwritten \union (Stored \ Stored')
  /\ Requeue(batch[f])
  /\ batch' = [batch EXCEPT ![f] = <<>>]
  /\ IF f # "handler" THEN UNCHANGED <<phase, attempt>>
     ELSE IF stopping THEN phase' = "ended" /\ UNCHANGED attempt
     ELSE IF attempt < MaxRetries THEN phase' = "handle" /\ attempt' = attempt + 1
     ELSE phase' = "dlq" /\ UNCHANGED attempt
  /\ UNCHANGED <<kind, logVars, pos, committed, last, stopVars, dead, alarms, again, forgot,
                 deaths>>

(***************************************************************************)
(* The end of a pod.                                                       *)
(***************************************************************************)
\* The next pod starts with empty memory at the committed offset.
NextPod == /\ phase' = "fetch" /\ pos' = committed /\ attempt' = 0
           /\ last' = None /\ pending' = <<>> /\ batch' = NoBatch
           /\ stopping' = FALSE /\ closing' = FALSE
           /\ UNCHANGED <<kind, logVars, committed, outVars, again, forgot, dropped, overwritten>>

Die == Fault /\ NextPod /\ deaths' = deaths + 1

\* The dead-letter write fails and Run returns.  Unless it was stopping, the
\* auditor's main returns the error, and the final flush runs in a context that
\* shutdown's propagation delay has used up; the indexer's process lives on
\* without its loop.
DeadLetterFail ==
  /\ phase = "dlq" /\ Fault
  /\ IF kind = "auditor" /\ ~stopping
       THEN NextPod /\ deaths' = deaths + 1
       ELSE /\ phase' = "ended"
            /\ UNCHANGED <<kind, logVars, pos, attempt, committed, memVars, outVars, pastVars>>

\* SIGTERM cancels the context; Run returns where it waits.
Stop == /\ ~stopping /\ stopping' = TRUE /\ Fault
        /\ UNCHANGED <<kind, logVars, loopVars, committed, last, pending, batch, closing, outVars,
                       pastVars>>

RunEnds ==
  /\ stopping /\ (phase = "fetch" \/ (phase = "handle" /\ attempt > 0))
  /\ phase' = "ended"
  /\ UNCHANGED <<kind, logVars, pos, attempt, committed, memVars, outVars, pastVars, faults>>

\* The closers are done and the process exits with what it still holds.
Exit == /\ closing /\ batch["final"] = <<>>
        /\ NextPod
        /\ deaths' = IF pending = <<>> /\ batch = NoBatch THEN deaths ELSE deaths + 1
        /\ UNCHANGED faults

Loop == Fetch \/ Handle \/ TakeHandler \/ Commit \/ DeadLetter \/ RunEnds \/ TakeFinal \/ Exit

Next == \/ \E r \in Recorders : Record(r) \/ Publish(r)
        \/ RestartLogger \/ Loop \/ TakeLoop \/ Rebalance \/ DeadLetterFail \/ Die \/ Stop
        \/ \E f \in Flushers : Written(f) \/ WriteFail(f)

Spec == Init /\ [][Next]_vars

\* The loop runs, the ticker ticks, and a write that began ends.
FairSpec == /\ Spec
            /\ WF_vars(Loop) /\ WF_vars(TakeLoop)
            /\ \A f \in Flushers : WF_vars(Written(f))
-----------------------------------------------------------------------------
Entries == [boot : 1..(MaxFaults + 1), n : 1..MaxEntries, hour : 1..(MaxFaults + 1)]

TypeOK == /\ topic \in Seq(Entries) /\ pending \in Seq(Entries)
          /\ last \in Entries \union {None}
          /\ committed \in 1..(Len(topic) + 1) /\ pos \in 1..(Len(topic) + 1)
          /\ phase \in {"fetch", "handle", "flush", "write", "commit", "dlq", "ended"}

InMemory == Range(pending) \union UNION {Range(batch[f]) : f \in Flushers}

\* Where an entry may be: in an object, in memory, or lost in a way that is known.
Kept(e) == e \in Stored \union InMemory \union dead \union dropped \union overwritten

\* "Dropping audit records because a bucket was briefly unavailable is the
\* failure this whole service exists to prevent": while every pod ends with its
\* final flush, what lies below the committed offset is archived, dead-lettered
\* or still in memory, whoever flushes and whatever fails, or it was archived in
\* an object that a later one of the same name has replaced.  The indexer also
\* drops what its buffer cannot hold and what a bulk request silently rejected.
LostOnlyByDeath == deaths = 0 => \A i \in 1..(committed - 1) : Kept(topic[i])

\* A missing entry is noticed: the entry after one that was numbered and never
\* reached the topic raises an alarm when it is handled, unless it is the first
\* of its writer that the pod has seen (verify).
GapsAreNoticed == kind = "auditor" => \A i \in 1..(pos - 1) :
  (topic[i].n > 1 /\ \A j \in 1..(i - 1) : ~VerifyLink(topic[j], topic[i]))
    => topic[i] \in alarms \union forgot

\* An alarm means that the topic is out of order, has a hole or holds an entry
\* twice at that entry, or that the pod handled the entry twice: a pod that
\* starts, a slow archive or the ticker raise none.
AlarmsAreBreaks == \A e \in alarms :
  e \in again \/ \E i \in 2..Len(topic) : topic[i] = e /\ ~VerifyLink(topic[i - 1], e)

\* What is committed does not stay in memory for ever: again and again all of
\* it is archived, indexed or dead-lettered, unless one of the losses above
\* happened.
StoredInTheEnd == []<>(\/ deaths > 0
                       \/ \A i \in 1..(committed - 1) :
                            topic[i] \in Stored \union dead \union dropped \union overwritten)

\* The auditor's alarms are exact up to what one pod can know: every alarm is a
\* break or a repetition, and every gap between entries a pod saw is one.
AlarmsExact == TypeOK /\ GapsAreNoticed /\ AlarmsAreBreaks
=============================================================================
