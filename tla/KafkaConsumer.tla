---------------------------- MODULE KafkaConsumer ---------------------------
(***************************************************************************)
(* pkg/kafkax/consumer.go: the loop every Kafka consumer of the platform   *)
(* runs (persister, pusher, indexer, mediaproc, auditor), for one          *)
(* partition and a consumer group of several pods.                         *)
(*                                                                         *)
(* The broker and the group protocol are external; they are modelled by    *)
(* what Run relies on: a reader that is assigned the partition starts at   *)
(* the committed offset, the assignment may move while a handler is still  *)
(* running on the old pod, and the late commit of that pod is accepted     *)
(* even when it moves the committed offset back.                           *)
(***************************************************************************)
EXTENDS Integers, FiniteSets

CONSTANTS Members,       \* pods of the consumer group
          MaxRetries,    \* ConsumerOptions.MaxRetries
          ExitsOnError,  \* does the process exit when Run returns an error?
          MaxRecords,    \* bound: records ever published
          MaxFaults      \* bound: crashes, voluntary rebalances, failed writes

ASSUME ConsumerAssumption ==
         /\ Members # {}
         /\ MaxRetries \in Nat /\ MaxRecords \in Nat /\ MaxFaults \in Nat
         /\ ExitsOnError \in BOOLEAN

VARIABLES published,  \* records in the partition: offsets 0..published-1
          committed,  \* the group's committed offset
          owner,      \* the pod the partition is assigned to
          phase,      \* where each pod is in Run
          pos,        \* next offset each pod's reader returns
          cur,        \* offset of the record each pod is working on
          attempt,    \* handleWithRetry's loop counter
          done,       \* offsets handled, skipped or dead-lettered so far
          faults      \* faults so far

consumerVars == <<published, committed, owner, phase, pos, cur, attempt, done, faults>>

\* "down": no process.  "stopped": Run has returned an error but the process,
\* and with it the reader's group membership, lives on.
Phases == {"down", "fetch", "handle", "dlq", "commit", "stopped"}

ConsumerInit == /\ published = 0 /\ committed = 0 /\ faults = 0
                /\ owner \in Members
                /\ phase = [m \in Members |-> "fetch"]
                /\ pos = [m \in Members |-> 0]
                /\ cur = [m \in Members |-> 0]
                /\ attempt = [m \in Members |-> 0]
                /\ done = {}

(***************************************************************************)
(* The environment: producers, the group coordinator, Kubernetes.          *)
(***************************************************************************)
Publish == /\ published < MaxRecords
           /\ published' = published + 1
           /\ UNCHANGED <<committed, owner, phase, pos, cur, attempt, done, faults>>

Fault == faults < MaxFaults /\ faults' = faults + 1

\* The partition moves to m, whose reader restarts at the committed offset.
\* A dead owner is replaced for free; any other move is a fault.
Rebalance(m) ==
  /\ phase[m] # "down" /\ m # owner
  /\ IF phase[owner] = "down" THEN UNCHANGED faults ELSE Fault
  /\ owner' = m
  /\ pos' = [pos EXCEPT ![m] = committed]
  /\ UNCHANGED <<published, committed, phase, cur, attempt, done>>

\* A pod dies, or its context is cancelled, at any point of the loop.
PodCrash(m) == /\ phase[m] # "down" /\ Fault
               /\ phase' = [phase EXCEPT ![m] = "down"]
               /\ UNCHANGED <<published, committed, owner, pos, cur, attempt, done>>

\* A pod starts; if the partition is still assigned to it, it resumes there.
Start(m) == /\ phase[m] = "down"
            /\ phase' = [phase EXCEPT ![m] = "fetch"]
            /\ pos' = [pos EXCEPT ![m] = committed]
            /\ UNCHANGED <<published, committed, owner, cur, attempt, done, faults>>

(***************************************************************************)
(* Run and handleWithRetry.                                                *)
(***************************************************************************)
Fetch(m) == /\ phase[m] = "fetch" /\ owner = m /\ pos[m] < published
            /\ cur' = [cur EXCEPT ![m] = pos[m]]
            /\ pos' = [pos EXCEPT ![m] = pos[m] + 1]
            /\ attempt' = [attempt EXCEPT ![m] = 0]
            /\ phase' = [phase EXCEPT ![m] = "handle"]
            /\ UNCHANGED <<published, committed, owner, done, faults>>

\* The handler returns nil or ErrSkip.
HandleOk(m) == /\ phase[m] = "handle"
               /\ done' = done \union {cur[m]}
               /\ phase' = [phase EXCEPT ![m] = "commit"]
               /\ UNCHANGED <<published, committed, owner, pos, cur, attempt, faults>>

\* The handler returns an error: retry in place, or give up after MaxRetries.
HandleFail(m) ==
  /\ phase[m] = "handle"
  /\ IF attempt[m] < MaxRetries
       THEN attempt' = [attempt EXCEPT ![m] = attempt[m] + 1] /\ UNCHANGED phase
       ELSE phase' = [phase EXCEPT ![m] = "dlq"] /\ UNCHANGED attempt
  /\ UNCHANGED <<published, committed, owner, pos, cur, done, faults>>

DeadLetter(m) == /\ phase[m] = "dlq"
                 /\ done' = done \union {cur[m]}
                 /\ phase' = [phase EXCEPT ![m] = "commit"]
                 /\ UNCHANGED <<published, committed, owner, pos, cur, attempt, faults>>

\* Mutant of DeadLetterFail: Run's error never ends the process.
DeadLetterFailStops(m) ==
  /\ phase[m] = "dlq" /\ Fault
  /\ phase' = [phase EXCEPT ![m] = "stopped"]
  /\ UNCHANGED <<published, committed, owner, pos, cur, attempt, done>>

\* The dead-letter write fails too: Run returns the error without committing.
\* The auditor returns it from main, so the process exits; the other consumers
\* log it in the goroutine that called Run and the process keeps running.
DeadLetterFail(m) ==
  /\ phase[m] = "dlq" /\ Fault
  /\ phase' = [phase EXCEPT ![m] = IF ExitsOnError THEN "down" ELSE "stopped"]
  /\ UNCHANGED <<published, committed, owner, pos, cur, attempt, done>>

Commit(m) == /\ phase[m] = "commit"
             /\ committed' = cur[m] + 1
             /\ phase' = [phase EXCEPT ![m] = "fetch"]
             /\ UNCHANGED <<published, owner, pos, cur, attempt, done, faults>>

\* Mutant of CommitFail: after a failed commit the reader skips a record.
CommitFailSkips(m) == /\ phase[m] = "commit" /\ Fault /\ pos[m] < published
                      /\ phase' = [phase EXCEPT ![m] = "fetch"]
                      /\ pos' = [pos EXCEPT ![m] = pos[m] + 1]
                      /\ UNCHANGED <<published, committed, owner, cur, attempt, done>>

\* A failed commit is logged and the loop goes on with the next record.
CommitFail(m) == /\ phase[m] = "commit" /\ Fault
                 /\ phase' = [phase EXCEPT ![m] = "fetch"]
                 /\ UNCHANGED <<published, committed, owner, pos, cur, attempt, done>>

Work(m) == \/ Fetch(m) \/ HandleOk(m) \/ HandleFail(m) \/ DeadLetter(m)
           \/ DeadLetterFail(m) \/ Commit(m) \/ CommitFail(m)

ConsumerNext == \/ Publish
                \/ \E m \in Members : Rebalance(m) \/ PodCrash(m) \/ Start(m) \/ Work(m)

ConsumerSpec == ConsumerInit /\ [][ConsumerNext]_consumerVars

\* A running loop keeps running, a dead pod is restarted, and a partition
\* whose owner is dead is handed to a live pod.
HandOver == phase[owner] = "down" /\ \E m \in Members : Rebalance(m)
Fairness == /\ \A m \in Members : WF_consumerVars(Work(m)) /\ WF_consumerVars(Start(m))
            /\ WF_consumerVars(HandOver)

ConsumerFairSpec == ConsumerSpec /\ Fairness
-----------------------------------------------------------------------------
ConsumerTypeOK == /\ published \in Nat /\ committed \in Nat /\ faults \in Nat
                  /\ owner \in Members
                  /\ phase \in [Members -> Phases]
                  /\ pos \in [Members -> Nat] /\ cur \in [Members -> Nat]
                  /\ attempt \in [Members -> 0..MaxRetries]
                  /\ done \subseteq 0..(published - 1)

\* No record is lost: everything below the committed offset, which no pod will
\* ever read again, was handled, skipped or written to the dead-letter topic,
\* whatever crashes, rebalances and late commits happen (Run commits only after
\* handleWithRetry returned nil).
NoRecordLost == 0..(committed - 1) \subseteq done

\* "Retrying in place preserves partition order": a record is finished only
\* when every earlier record of the partition is.
HandledInOrder == \A o \in done : 0..(o - 1) \subseteq done

\* What makes them inductive: a running reader has moved past finished records
\* only, the one its pod is working on excepted, and a pod reaches the commit
\* only with a finished record.
ConsumerInv == /\ ConsumerTypeOK /\ NoRecordLost /\ HandledInOrder
               /\ \A m \in Members :
                    /\ pos[m] <= published
                    /\ phase[m] \in {"fetch", "commit"} => 0..(pos[m] - 1) \subseteq done
                    /\ phase[m] \in {"handle", "dlq"} =>
                         /\ cur[m] < published
                         /\ 0..(cur[m] - 1) \subseteq done
                         /\ 0..(pos[m] - 1) \subseteq done \union {cur[m]}
                    /\ phase[m] = "commit" => cur[m] \in done

\* Every published record is eventually handled, skipped or dead-lettered once
\* faults stop.
EveryRecordFinishes ==
  \A o \in 0..(MaxRecords - 1) : []<>(o < published => o \in done)

\* The consumer group implements the in-order queue.
Queue == INSTANCE InOrderQueue WITH appended <- published, finished <- done
ImplementsQueue == Queue!Spec
=============================================================================
