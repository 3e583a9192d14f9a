---------------------------- MODULE SeqAllocator ----------------------------
(***************************************************************************)
(* pkg/redisx/redis.go SeqAllocator.Next: the per-chat message sequence.   *)
(* A Redis INCR, and, when it returns 1, a reseed of the counter from the  *)
(* highest sequence Cassandra holds, under a lock key with a TTL.          *)
(*                                                                         *)
(* One chat.  Callers are chat-service requests; each performs Next one    *)
(* Redis or Cassandra round trip at a time.  What a call returns is later  *)
(* persisted, or never is.                                                 *)
(***************************************************************************)
EXTENDS Integers

CONSTANTS Callers,       \* concurrent chat-service requests
          Headroom,      \* reseedHeadroom
          MaxRaced,      \* bound: INCRs by others while one call reseeds
          MaxCalls,      \* bound: calls of Next
          MaxFailovers,  \* bound: losses of the Redis counter
          MaxFailures    \* bound: failed round trips and crashed callers

ASSUME SeqAssumption ==
         /\ Headroom \in Nat /\ MaxRaced \in Nat /\ MaxRaced <= Headroom
         /\ MaxCalls \in Nat /\ MaxFailovers \in Nat /\ MaxFailures \in Nat

VARIABLES seqKey,     \* seq:{c}, 0 when the key does not exist
          lock,       \* seqlock:{c}
          pc,         \* where each caller is in Next
          found,      \* what Fallback returned to each caller
          before,     \* numbers already returned when the call began
          got,        \* number each caller's last call returned, 0 for none
          handed,     \* every number returned so far
          reused,     \* numbers returned a second time
          persisted,  \* sequences with a row that MaxSeq can see
          raced, calls, failovers, failures

seqVars == <<seqKey, lock, pc, found, before, got, handed, reused, persisted,
          raced, calls, failovers, failures>>

Seeding == {"lock", "read", "set"}
Steps == Seeding \union {"idle", "wait", "incr", "unlock"}

SeqInit == /\ seqKey = 0 /\ lock = FALSE
           /\ pc = [p \in Callers |-> "idle"]
           /\ found = [p \in Callers |-> 0]
           /\ before = [p \in Callers |-> {}]
           /\ got = [p \in Callers |-> 0]
           /\ handed = {} /\ reused = {} /\ persisted = {}
           /\ raced = 0 /\ calls = 0 /\ failovers = 0 /\ failures = 0

Reseeding == \E q \in Callers : pc[q] \in Seeding

\* The call of p returns n.
Return(p, n) == /\ got' = [got EXCEPT ![p] = n]
                /\ handed' = handed \union {n}
                /\ reused' = reused \union ({n} \intersect handed)

(***************************************************************************)
(* Next, one round trip per action.                                        *)
(***************************************************************************)
\* The first INCR.  Above 1 it is the answer; 1 means the key was missing.
Incr(p) ==
  /\ pc[p] = "idle" /\ calls < MaxCalls
  /\ Reseeding => raced < MaxRaced
  /\ calls' = calls + 1
  /\ raced' = IF Reseeding THEN raced + 1 ELSE 0
  /\ seqKey' = seqKey + 1
  /\ before' = [before EXCEPT ![p] = handed]
  /\ IF seqKey + 1 > 1
       THEN Return(p, seqKey + 1) /\ UNCHANGED pc
       ELSE /\ pc' = [pc EXCEPT ![p] = "lock"]
            /\ got' = [got EXCEPT ![p] = 0]
            /\ UNCHANGED <<handed, reused>>
  /\ UNCHANGED <<lock, found, persisted, failovers, failures>>

\* SETNX of the lock key.
TakeLock(p) ==
  /\ pc[p] = "lock"
  /\ lock' = TRUE
  /\ pc' = [pc EXCEPT ![p] = IF lock THEN "wait" ELSE "read"]
  /\ UNCHANGED <<seqKey, found, before, got, handed, reused, persisted, raced, calls,
                 failovers, failures>>

\* Another call is reseeding: wait 50 ms, take whatever the counter gives.
IncrAfterWait(p) ==
  /\ pc[p] = "wait"
  /\ seqKey' = seqKey + 1
  /\ Return(p, seqKey + 1)
  /\ pc' = [pc EXCEPT ![p] = "idle"]
  /\ UNCHANGED <<lock, found, before, persisted, raced, calls, failovers, failures>>

\* Fallback, cassandrax MaxSeq.  Below 1 this is the chat's first message.
ReadMax(p) ==
  /\ pc[p] = "read"
  /\ \E m \in persisted \union {0} :
       /\ \A s \in persisted : s <= m
       /\ found' = [found EXCEPT ![p] = m]
       /\ IF m < 1
            THEN Return(p, 1) /\ pc' = [pc EXCEPT ![p] = "unlock"]
            ELSE pc' = [pc EXCEPT ![p] = "set"] /\ UNCHANGED <<got, handed, reused>>
  /\ UNCHANGED <<seqKey, lock, before, persisted, raced, calls, failovers, failures>>

\* Mutant of Reseed: no headroom above the durable maximum.
ReseedTight(p) ==
  /\ pc[p] = "set"
  /\ seqKey' = found[p]
  /\ pc' = [pc EXCEPT ![p] = "incr"]
  /\ UNCHANGED <<lock, found, before, got, handed, reused, persisted, raced, calls,
                 failovers, failures>>

\* SET of the counter past the durable maximum.
Reseed(p) ==
  /\ pc[p] = "set"
  /\ seqKey' = found[p] + Headroom
  /\ pc' = [pc EXCEPT ![p] = "incr"]
  /\ UNCHANGED <<lock, found, before, got, handed, reused, persisted, raced, calls,
                 failovers, failures>>

IncrAfterReseed(p) ==
  /\ pc[p] = "incr"
  /\ seqKey' = seqKey + 1
  /\ Return(p, seqKey + 1)
  /\ pc' = [pc EXCEPT ![p] = "unlock"]
  /\ UNCHANGED <<lock, found, before, persisted, raced, calls, failovers, failures>>

\* The deferred DEL, which does not check whose lock it deletes.
Unlock(p) ==
  /\ pc[p] = "unlock"
  /\ lock' = FALSE
  /\ pc' = [pc EXCEPT ![p] = "idle"]
  /\ UNCHANGED <<seqKey, found, before, got, handed, reused, persisted, raced, calls,
                 failovers, failures>>

\* A round trip fails and Next returns the error; the counter keeps whatever
\* was written.  A failed INCR may have been applied.
Fail(p) ==
  /\ failures < MaxFailures /\ failures' = failures + 1
  /\ \/ /\ pc[p] \in {"lock", "wait"} /\ pc' = [pc EXCEPT ![p] = "idle"]
     \/ /\ pc[p] \in {"read", "set", "incr"} /\ pc' = [pc EXCEPT ![p] = "unlock"]
  /\ seqKey' \in {seqKey} \union (IF pc[p] \in {"wait", "incr"} THEN {seqKey + 1} ELSE {})
  /\ UNCHANGED <<lock, found, before, got, handed, reused, persisted, raced, calls, failovers>>

\* The pod dies inside Next: the deferred DEL never runs.
CallerCrash(p) ==
  /\ failures < MaxFailures /\ failures' = failures + 1
  /\ pc[p] # "idle"
  /\ pc' = [pc EXCEPT ![p] = "idle"]
  /\ UNCHANGED <<seqKey, lock, found, before, got, handed, reused, persisted, raced, calls,
                 failovers>>

(***************************************************************************)
(* The environment.                                                        *)
(***************************************************************************)
\* The persister stores a message that was given a number.
Persist == /\ \E s \in handed \ persisted : persisted' = persisted \union {s}
           /\ UNCHANGED <<seqKey, lock, pc, found, before, got, handed, reused, raced, calls,
                          failovers, failures>>

\* The 10 s TTL of the lock key.
LockExpire == /\ lock /\ lock' = FALSE
              /\ UNCHANGED <<seqKey, pc, found, before, got, handed, reused, persisted, raced,
                             calls, failovers, failures>>

\* Redis loses the chat's keys.
Failover == /\ failovers < MaxFailovers /\ failovers' = failovers + 1
            /\ seqKey # 0 /\ seqKey' = 0 /\ lock' = FALSE
            /\ UNCHANGED <<pc, found, before, got, handed, reused, persisted, raced, calls,
                           failures>>

CallStep(p) == \/ TakeLock(p) \/ IncrAfterWait(p) \/ ReadMax(p) \/ Reseed(p)
           \/ IncrAfterReseed(p) \/ Unlock(p)

SeqNext == \/ \E p \in Callers : Incr(p) \/ CallStep(p) \/ Fail(p) \/ CallerCrash(p)
           \/ Persist \/ LockExpire \/ Failover

SeqSpec == SeqInit /\ [][SeqNext]_seqVars

\* A request that has begun goes on, and Redis expires keys.
SeqFairSpec == /\ SeqSpec
               /\ \A p \in Callers : WF_seqVars(CallStep(p))
               /\ WF_seqVars(LockExpire)
-----------------------------------------------------------------------------
SeqTypeOK == /\ seqKey \in Nat /\ lock \in BOOLEAN
             /\ pc \in [Callers -> Steps]
             /\ found \in [Callers -> Nat] /\ got \in [Callers -> Nat]
             /\ before \in [Callers -> SUBSET Nat]
             /\ handed \subseteq Nat /\ reused \subseteq Nat /\ persisted \subseteq handed
             /\ raced \in 0..MaxRaced /\ calls \in Nat
             /\ failovers \in Nat /\ failures \in Nat

\* No sequence number is ever returned twice: a second message with the number
\* of a first would overwrite its row in messages_by_chat.
SeqUnique == reused = {}

\* "Strict monotonicity under concurrency": a call that begins after another
\* has returned gets a larger number.
SeqOrdered == \A p \in Callers : got[p] # 0 => \A s \in before[p] : s < got[p]

\* What makes the two inductive as long as Redis keeps its keys: only the call
\* that created the key is ever beyond the first INCR, it began when nothing had
\* been returned, the number 1 is reserved for it until it decides, and at most
\* MaxRaced others have moved the counter meanwhile.
WarmInv == /\ SeqTypeOK /\ SeqUnique /\ SeqOrdered
           /\ failovers = 0
           /\ handed \subseteq 1..seqKey
           /\ seqKey = 0 => ~lock
           /\ \A p \in Callers :
                /\ pc[p] # "wait"
                /\ pc[p] = "lock" => ~lock
                /\ pc[p] # "idle" =>
                     /\ seqKey > 0 /\ before[p] = {}
                     /\ \A q \in Callers : pc[q] # "idle" => q = p
                /\ pc[p] \in Seeding => 1 \notin handed /\ seqKey <= raced + 1
                /\ pc[p] = "set" => found[p] >= 1

SeqInv == failovers \in Nat /\ (failovers = 0 => WarmInv)

\* SeqUnique and SeqOrdered hold until Redis loses the counter, whatever errors,
\* crashes and concurrent calls happen.
UniqueUntilFailover == failovers = 0 => SeqUnique
OrderedUntilFailover == failovers = 0 => SeqOrdered

\* The reseed lock does not outlive its holder's crash for ever, and no caller
\* is left waiting inside Next.
LockIsTemporary == []<>(~lock)
=============================================================================
