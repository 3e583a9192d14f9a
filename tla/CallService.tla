---------------------------- MODULE CallService -----------------------------
(***************************************************************************)
(* The call-service: handlers that set up, answer, confirm and discard     *)
(* calls, each a sequence of Redis commands, over the one-call-at-a-time   *)
(* slots and the call records, both of which expire.                       *)
(***************************************************************************)
EXTENDS Integers, FiniteSets

CONSTANTS Peers, NoCall,
          Handlers,       \* concurrent HTTP requests
          MaxCallIds,     \* bound: call ids handed out
          MaxCallRequests, \* bound: accept, confirm and discard requests
          MaxCallFaults   \* bound: failed Redis commands and crashes

Ids == 1..MaxCallIds

\* callState: the parties, the state, and which of the two key halves arrived.
CallRecords == [caller : Peers, callee : Peers, state : {"requested", "active"},
                gb : Handlers \union {NoCall}, ga : BOOLEAN]

\* What a request is doing: its operation or step, its call, and the record it read.
Jobs == [op : {"peer", "online", "save", "accept", "confirm", "discard", "delete"},
         id : Ids, caller : Peers, callee : Peers, seen : CallRecords \union {NoCall}]

ASSUME CallServiceAssumption ==
  /\ NoCall \notin Peers \union Nat \union CallRecords \union Jobs
  /\ MaxCallIds \in Nat /\ MaxCallRequests \in Nat /\ MaxCallFaults \in Nat

VARIABLES
  slot,       \* callactive:{u}: the call a user is in
  call,       \* call:{id}
  job,        \* what a request is doing: its operation, step, call and parties
  nextId, callRequests, callFaults,
  unguarded   \* history: calls that lost a slot while they went on

redisVars == <<slot, call>>
callVars == <<redisVars, job, nextId, callRequests, callFaults, unguarded>>

CallInit == /\ slot = [u \in Peers |-> NoCall] /\ call = [i \in Ids |-> NoCall]
            /\ job = [w \in Handlers |-> NoCall]
            /\ nextId = 1 /\ callRequests = 0 /\ callFaults = 0 /\ unguarded = {}

CallFault == callFaults < MaxCallFaults /\ callFaults' = callFaults + 1
Done(w) == job' = [job EXCEPT ![w] = NoCall]
At(w, op) == job[w] # NoCall /\ job[w].op = op
Goto(w, op) == job' = [job EXCEPT ![w].op = op]

\* Deletes the slots of a set of users on behalf of call i; another call whose
\* slot goes with them loses it.
Delete(us, i) ==
  /\ slot' = [u \in Peers |-> IF u \in us THEN NoCall ELSE slot[u]]
  /\ unguarded' = unguarded \union ({slot[u] : u \in us} \ {NoCall, i})

Parties(j) == {j.caller, j.callee}

(***************************************************************************)
(* handleRequest.                                                          *)
(***************************************************************************)
\* The caller's own slot, with SETNX. A command whose reply is lost has set it;
\* the client library's retry then finds it taken, and the request is refused.
RequestBegin(w, u, p) ==
  /\ job[w] = NoCall /\ u # p /\ nextId <= MaxCallIds /\ nextId' = nextId + 1
  /\ slot[u] = NoCall
  /\ slot' = [slot EXCEPT ![u] = nextId]
  /\ \/ /\ job' = [job EXCEPT ![w] = [op |-> "peer", id |-> nextId, caller |-> u, callee |-> p,
                                      seen |-> NoCall]]
        /\ UNCHANGED callFaults
     \/ CallFault /\ UNCHANGED job
  /\ UNCHANGED <<call, callRequests, unguarded>>

\* Mutant of RequestPeer: SET for SETNX.
RequestPeerSets(w) ==
  LET j == job[w] IN
  /\ At(w, "peer")
  /\ slot' = [slot EXCEPT ![j.callee] = j.id] /\ Goto(w, "online")
  /\ UNCHANGED <<call, nextId, callRequests, callFaults, unguarded>>

\* The callee's slot; when it is taken, or the command fails (having set it or
\* not), the caller's is released.
RequestPeer(w) ==
  LET j == job[w] IN
  /\ At(w, "peer")
  /\ \/ /\ slot[j.callee] = NoCall
        /\ slot' = [slot EXCEPT ![j.callee] = j.id]
        /\ Goto(w, "online") /\ UNCHANGED <<callFaults, unguarded>>
     \/ slot[j.callee] # NoCall /\ Delete({j.caller}, j.id) /\ Done(w) /\ UNCHANGED callFaults
     \/ CallFault /\ Delete({j.caller}, j.id) /\ Done(w)
     \/ /\ CallFault /\ slot[j.callee] = NoCall
        /\ slot' = [slot EXCEPT ![j.caller] = NoCall, ![j.callee] = j.id]
        /\ unguarded' = unguarded \union ({slot[j.caller]} \ {NoCall, j.id})
        /\ Done(w)
  /\ UNCHANGED <<call, nextId, callRequests>>

\* IsOnline: a callee who is not gets no ring.
RequestOnline(w) ==
  LET j == job[w] IN
  /\ At(w, "online")
  /\ \/ Goto(w, "save") /\ UNCHANGED <<slot, unguarded>>
     \/ Delete(Parties(j), j.id) /\ Done(w)
  /\ UNCHANGED <<call, nextId, callRequests, callFaults>>

Ring(j) == call' = [call EXCEPT ![j.id] = [caller |-> j.caller, callee |-> j.callee,
                                          state |-> "requested", gb |-> NoCall, ga |-> FALSE]]

\* saveCall, then the callee is notified. A save that failed may have written
\* the record of a call whose slots are now given back.
RequestSave(w) ==
  LET j == job[w] IN
  /\ At(w, "save")
  /\ \/ Ring(j) /\ UNCHANGED <<slot, callFaults, unguarded>>
     \/ CallFault /\ Delete(Parties(j), j.id) /\ UNCHANGED call
     \/ /\ CallFault /\ Ring(j)
        /\ slot' = [u \in Peers |-> IF u \in Parties(j) THEN NoCall ELSE slot[u]]
        /\ unguarded' = unguarded \union ({slot[u] : u \in Parties(j)} \ {NoCall}) \union {j.id}
  /\ Done(w)
  /\ UNCHANGED <<nextId, callRequests>>

(***************************************************************************)
(* handleAccept, handleConfirm, handleDiscard: load, then write.           *)
(***************************************************************************)
\* loadCall and the checks of each handler.
May(op, c, u) == CASE op = "accept" -> c.callee = u /\ c.state = "requested"
                   [] op = "confirm" -> c.caller = u
                   [] op = "discard" -> u \in {c.caller, c.callee}

Load(w, op, i, u) ==
  /\ job[w] = NoCall /\ callRequests < MaxCallRequests /\ callRequests' = callRequests + 1
  /\ call[i] # NoCall /\ May(op, call[i], u)
  /\ job' = [job EXCEPT ![w] = [op |-> op, id |-> i, caller |-> call[i].caller,
                                callee |-> call[i].callee, seen |-> call[i]]]
  /\ UNCHANGED <<redisVars, nextId, callFaults, unguarded>>

\* A save brings a record that was discarded meanwhile back without its slots.
Saved(i, c) ==
  /\ call' = [call EXCEPT ![i] = c]
  /\ unguarded' = IF \E u \in {c.caller, c.callee} : slot[u] # i
                    THEN unguarded \union {i} ELSE unguarded

\* saveCall, then the caller is notified.
AcceptSave(w) ==
  LET j == job[w] IN
  /\ At(w, "accept")
  /\ \/ Saved(j.id, [j.seen EXCEPT !.state = "active", !.gb = w]) /\ UNCHANGED callFaults
     \/ CallFault /\ UNCHANGED <<call, unguarded>>
  /\ Done(w)
  /\ UNCHANGED <<slot, nextId, callRequests>>

ConfirmSave(w) ==
  LET j == job[w] IN
  /\ At(w, "confirm")
  /\ \/ Saved(j.id, [j.seen EXCEPT !.ga = TRUE]) /\ UNCHANGED callFaults
     \/ CallFault /\ UNCHANGED <<call, unguarded>>
  /\ Done(w)
  /\ UNCHANGED <<slot, nextId, callRequests>>

\* releaseCall deletes both slots, whoever holds them by now; the two keys are
\* on different shards, and its error is ignored.
DiscardRelease(w) ==
  LET j == job[w] IN
  /\ At(w, "discard")
  /\ \/ Delete(Parties(j), j.id) /\ UNCHANGED callFaults
     \/ CallFault /\ \E us \in SUBSET Parties(j) : Delete(us, j.id)
  /\ Goto(w, "delete")
  /\ UNCHANGED <<call, nextId, callRequests>>

\* The record goes, the peer is notified.
DiscardDelete(w) ==
  /\ At(w, "delete")
  /\ call' = [call EXCEPT ![job[w].id] = NoCall]
  /\ Done(w)
  /\ UNCHANGED <<slot, nextId, callRequests, callFaults, unguarded>>

(***************************************************************************)
(* Time and failures.                                                      *)
(***************************************************************************)
SettingUp(i) == \E w \in Handlers : job[w] # NoCall /\ job[w].id = i
                                   /\ job[w].op \in {"peer", "online", "save"}

\* callTTL after the request; requests are far shorter.
ExpireSlot(u) ==
  /\ slot[u] # NoCall /\ ~SettingUp(slot[u])
  /\ slot' = [slot EXCEPT ![u] = NoCall]
  /\ unguarded' = IF call[slot[u]] # NoCall THEN unguarded \union {slot[u]} ELSE unguarded
  /\ UNCHANGED <<call, job, nextId, callRequests, callFaults>>

\* A record is written after its slots with the same TTL: they go first.
ExpireCall(i) ==
  /\ call[i] # NoCall /\ \A u \in Peers : slot[u] # i
  /\ call' = [call EXCEPT ![i] = NoCall]
  /\ UNCHANGED <<slot, job, nextId, callRequests, callFaults, unguarded>>

\* The pod dies or the request is cancelled between two commands, or a DEL fails
\* and the handler answers regardless: a discard may leave its record behind.
Crash(w) ==
  /\ job[w] # NoCall /\ CallFault /\ Done(w)
  /\ unguarded' = IF At(w, "delete") THEN unguarded \union {job[w].id} ELSE unguarded
  /\ UNCHANGED <<redisVars, nextId, callRequests>>

CallStep(w) == \/ RequestPeer(w) \/ RequestOnline(w) \/ RequestSave(w) \/ AcceptSave(w)
               \/ ConfirmSave(w) \/ DiscardRelease(w) \/ DiscardDelete(w)

CallNext == \/ \E w \in Handlers :
                 \/ CallStep(w) \/ Crash(w)
                 \/ \E u, p \in Peers : RequestBegin(w, u, p)
                 \/ \E op \in {"accept", "confirm", "discard"}, i \in Ids, u \in Peers :
                      Load(w, op, i, u)
            \/ \E u \in Peers : ExpireSlot(u)
            \/ \E i \in Ids : ExpireCall(i)

CallSpec == CallInit /\ [][CallNext]_callVars

CallsProceed == \E w \in Handlers : CallStep(w)
SlotsExpire == \E u \in Peers : ExpireSlot(u)

\* Requests that began are carried out, and Redis expires keys.
CallFairSpec == CallSpec /\ WF_callVars(CallsProceed) /\ WF_callVars(SlotsExpire)
-----------------------------------------------------------------------------
CallTypeOK == /\ slot \in [Peers -> Ids \union {NoCall}]
              /\ call \in [Ids -> CallRecords \union {NoCall}]
              /\ nextId \in 1..(MaxCallIds + 1) /\ unguarded \subseteq Ids

\* A call goes on: it is recorded and nobody is ending it.
Live(i) == call[i] # NoCall /\ \A w \in Handlers : ~(At(w, "delete") /\ job[w].id = i)

\* activeCallKey "enforces one call at a time per user": two calls that go on
\* share no party, unless one of them lost a slot: the TTL of the slots ran out
\* under it, the discard of another call released them, an answer wrote back a
\* call that was just discarded, or a setup or discard failed halfway.
OneCallUnlessUnguarded == \A i, k \in Ids :
  (i # k /\ Live(i) /\ Live(k) /\ {i, k} \intersect unguarded = {})
    => {call[i].caller, call[i].callee} \intersect {call[k].caller, call[k].callee} = {}

\* "Release our own slot, or the caller is stuck until the TTL expires": while
\* no command fails and no pod dies, every slot belongs to a call that is
\* recorded or being set up, however setups, refusals and discards interleave.
StuckOnlyByFault == \A u \in Peers :
  (slot[u] # NoCall /\ callFaults = 0) => (call[slot[u]] # NoCall \/ SettingUp(slot[u]))

\* Even after a crash between two commands nobody stays in a call for ever.
SlotsAreFreed == \A u \in Peers : []<>(slot[u] = NoCall)

\* Slots guard calls and calls justify slots, but for the named faults.
CallsHold == CallTypeOK /\ OneCallUnlessUnguarded /\ StuckOnlyByFault
=============================================================================
